-------------------------- MODULE MCAgentWorkflow --------------------------
(***************************************************************************)
(* Instances of AgentWorkflow for TLC: a reversible and a destructive      *)
(* operation, on one source or on two.                                     *)
(***************************************************************************)
EXTENDS AgentWorkflow, TLC

CONSTANTS pause, delete, s1, s2

OneSource == pause :> s1 @@ delete :> s1

TwoSources == pause :> s1 @@ delete :> s2
=============================================================================
