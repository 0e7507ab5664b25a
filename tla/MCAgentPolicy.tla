--------------------------- MODULE MCAgentPolicy ---------------------------
(***************************************************************************)
(* An instance of AgentPolicy for TLC, with claims that replace each field *)
(* of a decision at least once.                                            *)
(***************************************************************************)
EXTENDS AgentPolicy, TLC

CONSTANTS search, pause, revoke, s1, k1, k2

Risk == [a \in Actions |->
           IF a = search THEN "read_only"
           ELSE IF a = pause THEN "reversible" ELSE "destructive"]

Op(key, action, source) == [key |-> key, action |-> action, source |-> source]

Claim(op, status, risk, reason) ==
    [op |-> op, status |-> status, risk |-> risk, reason |-> reason]

Asked == {Op(k1, pause, s1), Op(NoKey, revoke, s1)}

\* A decision is used for something destructive and with another key, as if it
\* had been allowed.
Altered == {Claim(Op(k2, revoke, s1), "allow", "destructive", "authorized")}

Symmetry == Permutations(Procs)
=============================================================================
