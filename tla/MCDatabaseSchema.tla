-------------------------- MODULE MCDatabaseSchema --------------------------
(***************************************************************************)
(* An instance of DatabaseSchema for TLC: a vector, and an audit row of a  *)
(* source that is there and one of a source that has gone.                 *)
(***************************************************************************)
EXTENDS DatabaseSchema, TLC

CONSTANTS vector, audit, orphan

Tables == vector :> "vector_chunks" @@ audit :> "agent_action_audit"
            @@ orphan :> "agent_action_audit"

Symmetry == Permutations(Openers)
=============================================================================
