---------------------------- MODULE ActionLedger ----------------------------
(***************************************************************************)
(* What the action workflow promises of each operation (an idempotency     *)
(* key, an action and a source), with no processes, rows or tickets: it is *)
(* carried out at most once, along the stages the agent plan lists, and a  *)
(* destructive one only after it was confirmed.  A source that is revoked  *)
(* takes its operations with it for good.                                  *)
(***************************************************************************)
CONSTANTS Sources, Operations, SourceOf, Destructive

VARIABLES
    live,   \* the registered sources
    stage   \* the stage of each operation

Stages == {"absent", "awaiting_confirmation", "ready", "simulating",
           "succeeded", "failed", "compensated"}

Init ==
    /\ live = Sources
    /\ stage = [op \in Operations |-> "absent"]

Move(op, from, to) ==
    /\ stage[op] = from
    /\ stage' = [stage EXCEPT ![op] = to]
    /\ live' = live

Prepare(op) ==
    /\ SourceOf[op] \in live
    /\ Move(op, "absent",
            IF op \in Destructive THEN "awaiting_confirmation" ELSE "ready")

Confirm(op) == Move(op, "awaiting_confirmation", "ready")

Start(op) == Move(op, "ready", "simulating")

Complete(op) == Move(op, "simulating", "succeeded")

Compensate(op) == Move(op, "failed", "compensated")

\* A restart fails every simulation at once.
Interrupt(ops) ==
    /\ \A op \in ops : stage[op] = "simulating"
    /\ stage' = [op \in Operations |-> IF op \in ops THEN "failed" ELSE stage[op]]
    /\ live' = live

\* Its operations go with a source, which nobody can prepare any more.
Revoke(s) ==
    /\ s \in live
    /\ live' = live \ {s}
    /\ stage' = [op \in Operations |->
                   IF SourceOf[op] = s THEN "absent" ELSE stage[op]]

Next ==
    \/ \E op \in Operations :
         Prepare(op) \/ Confirm(op) \/ Start(op) \/ Complete(op) \/ Compensate(op)
    \/ \E ops \in SUBSET Operations : Interrupt(ops)
    \/ \E s \in Sources : Revoke(s)

Spec == Init /\ [][Next]_<<live, stage>>
=============================================================================
