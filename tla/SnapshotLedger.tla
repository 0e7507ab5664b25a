--------------------------- MODULE SnapshotLedger ---------------------------
(***************************************************************************)
(* What the synchronisation store promises, with no processes, scans or    *)
(* tables: every live source has one snapshot, which a run replaces as a   *)
(* whole and at most once, and which is emptied only on request.           *)
(***************************************************************************)
CONSTANTS SourceIds, RunIds, Rows, None

VARIABLES
    live,      \* the registered sources
    snapshot,  \* what is stored of each source
    phase,     \* "none", "open", "published" or "failed", for each run
    owner      \* the source of each run that is not "none"

ledger == <<live, snapshot, phase, owner>>

Init ==
    /\ live = {}
    /\ snapshot = [s \in SourceIds |-> {}]
    /\ phase = [r \in RunIds |-> "none"]
    /\ owner = [r \in RunIds |-> None]

Register(s) ==
    /\ s \notin live
    /\ live' = live \cup {s}
    /\ UNCHANGED <<snapshot, phase, owner>>

Begin(r, s) ==
    /\ s \in live
    /\ phase[r] = "none"
    /\ phase' = [phase EXCEPT ![r] = "open"]
    /\ owner' = [owner EXCEPT ![r] = s]
    /\ UNCHANGED <<live, snapshot>>

\* A snapshot has one row for an object and one for a path.
Keyed(rows) ==
    \A a, b \in rows : a.object = b.object \/ a.path = b.path => a = b

Publish(r, rows) ==
    /\ phase[r] = "open"
    /\ Keyed(rows)
    /\ phase' = [phase EXCEPT ![r] = "published"]
    /\ snapshot' = [snapshot EXCEPT ![owner[r]] = rows]
    /\ UNCHANGED <<live, owner>>

Fail(r) ==
    /\ phase[r] = "open"
    /\ phase' = [phase EXCEPT ![r] = "failed"]
    /\ UNCHANGED <<live, snapshot, owner>>

\* The source's runs are forgotten with its snapshot.
Forget(s) ==
    /\ s \in live
    /\ snapshot' = [snapshot EXCEPT ![s] = {}]
    /\ phase' = [r \in RunIds |-> IF owner[r] = s THEN "none" ELSE phase[r]]
    /\ owner' = [r \in RunIds |-> IF owner[r] = s THEN None ELSE owner[r]]

Clear(s) == Forget(s) /\ UNCHANGED live

Revoke(s) == Forget(s) /\ live' = live \ {s}

Next ==
    \/ \E s \in SourceIds : Register(s) \/ Clear(s) \/ Revoke(s)
    \/ \E r \in RunIds :
         \/ Fail(r)
         \/ \E s \in SourceIds : Begin(r, s)
         \/ \E rows \in SUBSET Rows : Publish(r, rows)

Spec == Init /\ [][Next]_ledger
=============================================================================
