---------------------------- MODULE MCSyncStore ----------------------------
(***************************************************************************)
(* Instances of SyncStore for TLC: the assignments of paths to objects and *)
(* the symmetries of the model values.                                     *)
(***************************************************************************)
EXTENDS SyncStore, TLC

CONSTANTS p1, p2, o1, o2

\* Every path is an object of its own.
DistinctObjects == p1 :> o1 @@ p2 :> o2

\* Two paths that differ in case only are one object.
CaseTwins == p1 :> o1 @@ p2 :> o1

\* Processes, uuids and contents are interchangeable in safety properties.
Symmetry ==
    Permutations(Procs) \cup Permutations(SourceIds) \cup Permutations(RunIds)
      \cup Permutations(Hashes)
=============================================================================
