----------------------------- MODULE MCNewFiles -----------------------------
(***************************************************************************)
(* Instances of NewFiles for TLC.                                          *)
(***************************************************************************)
EXTENDS NewFiles, TLC

Symmetry == Permutations(Procs) \cup Permutations(Inodes)
              \cup Permutations(Paths \ {Live})
=============================================================================
