---------------------------- MODULE MCChatImport ----------------------------
(***************************************************************************)
(* An instance of ChatImport for TLC: windows of up to three messages.     *)
(***************************************************************************)
EXTENDS ChatImport

M(id, at, reply) == [id |-> id, at |-> at, reply |-> reply]

\* A conversation, not in order and with a gap; a message more at its end, in
\* a window of its own; one more within, which fills a window; an id twice; a
\* reply to nothing.
SomeExports ==
    LET base == <<M(2, 2, 1), M(1, 0, 0), M(3, 5, 0)>>
    IN  {base,
         Append(base, M(4, 8, 2)),
         Append(base, M(4, 4, 0)),
         Append(base, M(1, 8, 0)),
         <<M(2, 2, 0), M(4, 4, 1), M(3, 5, 0)>>}

Symmetry == Permutations(Procs) \cup Permutations(RunIds) \cup Permutations(SourceIds)
=============================================================================
