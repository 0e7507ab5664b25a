---------------------------- MODULE MCRAGService ----------------------------
(***************************************************************************)
(* An instance of RAGService for TLC: two chunks with the same content and *)
(* one that is too long for what the others leave of the budget.           *)
(***************************************************************************)
EXTENDS RAGService, TLC

CONSTANTS c1, c2, c3, short, long, t1, t2, t3

ContentsOfChunks == c1 :> short @@ c2 :> short @@ c3 :> long

Texts == short :> <<"cjk", "word">>
           @@ long :> <<"word", "word", "word", "word", "word", "space", "mark">>

Headers == c1 :> 1 @@ c2 :> 2 @@ c3 :> 1

\* The term of the long content is a word of five characters.
ShownTerms(content, n) ==
    IF content # long THEN {t1} ELSE IF n >= 5 THEN {t2} ELSE {}

Says(cites, terms, close) ==
    [cites |-> cites, denial |-> FALSE, terms |-> terms, close |-> close]

Denial == [cites |-> {}, denial |-> TRUE, terms |-> {t3}, close |-> {}]

\* Claims of one term or of three, with and without a close section.
Claims == {Says(cites, terms, close) :
             cites \in {{}, {0}, {1}, {2}, {1, 2}},
             terms \in {{}, {t1}, {t1, t2, t3}},
             close \in {{}, {[content |-> short, length |-> 2]}}}

Answers ==
    {<<s>> : s \in Claims \cup {Denial}}
      \cup {<<s, t>> : s \in {Denial} \cup {x \in Claims : x.cites = {1}},
                       t \in {Denial} \cup {x \in Claims : x.cites \in {{}, {2}}}}

\* Accepted, refused for its claim or its label, a denial, and one whose check
\* raises.
FewAnswers == {<<Says({1}, {t1}, {})>>, <<Says({1}, {t3}, {})>>, <<Says({0}, {t1}, {})>>,
               <<Denial>>, <<Says({1}, {t1}, {}), Denial>>}
=============================================================================
