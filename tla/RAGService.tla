------------------------------ MODULE RAGService ------------------------------
(***************************************************************************)
(* Answering a question over one source: retrieval/hybrid.py finds chunks, *)
(* generation/context.py fits them into a token budget, a local model      *)
(* answers and generation/service.py checks its answer.  Every chunk is    *)
(* read again when it is selected, in a statement of its own, so the index *)
(* may change between the searches and every read.                         *)
(*                                                                         *)
(* Scores, filters and prompts are left out: a search finds any part of    *)
(* what there is, in any order.  A text is a sequence of kinds of          *)
(* characters, which is what its tokens are counted by.                    *)
(***************************************************************************)
EXTENDS Naturals, Sequences, FiniteSets, SequencesExt

CONSTANTS
    Chunks,      \* ids of chunks of the source
    Contents,    \* what chunks may contain
    ContentOf,   \* the content of each chunk, which is hashed into its id
    TextOf,      \* the text of each content
    Terms,       \* what tokenize finds in texts
    TermsOf(_, _), \* those in the first n characters of a content
    TermShare,   \* a sentence shares one of this many of its terms, 20
    HeaderCost,  \* tokens of the header of each chunk: its label and title
    MaxTokens,   \* ContextBuilder.max_tokens
    MaxChunks,   \* ContextBuilder.max_chunks
    Limit,       \* rows that HybridSearchService.search returns
    Responses    \* answers of the model, sequences of sentences

CharKinds == {"cjk", "word", "mark", "space"}

\* split_chunks returns no empty chunk.
ASSUME ChunkAssumption ==
    /\ IsFiniteSet(Chunks)
    /\ ContentOf \in [Chunks -> Contents]
    /\ TextOf \in [Contents -> Seq(CharKinds) \ {<<>>}]
    /\ HeaderCost \in [Chunks -> Nat]

ASSUME BudgetAssumption ==
    /\ MaxTokens \in Nat
    /\ MaxChunks \in Nat \ {0}
    /\ Limit \in Nat \ {0}

\* A sentence: the labels it cites, whether it only says that the evidence is
\* insufficient, its terms, and what its vector is close to: which contents,
\* cut to which length.
Sentence == [cites : SUBSET Nat, denial : BOOLEAN, terms : SUBSET Terms,
             close : SUBSET [content : Contents, length : Nat]]

ASSUME TermAssumption == IsFiniteSet(Terms) /\ TermShare \in Nat \ {0}

ASSUME ResponseAssumption ==
    /\ Responses \subseteq Seq(Sentence)
    /\ \A r \in Responses : \A i \in DOMAIN r : r[i].denial => r[i].cites = {}

VARIABLES
    index,      \* the chunks in lexical_chunks
    vectors,    \* those of them with a vector of the provider
    pc,         \* where RAGService.answer is
    accepted,   \* hits that pass the evidence gate
    ranked,     \* chunks that ContextBuilder.build has still to visit
    bundle,     \* sections of the context
    used,       \* used_tokens
    low, high,  \* of the bisection in _fit_tokens
    response,   \* what the model answered
    outcome,    \* of the last question
    since       \* history: chunks in the index since the turn of one began

storeVars == <<index, vectors>>
searchVars == <<accepted, ranked>>
contextVars == <<bundle, used>>
cutVars == <<low, high>>
resultVars == <<response, outcome>>
vars == <<storeVars, pc, searchVars, contextVars, cutVars, resultVars, since>>

----------------------------------------------------------------------------
(* ConservativeTokenCounter.count: a token for every CJK character and     *)
(* every mark, and one for every four characters of a word.                *)

\* Characters of the word that ends at position i, up to there.
RunLength(text, i) ==
    Cardinality({j \in 1..i : \A m \in j..i : text[m] = "word"})

StartsToken(text, i) ==
    \/ text[i] \in {"cjk", "mark"}
    \/ text[i] = "word" /\ RunLength(text, i) % 4 = 1

\* Tokens of the first n characters.
TokenCount(text, n) == Cardinality({i \in 1..n : StartsToken(text, i)})

TextIn(c) == TextOf[ContentOf[c]]

----------------------------------------------------------------------------
Stages == {"idle", "searched", "building", "fitting", "prompted", "checking"}

\* A section, its content cut to a length that fitted into the room there was.
Section == [chunk : Chunks, length : Nat, room : Nat]

Outcomes == {"none", "grounded", "insufficient", "raised"}

TypeOK ==
    /\ index \subseteq Chunks
    /\ vectors \subseteq index
    /\ pc \in Stages
    /\ accepted \subseteq Chunks
    /\ ranked \in Seq(Chunks)
    /\ bundle \in Seq(Section)
    /\ used \in Nat
    /\ low \in Nat
    /\ high \in Nat
    /\ response \in Responses \cup {<<>>}
    /\ outcome \in Outcomes
    /\ since \subseteq Chunks

Init ==
    /\ index = {}
    /\ vectors = {}
    /\ pc = "idle"
    /\ accepted = {}
    /\ ranked = <<>>
    /\ bundle = <<>>
    /\ used = 0
    /\ low = 0
    /\ high = 0
    /\ response = <<>>
    /\ outcome = "none"
    /\ since = {}

----------------------------------------------------------------------------
(* HybridSearchService.search and the evidence gate                        *)

LexicalSearch ==
    /\ pc = "idle"
    /\ accepted' \in SUBSET index
    /\ outcome' = "none"
    /\ pc' = "searched"
    /\ UNCHANGED <<storeVars, ranked, contextVars, cutVars, response, since>>

\* The channels are fused, reranked and the best hits returned.
Best(hits) ==
    {best \in SUBSET hits :
       \/ Cardinality(best) = Limit
       \/ best = hits /\ Cardinality(hits) < Limit}

\* answer drops the hits that only the vector search found, with a score
\* below min_vector_score.
Gate(best, strong) == best \cap (accepted \cup strong)

VectorSearch ==
    /\ pc = "searched"
    /\ \E found \in SUBSET vectors :
         \E strong \in SUBSET found, best \in Best(accepted \cup found) :
           accepted' = Gate(best, strong)
    /\ ranked' \in SetToSeqs(accepted')
    /\ since' = index
    /\ pc' = "building"
    /\ UNCHANGED <<storeVars, contextVars, cutVars, resultVars>>

----------------------------------------------------------------------------
(* ContextBuilder.build                                                    *)

Selecting ==
    /\ pc = "building"
    /\ ranked # <<>>
    /\ Len(bundle) < MaxChunks
    /\ used < MaxTokens

\* Its digest is in seen.
IsRepeated(c) == \E i \in DOMAIN bundle : ContentOf[bundle[i].chunk] = ContentOf[c]

\* Mutant of IsUsable: the row found by the search is used as it is.
IsUsableUnread(c) == ~IsRepeated(c)

IsUsable(c) == c \in index /\ ~IsRepeated(c)

SkipChunk ==
    /\ Selecting
    /\ ~IsUsable(Head(ranked))
    /\ ranked' = Tail(ranked)
    /\ since' = index
    /\ UNCHANGED <<storeVars, pc, accepted, contextVars, cutVars, resultVars>>

\* available_tokens
Room(c) == MaxTokens - (used + HeaderCost[c])

HasRoom(c) == used + HeaderCost[c] < MaxTokens

\* Mutant of AddSection: used_tokens is not counted up by the header.
AddSectionOnly(c, length) ==
    /\ bundle' = Append(bundle, [chunk |-> c, length |-> length, room |-> Room(c)])
    /\ used' = used + TokenCount(TextIn(c), length)

AddSection(c, length) ==
    /\ bundle' = Append(bundle, [chunk |-> c, length |-> length, room |-> Room(c)])
    /\ used' = used + HeaderCost[c] + TokenCount(TextIn(c), length)

\* Mutant of Fits: a content that just fits does not.
FitsLoosely(c, length) == TokenCount(TextIn(c), length) < Room(c)

Fits(c, length) == TokenCount(TextIn(c), length) <= Room(c)

\* Nothing is left for a content: the rest is not visited.
StopSelecting ==
    /\ Selecting
    /\ IsUsable(Head(ranked))
    /\ ~HasRoom(Head(ranked))
    /\ ranked' = <<>>
    /\ UNCHANGED <<storeVars, pc, accepted, contextVars, cutVars, resultVars, since>>

TakeWhole ==
    LET c == Head(ranked)
    IN  /\ Selecting
        /\ IsUsable(c)
        /\ HasRoom(c)
        /\ Fits(c, Len(TextIn(c)))
        /\ AddSection(c, Len(TextIn(c)))
        /\ ranked' = Tail(ranked)
        /\ since' = index
        /\ UNCHANGED <<storeVars, pc, accepted, cutVars, resultVars>>

\* The row was read: the index may change while _fit_tokens bisects.
StartCut ==
    LET c == Head(ranked)
    IN  /\ Selecting
        /\ IsUsable(c)
        /\ HasRoom(c)
        /\ ~Fits(c, Len(TextIn(c)))
        /\ low' = 0
        /\ high' = Len(TextIn(c))
        /\ pc' = "fitting"
        /\ UNCHANGED <<storeVars, searchVars, contextVars, resultVars, since>>

\* Mutant of Middle: rounded down.
MiddleDown == (low + high) \div 2

Middle == (low + high + 1) \div 2

Narrow ==
    /\ pc = "fitting"
    /\ low < high
    /\ \/ Fits(Head(ranked), Middle) /\ low' = Middle /\ UNCHANGED high
       \/ ~Fits(Head(ranked), Middle) /\ high' = Middle - 1 /\ UNCHANGED low
    /\ UNCHANGED <<storeVars, pc, searchVars, contextVars, resultVars, since>>

\* An empty content ends the selection.
Cut ==
    /\ pc = "fitting"
    /\ low = high
    /\ IF low > 0
         THEN AddSection(Head(ranked), low) /\ ranked' = Tail(ranked)
         ELSE ranked' = <<>> /\ UNCHANGED contextVars
    /\ low' = 0
    /\ high' = 0
    /\ pc' = "building"
    /\ since' = index
    /\ UNCHANGED <<storeVars, accepted, resultVars>>

----------------------------------------------------------------------------
(* RAGService.answer                                                       *)

\* With the call its locals end.
Return(result) ==
    /\ outcome' = result
    /\ pc' = "idle"
    /\ accepted' = {}
    /\ ranked' = <<>>
    /\ bundle' = <<>>
    /\ used' = 0
    /\ response' = <<>>
    /\ since' = {}
    /\ UNCHANGED <<storeVars, cutVars>>

\* Without evidence the model is not asked.
FinishContext ==
    /\ pc = "building"
    /\ ~Selecting
    /\ \/ bundle = <<>> /\ Return("insufficient")
       \/ /\ bundle # <<>>
          /\ pc' = "prompted"
          /\ ranked' = <<>>
          /\ since' = {}
          /\ UNCHANGED <<storeVars, accepted, contextVars, cutVars, resultVars>>

Generate ==
    /\ pc = "prompted"
    /\ response' \in Responses
    /\ pc' = "checking"
    /\ UNCHANGED <<storeVars, searchVars, contextVars, cutVars, outcome, since>>

IsDenial(r) == Len(r) = 1 /\ r[1].denial

Markers(r) == UNION {r[i].cites : i \in DOMAIN r}

\* _citations_are_valid
CitationsAreValid(r, count) ==
    \/ IsDenial(r)
    \/ /\ Markers(r) # {}
       /\ Markers(r) \subseteq 1..count
       /\ \A i \in DOMAIN r : ~r[i].denial => r[i].cites # {}

\* A label of 0 is evidence[-1], the last: the range check is what refuses it.
Cited(k) == bundle[IF k = 0 THEN Len(bundle) ELSE k]

\* What the model was shown of a cited section.
Shown(k) == [content |-> ContentOf[Cited(k).chunk], length |-> Cited(k).length]

\* The terms of all cited sections are pooled, and the sentence has to share
\* enough of its own with them; else the closest cited section decides.
IsSupported(s) ==
    LET pooled == UNION {TermsOf(Shown(k).content, Shown(k).length) : k \in s.cites}
    IN  \/ /\ s.terms # {}
           /\ Cardinality(s.terms \cap pooled) * TermShare >= Cardinality(s.terms)
        \/ \E k \in s.cites : Shown(k) \in s.close

FirstUnsupported(i) ==
    /\ ~IsSupported(response[i])
    /\ \A j \in 1..(i - 1) : IsSupported(response[j])

Accept ==
    /\ pc = "checking"
    /\ CitationsAreValid(response, Len(bundle))
    /\ ~IsDenial(response)
    /\ \A i \in DOMAIN response : IsSupported(response[i])
    /\ Return("grounded")

Abstain ==
    /\ pc = "checking"
    /\ \/ ~CitationsAreValid(response, Len(bundle))
       \/ IsDenial(response)
       \/ /\ CitationsAreValid(response, Len(bundle))
          /\ \E i \in DOMAIN response : FirstUnsupported(i) /\ response[i].cites # {}
    /\ Return("insufficient")

\* _claims_supported takes max() of no similarity at all for a sentence that
\* cites nothing, one that only denies beside others that cite.
FailCheck ==
    /\ pc = "checking"
    /\ CitationsAreValid(response, Len(bundle))
    /\ ~IsDenial(response)
    /\ \E i \in DOMAIN response : FirstUnsupported(i) /\ response[i].cites = {}
    /\ Return("raised")

\* The database, the embedding provider or the model fails.
Raise ==
    /\ pc \in {"searched", "building", "prompted", "checking"}
    /\ Return("raised")

----------------------------------------------------------------------------
\* What other processes do to the index of the source (IndexedStore).
Reindex ==
    /\ \E rows \in SUBSET Chunks :
         /\ index' = rows
         /\ vectors' \in SUBSET rows
    /\ since' = IF pc \in {"building", "fitting"} THEN since \cup index' ELSE since
    /\ UNCHANGED <<pc, searchVars, contextVars, cutVars, resultVars>>

Answer ==
    \/ VectorSearch \/ SkipChunk \/ StopSelecting \/ TakeWhole
    \/ StartCut \/ Narrow \/ Cut \/ FinishContext
    \/ Generate \/ Accept \/ Abstain \/ FailCheck

Next == LexicalSearch \/ Answer \/ Raise \/ Reindex

Spec == Init /\ [][Next]_vars

FairSpec == Spec /\ WF_vars(Answer)

----------------------------------------------------------------------------
(* What answering promises                                                 *)

\* Tokens of the content of a section, and what is left of the budget after
\* the first n sections.
TokensOf(i) == TokenCount(TextIn(bundle[i].chunk), bundle[i].length)

Left(n) == IF n = 0 THEN MaxTokens ELSE bundle[n].room - TokensOf(n)

\* Context keeps its budget although it is spent a section at a time on
\* headers and contents, keeps its limit of chunks, and shows no content
\* twice although chunks of several documents may have the same.
ContextKeepsItsBudget ==
    /\ \A i \in DOMAIN bundle :
         /\ HeaderCost[bundle[i].chunk] + bundle[i].room = Left(i - 1)
         /\ TokensOf(i) <= bundle[i].room
    /\ used + Left(Len(bundle)) = MaxTokens
    /\ Len(bundle) <= MaxChunks
    /\ \A i, j \in DOMAIN bundle :
         ContentOf[bundle[i].chunk] = ContentOf[bundle[j].chunk] => i = j

\* The bisection finds the longest prefix that fits: a section is whole or
\* would not have fitted with a character more.
CutsAreLongest ==
    \A i \in DOMAIN bundle :
        LET text == TextIn(bundle[i].chunk)
            n    == bundle[i].length
        IN  /\ n \in 1..Len(text)
            /\ \A m \in (n + 1)..Len(text) : TokenCount(text, m) > bundle[i].room

\* What is shown to the model passed the gate, and was in the index when its
\* turn in the selection had begun or later: what another process deleted
\* before, after the search had found it, is not shown.
EvidenceIsStored ==
    [][Len(bundle') > Len(bundle) =>
         bundle'[Len(bundle')].chunk \in accepted \cap since]_vars

\* Every question is answered or fails: the selection and its bisections end.
QuestionsEnd == pc # "idle" ~> pc = "idle"

----------------------------------------------------------------------------
(* What the promises rest on: AnswerInvariant is inductive.                *)

\* The row under bisection is as it was when it was chosen, and the longest
\* prefix that fits is between low and high.
Bisecting ==
    LET c    == Head(ranked)
        text == TextIn(Head(ranked))
    IN  /\ ranked # <<>> /\ c \in since
        /\ Len(bundle) < MaxChunks
        /\ ~IsRepeated(c)
        /\ HasRoom(c)
        /\ low <= high /\ high <= Len(text)
        /\ Fits(c, low)
        /\ high < Len(text) => ~Fits(c, high + 1)

AnswerInvariant ==
    /\ TypeOK
    /\ ContextKeepsItsBudget
    /\ CutsAreLongest
    /\ pc # "idle" => outcome = "none"
    /\ pc = "idle" => bundle = <<>>
    /\ pc \in {"idle", "searched"} => used = 0
    /\ pc = "searched" => bundle = <<>>
    /\ pc \in {"building", "fitting"} => \A i \in DOMAIN ranked : ranked[i] \in accepted
    /\ pc \in {"building", "fitting"} => index \subseteq since
    /\ pc = "fitting" => Bisecting

----------------------------------------------------------------------------
(* What a document says and the code does not do                           *)

\* A failed check becomes an explicit insufficient-evidence answer
\* (phase4-local-rag-plan.md): whatever the model answered, the check of a
\* sentence comes to a verdict and never raises.
FailedChecksAbstain ==
    pc = "checking" /\ CitationsAreValid(response, Len(bundle)) /\ ~IsDenial(response) =>
        \A i \in DOMAIN response : FirstUnsupported(i) => response[i].cites # {}
=============================================================================
