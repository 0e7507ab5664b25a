--------------------------- MODULE RAGServiceProofs ---------------------------
(***************************************************************************)
(* Proofs about RAGService: AnswerInvariant is inductive.  Counting tokens *)
(* is monotone because a count is the size of a set of positions, so the   *)
(* bisection needs no induction over texts.                                *)
(***************************************************************************)
EXTENDS RAGService, FiniteSetTheorems, SequenceTheorems, TLAPS

----------------------------------------------------------------------------
(* Tokens                                                                  *)

LEMMA CountIsNatural ==
  ASSUME NEW text, NEW n \in Nat
  PROVE  /\ IsFiniteSet({i \in 1..n : StartsToken(text, i)})
         /\ TokenCount(text, n) \in Nat
<1>1. IsFiniteSet(1..n)
  BY FS_Interval
<1>2. {i \in 1..n : StartsToken(text, i)} \in SUBSET (1..n)
  OBVIOUS
<1>3. IsFiniteSet({i \in 1..n : StartsToken(text, i)})
  BY <1>1, <1>2, FS_Subset
<1> QED
  BY <1>3, FS_CardinalityType DEF TokenCount

LEMMA CountIsMonotone ==
  ASSUME NEW text, NEW m \in Nat, NEW n \in Nat, m <= n
  PROVE  TokenCount(text, m) <= TokenCount(text, n)
<1>1. {i \in 1..m : StartsToken(text, i)} \in SUBSET {i \in 1..n : StartsToken(text, i)}
  OBVIOUS
<1> QED
  BY <1>1, CountIsNatural, FS_Subset DEF TokenCount

LEMMA EmptyCount ==
  ASSUME NEW text
  PROVE  TokenCount(text, 0) = 0
<1>1. {i \in 1..0 : StartsToken(text, i)} = {}
  OBVIOUS
<1> QED
  BY <1>1, FS_EmptySet DEF TokenCount

LEMMA TextTyped ==
  ASSUME NEW c \in Chunks
  PROVE  /\ TextIn(c) \in Seq(CharKinds)
         /\ Len(TextIn(c)) \in Nat \ {0}
         /\ HeaderCost[c] \in Nat
<1>1. TextIn(c) \in Seq(CharKinds) /\ TextIn(c) # <<>> /\ HeaderCost[c] \in Nat
  BY ChunkAssumption DEF TextIn
<1>2. Len(TextIn(c)) \in Nat
  BY <1>1
<1>3. Len(TextIn(c)) # 0
  BY <1>1, EmptySeq
<1> QED
  BY <1>1, <1>2, <1>3

----------------------------------------------------------------------------
(* The context                                                             *)

\* What a section adds: the longest prefix of a new content within the room
\* there is.
LEMMA SectionTyped ==
  ASSUME TypeOK, NEW c \in Chunks, NEW n \in Nat, AddSection(c, n), HasRoom(c)
  PROVE  /\ Room(c) \in Nat
         /\ HeaderCost[c] + Room(c) = MaxTokens - used
         /\ bundle' \in Seq(Section)
         /\ used' \in Nat
         /\ Len(bundle') = Len(bundle) + 1
         /\ \A i \in DOMAIN bundle : bundle'[i] = bundle[i]
         /\ bundle'[Len(bundle) + 1] = [chunk |-> c, length |-> n, room |-> Room(c)]
<1>1. HeaderCost[c] \in Nat /\ used \in Nat /\ MaxTokens \in Nat
  BY TextTyped, BudgetAssumption DEF TypeOK
<1>2. Room(c) \in Nat /\ HeaderCost[c] + Room(c) = MaxTokens - used
  BY <1>1 DEF Room, HasRoom
<1>3. TokenCount(TextIn(c), n) \in Nat
  BY CountIsNatural
<1>4. used' \in Nat
  BY <1>1, <1>3 DEF AddSection
<1>5. [chunk |-> c, length |-> n, room |-> Room(c)] \in Section
  BY <1>2 DEF Section
<1>6. bundle \in Seq(Section) /\ bundle' = Append(bundle, [chunk |-> c, length |-> n, room |-> Room(c)])
  BY DEF TypeOK, AddSection
<1> QED
  BY <1>2, <1>4, <1>5, <1>6

LEMMA Spending ==
  ASSUME NEW header \in Nat, NEW room \in Nat, NEW tokens \in Nat, NEW before \in Nat,
         NEW max \in Nat, header + room = max - before
  PROVE  (before + header + tokens) + (room - tokens) = max
OBVIOUS

LEMMA SectionKeepsBudget ==
  ASSUME TypeOK, ContextKeepsItsBudget, NEW c \in Chunks, NEW n \in Nat,
         AddSection(c, n), HasRoom(c), Fits(c, n), ~IsRepeated(c), Len(bundle) < MaxChunks
  PROVE  ContextKeepsItsBudget'
<1>0. PICK k, tokens : k = Len(bundle) /\ tokens = TokenCount(TextIn(c), n)
  OBVIOUS
<1>1. /\ Room(c) \in Nat
      /\ HeaderCost[c] + Room(c) = MaxTokens - used
      /\ bundle' \in Seq(Section)
      /\ Len(bundle') = k + 1
      /\ \A i \in DOMAIN bundle : bundle'[i] = bundle[i]
      /\ bundle'[k + 1] = [chunk |-> c, length |-> n, room |-> Room(c)]
  BY <1>0, SectionTyped
<1>2. k \in Nat /\ DOMAIN bundle = 1..k /\ DOMAIN bundle' = 1..(k + 1)
  BY <1>0, <1>1 DEF TypeOK
<1>3. tokens \in Nat /\ tokens <= Room(c) /\ HeaderCost[c] \in Nat
  BY <1>0, CountIsNatural, TextTyped DEF Fits
<1>4. \A i \in 1..k : TokensOf(i)' = TokensOf(i)
  BY <1>1, <1>2 DEF TokensOf
<1>5. TokensOf(k + 1)' = tokens
  BY <1>0, <1>1 DEF TokensOf
<1>6. \A i \in 0..k : Left(i)' = Left(i)
  BY <1>1, <1>2, <1>4 DEF Left
<1>7. Left(k + 1)' = Room(c) - tokens
  BY <1>1, <1>2, <1>5 DEF Left
<1>8. \A i \in DOMAIN bundle' :
        /\ HeaderCost[bundle'[i].chunk] + bundle'[i].room = Left(i - 1)'
        /\ TokensOf(i)' <= bundle'[i].room
  <2> SUFFICES ASSUME NEW i \in 1..(k + 1)
               PROVE  /\ HeaderCost[bundle'[i].chunk] + bundle'[i].room = Left(i - 1)'
                      /\ TokensOf(i)' <= bundle'[i].room
    BY <1>2
  <2>1. CASE i = k + 1
    <3>1. Left(i - 1)' = Left(k)
      BY <1>2, <1>6, <2>1
    <3>2. used + Left(k) = MaxTokens /\ used \in Nat /\ MaxTokens \in Nat
      BY <1>0, BudgetAssumption DEF ContextKeepsItsBudget, TypeOK
    <3>3. Left(k) \in Int
      <4>1. CASE k = 0
        BY <4>1, <3>2 DEF Left
      <4>2. CASE k # 0
        <5>1. bundle[k] \in Section /\ k \in 1..k
          BY <1>2, <4>2 DEF TypeOK
        <5>2. bundle[k].room \in Nat /\ bundle[k].length \in Nat
          BY <5>1 DEF Section
        <5>3. TokensOf(k) \in Nat
          BY <5>2, CountIsNatural DEF TokensOf
        <5> QED
          BY <4>2, <5>2, <5>3 DEF Left
      <4> QED
        BY <4>1, <4>2
    <3>4. Left(k) = MaxTokens - used
      BY <3>2, <3>3
    <3> QED
      BY <1>1, <1>3, <1>5, <2>1, <3>1, <3>4
  <2>2. CASE i \in 1..k
    <3>1. i - 1 \in 0..k /\ bundle'[i] = bundle[i]
      BY <1>1, <1>2, <2>2
    <3> QED
      BY <1>2, <1>4, <1>6, <2>2, <3>1 DEF ContextKeepsItsBudget
  <2> QED
    BY <1>2, <2>1, <2>2
<1>9. used' + Left(Len(bundle))' = MaxTokens
  <2>1. used' = used + HeaderCost[c] + tokens /\ used \in Nat /\ MaxTokens \in Nat
    BY <1>0, BudgetAssumption DEF AddSection, TypeOK
  <2>2. Left(Len(bundle))' = Room(c) - tokens
    BY <1>1, <1>7
  <2>3. /\ HeaderCost[c] \in Nat /\ Room(c) \in Nat /\ tokens \in Nat
        /\ HeaderCost[c] + Room(c) = MaxTokens - used
    BY <1>1, <1>3
  <2>4. used' + (Room(c) - tokens) = MaxTokens
    <3>1. PICK h, r, u : h = HeaderCost[c] /\ r = Room(c) /\ u = used
      OBVIOUS
    <3>2. h \in Nat /\ r \in Nat /\ u \in Nat /\ h + r = MaxTokens - u
      BY <2>1, <2>3, <3>1
    <3>3. tokens \in Nat /\ MaxTokens \in Nat
      BY <2>1, <2>3
    <3>4. (u + h + tokens) + (r - tokens) = MaxTokens
      BY <3>2, <3>3, Spending
    <3> QED
      BY <2>1, <3>1, <3>4
  <2> QED
    BY <2>2, <2>4
<1>10. Len(bundle') <= MaxChunks
  BY <1>0, <1>1, <1>2, BudgetAssumption
<1>11. \A i, j \in DOMAIN bundle' :
         ContentOf[bundle'[i].chunk] = ContentOf[bundle'[j].chunk] => i = j
  <2>1. \A i \in 1..k : bundle'[i] = bundle[i] /\ ContentOf[bundle[i].chunk] # ContentOf[c]
    BY <1>1, <1>2 DEF IsRepeated
  <2>2. bundle'[k + 1].chunk = c
    BY <1>1
  <2>3. \A i \in DOMAIN bundle' : i \in 1..k \/ i = k + 1
    BY <1>2
  <2>4. \A i, j \in 1..k : ContentOf[bundle[i].chunk] = ContentOf[bundle[j].chunk] => i = j
    BY <1>2 DEF ContextKeepsItsBudget
  <2> QED
    BY <2>1, <2>2, <2>3, <2>4
<1> QED
  BY <1>8, <1>9, <1>10, <1>11 DEF ContextKeepsItsBudget

LEMMA SectionKeepsCuts ==
  ASSUME TypeOK, CutsAreLongest, NEW c \in Chunks,
         NEW n \in 1..Len(TextIn(c)), AddSection(c, n), HasRoom(c),
         \A m \in (n + 1)..Len(TextIn(c)) : ~Fits(c, m)
  PROVE  CutsAreLongest'
<1>0. PICK k : k = Len(bundle)
  OBVIOUS
<1>1. /\ Room(c) \in Nat
      /\ bundle' \in Seq(Section)
      /\ Len(bundle') = k + 1
      /\ \A i \in DOMAIN bundle : bundle'[i] = bundle[i]
      /\ bundle'[k + 1] = [chunk |-> c, length |-> n, room |-> Room(c)]
  BY <1>0, SectionTyped, TextTyped
<1>2. k \in Nat /\ DOMAIN bundle = 1..k /\ DOMAIN bundle' = 1..(k + 1)
  BY <1>0, <1>1 DEF TypeOK
<1>3. \A i \in DOMAIN bundle' : i \in 1..k \/ i = k + 1
  BY <1>2
<1>4. \A m \in (n + 1)..Len(TextIn(c)) : TokenCount(TextIn(c), m) > Room(c)
  <2> SUFFICES ASSUME NEW m \in (n + 1)..Len(TextIn(c))
               PROVE  TokenCount(TextIn(c), m) > Room(c)
    OBVIOUS
  <2>1. m \in Nat
    BY TextTyped
  <2>2. TokenCount(TextIn(c), m) \in Nat
    BY <2>1, CountIsNatural
  <2> QED
    BY <1>1, <2>2 DEF Fits
<1> SUFFICES ASSUME NEW i \in 1..(k + 1)
             PROVE  /\ bundle'[i].length \in 1..Len(TextIn(bundle'[i].chunk))
                    /\ \A m \in (bundle'[i].length + 1)..Len(TextIn(bundle'[i].chunk)) :
                         TokenCount(TextIn(bundle'[i].chunk), m) > bundle'[i].room
  BY <1>2 DEF CutsAreLongest
<1>5. CASE i = k + 1
  <2>1. bundle'[i].chunk = c /\ bundle'[i].length = n /\ bundle'[i].room = Room(c)
    BY <1>1, <1>5
  <2> QED
    BY <1>4, <2>1
<1>6. CASE i \in 1..k
  BY <1>1, <1>2, <1>6 DEF CutsAreLongest
<1> QED
  BY <1>2, <1>5, <1>6

Context == ContextKeepsItsBudget /\ CutsAreLongest

LEMMA ContextKept ==
  ASSUME Context, UNCHANGED contextVars
  PROVE  Context'
<1>1. bundle' = bundle /\ used' = used
  BY DEF contextVars
<1>2. ContextKeepsItsBudget'
  BY <1>1 DEF Context, ContextKeepsItsBudget, Left, TokensOf
<1>3. CutsAreLongest'
  BY <1>1 DEF Context, CutsAreLongest
<1> QED
  BY <1>2, <1>3 DEF Context

LEMMA EmptyContext ==
  ASSUME bundle' = <<>>, used' = 0
  PROVE  Context'
<1>1. DOMAIN bundle' = {} /\ Len(bundle') = 0
  BY Z3
<1>2. used' + Left(Len(bundle))' = MaxTokens
  BY <1>1, BudgetAssumption DEF Left
<1> QED
  BY <1>1, <1>2, BudgetAssumption
     DEF Context, ContextKeepsItsBudget, CutsAreLongest

----------------------------------------------------------------------------
(* The steps of the invariant                                              *)

LEMMA HeadAndTail ==
  ASSUME NEW S, NEW s \in Seq(S), s # <<>>, NEW A, \A i \in DOMAIN s : s[i] \in A
  PROVE  /\ Head(s) \in S /\ Head(s) \in A
         /\ Tail(s) \in Seq(S)
         /\ \A i \in DOMAIN Tail(s) : Tail(s)[i] \in A
<1>1. Len(s) \in Nat \ {0} /\ DOMAIN s = 1..Len(s)
  BY EmptySeq, LenProperties
<1>2. Head(s) = s[1] /\ 1 \in DOMAIN s
  BY <1>1, HeadTailProperties
<1>3. /\ Tail(s) \in Seq(S) /\ Len(Tail(s)) = Len(s) - 1
      /\ \A i \in 1..Len(Tail(s)) : Tail(s)[i] = s[i + 1]
  BY HeadTailProperties
<1>4. \A i \in DOMAIN Tail(s) : i + 1 \in DOMAIN s /\ Tail(s)[i] = s[i + 1]
  BY <1>1, <1>3, LenProperties
<1>5. s[1] \in S
  BY <1>1, ElementOfSeq
<1> QED
  BY <1>2, <1>3, <1>4, <1>5

LEMMA SearchStep ==
  ASSUME AnswerInvariant, LexicalSearch \/ VectorSearch
  PROVE  AnswerInvariant'
<1> USE DEF AnswerInvariant
<1>1. CASE LexicalSearch
  <2>1. /\ pc = "idle" /\ pc' = "searched" /\ accepted' \subseteq index /\ outcome' = "none"
        /\ UNCHANGED <<index, vectors, ranked, bundle, used, low, high, response, since>>
    BY <1>1 DEF LexicalSearch, storeVars, contextVars, cutVars
  <2>2. TypeOK'
    BY <2>1 DEF TypeOK, Stages, Outcomes
  <2>3. Context'
    BY <2>1, ContextKept DEF Context, contextVars
  <2> QED
    BY <2>1, <2>2, <2>3 DEF Context
<1>2. CASE VectorSearch
  <2>1. /\ pc = "searched" /\ pc' = "building" /\ since' = index
        /\ ranked' \in SetToSeqs(accepted')
        /\ UNCHANGED <<index, vectors, bundle, used, low, high, response, outcome>>
    BY <1>2 DEF VectorSearch, storeVars, contextVars, cutVars, resultVars
  <2>2. accepted' \subseteq Chunks
    BY <1>2 DEF VectorSearch, Best, Gate, TypeOK
  <2>3. ranked' \in [1..Cardinality(accepted') -> accepted'] /\ Cardinality(accepted') \in Nat
    <3>1. IsFiniteSet(accepted')
      BY <2>2, ChunkAssumption, FS_Subset
    <3>2. Cardinality(accepted') \in Nat
      BY <3>1, FS_CardinalityType
    <3> QED
      BY <2>1, <3>2 DEF SetToSeqs
  <2>4. ranked' \in Seq(Chunks)
    BY <2>2, <2>3, SeqDef
  <2>5. TypeOK'
    BY <2>1, <2>2, <2>4 DEF TypeOK, Stages
  <2>6. bundle' = <<>> /\ bundle = <<>>
    BY <2>1
  <2>7. Context'
    <3>1. ContextKeepsItsBudget'
      BY <2>1 DEF ContextKeepsItsBudget, Left, TokensOf
    <3>2. CutsAreLongest'
      BY <2>1 DEF CutsAreLongest
    <3> QED
      BY <3>1, <3>2 DEF Context
  <2>9. \A i \in DOMAIN ranked' : ranked'[i] \in accepted'
    BY <2>3
  <2> QED
    BY <2>1, <2>5, <2>7, <2>9 DEF Context
<1> QED
  BY <1>1, <1>2

LEMMA ReindexStep ==
  ASSUME AnswerInvariant, Reindex
  PROVE  AnswerInvariant'
<1> USE DEF AnswerInvariant
<1>1. /\ UNCHANGED <<pc, accepted, ranked, bundle, used, low, high, response, outcome>>
      /\ index' \subseteq Chunks /\ vectors' \subseteq index'
      /\ since' = IF pc \in {"building", "fitting"} THEN since \cup index' ELSE since
  BY DEF Reindex, searchVars, contextVars, cutVars, resultVars
<1>2. TypeOK'
  BY <1>1 DEF TypeOK
<1>3. Context'
  BY <1>1, ContextKept DEF Context, contextVars
<1>5. pc' = "fitting" => Bisecting'
  BY <1>1 DEF Bisecting, IsRepeated, HasRoom, Fits, Room
<1> QED
  BY <1>1, <1>2, <1>3, <1>5 DEF Context

\* The head of ranked, which every step of the selection is about.
LEMMA Selected ==
  ASSUME AnswerInvariant, Selecting, IsUsable(Head(ranked))
  PROVE  /\ Head(ranked) \in Chunks /\ Head(ranked) \in accepted /\ Head(ranked) \in since
         /\ ~IsRepeated(Head(ranked)) /\ Len(bundle) < MaxChunks
         /\ outcome = "none"
BY HeadAndTail DEF AnswerInvariant, TypeOK, Selecting, IsUsable

LEMMA TailRanked ==
  ASSUME AnswerInvariant, pc \in {"building", "fitting"}, ranked # <<>>, ranked' = Tail(ranked),
         accepted' = accepted
  PROVE  ranked' \in Seq(Chunks) /\ \A i \in DOMAIN ranked' : ranked'[i] \in accepted'
BY HeadAndTail DEF AnswerInvariant, TypeOK

\* What follows from a section that is added.
LEMMA SectionStep ==
  ASSUME AnswerInvariant, pc \in {"building", "fitting"}, ranked # <<>>,
         NEW n \in 1..Len(TextIn(Head(ranked))), AddSection(Head(ranked), n),
         HasRoom(Head(ranked)), Fits(Head(ranked), n),
         \A m \in (n + 1)..Len(TextIn(Head(ranked))) : ~Fits(Head(ranked), m),
         ~IsRepeated(Head(ranked)), Len(bundle) < MaxChunks,
         ranked' = Tail(ranked), pc' = "building", low' \in Nat, high' \in Nat,
         since' = index, UNCHANGED <<index, vectors, accepted, response, outcome>>
  PROVE  AnswerInvariant'
<1> USE DEF AnswerInvariant
<1>1. PICK c : c = Head(ranked)
  OBVIOUS
<1>2. c \in Chunks /\ c \in accepted
  BY <1>1, HeadAndTail DEF TypeOK
<1>3. n \in Nat
  BY <1>1, <1>2, TextTyped
<1>4. ranked' \in Seq(Chunks) /\ \A i \in DOMAIN ranked' : ranked'[i] \in accepted'
  BY TailRanked
<1>5. bundle' \in Seq(Section) /\ used' \in Nat
  BY <1>1, <1>2, <1>3, SectionTyped
<1>6. TypeOK'
  BY <1>4, <1>5 DEF TypeOK, Stages
<1>7. ContextKeepsItsBudget'
  BY <1>1, <1>2, <1>3, SectionKeepsBudget
<1>8. CutsAreLongest'
  BY <1>1, <1>2, SectionKeepsCuts
<1>9. outcome' = "none"
  OBVIOUS
<1> QED
  BY <1>4, <1>6, <1>7, <1>8, <1>9

LEMMA SelectStep ==
  ASSUME AnswerInvariant, SkipChunk \/ StopSelecting \/ TakeWhole \/ StartCut
  PROVE  AnswerInvariant'
<1> USE DEF AnswerInvariant
<1>1. CASE SkipChunk \/ StopSelecting
  <2>1. /\ pc = "building" /\ pc' = "building" /\ outcome = "none"
        /\ UNCHANGED <<index, vectors, accepted, bundle, used, low, high, response, outcome>>
        /\ since' \in {since, index}
    BY <1>1 DEF SkipChunk, StopSelecting, Selecting, storeVars, contextVars, cutVars, resultVars
  <2>2. ranked' \in Seq(Chunks) /\ \A i \in DOMAIN ranked' : ranked'[i] \in accepted'
    <3>1. CASE SkipChunk
      BY <2>1, <3>1, TailRanked DEF SkipChunk, Selecting
    <3>2. CASE StopSelecting
      BY <3>2 DEF StopSelecting
    <3> QED
      BY <1>1, <3>1, <3>2
  <2>3. TypeOK'
    BY <2>1, <2>2 DEF TypeOK
  <2>4. Context'
    BY <2>1, ContextKept DEF Context, contextVars
  <2> QED
    BY <2>1, <2>2, <2>3, <2>4 DEF Context
<1>2. CASE TakeWhole
  <2>1. PICK n : n = Len(TextIn(Head(ranked)))
    OBVIOUS
  <2>2. /\ Selecting /\ IsUsable(Head(ranked)) /\ HasRoom(Head(ranked))
        /\ Fits(Head(ranked), n) /\ AddSection(Head(ranked), n)
        /\ ranked' = Tail(ranked) /\ pc = "building" /\ pc' = "building" /\ ranked # <<>>
        /\ since' = index
        /\ UNCHANGED <<index, vectors, accepted, low, high, response, outcome>>
    BY <1>2, <2>1 DEF TakeWhole, Selecting, storeVars, cutVars, resultVars
  <2>3. n \in 1..Len(TextIn(Head(ranked)))
    BY <2>1, <2>2, Selected, TextTyped
  <2>4. \A m \in (n + 1)..Len(TextIn(Head(ranked))) : ~Fits(Head(ranked), m)
    BY <2>1, <2>3
  <2>5. low' \in Nat /\ high' \in Nat
    BY <2>2 DEF TypeOK
  <2> QED
    BY <2>2, <2>3, <2>4, <2>5, Selected, SectionStep
<1>3. CASE StartCut
  <2>1. PICK c : c = Head(ranked)
    OBVIOUS
  <2>2. /\ Selecting /\ IsUsable(c) /\ HasRoom(c)
        /\ low' = 0 /\ high' = Len(TextIn(c))
        /\ pc = "building" /\ pc' = "fitting" /\ ranked # <<>>
        /\ UNCHANGED <<index, vectors, accepted, ranked, bundle, used, response, outcome, since>>
    BY <1>3, <2>1 DEF StartCut, Selecting, storeVars, searchVars, contextVars, resultVars
  <2>3. /\ c \in Chunks /\ c \in since /\ ~IsRepeated(c) /\ Len(bundle) < MaxChunks
        /\ outcome = "none"
    BY <2>1, <2>2, Selected
  <2>4. Len(TextIn(c)) \in Nat /\ HeaderCost[c] \in Nat
    BY <2>3, TextTyped
  <2>5. TypeOK'
    BY <2>2, <2>4 DEF TypeOK, Stages
  <2>6. Context'
    BY <2>2, ContextKept DEF Context, contextVars
  <2>7. Fits(c, 0)
    <3>1. used \in Nat /\ MaxTokens \in Nat
      BY BudgetAssumption DEF TypeOK
    <3>2. Room(c) \in Nat
      BY <2>2, <2>4, <3>1 DEF Room, HasRoom
    <3> QED
      BY <3>2, EmptyCount DEF Fits
  <2>8. Bisecting'
    <3>1. (~IsRepeated(c))' /\ HasRoom(c)' /\ Fits(c, 0)'
      BY <2>2, <2>3, <2>7 DEF IsRepeated, HasRoom, Fits, Room
    <3> QED
      BY <2>1, <2>2, <2>3, <2>4, <3>1 DEF Bisecting
  <2>9. \A i \in DOMAIN ranked' : ranked'[i] \in accepted'
    BY <2>2
  <2> QED
    BY <2>2, <2>3, <2>5, <2>6, <2>8, <2>9 DEF Context
<1> QED
  BY <1>1, <1>2, <1>3

LEMMA CutStep ==
  ASSUME AnswerInvariant, Narrow \/ Cut
  PROVE  AnswerInvariant'
<1> USE DEF AnswerInvariant
<1>0. PICK c : c = Head(ranked)
  OBVIOUS
<1>1. /\ pc = "fitting" /\ outcome = "none" /\ ranked # <<>>
      /\ c \in since /\ Len(bundle) < MaxChunks /\ ~IsRepeated(c) /\ HasRoom(c)
      /\ low <= high /\ high <= Len(TextIn(c))
      /\ Fits(c, low)
      /\ high < Len(TextIn(c)) => ~Fits(c, high + 1)
      /\ low \in Nat /\ high \in Nat
  BY <1>0 DEF Narrow, Cut, Bisecting, TypeOK
<1>2. c \in Chunks /\ Len(TextIn(c)) \in Nat
  BY <1>0, <1>1, HeadAndTail, TextTyped DEF TypeOK
<1>3. CASE Narrow
  <2>1. /\ low < high
        /\ \/ Fits(c, Middle) /\ low' = Middle /\ high' = high
           \/ ~Fits(c, Middle) /\ high' = Middle - 1 /\ low' = low
        /\ UNCHANGED <<index, vectors, pc, accepted, ranked, bundle, used, response, outcome, since>>
    BY <1>0, <1>3 DEF Narrow, storeVars, searchVars, contextVars, resultVars
  <2>2. PICK m : m = Middle
    OBVIOUS
  <2>3. m \in Nat /\ low < m /\ m <= high
    BY <1>1, <2>1, <2>2 DEF Middle
  <2>4. TypeOK'
    <3>1. low' \in Nat /\ high' \in Nat
      BY <1>1, <2>1, <2>2, <2>3
    <3> QED
      BY <2>1, <3>1 DEF TypeOK
  <2>5. Context'
    BY <2>1, ContextKept DEF Context, contextVars
  <2>6. low' <= high' /\ high' <= Len(TextIn(c))
    BY <1>1, <1>2, <2>1, <2>2, <2>3
  <2>7. Fits(c, low') /\ (high' < Len(TextIn(c)) => ~Fits(c, high' + 1))
    <3>1. CASE Fits(c, m) /\ low' = m /\ high' = high
      BY <1>1, <3>1
    <3>2. CASE ~Fits(c, m) /\ high' = m - 1 /\ low' = low
      <4>1. high' + 1 = m
        BY <2>3, <3>2
      <4> QED
        BY <1>1, <3>2, <4>1
    <3> QED
      BY <2>1, <2>2, <3>1, <3>2
  <2>8. Bisecting'
    <3>1. Fits(c, low)' /\ (high' < Len(TextIn(c)) => ~Fits(c, high + 1)')
      BY <2>1, <2>7 DEF Fits, Room
    <3>2. ~IsRepeated(c)' /\ HasRoom(c)'
      BY <1>1, <2>1 DEF IsRepeated, HasRoom
    <3> QED
      BY <1>0, <1>1, <2>1, <2>6, <3>1, <3>2 DEF Bisecting
  <2> QED
    BY <1>1, <2>1, <2>4, <2>5, <2>8 DEF Context
<1>4. CASE Cut /\ low > 0
  <2>1. PICK n : n = low
    OBVIOUS
  <2>2. /\ n = high /\ AddSection(c, n) /\ ranked' = Tail(ranked)
        /\ low' = 0 /\ high' = 0 /\ pc' = "building" /\ since' = index
        /\ UNCHANGED <<index, vectors, accepted, response, outcome>>
    BY <1>0, <1>4, <2>1 DEF Cut, storeVars, resultVars
  <2>3. n \in 1..Len(TextIn(c))
    BY <1>1, <1>2, <1>4, <2>1, <2>2
  <2>4. \A m \in (n + 1)..Len(TextIn(c)) : ~Fits(c, m)
    <3> SUFFICES ASSUME NEW m \in (n + 1)..Len(TextIn(c))
                 PROVE  ~Fits(c, m)
      OBVIOUS
    <3>1. n + 1 \in Nat /\ m \in Nat /\ n + 1 <= m /\ n < Len(TextIn(c))
      BY <1>2, <2>3
    <3>2. ~Fits(c, n + 1)
      BY <1>1, <2>2, <3>1
    <3>3. TokenCount(TextIn(c), n + 1) <= TokenCount(TextIn(c), m)
      BY <3>1, CountIsMonotone
    <3>4. TokenCount(TextIn(c), n + 1) \in Nat /\ TokenCount(TextIn(c), m) \in Nat
      BY <3>1, CountIsNatural
    <3>5. Room(c) \in Int
      <4>1. used \in Nat /\ MaxTokens \in Nat /\ HeaderCost[c] \in Nat
        BY <1>2, BudgetAssumption, TextTyped DEF TypeOK
      <4> QED
        BY <4>1 DEF Room
    <3> QED
      BY <3>2, <3>3, <3>4, <3>5 DEF Fits
  <2>5. Fits(c, n)
    BY <1>1, <2>1
  <2> QED
    BY <1>0, <1>1, <2>2, <2>3, <2>4, <2>5, SectionStep
<1>5. CASE Cut /\ ~(low > 0)
  <2>1. /\ ranked' = <<>> /\ low' = 0 /\ high' = 0 /\ pc' = "building"
        /\ since' = index
        /\ UNCHANGED <<index, vectors, accepted, bundle, used, response, outcome>>
    BY <1>5 DEF Cut, storeVars, resultVars, contextVars
  <2>2. TypeOK'
    BY <2>1 DEF TypeOK, Stages
  <2>3. Context'
    BY <2>1, ContextKept DEF Context, contextVars
  <2> QED
    BY <1>1, <2>1, <2>2, <2>3 DEF Context
<1> QED
  BY <1>3, <1>4, <1>5

LEMMA ReturnStep ==
  ASSUME AnswerInvariant, NEW result \in Outcomes, Return(result)
  PROVE  AnswerInvariant'
<1> USE DEF AnswerInvariant
<1>1. /\ pc' = "idle" /\ outcome' = result /\ accepted' = {} /\ ranked' = <<>>
      /\ bundle' = <<>> /\ used' = 0 /\ response' = <<>> /\ since' = {}
      /\ UNCHANGED <<index, vectors, low, high>>
  BY DEF Return, storeVars, cutVars
<1>2. TypeOK'
  BY <1>1 DEF TypeOK, Stages
<1>3. Context'
  BY <1>1, EmptyContext
<1> QED
  BY <1>1, <1>2, <1>3 DEF Context

LEMMA AnswerStep ==
  ASSUME AnswerInvariant,
         FinishContext \/ Generate \/ Accept \/ Abstain \/ FailCheck \/ Raise
  PROVE  AnswerInvariant'
<1> USE DEF AnswerInvariant
<1>1. CASE \E result \in Outcomes : Return(result)
  BY <1>1, ReturnStep
<1>2. CASE ~\E result \in Outcomes : Return(result)
  <2>1. FinishContext \/ Generate
    BY <1>2 DEF Accept, Abstain, FailCheck, Raise, Outcomes
  <2>2. /\ pc \in {"building", "prompted"} /\ pc' \in {"prompted", "checking"}
        /\ UNCHANGED <<index, vectors, accepted, bundle, used, low, high, outcome>>
        /\ ranked' \in {ranked, <<>>} /\ since' \in {since, {}}
        /\ response' \in Responses \cup {response}
    BY <1>2, <2>1 DEF FinishContext, Generate, Outcomes, storeVars, searchVars,
                      contextVars, cutVars, resultVars
  <2>3. ranked' \in Seq(Chunks)
    <3>1. ranked \in Seq(Chunks) /\ <<>> \in Seq(Chunks)
      BY EmptySeq DEF TypeOK
    <3> HIDE DEF AnswerInvariant
    <3> QED
      BY <2>2, <3>1
  <2>4. TypeOK'
    BY <2>2, <2>3 DEF TypeOK, Stages
  <2>5. Context'
    BY <2>2, ContextKept DEF Context, contextVars
  <2> QED
    BY <2>2, <2>4, <2>5 DEF Context
<1> QED
  BY <1>1, <1>2

----------------------------------------------------------------------------
(* Theorems                                                                *)

\* AnswerInvariant is inductive.
THEOREM InvariantHolds == Spec => []AnswerInvariant
<1>1. Init => AnswerInvariant
  <2> SUFFICES ASSUME Init PROVE AnswerInvariant
    OBVIOUS
  <2> USE DEF Init
  <2>1. TypeOK
    BY DEF TypeOK, Stages, Outcomes
  <2>2. DOMAIN bundle = {} /\ Len(bundle) = 0
    BY Z3
  <2>3. ContextKeepsItsBudget
    BY <2>2, BudgetAssumption DEF ContextKeepsItsBudget, Left
  <2> QED
    BY <2>1, <2>2, <2>3 DEF AnswerInvariant, CutsAreLongest
<1>2. AnswerInvariant /\ [Next]_vars => AnswerInvariant'
  <2> SUFFICES ASSUME AnswerInvariant, [Next]_vars PROVE AnswerInvariant'
    OBVIOUS
  <2>1. CASE UNCHANGED vars
    <3>1. UNCHANGED <<index, vectors, pc, accepted, ranked, bundle, used, low, high,
                      response, outcome, since>>
      BY <2>1 DEF vars, storeVars, searchVars, contextVars, cutVars, resultVars
    <3> QED
      BY <3>1, ContextKept
         DEF AnswerInvariant, Context, contextVars, TypeOK,
             Bisecting, IsRepeated, HasRoom, Fits, Room
  <2> QED
    BY <2>1, SearchStep, SelectStep, CutStep, AnswerStep, ReindexStep DEF Next, Answer
<1> QED
  BY <1>1, <1>2, PTL DEF Spec

\* Every variable keeps its type: what RAGService.answer computes with stays
\* in range for any texts, budgets and answers.
THEOREM TypeCorrect == Spec => []TypeOK
<1>1. AnswerInvariant => TypeOK
  BY DEF AnswerInvariant
<1> QED
  BY <1>1, InvariantHolds, PTL

\* ContextBuilder.build never exceeds max_tokens or max_chunks and repeats
\* no content.
THEOREM BudgetIsKept == Spec => []ContextKeepsItsBudget
<1>1. AnswerInvariant => ContextKeepsItsBudget
  BY DEF AnswerInvariant
<1> QED
  BY <1>1, InvariantHolds, PTL

\* The bisection of _fit_tokens finds the longest prefix of any text.
THEOREM BisectionIsExact == Spec => []CutsAreLongest
<1>1. AnswerInvariant => CutsAreLongest
  BY DEF AnswerInvariant
<1> QED
  BY <1>1, InvariantHolds, PTL

\* A context grows only by a chunk that passed the gate and has been in the
\* index since its turn began.
LEMMA OnlyStoredAreAdded ==
  ASSUME AnswerInvariant, [Next]_vars, Len(bundle') > Len(bundle)
  PROVE  bundle'[Len(bundle')].chunk \in accepted \cap since
<1> USE DEF AnswerInvariant
<1>1. PICK c : c = Head(ranked)
  OBVIOUS
<1>2. Len(bundle) \in Nat
  BY DEF TypeOK
<1>3. TakeWhole \/ (Cut /\ low > 0)
  <2>1. bundle' # bundle
    BY <1>2
  <2>2. ASSUME NEW result, Return(result) PROVE FALSE
    <3>1. bundle' = <<>>
      BY <2>2 DEF Return
    <3>2. Len(bundle') = 0
      BY <3>1, EmptySeq
    <3> QED
      BY <1>2, <3>2
  <2> QED
    BY <2>1, <2>2
       DEF Next, Answer, LexicalSearch, VectorSearch, SkipChunk, StopSelecting, StartCut,
           Narrow, Cut, FinishContext, Generate, Accept, Abstain, FailCheck, Raise, Reindex,
           vars, contextVars
<1>4. c \in accepted /\ c \in since /\ c \in Chunks /\ HasRoom(c)
  <2>1. CASE TakeWhole
    BY <1>1, <2>1, Selected DEF TakeWhole
  <2>2. CASE Cut
    BY <1>1, <2>2, HeadAndTail DEF Cut, Bisecting, TypeOK
  <2> QED
    BY <1>3, <2>1, <2>2
<1>5. PICK n \in Nat : AddSection(c, n)
  BY <1>1, <1>3, <1>4, TextTyped DEF TakeWhole, Cut, TypeOK
<1>6. /\ Len(bundle') = Len(bundle) + 1
      /\ bundle'[Len(bundle) + 1] = [chunk |-> c, length |-> n, room |-> Room(c)]
  BY <1>4, <1>5, SectionTyped
<1>7. bundle'[Len(bundle')].chunk = c
  BY <1>6
<1> HIDE DEF AnswerInvariant
<1> QED
  BY <1>4, <1>7

\* However the index changes meanwhile, what the context shows passed the
\* gate and was stored after its turn in the selection had begun.
THEOREM EvidenceStaysStored == Spec => EvidenceIsStored
<1>1. AnswerInvariant /\ [Next]_vars
        => [Len(bundle') > Len(bundle) =>
              bundle'[Len(bundle')].chunk \in accepted \cap since]_vars
  BY OnlyStoredAreAdded
<1> QED
  BY <1>1, InvariantHolds, PTL DEF Spec, EvidenceIsStored
=============================================================================
