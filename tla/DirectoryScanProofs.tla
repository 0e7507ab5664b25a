------------------------ MODULE DirectoryScanProofs ------------------------
(***************************************************************************)
(* DirectoryScan: what a scan read of a file is the file of one moment,    *)
(* and a scan that returns has read every file that was there, for every   *)
(* tree and every number of edits.                                         *)
(***************************************************************************)
EXTENDS DirectoryScan, SequenceTheorems,
        WellFoundedInduction, TLAPS

\* Between the first stat and the second one, parse_text has a file in hand.
Reading == {"open", "blocked", "read", "compare"}

\* Where the walk needs a node, it has one.
HandFitsItsStage ==
    /\ pc \in {"enter", "list"} => here.node \in Places
    /\ pc \in {"authorize", "stat"} \cup Reading => here.node \in Nodes
    /\ pc = "read" => here.opened \in Files
    /\ pc \in {"authorize", "stat", "open", "blocked"} => here.opened = None

\* A write that shows gives a newer mtime than any there was.
StampsFollow == \A f \in Files : stamp[f] <= version[f]

\* Whoever sees the first stat's identity of a file again sees the content
\* that was there in between, if that file was the one it opened.
SameStampSameContent ==
    pc \in Reading /\ here.before.object \in Files =>
        LET f == here.before.object
        IN  /\ here.before.stamp <= stamp[f]
            /\ f \notin unseen /\ stamp[f] = here.before.stamp /\ here.opened = f =>
                 /\ pc \in {"read", "compare"} => here.first = version[f]
                 /\ pc = "compare" => here.last = version[f]

\* As long as nothing took its place, the file that was authorized is the one
\* looked at and opened.
HandIsAuthorized ==
    pc \in {"stat"} \cup Reading /\ ~ here.swapped =>
        /\ at[here.node] \in Files
        /\ here.authorized = at[here.node]
        /\ pc # "blocked"
        /\ pc \in Reading => here.before.object = here.authorized
        /\ pc \in {"read", "compare"} => here.opened = here.authorized

Inv ==
    /\ TypeOK
    /\ HandFitsItsStage
    /\ StampsFollow
    /\ SameStampSameContent
    /\ HandIsAuthorized
    /\ ReadsAreWhole

LEMMA NowhereType == Nowhere \in Here
  BY DEF Nowhere, Here, Identity, Objects, NoFiles

LEMMA AtType == ASSUME NEW n \in Places
                PROVE  /\ [Nowhere EXCEPT !.node = n] \in Here
                       /\ [Nowhere EXCEPT !.node = n].node = n
                       /\ [Nowhere EXCEPT !.node = n].opened = None
  BY DEF Nowhere, Here, Identity, Objects, NoFiles

LEMMA RootWay == Root \in Places /\ \A n \in Nodes : n \in Places /\ Parent[n] \in Places
  BY TreeAssumption DEF Places

\* A walk that raises holds nothing.
LEMMA FailKeepsInv ==
    ASSUME Inv, Fail, UNCHANGED <<treeVars, steady, unseen>>
    PROVE  Inv'
  <1>1. TypeOK'
    BY NowhereType DEF Inv, TypeOK, Fail, treeVars, Stages
  <1>2. HandFitsItsStage' /\ SameStampSameContent' /\ HandIsAuthorized'
    BY DEF Fail, HandFitsItsStage, SameStampSameContent, HandIsAuthorized, Reading
  <1>3. StampsFollow'
    BY DEF Inv, StampsFollow, treeVars
  <1>4. ReadsAreWhole'
    BY DEF Fail, ReadsAreWhole
  <1> QED BY <1>1, <1>2, <1>3, <1>4 DEF Inv

\* A step outside parse_text keeps the mtimes and what was read.
LEMMA WalkKeepsRest ==
    ASSUME Inv, UNCHANGED <<treeVars, unseen, found>>
    PROVE  StampsFollow' /\ ReadsAreWhole'
  BY DEF Inv, StampsFollow, ReadsAreWhole, treeVars

LEMMA InitEstablishesInv == Init => Inv
  <1> SUFFICES ASSUME Init PROVE Inv OBVIOUS
  <1>1. TypeOK
    <2>1. at \in [Places -> Objects] /\ edits \in 0 .. MaxEdits
      BY BoundsAssumption DEF Init, Trees
    <2> QED BY <2>1, NowhereType, FileAssumption DEF Init, TypeOK, Stages
  <1>2. HandFitsItsStage /\ SameStampSameContent /\ HandIsAuthorized
    BY DEF Init, HandFitsItsStage, SameStampSameContent, HandIsAuthorized, Reading
  <1>3. StampsFollow /\ ReadsAreWhole
    BY DEF Init, StampsFollow, ReadsAreWhole
  <1> QED BY <1>1, <1>2, <1>3 DEF Inv

\* A walk outside parse_text has no identity in hand.
LEMMA WalkKeepsInv ==
    ASSUME Inv, UNCHANGED <<treeVars, unseen>>, found' \in {found, {}},
           steady' \subseteq Places, pc' \in {"enter", "list", "walk", "authorize", "done"},
           stack' \in Seq(SUBSET Entry), here' \in Here,
           pc' \in {"enter", "list"} => here'.node \in Places,
           pc' = "authorize" => here'.node \in Nodes /\ here'.opened = None
    PROVE  Inv'
  <1>1. TypeOK'
    BY DEF Inv, TypeOK, treeVars, Stages
  <1>2. HandFitsItsStage' /\ SameStampSameContent' /\ HandIsAuthorized'
    BY DEF HandFitsItsStage, SameStampSameContent, HandIsAuthorized, Reading
  <1>3. StampsFollow' /\ ReadsAreWhole'
    BY DEF Inv, StampsFollow, ReadsAreWhole, treeVars
  <1> QED BY <1>1, <1>2, <1>3 DEF Inv

LEMMA StartKeepsInv == ASSUME Inv, Start PROVE Inv'
  <1>1. CASE at[Root] = "dir"
    <2>1. /\ pc' = "enter" /\ stack' = <<>> /\ found' = {}
          /\ here' = [Nowhere EXCEPT !.node = Root]
          /\ steady' = Places /\ unseen' = {} /\ UNCHANGED treeVars
      BY <1>1 DEF Start, At
    <2>2. here' \in Here /\ here'.node = Root
      BY <2>1, RootWay, AtType
    <2>3. TypeOK'
      BY <2>1, <2>2 DEF Inv, TypeOK, treeVars, Stages
    <2>4. HandFitsItsStage' /\ SameStampSameContent' /\ HandIsAuthorized'
      BY <2>1, <2>2, RootWay
         DEF HandFitsItsStage, SameStampSameContent, HandIsAuthorized, Reading
    <2>5. StampsFollow' /\ ReadsAreWhole'
      BY <2>1 DEF Inv, StampsFollow, ReadsAreWhole, treeVars
    <2> QED BY <2>3, <2>4, <2>5 DEF Inv
  <1>2. CASE at[Root] # "dir"
    <2>1. Fail /\ steady' = Places /\ unseen' = {} /\ UNCHANGED treeVars
      BY <1>2 DEF Start
    <2>2. TypeOK'
      BY <2>1, NowhereType DEF Inv, TypeOK, Fail, treeVars, Stages
    <2>3. HandFitsItsStage' /\ SameStampSameContent' /\ HandIsAuthorized'
      BY <2>1 DEF Fail, HandFitsItsStage, SameStampSameContent, HandIsAuthorized, Reading
    <2>4. StampsFollow' /\ ReadsAreWhole'
      BY <2>1 DEF Inv, Fail, StampsFollow, ReadsAreWhole, treeVars
    <2> QED BY <2>2, <2>3, <2>4 DEF Inv
  <1> QED BY <1>1, <1>2

LEMMA EnterKeepsInv == ASSUME Inv, Enter PROVE Inv'
  <1>0. pc = "enter" /\ UNCHANGED <<treeVars, steady, unseen>>
    BY DEF Enter
  <1>1. CASE Fail
    BY <1>0, <1>1, FailKeepsInv
  <1>2. CASE pc' = "list" /\ UNCHANGED <<stack, here, found>>
    <2>1. stack' \in Seq(SUBSET Entry) /\ here' \in Here /\ steady' \subseteq Places
          /\ here'.node \in Places
      BY <1>0, <1>2 DEF Inv, TypeOK, HandFitsItsStage
    <2> QED BY <1>0, <1>2, <2>1, WalkKeepsInv
  <1> QED BY <1>1, <1>2 DEF Enter

LEMMA KindType == ASSUME Inv, NEW n \in Places PROVE Kind(n) \in KindsOfNode
  BY DEF Inv, TypeOK, Kind, KindsOfNode, Objects

LEMMA ListKeepsInv == ASSUME Inv, List PROVE Inv'
  <1>0. pc = "list" /\ here.node \in Places
        /\ UNCHANGED <<treeVars, steady, unseen>>
    BY DEF List, Inv, HandFitsItsStage
  <1>1. CASE Fail
    BY <1>0, <1>1, FailKeepsInv
  <1>2. CASE stack' = Append(stack, Listing(here.node)) /\ pc' = "walk"
             /\ here' = Nowhere /\ UNCHANGED found
    <2>1. Listing(here.node) \in SUBSET Entry
      BY KindType DEF Listing, Children, Entry, Places
    <2>2. stack' \in Seq(SUBSET Entry) /\ steady' \subseteq Places
      BY <1>0, <1>2, <2>1, AppendProperties DEF Inv, TypeOK
    <2> QED BY <1>0, <1>2, <2>2, NowhereType, WalkKeepsInv
  <1> QED BY <1>1, <1>2 DEF List

LEMMA VisitKeepsInv == ASSUME Inv, Visit PROVE Inv'
  <1>0. pc = "walk" /\ stack # <<>> /\ UNCHANGED <<treeVars, steady, unseen>>
    BY DEF Visit
  <1>1. stack \in Seq(SUBSET Entry) /\ Len(stack) \in 1 .. Len(stack)
    BY <1>0, EmptySeq, LenProperties DEF Inv, TypeOK
  <1>2. Top \in SUBSET Entry
    BY <1>1, ElementOfSeq DEF Top
  <1>3. PICK e \in Top :
          IF Refused(e.node) THEN Fail
          ELSE /\ stack' = [stack EXCEPT ![Len(stack)] = Rest(e)]
               /\ IF e.kind = "dir" THEN pc' = "enter" /\ At(e.node)
                  ELSE IF Wanted(e) THEN pc' = "authorize" /\ At(e.node)
                  ELSE UNCHANGED <<pc, here>>
               /\ UNCHANGED found
    BY DEF Visit
  <1>4. e.node \in Nodes /\ e.node \in Places
    BY <1>2 DEF Entry, Places
  <1>5. CASE Refused(e.node)
    BY <1>0, <1>3, <1>5, FailKeepsInv
  <1>6. CASE ~ Refused(e.node)
    <2>1. stack' \in Seq(SUBSET Entry)
      <3>1. Rest(e) \in SUBSET Entry
        BY <1>2 DEF Rest
      <3> QED BY <1>1, <1>3, <1>6, <3>1, ExceptSeq
    <2>2. found' = found /\ steady' \subseteq Places
      BY <1>0, <1>3, <1>6 DEF Inv, TypeOK
    <2>3. \/ pc' \in {"enter", "authorize"}
               /\ here' = [Nowhere EXCEPT !.node = e.node]
          \/ pc' = "walk" /\ here' = here
      BY <1>0, <1>3, <1>6 DEF At
    <2>4. here' \in Here /\ (pc' # "walk" => here'.node = e.node /\ here'.opened = None)
      BY <2>3, <1>4, AtType DEF Inv, TypeOK
    <2> QED BY <1>0, <1>4, <2>1, <2>2, <2>3, <2>4, WalkKeepsInv
  <1> QED BY <1>5, <1>6

LEMMA LeaveKeepsInv == ASSUME Inv, Leave PROVE Inv'
  <1>1. /\ pc = "walk" /\ pc' \in {"done", "walk"}
        /\ UNCHANGED <<treeVars, here, found, steady, unseen>>
    BY DEF Leave
  <1>2. stack \in Seq(SUBSET Entry) /\ Len(stack) \in Nat /\ Len(stack) # 0
    BY EmptySeq, LenProperties DEF Leave, Inv, TypeOK
  <1>3. stack' \in Seq(SUBSET Entry)
    <2>1. \A i \in 1 .. Len(stack) - 1 : stack[i] \in SUBSET Entry
      BY <1>2, ElementOfSeq
    <2> QED BY <1>2, <2>1, SubSeqProperties DEF Leave, Above
  <1>4. here' \in Here /\ steady' \subseteq Places
    BY <1>1 DEF Inv, TypeOK
  <1> QED BY <1>1, <1>3, <1>4, WalkKeepsInv

\* What the hand holds after a step of parse_text.
LEMMA HandKept ==
    ASSUME Inv, pc \in {"authorize", "stat"} \cup Reading, here' \in Here, pc' \in Reading \cup {"stat"},
           UNCHANGED <<treeVars, stack, found, steady, unseen>>,
           here'.node = here.node, pc' = "read" => here'.opened \in Files,
           pc' \in {"stat", "open", "blocked"} => here'.opened = None,
           SameStampSameContent', HandIsAuthorized'
    PROVE  Inv'
  <1>1. TypeOK'
    BY DEF Inv, TypeOK, treeVars, Stages, Reading
  <1>2. HandFitsItsStage'
    BY DEF Inv, HandFitsItsStage, Reading
  <1> QED BY <1>1, <1>2, WalkKeepsRest DEF Inv

LEMMA AuthorizeKeepsInv == ASSUME Inv, Authorize PROVE Inv'
  <1>0. pc = "authorize" /\ UNCHANGED <<treeVars, steady, unseen>>
        /\ here \in Here /\ here.node \in Places
    BY RootWay DEF Authorize, Inv, TypeOK, HandFitsItsStage
  <1>1. CASE Fail
    BY <1>0, <1>1, FailKeepsInv
  <1>2. CASE /\ here' = [here EXCEPT !.authorized = at[here.node], !.swapped = FALSE]
             /\ pc' = "stat" /\ UNCHANGED <<stack, found>> /\ at[here.node] \in Files
    <2>1. here' \in Here /\ here'.node = here.node /\ here'.authorized = at[here.node]
          /\ here'.opened = None
      BY <1>0, <1>2 DEF Here, Inv, HandFitsItsStage
    <2>2. SameStampSameContent' /\ HandIsAuthorized'
      BY <1>0, <1>2, <2>1 DEF SameStampSameContent, HandIsAuthorized, Reading, treeVars
    <2> QED BY <1>0, <1>2, <2>1, <2>2, HandKept
  <1> QED BY <1>1, <1>2 DEF Authorize, Authorized

LEMMA IdentityType ==
    ASSUME Inv, NEW n \in Places, at[n] # "absent"
    PROVE  /\ IdentityAt(n) \in Identity /\ IdentityAt(n).object = at[n]
           /\ at[n] \in Files => IdentityAt(n).stamp = stamp[at[n]]
  <1>1. at[n] \in Objects /\ \A f \in Files : stamp[f] \in Nat /\ size[f] \in Nat
    BY FileAssumption DEF Inv, TypeOK
  <1>2. CASE at[n] \in Files
    BY <1>1, <1>2 DEF IdentityAt, Identity, Objects
  <1>3. CASE at[n] \notin Files
    <2>1. OtherSize[at[n]] \in Nat
      BY <1>1, <1>3, FileAssumption DEF Objects
    <2> QED BY <1>1, <1>3, <2>1 DEF IdentityAt, Identity
  <1> QED BY <1>2, <1>3

\* The first stat: the identity in hand is the current one.
LEMMA StatKeepsInv == ASSUME Inv, Stat PROVE Inv'
  <1>0. pc = "stat" /\ here.node \in Nodes /\ here.node \in Places /\ here \in Here
        /\ UNCHANGED <<treeVars, steady, unseen>>
    BY DEF Stat, Inv, TypeOK, HandFitsItsStage, Places
  <1>1. CASE Fail
    BY <1>0, <1>1, FailKeepsInv
  <1>2. CASE /\ at[here.node] # "absent"
             /\ here' = [here EXCEPT !.before = IdentityAt(here.node)]
             /\ pc' = "open" /\ UNCHANGED <<stack, found>>
    <2>1. /\ IdentityAt(here.node) \in Identity /\ IdentityAt(here.node).object = at[here.node]
          /\ at[here.node] \in Files => IdentityAt(here.node).stamp = stamp[at[here.node]]
      BY <1>0, <1>2, IdentityType
    <2>2. here' \in Here /\ here'.before = IdentityAt(here.node)
          /\ here'.node = here.node /\ here'.authorized = here.authorized
          /\ here'.swapped = here.swapped /\ here'.opened = None
      BY <1>0, <1>2, <2>1 DEF Here, Inv, HandFitsItsStage
    <2>3. SameStampSameContent'
      <3>1. \A f \in Files : stamp[f] \in Nat /\ stamp' = stamp
        BY <1>0 DEF Inv, TypeOK, treeVars
      <3> QED BY <1>2, <2>1, <2>2, <3>1 DEF SameStampSameContent
    <2>4. HandIsAuthorized'
      BY <1>0, <1>2, <2>1, <2>2 DEF Inv, HandIsAuthorized, Reading, treeVars
    <2> QED BY <1>0, <1>2, <2>2, <2>3, <2>4, HandKept DEF Reading
  <1> QED BY <1>1, <1>2 DEF Stat

LEMMA OpenKeepsInv == ASSUME Inv, OpenAndRead PROVE Inv'
  <1>0. pc = "open" /\ here.node \in Nodes /\ here.node \in Places /\ here \in Here
        /\ UNCHANGED <<treeVars, steady, unseen>>
    BY DEF OpenAndRead, Inv, TypeOK, HandFitsItsStage, Reading, Places
  <1>1. CASE Fail
    BY <1>0, <1>1, FailKeepsInv
  <1>2. ASSUME NEW f \in Files, Open(f), at[here.node] \in {f, "link"}
        PROVE  Inv'
    <2>1. version[f] \in Nat
      BY DEF Inv, TypeOK
    <2>2. /\ here' \in Here /\ here'.node = here.node /\ here'.before = here.before
          /\ here'.authorized = here.authorized /\ here'.swapped = here.swapped
          /\ here'.opened = f /\ here'.first = version[f]
          /\ pc' = "read" /\ UNCHANGED <<stack, found>>
      BY <1>0, <1>2, <2>1 DEF Open, Here
    <2>3. SameStampSameContent'
      BY <1>0, <2>2 DEF Inv, SameStampSameContent, Reading, treeVars
    <2>4. HandIsAuthorized'
      <3> SUFFICES ASSUME ~ here.swapped PROVE HandIsAuthorized'
        BY <2>2 DEF HandIsAuthorized
      <3>1. at[here.node] \in Files /\ here.authorized = at[here.node]
            /\ here.before.object = here.authorized
        BY <1>0 DEF Inv, HandIsAuthorized, Reading
      <3>2. at[here.node] = f
        BY <1>2, <3>1, FileAssumption DEF KindsOfNode, NoFiles
      <3> QED BY <1>0, <2>2, <3>1, <3>2 DEF HandIsAuthorized, treeVars
    <2> QED BY <1>0, <2>2, <2>3, <2>4, HandKept DEF Reading
  <1>3. CASE at[here.node] \in {"link", "other"} /\ pc' = "blocked"
             /\ UNCHANGED <<stack, here, found>>
    <2>1. at[here.node] \notin Files
      BY <1>3, FileAssumption DEF KindsOfNode, NoFiles
    <2>2. here.swapped
      BY <1>0, <2>1 DEF Inv, HandIsAuthorized, Reading
    <2>3. SameStampSameContent' /\ HandIsAuthorized'
      BY <1>0, <1>3, <2>2 DEF Inv, SameStampSameContent, HandIsAuthorized, Reading, treeVars
    <2>4. here.opened = None
      BY <1>0 DEF Inv, HandFitsItsStage
    <2> QED BY <1>0, <1>3, <2>3, <2>4, HandKept DEF Reading
  <1> QED BY <1>1, <1>2, <1>3 DEF OpenAndRead

\* What comes from a pipe was not opened as a file.
LEMMA FeedKeepsInv == ASSUME Inv, Feed PROVE Inv'
  <1>0. pc = "blocked" /\ pc' = "compare" /\ here \in Here
        /\ UNCHANGED <<treeVars, stack, found, steady, unseen>>
    BY DEF Feed, Inv, TypeOK
  <1>1. PICK n \in Sizes : here' = [here EXCEPT !.length = n]
    BY DEF Feed
  <1>2. /\ here' \in Here /\ here'.node = here.node /\ here'.before = here.before
        /\ here'.swapped = here.swapped /\ here'.opened = here.opened
    BY <1>0, <1>1, FileAssumption DEF Here
  <1>3. here.swapped /\ here.opened = None
    BY <1>0 DEF Inv, HandIsAuthorized, Reading, HandFitsItsStage
  <1>4. SameStampSameContent'
    BY <1>0, <1>2, <1>3, TreeAssumption DEF Inv, SameStampSameContent, Reading, treeVars, Objects
  <1>5. HandIsAuthorized'
    BY <1>2, <1>3 DEF HandIsAuthorized
  <1> QED BY <1>0, <1>2, <1>4, <1>5, HandKept DEF Reading

LEMMA ReadRestKeepsInv == ASSUME Inv, ReadRest PROVE Inv'
  <1>0. /\ pc = "read" /\ pc' = "compare" /\ here \in Here /\ here.opened \in Files
        /\ UNCHANGED <<treeVars, stack, found, steady, unseen>>
    BY DEF ReadRest, Inv, TypeOK, HandFitsItsStage, Reading
  <1>1. PICK n \in Sizes :
          here' = [here EXCEPT !.last = version[here.opened], !.length = n]
    BY DEF ReadRest
  <1>2. version[here.opened] \in Nat
    BY <1>0 DEF Inv, TypeOK
  <1>3. /\ here' \in Here /\ here'.node = here.node /\ here'.before = here.before
        /\ here'.authorized = here.authorized /\ here'.swapped = here.swapped
        /\ here'.opened = here.opened /\ here'.first = here.first
        /\ here'.last = version[here.opened]
    BY <1>0, <1>1, <1>2, FileAssumption DEF Here
  <1>4. SameStampSameContent'
    BY <1>0, <1>3 DEF Inv, SameStampSameContent, Reading, treeVars
  <1>5. HandIsAuthorized'
    BY <1>0, <1>3 DEF Inv, HandIsAuthorized, Reading, treeVars
  <1> QED BY <1>0, <1>3, <1>4, <1>5, HandKept DEF Reading

\* The second stat: the same identity, so the first byte and the last one
\* are of the same content.
LEMMA CompareKeepsInv == ASSUME Inv, Compare PROVE Inv'
  <1>0. pc = "compare" /\ here.node \in Nodes /\ here.node \in Places /\ here \in Here
        /\ UNCHANGED <<treeVars, steady, unseen>>
    BY DEF Compare, Inv, TypeOK, HandFitsItsStage, Reading, Places
  <1>1. CASE Fail
    BY <1>0, <1>1, FailKeepsInv
  <1>2. CASE /\ Unchanged(here.node)
             /\ found' = found \cup
                  {[node |-> here.node, authorized |-> here.authorized,
                    known |-> here.before.object, opened |-> here.opened,
                    first |-> here.first, last |-> here.last, swapped |-> here.swapped]}
             /\ pc' = "walk" /\ here' = Nowhere /\ UNCHANGED stack
    <2>1. ASSUME here.opened = here.before.object
          PROVE  here.first = here.last \/ here.opened \in unseen
      <3>1. here.before.object \in Files
        BY <1>0, <2>1, TreeAssumption DEF Here, Identity
      <3>2. at[here.node] = here.before.object /\ stamp[here.before.object] = here.before.stamp
        BY <1>0, <1>2, <3>1, IdentityType DEF Unchanged
      <3> QED BY <1>0, <2>1, <3>1, <3>2 DEF Inv, SameStampSameContent, Reading
    <2>2. here.swapped \/ (here.opened = here.before.object /\ here.before.object = here.authorized)
      BY <1>0 DEF Inv, HandIsAuthorized, Reading
    <2>3. found' \subseteq Found
      BY <1>0, <1>2 DEF Inv, TypeOK, Found, Here, Identity
    <2>4. TypeOK'
      BY <1>0, <1>2, <2>3, NowhereType DEF Inv, TypeOK, treeVars, Stages
    <2>5. HandFitsItsStage' /\ SameStampSameContent' /\ HandIsAuthorized'
      BY <1>2 DEF HandFitsItsStage, SameStampSameContent, HandIsAuthorized, Reading
    <2>6. ReadsAreWhole'
      BY <1>0, <1>2, <2>1, <2>2 DEF Inv, ReadsAreWhole
    <2>7. StampsFollow'
      BY <1>0 DEF Inv, StampsFollow, treeVars
    <2> QED BY <2>4, <2>5, <2>6, <2>7 DEF Inv
  <1> QED BY <1>1, <1>2 DEF Compare

\* Whoever has a file in hand learns that its place was taken.
LEMMA ReplaceKeepsInv ==
    ASSUME Inv, NEW n \in Places, Replace(n)
    PROVE  Inv'
  <1>1. /\ at' \in [Places -> Objects] /\ \A m \in Places \ Under(n) : at'[m] = at[m]
        /\ edits' \in 0 .. MaxEdits /\ steady' \subseteq Places
        /\ UNCHANGED <<size, version, stamp, pc, stack, found, unseen>>
    BY BoundsAssumption DEF Replace, Trees, Inv, TypeOK
  <1>2. /\ here \in Here
        /\ here' = [here EXCEPT !.swapped = @ \/ here.node \in Under(n)]
    BY DEF Replace, Inv, TypeOK
  <1>3. /\ here' \in Here /\ here'.node = here.node /\ here'.before = here.before
        /\ here'.authorized = here.authorized /\ here'.opened = here.opened
        /\ here'.first = here.first /\ here'.last = here.last
        /\ ~ here'.swapped => ~ here.swapped /\ here.node \notin Under(n)
    BY <1>2 DEF Here
  <1>4. TypeOK'
    BY <1>1, <1>3 DEF Inv, TypeOK
  <1>5. HandFitsItsStage' /\ StampsFollow' /\ SameStampSameContent' /\ ReadsAreWhole'
    BY <1>1, <1>3 DEF Inv, HandFitsItsStage, StampsFollow, SameStampSameContent, ReadsAreWhole
  <1>6. HandIsAuthorized'
    <2> SUFFICES ASSUME pc \in {"stat"} \cup Reading, ~ here'.swapped
                 PROVE  HandIsAuthorized'
      BY <1>1 DEF HandIsAuthorized
    <2>1. here.node \in Places \ Under(n)
      BY <1>3, RootWay DEF Inv, HandFitsItsStage
    <2>2. at'[here.node] = at[here.node]
      BY <1>1, <2>1
    <2> QED BY <1>1, <1>3, <2>2 DEF Inv, HandIsAuthorized
  <1> QED BY <1>4, <1>5, <1>6 DEF Inv

\* What the user writes is newer than any identity taken before.
LEMMA WriteKeepsInv ==
    ASSUME Inv, NEW f \in Files, WriteFile(f)
    PROVE  Inv'
  <1>0. /\ version \in [Files -> Nat] /\ stamp \in [Files -> Nat] /\ size \in [Files -> Sizes]
        /\ \A g \in Files : stamp[g] <= version[g]
        /\ version' = [version EXCEPT ![f] = @ + 1]
    BY DEF Inv, TypeOK, StampsFollow, WriteFile
  <1>1. /\ version' \in [Files -> Nat] /\ version'[f] = version[f] + 1
        /\ \A g \in Files \ {f} : version'[g] = version[g]
    BY <1>0
  <1>2. /\ \A g \in Files \ {f} : stamp'[g] = stamp[g]
        /\ stamp'[f] = version[f] + 1 \/ (stamp'[f] = stamp[f] /\ f \in unseen')
        /\ unseen \subseteq unseen' /\ unseen' \subseteq Files
        /\ stamp' \in [Files -> Nat] /\ size' \in [Files -> Sizes]
    <2>1. CASE /\ stamp' = [stamp EXCEPT ![f] = version[f] + 1] /\ unseen' = unseen
               /\ \E n \in Sizes : size' = [size EXCEPT ![f] = n]
      BY <1>0, <2>1 DEF Inv, TypeOK
    <2>2. CASE unseen' = unseen \cup {f} /\ UNCHANGED <<stamp, size>>
      BY <1>0, <2>2 DEF Inv, TypeOK
    <2> QED BY <2>1, <2>2 DEF WriteFile
  <1>3. edits' \in 0 .. MaxEdits /\ steady' \subseteq Places
    BY BoundsAssumption DEF WriteFile, Inv, TypeOK
  <1>4. UNCHANGED <<at, pc, stack, here, found>>
    BY DEF WriteFile, walkVars
  <1>5. TypeOK'
    BY <1>1, <1>2, <1>3, <1>4 DEF Inv, TypeOK
  <1>6. HandFitsItsStage' /\ HandIsAuthorized'
    BY <1>4 DEF Inv, HandFitsItsStage, HandIsAuthorized
  <1>7. StampsFollow'
    BY <1>0, <1>1, <1>2 DEF StampsFollow
  <1>8. SameStampSameContent'
    <2> SUFFICES ASSUME pc \in Reading, here.before.object \in Files
                 PROVE  SameStampSameContent'
      BY <1>4 DEF SameStampSameContent
    <2> DEFINE g == here.before.object
    <2>1. g \in Files /\ here.before.stamp \in Nat /\ here.before.stamp <= stamp[g]
      BY DEF Inv, SameStampSameContent, TypeOK, Here, Identity
    <2>2. CASE g = f
      <3>1. stamp[f] <= version[f] /\ stamp[f] \in Nat /\ version[f] \in Nat
        BY <1>0
      <3>2. here.before.stamp <= stamp'[f] /\ (stamp'[f] = here.before.stamp => f \in unseen')
        BY <1>2, <2>1, <2>2, <3>1
      <3> QED BY <1>4, <2>2, <3>2 DEF SameStampSameContent
    <2>3. CASE g # f
      <3>1. stamp'[g] = stamp[g] /\ version'[g] = version[g]
        BY <1>1, <1>2, <2>1, <2>3
      <3> QED BY <1>2, <1>4, <3>1 DEF Inv, SameStampSameContent
    <2> QED BY <2>2, <2>3
  <1>9. ReadsAreWhole'
    BY <1>2, <1>4 DEF Inv, ReadsAreWhole
  <1> QED BY <1>5, <1>6, <1>7, <1>8, <1>9 DEF Inv

LEMMA NextKeepsInv == Inv /\ [Next]_vars => Inv'
  <1> SUFFICES ASSUME Inv, [Next]_vars PROVE Inv' OBVIOUS
  <1>1. CASE Start
    BY <1>1, StartKeepsInv
  <1>2. CASE Walk
    BY <1>2, EnterKeepsInv, ListKeepsInv, VisitKeepsInv, LeaveKeepsInv,
       AuthorizeKeepsInv, StatKeepsInv, OpenKeepsInv, ReadRestKeepsInv,
       CompareKeepsInv DEF Walk
  <1>3. CASE Feed
    BY <1>3, FeedKeepsInv
  <1>4. CASE \E n \in Movable : Replace(n)
    BY <1>4, FileAssumption, ReplaceKeepsInv
  <1>5. CASE \E f \in Files : WriteFile(f)
    BY <1>5, WriteKeepsInv
  <1>6. CASE UNCHANGED vars
    <2>1. UNCHANGED <<at, size, version, stamp, edits, pc, stack, here, found,
                      steady, unseen>>
      BY <1>6 DEF vars, treeVars, walkVars
    <2> QED BY <2>1 DEF Inv, TypeOK, HandFitsItsStage, StampsFollow,
                       SameStampSameContent, HandIsAuthorized, ReadsAreWhole
  <1> QED BY <1>1, <1>2, <1>3, <1>4, <1>5, <1>6 DEF Next

\* The walk has what it needs at each stage, an identity seen twice means the
\* same content, and what was authorized stays in hand unless it is replaced.
THEOREM InvariantHolds == Spec => []Inv
  BY InitEstablishesInv, NextKeepsInv, PTL DEF Spec

\* The state of a walk is well-formed.
THEOREM TypeCorrect == Spec => []TypeOK
  <1>1. Inv => TypeOK BY DEF Inv
  <1> QED BY <1>1, InvariantHolds, PTL

\* What a scan read of a file that it had looked at is the file of one moment,
\* unless a write left its size and mtime as they were (parse_text's comparison
\* of identities); and it is the file that PathPolicy.authorize had seen,
\* unless something else took its place meanwhile.
THEOREM FilesAreReadWhole == Spec => []ReadsAreWhole
  <1>1. Inv => ReadsAreWhole BY DEF Inv
  <1> QED BY <1>1, InvariantHolds, PTL

----------------------------------------------------------------------------
(* The order of the walk.  listed stands for the directories it has listed,*)
(* which the walk itself does not record.                                  *)

FileStages == {"authorize", "stat", "open", "blocked", "read", "compare"}

\* What is there has been there since the walk began only if the directories
\* above it have.
TreeFits ==
    /\ at \in Trees
    /\ \A n \in Nodes \cap steady : at[n] # "absent" => Parent[n] \in steady

\* A directory is listed after the one above it, once, if it is not too deep.
ListedFit(listed) ==
    /\ listed \subseteq Places
    /\ \A n \in listed : Depth[n] <= MaxDepth
    /\ \A n \in listed \cap Nodes : Parent[n] \in listed
    /\ Root \in listed \/ (pc \in {"enter", "list"} /\ here.node = Root)

\* An entry on the stack lies below a directory that was listed and has not
\* been visited; that of a node that has not changed tells what it is.
EntryFits(i, e, listed) ==
    /\ Parent[e.node] \in listed
    /\ e.node \notin listed
    /\ e.node # here.node
    /\ Depth[e.node] = i
    /\ \A f \in found : f.node # e.node
    /\ \A d \in stack[i] : d.node = e.node => d = e
    /\ e.node \in steady => e.kind = Kind(e.node)

\* So is the node in hand.
HereFits(listed) ==
    /\ pc \in {"walk", "done"} => here.node = None
    /\ pc \in {"enter", "list"} =>
         /\ here.node \notin listed
         /\ Depth[here.node] = Len(stack)
         /\ here.node \in Nodes => Parent[here.node] \in listed
    /\ pc = "list" =>
         /\ Depth[here.node] <= MaxDepth
         /\ here.node \in steady => at[here.node] # "link"
    /\ pc \in FileStages =>
         /\ Parent[here.node] \in listed
         /\ \A f \in found : f.node # here.node
    /\ pc \in FileStages \ {"authorize"} /\ here.node \in steady =>
         at[here.node] \in Files /\ ~TooLarge(here.node)

FoundFit(listed) ==
    /\ \A f \in found : Parent[f.node] \in listed
    /\ \A f, g \in found : f.node = g.node => f = g

Waiting(n) == \E i \in DOMAIN stack : \E e \in stack[i] : e.node = n

InHand(n) == pc \in {"enter", "list"} \cup FileStages /\ here.node = n

\* The walk is done with a node that has not changed.
IsHandled(n, listed) ==
    /\ at[n] \in Files /\ n \in Eligible => ~TooLarge(n) /\ \E f \in found : f.node = n
    /\ at[n] # "link"
    /\ at[n] = "dir" => n \in listed

\* Nothing of a directory that was listed is passed over.
NothingIsMissed(listed) ==
    \A n \in Nodes \cap steady :
        at[n] # "absent" /\ Parent[n] \in listed =>
            Waiting(n) \/ InHand(n) \/ IsHandled(n, listed)

WalkFits(listed) ==
    /\ ListedFit(listed)
    /\ \A i \in DOMAIN stack : \A e \in stack[i] : EntryFits(i, e, listed)
    /\ HereFits(listed)
    /\ FoundFit(listed)
    /\ NothingIsMissed(listed)
    /\ pc = "done" => stack = <<>>

WalkInv ==
    /\ TreeFits
    /\ pc \notin {"idle", "failed"} => \E listed \in SUBSET Places : WalkFits(listed)

----------------------------------------------------------------------------
LEMMA NoFileKinds == \A f \in Files : f \notin {"absent", "dir", "file", "link", "other"}
  BY FileAssumption DEF KindsOfNode, NoFiles

LEMMA TreeFacts ==
    ASSUME at \in Trees, NEW n \in Nodes, at[n] # "absent"
    PROVE  at[Parent[n]] \in {"dir", "link"} /\ at[Parent[n]] \notin Files
BY FileAssumption DEF Trees, KindsOfNode, NoFiles

\* What is replaced takes all below it out of steady, and a file that is
\* written to has nothing below it.
LEMMA TreeStep ==
    ASSUME Inv, TreeFits, [Next]_vars
    PROVE  TreeFits'
  <1>1. CASE UNCHANGED <<at, steady>>
    BY <1>1 DEF TreeFits, Trees
  <1>2. CASE Start
    <2>1. at' = at /\ steady' = Places
      BY <1>2 DEF Start, treeVars
    <2> QED BY <2>1, TreeAssumption DEF TreeFits, Trees
  <1>3. ASSUME NEW m \in Places, Replace(m)
        PROVE  TreeFits'
    <2>1. /\ at' \in Trees /\ \A n \in Places \ Under(m) : at'[n] = at[n]
          /\ steady' = steady \ Under(m)
      BY <1>3 DEF Replace
    <2>2. ASSUME NEW n \in Nodes \cap steady', at'[n] # "absent"
          PROVE  Parent[n] \in steady'
      <3>1. n \in Places /\ n \notin Under(m) /\ Parent[n] \in Places
        BY <2>1, RootWay
      <3>2. Parent[n] \in steady
        BY <2>1, <2>2, <3>1 DEF TreeFits
      <3>3. Parent[n] \notin Under(m)
        BY <3>1, DepthAssumption DEF Under
      <3> QED BY <2>1, <3>2, <3>3
    <2> QED BY <2>1, <2>2 DEF TreeFits
  <1>4. ASSUME NEW f \in Files, WriteFile(f)
        PROVE  TreeFits'
    <2>1. at' = at /\ steady' = {n \in steady : TooLarge(n)' = TooLarge(n)}
      BY <1>4 DEF WriteFile
    <2>2. ASSUME NEW n \in Nodes \cap steady', at[n] # "absent"
          PROVE  Parent[n] \in steady'
      <3>1. Parent[n] \in steady /\ at[Parent[n]] \notin Files
        BY <2>1, <2>2, TreeFacts DEF TreeFits
      <3>2. TooLarge(Parent[n])' = TooLarge(Parent[n])
        BY <2>1, <3>1 DEF TooLarge
      <3> QED BY <2>1, <3>1, <3>2
    <2> QED BY <2>1, <2>2 DEF TreeFits, Trees
  <1>5. Walk \/ Feed => UNCHANGED <<at, steady>>
    BY DEF Walk, Enter, List, Visit, Leave, Authorize, Stat, OpenAndRead,
           ReadRest, Compare, Feed, treeVars
  <1>6. UNCHANGED vars => UNCHANGED <<at, steady>>
    BY DEF vars, treeVars
  <1> QED BY <1>1, <1>2, <1>3, <1>4, <1>5, <1>6, FileAssumption DEF Next

\* While the walk stands still, the user takes nodes out of steady and lets
\* the others be.
LEMMA EditKeepsWalk ==
    ASSUME NEW listed, WalkFits(listed), UNCHANGED <<pc, stack, found>>,
           here'.node = here.node,
           steady' \subseteq steady,
           \A n \in steady' : at'[n] = at[n] /\ TooLarge(n)' = TooLarge(n)
    PROVE  WalkFits(listed)'
  <1>1. ListedFit(listed)' /\ FoundFit(listed)'
    BY DEF WalkFits, ListedFit, FoundFit
  <1>2. \A i \in DOMAIN stack : \A e \in stack[i] : EntryFits(i, e, listed)'
    BY DEF WalkFits, EntryFits, Kind
  <1>3. HereFits(listed)'
    BY DEF WalkFits, HereFits
  <1>4. NothingIsMissed(listed)'
    <2> SUFFICES ASSUME NEW n \in Nodes \cap steady', at'[n] # "absent",
                        Parent[n] \in listed
                 PROVE  Waiting(n)' \/ InHand(n)' \/ IsHandled(n, listed)'
      BY DEF NothingIsMissed
    <2>1. n \in Nodes \cap steady /\ at'[n] = at[n] /\ TooLarge(n)' = TooLarge(n)
      OBVIOUS
    <2>2. Waiting(n) \/ InHand(n) \/ IsHandled(n, listed)
      BY <2>1 DEF WalkFits, NothingIsMissed
    <2> QED BY <2>1, <2>2 DEF Waiting, InHand, IsHandled
  <1>5. pc' = "done" => stack' = <<>>
    BY DEF WalkFits
  <1> QED BY <1>1, <1>2, <1>3, <1>4, <1>5 DEF WalkFits

\* A step within a directory or a file goes on with the node in hand.
LEMMA ForwardKeepsWalk ==
    ASSUME NEW listed, WalkFits(listed), HereFits(listed)',
           UNCHANGED <<at, size, steady, stack, found>>, here'.node = here.node,
           \/ pc = "enter" /\ pc' = "list"
           \/ pc \in FileStages /\ pc' \in FileStages
    PROVE  WalkFits(listed)'
  <1>1. ListedFit(listed)' /\ FoundFit(listed)'
    BY DEF WalkFits, ListedFit, FoundFit, FileStages
  <1>2. \A i \in DOMAIN stack : \A e \in stack[i] : EntryFits(i, e, listed)'
    BY DEF WalkFits, EntryFits, Kind
  <1>3. NothingIsMissed(listed)'
    <2> SUFFICES ASSUME NEW n \in Nodes \cap steady, at[n] # "absent",
                        Parent[n] \in listed
                 PROVE  Waiting(n)' \/ InHand(n)' \/ IsHandled(n, listed)'
      BY DEF NothingIsMissed
    <2>1. Waiting(n) \/ InHand(n) \/ IsHandled(n, listed)
      BY DEF WalkFits, NothingIsMissed
    <2>2. InHand(n) => InHand(n)'
      BY DEF InHand
    <2> QED BY <2>1, <2>2 DEF Waiting, IsHandled, TooLarge
  <1>4. pc' # "done"
    BY DEF FileStages
  <1> QED BY <1>1, <1>2, <1>3, <1>4 DEF WalkFits

\* Nothing is listed and the root is in hand.
LEMMA StartBeginsWalk ==
    ASSUME Start, pc' # "failed"
    PROVE  WalkFits({})'
  <1>1. /\ pc' = "enter" /\ stack' = <<>> /\ found' = {}
        /\ here' = [Nowhere EXCEPT !.node = Root]
    BY DEF Start, Fail, At
  <1>2. here'.node = Root /\ Len(stack') = 0 /\ DOMAIN stack' = {}
    BY <1>1, AtType DEF Places
  <1>3. ListedFit({})' /\ FoundFit({})' /\ NothingIsMissed({})'
    BY <1>1, <1>2 DEF ListedFit, FoundFit, NothingIsMissed
  <1>4. HereFits({})'
    BY <1>1, <1>2, TreeAssumption, DepthAssumption DEF HereFits, FileStages
  <1> QED BY <1>1, <1>2, <1>3, <1>4 DEF WalkFits

\* A directory that is entered is not too deep.
LEMMA EnterKeepsWalk ==
    ASSUME Inv, NEW listed, WalkFits(listed), Enter, pc' # "failed"
    PROVE  WalkFits(listed)'
  <1>1. /\ pc = "enter" /\ pc' = "list" /\ ~ TooDeep(Len(stack))
        /\ at[here.node] # "link"
        /\ UNCHANGED <<at, size, steady, stack, here, found>>
    BY DEF Enter, Fail, treeVars
  <1>2. Len(stack) \in Nat
    BY LenProperties DEF Inv, TypeOK
  <1>3. Depth[here.node] <= MaxDepth
    BY <1>1, <1>2, BoundsAssumption DEF WalkFits, HereFits, TooDeep
  <1>4. HereFits(listed)'
    BY <1>1, <1>3 DEF WalkFits, HereFits, FileStages
  <1> QED BY <1>1, <1>4, ForwardKeepsWalk

\* A directory is listed: what is in it waits, and lies below nothing that
\* was listed before.
LEMMA ListKeepsWalk ==
    ASSUME Inv, TreeFits, NEW listed, WalkFits(listed), List, pc' # "failed",
           NEW now, now = listed \cup {here.node}
    PROVE  WalkFits(now)'
  <1> DEFINE dir == here.node
  <1>1. PICK listing : listing = Listing(dir) /\ stack' = Append(stack, listing)
                       /\ at[dir] \in {"dir", "link"}
    BY DEF List, Fail
  <1>2. /\ pc = "list" /\ pc' = "walk" /\ here' = Nowhere
        /\ UNCHANGED <<at, size, steady, found>>
    BY DEF List, Fail, treeVars
  <1>3. /\ dir \in Places /\ stack \in Seq(SUBSET Entry)
        /\ found \subseteq Found
    BY <1>2 DEF Inv, TypeOK, HandFitsItsStage
  <1>4. /\ Len(stack) \in Nat /\ DOMAIN stack = 1 .. Len(stack)
        /\ DOMAIN stack' = 1 .. Len(stack) + 1
        /\ \A i \in DOMAIN stack : stack'[i] = stack[i]
        /\ stack'[Len(stack) + 1] = listing
    BY <1>1, <1>3, LenProperties
  <1>5. /\ dir \notin listed /\ Depth[dir] = Len(stack) /\ Depth[dir] <= MaxDepth
        /\ dir \in Nodes => Parent[dir] \in listed
        /\ dir \in steady => at[dir] = "dir"
    BY <1>1, <1>2 DEF WalkFits, HereFits
  <1>6. here'.node = None
    BY <1>2 DEF Nowhere
  <1>7. \A e \in listing :
          /\ e.node \in Nodes /\ Parent[e.node] = dir /\ e.kind = Kind(e.node)
          /\ \A d \in listing : d.node = e.node => d = e
    BY <1>1 DEF Listing, Children
  <1>8. ListedFit(now)'
    BY <1>2, <1>3, <1>5 DEF WalkFits, ListedFit
  <1>9. ASSUME NEW i \in DOMAIN stack', NEW e \in stack'[i]
        PROVE  EntryFits(i, e, now)'
    <2>1. CASE i \in DOMAIN stack
      <3>1. e \in stack[i] /\ stack'[i] = stack[i]
        BY <1>4, <1>9, <2>1
      <3>2. EntryFits(i, e, listed)
        BY <2>1, <3>1 DEF WalkFits
      <3>3. e.node # None
        BY <1>3, <1>4, <2>1, <3>1, TreeAssumption DEF Entry, Places
      <3> QED BY <1>2, <1>6, <3>1, <3>2, <3>3 DEF EntryFits, Kind
    <2>2. CASE i \notin DOMAIN stack
      <3>1. i = Len(stack) + 1 /\ e \in listing /\ stack'[i] = listing
        BY <1>4, <1>9, <2>2
      <3>2. /\ e.node \in Nodes /\ Parent[e.node] = dir
            /\ e.kind = Kind(e.node)
            /\ \A d \in listing : d.node = e.node => d = e
        BY <1>7, <3>1
      <3>3. Depth[e.node] = i /\ e.node # dir
        BY <1>4, <1>5, <3>1, <3>2, DepthAssumption
      <3>4. e.node \notin listed
        BY <1>5, <3>2 DEF WalkFits, ListedFit
      <3>5. \A f \in found : f.node # e.node
        BY <1>5, <3>2 DEF WalkFits, FoundFit
      <3>6. e.node # None
        BY <3>2, TreeAssumption DEF Places
      <3> QED BY <1>2, <1>6, <3>1, <3>2, <3>3, <3>4, <3>5, <3>6 DEF EntryFits, Kind, Places
    <2> QED BY <2>1, <2>2
  <1>10. HereFits(now)'
    BY <1>2, <1>6 DEF HereFits, FileStages
  <1>11. FoundFit(now)'
    BY <1>2 DEF WalkFits, FoundFit
  <1>12. NothingIsMissed(now)'
    <2> SUFFICES ASSUME NEW n \in Nodes \cap steady, at[n] # "absent",
                        Parent[n] \in now
                 PROVE  Waiting(n)' \/ IsHandled(n, now)'
      BY <1>2 DEF NothingIsMissed
    <2>1. CASE Parent[n] = dir
      <3>1. [node |-> n, kind |-> Kind(n)] \in listing
        BY <1>1, <2>1 DEF Listing, Children
      <3> QED BY <1>4, <3>1 DEF Waiting
    <2>2. CASE Parent[n] \in listed
      <3>1. CASE Waiting(n)
        BY <1>4, <3>1 DEF Waiting
      <3>2. CASE InHand(n)
        <4>1. n = dir /\ at[n] = "dir" /\ n \in now
          BY <1>1, <1>5, <3>2 DEF InHand
        <4> QED BY <1>2, <4>1, NoFileKinds DEF IsHandled, TooLarge
      <3>3. CASE IsHandled(n, listed)
        BY <1>2, <3>3 DEF IsHandled, TooLarge
      <3> QED BY <2>2, <3>1, <3>2, <3>3 DEF WalkFits, NothingIsMissed
    <2> QED BY <2>1, <2>2
  <1> QED BY <1>2, <1>8, <1>9, <1>10, <1>11, <1>12 DEF WalkFits

\* An entry leaves the stack into the hand, or is nothing to read.
LEMMA VisitKeepsWalk ==
    ASSUME Inv, NEW listed, WalkFits(listed), Visit, pc' # "failed"
    PROVE  WalkFits(listed)'
  <1>1. PICK e \in Top :
          /\ ~ Refused(e.node)
          /\ stack' = [stack EXCEPT ![Len(stack)] = Top \ {e}]
          /\ IF e.kind = "dir" THEN pc' = "enter" /\ At(e.node)
             ELSE IF Wanted(e) THEN pc' = "authorize" /\ At(e.node)
             ELSE UNCHANGED <<pc, here>>
    BY DEF Visit, Fail, Rest
  <1>2. pc = "walk" /\ stack # <<>> /\ UNCHANGED <<at, size, steady, found>>
    BY DEF Visit, Fail, treeVars
  <1>3. stack \in Seq(SUBSET Entry)
    BY DEF Inv, TypeOK
  <1>4. /\ Len(stack) \in Nat \ {0} /\ DOMAIN stack = 1 .. Len(stack)
    BY <1>2, <1>3, EmptySeq, LenProperties
  <1>5. /\ Len(stack) \in DOMAIN stack
        /\ DOMAIN stack' = DOMAIN stack /\ Len(stack') = Len(stack)
        /\ stack'[Len(stack)] = Top \ {e}
        /\ \A i \in DOMAIN stack \ {Len(stack)} : stack'[i] = stack[i]
    BY <1>1, <1>3, <1>4, ExceptSeq
  <1>6. EntryFits(Len(stack), e, listed) /\ e.node \in Nodes
    <2>1. e \in stack[Len(stack)] /\ stack[Len(stack)] \subseteq Entry
      BY <1>3, <1>4 DEF Top
    <2> QED BY <1>5, <2>1 DEF WalkFits, Entry
  <1>7. e.node \in Places
    BY <1>6 DEF Places
  <1>8. \/ pc' = "enter" /\ here'.node = e.node /\ e.kind = "dir"
        \/ pc' = "authorize" /\ here'.node = e.node
        \/ /\ pc' = "walk" /\ here' = here
           /\ e.kind # "dir" /\ ~ Wanted(e)
    BY <1>1, <1>2, <1>7, AtType DEF At
  <1>9. here.node = None
    BY <1>2 DEF WalkFits, HereFits
  <1>10. ListedFit(listed)' /\ FoundFit(listed)'
    BY <1>2 DEF WalkFits, ListedFit, FoundFit
  <1>11. ASSUME NEW i \in DOMAIN stack', NEW d \in stack'[i]
         PROVE  EntryFits(i, d, listed)'
    <2>1. i \in DOMAIN stack /\ stack'[i] \subseteq stack[i] /\ d \in stack[i]
      BY <1>5, <1>11 DEF Top
    <2>2. EntryFits(i, d, listed)
      BY <2>1 DEF WalkFits
    <2>3. d.node # e.node
      <3>1. CASE i = Len(stack)
        <4>1. d \in Top /\ d # e
          BY <1>5, <1>11, <3>1
        <4> QED BY <1>6, <4>1 DEF EntryFits, Top
      <3>2. CASE i # Len(stack)
        BY <1>6, <2>2, <3>2 DEF EntryFits
      <3> QED BY <3>1, <3>2
    <2>4. d.node # here'.node
      BY <1>8, <2>2, <2>3 DEF EntryFits
    <2>5. \A c \in stack'[i] : c.node = d.node => c = d
      BY <2>1, <2>2 DEF EntryFits
    <2> QED BY <1>2, <2>2, <2>4, <2>5 DEF EntryFits, Kind
  <1>12. HereFits(listed)'
    BY <1>2, <1>5, <1>6, <1>8, <1>9 DEF HereFits, EntryFits, FileStages
  <1>13. NothingIsMissed(listed)'
    <2> SUFFICES ASSUME NEW n \in Nodes \cap steady, at[n] # "absent",
                        Parent[n] \in listed
                 PROVE  Waiting(n)' \/ InHand(n)' \/ IsHandled(n, listed)'
      BY <1>2 DEF NothingIsMissed
    <2>1. CASE n = e.node
      <3>1. Kind(n) = e.kind /\ at[n] # "link"
        BY <1>1, <1>6, <2>1 DEF EntryFits, Refused
      <3>2. CASE pc' \in {"enter", "authorize"}
        BY <1>8, <2>1, <3>2 DEF InHand, FileStages
      <3>3. CASE e.kind # "dir" /\ ~ Wanted(e)
        BY <1>2, <2>1, <3>1, <3>3, NoFileKinds DEF IsHandled, Wanted, Kind, TooLarge
      <3> QED BY <1>8, <3>2, <3>3
    <2>2. CASE n # e.node
      <3>1. CASE Waiting(n)
        <4>1. PICK i \in DOMAIN stack : \E d \in stack[i] : d.node = n
          BY <3>1 DEF Waiting
        <4>2. PICK d \in stack[i] : d.node = n
          BY <4>1
        <4>3. i \in DOMAIN stack' /\ d \in stack'[i]
          BY <1>5, <2>2, <4>1, <4>2 DEF Top
        <4> QED BY <4>2, <4>3 DEF Waiting
      <3>2. ~ InHand(n)
        BY <1>2 DEF InHand, FileStages
      <3>3. CASE IsHandled(n, listed)
        BY <1>2, <3>3 DEF IsHandled, TooLarge
      <3> QED BY <3>1, <3>2, <3>3 DEF WalkFits, NothingIsMissed
    <2> QED BY <2>1, <2>2
  <1>14. pc' # "done"
    BY <1>8
  <1> QED BY <1>10, <1>11, <1>12, <1>13, <1>14 DEF WalkFits

\* The listing that is left was used up.
LEMMA LeaveKeepsWalk ==
    ASSUME Inv, NEW listed, WalkFits(listed), Leave
    PROVE  WalkFits(listed)'
  <1>1. /\ pc = "walk" /\ stack # <<>> /\ Top = {} /\ stack' = Above
        /\ pc' = IF Len(stack) = 1 THEN "done" ELSE "walk"
        /\ UNCHANGED <<at, size, steady, here, found>>
    BY DEF Leave, treeVars
  <1>2. stack \in Seq(SUBSET Entry)
    BY DEF Inv, TypeOK
  <1>3. Len(stack) \in Nat \ {0} /\ DOMAIN stack = 1 .. Len(stack)
    BY <1>1, <1>2, EmptySeq, LenProperties
  <1>4. /\ stack' \in Seq(SUBSET Entry) /\ Len(stack') = Len(stack) - 1
        /\ DOMAIN stack' = 1 .. Len(stack) - 1
        /\ \A i \in DOMAIN stack' : i \in DOMAIN stack /\ stack'[i] = stack[i]
    <2>1. \A i \in 1 .. Len(stack) - 1 : stack[i] \in SUBSET Entry
      BY <1>2, <1>3, ElementOfSeq
    <2> QED BY <1>1, <1>2, <1>3, <2>1, SubSeqProperties DEF Above
  <1>5. ListedFit(listed)' /\ FoundFit(listed)'
    BY <1>1 DEF WalkFits, ListedFit, FoundFit
  <1>6. \A i \in DOMAIN stack' : \A e \in stack'[i] : EntryFits(i, e, listed)'
    BY <1>1, <1>4 DEF WalkFits, EntryFits, Kind
  <1>7. HereFits(listed)'
    BY <1>1 DEF WalkFits, HereFits, FileStages
  <1>8. NothingIsMissed(listed)'
    <2> SUFFICES ASSUME NEW n \in Nodes \cap steady, at[n] # "absent",
                        Parent[n] \in listed
                 PROVE  Waiting(n)' \/ IsHandled(n, listed)'
      BY <1>1 DEF NothingIsMissed
    <2>1. CASE Waiting(n)
      <3>1. PICK i \in DOMAIN stack : \E e \in stack[i] : e.node = n
        BY <2>1 DEF Waiting
      <3>2. i \in DOMAIN stack' /\ stack'[i] = stack[i]
        BY <1>1, <1>3, <1>4, <3>1 DEF Top
      <3> QED BY <3>1, <3>2 DEF Waiting
    <2>2. ~ InHand(n)
      BY <1>1 DEF InHand, FileStages
    <2>3. CASE IsHandled(n, listed)
      BY <1>1, <2>3 DEF IsHandled, TooLarge
    <2> QED BY <2>1, <2>2, <2>3 DEF WalkFits, NothingIsMissed
  <1>9. pc' = "done" => stack' = <<>>
    BY <1>1, <1>3, <1>4, EmptySeq
  <1> QED BY <1>5, <1>6, <1>7, <1>8, <1>9 DEF WalkFits

\* Within parse_text the walk stands still.
LEMMA ReadingKeepsWalk ==
    ASSUME Inv, NEW listed, WalkFits(listed), pc' # "failed",
           Authorize \/ Stat \/ OpenAndRead \/ ReadRest \/ Feed
    PROVE  WalkFits(listed)'
  <1>1. here \in Here
    BY DEF Inv, TypeOK
  <1>2. /\ here'.node = here.node
        /\ pc \in FileStages /\ pc' \in FileStages \ {"authorize"}
        /\ UNCHANGED <<at, size, steady, stack, found>>
        /\ pc = "authorize" => at[here.node] \in Files /\ ~TooLarge(here.node)
    BY <1>1 DEF Authorize, Stat, Open, OpenAndRead, ReadRest, Feed, Fail, treeVars,
                FileStages, Here, Authorized
  <1>3. HereFits(listed)'
    BY <1>2 DEF WalkFits, HereFits, FileStages, TooLarge
  <1> QED BY <1>2, <1>3, ForwardKeepsWalk

\* The file in hand was read, for the first time.
LEMMA CompareKeepsWalk ==
    ASSUME Inv, NEW listed, WalkFits(listed), Compare, pc' # "failed"
    PROVE  WalkFits(listed)'
  <1> DEFINE file == here.node
             new == [node |-> file, authorized |-> here.authorized,
                     known |-> here.before.object, opened |-> here.opened,
                     first |-> here.first, last |-> here.last, swapped |-> here.swapped]
  <1>1. /\ pc = "compare" /\ pc' = "walk" /\ here' = Nowhere
        /\ found' = found \cup {new}
        /\ UNCHANGED <<at, size, steady, stack>>
    BY DEF Compare, Fail, treeVars
  <1>2. /\ Parent[file] \in listed /\ \A f \in found : f.node # file
        /\ file \in steady => at[file] \in Files /\ ~TooLarge(file)
    BY <1>1 DEF WalkFits, HereFits, FileStages
  <1>3. new.node = file /\ here'.node = None
    BY <1>1 DEF Nowhere
  <1> HIDE DEF new, file
  <1>4. ListedFit(listed)'
    BY <1>1 DEF WalkFits, ListedFit
  <1>5. ASSUME NEW i \in DOMAIN stack, NEW e \in stack[i]
        PROVE  EntryFits(i, e, listed)'
    <2>1. EntryFits(i, e, listed)
      BY <1>5 DEF WalkFits
    <2>2. e.node # None
      BY <1>5, TreeAssumption, ElementOfSeq, LenProperties DEF Inv, TypeOK, Entry, Places
    <2> QED BY <1>1, <1>3, <2>1, <2>2 DEF EntryFits, file, Kind
  <1>6. HereFits(listed)'
    BY <1>1, <1>3 DEF HereFits, FileStages
  <1>7. FoundFit(listed)'
    BY <1>1, <1>2, <1>3 DEF WalkFits, FoundFit
  <1>8. NothingIsMissed(listed)'
    <2> SUFFICES ASSUME NEW n \in Nodes \cap steady, at[n] # "absent",
                        Parent[n] \in listed
                 PROVE  Waiting(n)' \/ IsHandled(n, listed)'
      BY <1>1 DEF NothingIsMissed
    <2>1. CASE Waiting(n)
      BY <1>1, <2>1 DEF Waiting
    <2>2. CASE InHand(n)
      BY <1>1, <1>2, <1>3, <2>2, NoFileKinds DEF InHand, IsHandled, file, TooLarge
    <2>3. CASE IsHandled(n, listed)
      BY <1>1, <2>3 DEF IsHandled, TooLarge
    <2> QED BY <2>1, <2>2, <2>3 DEF WalkFits, NothingIsMissed
  <1> QED BY <1>1, <1>4, <1>5, <1>6, <1>7, <1>8 DEF WalkFits

LEMMA InitEstablishesWalk == Init => WalkInv
  BY DEF Init, WalkInv, TreeFits

LEMMA NextKeepsWalk == Inv /\ WalkInv /\ [Next]_vars => WalkInv'
  <1> SUFFICES ASSUME Inv, WalkInv, [Next]_vars, pc' \notin {"idle", "failed"}
               PROVE  (\E listed \in SUBSET Places : WalkFits(listed))'
    BY TreeStep DEF WalkInv
  <1>1. CASE Start
    BY <1>1, StartBeginsWalk
  <1>2. CASE ~ Start
    <2>1. pc \notin {"idle", "failed"}
      BY <1>2 DEF Next, Walk, Enter, List, Visit, Leave, Authorize, Stat,
                  OpenAndRead, ReadRest, Compare, Feed, Replace, WriteFile, vars, walkVars
    <2>2. PICK listed \in SUBSET Places : WalkFits(listed)
      BY <2>1 DEF WalkInv
    <2>3. CASE List
      <3>1. PICK now \in SUBSET Places : now = listed \cup {here.node}
        BY <2>3 DEF List, Inv, HandFitsItsStage
      <3>2. WalkFits(now)'
        BY <2>2, <2>3, <3>1, ListKeepsWalk DEF WalkInv
      <3> QED BY <3>2
    <2>4. CASE Walk /\ ~ List
      BY <2>2, <2>4, EnterKeepsWalk, VisitKeepsWalk, LeaveKeepsWalk,
         ReadingKeepsWalk, CompareKeepsWalk DEF Walk
    <2>5. CASE Feed
      BY <2>2, <2>5, ReadingKeepsWalk
    <2>6. CASE ~ Walk /\ ~ Feed
      <3>1. /\ UNCHANGED <<pc, stack, found>> /\ here'.node = here.node
            /\ steady' \subseteq steady
            /\ \A n \in steady' : at'[n] = at[n] /\ TooLarge(n)' = TooLarge(n)
        <4>1. CASE \E n \in Movable : Replace(n)
          <5>1. PICK n \in Movable : Replace(n)
            BY <4>1
          <5>2. here \in Here /\ steady \subseteq Places
            BY DEF Inv, TypeOK
          <5> QED BY <5>1, <5>2 DEF Replace, TooLarge, Here
        <4>2. CASE \E f \in Files : WriteFile(f)
          BY <4>2 DEF WriteFile, walkVars
        <4>3. CASE UNCHANGED vars
          BY <4>3 DEF vars, treeVars, walkVars, TooLarge
        <4> QED BY <1>2, <2>6, <4>1, <4>2, <4>3 DEF Next
      <3> QED BY <2>2, <3>1, EditKeepsWalk
    <2> QED BY <2>3, <2>4, <2>5, <2>6
  <1> QED BY <1>1, <1>2

\* A set of numbers that is not empty has a least one.
LEMMA LeastNat ==
    ASSUME NEW T, T \subseteq Nat, T # {}
    PROVE  \E n \in T : \A m \in T : n <= m
  <1> DEFINE R == OpToRel(<, Nat)
  <1>1. IsWellFoundedOn(R, Nat)
    BY NatLessThanWellFounded
  <1>2. R = {ss \in Nat \X Nat : ss[1] < ss[2]}
    BY DEF OpToRel
  <1> HIDE DEF R
  <1>3. PICK n \in T : \A m \in T : ~ (<<m, n>> \in R)
    BY <1>1, WFMin
  <1>4. ASSUME NEW m \in T PROVE n <= m
    <2>1. <<m, n>> \in Nat \X Nat /\ <<m, n>>[1] = m /\ <<m, n>>[2] = n
      BY <1>3, <1>4
    <2>2. ~ (m < n)
      BY <1>2, <1>3, <1>4, <2>1
    <2> QED BY <1>3, <1>4, <2>2
  <1> QED BY <1>3, <1>4

\* A walk that is done has listed the directory of everything that was there
\* all the time: were one missed, take the least deep, whose parent was not.
LEMMA EveryDirectoryIsListed ==
    ASSUME Inv, TreeFits, NEW listed, WalkFits(listed), pc = "done"
    PROVE  \A n \in Nodes \cap steady : at[n] # "absent" =>
               Parent[n] \in listed /\ IsHandled(n, listed)
  <1> DEFINE Missed == {n \in Nodes \cap steady :
                          at[n] # "absent" /\ Parent[n] \notin listed}
  <1>1. Root \in listed
    BY DEF WalkFits, ListedFit
  <1>2. ASSUME NEW n \in Nodes \cap steady, at[n] # "absent",
               Parent[n] \in listed
        PROVE  IsHandled(n, listed)
    <2>1. stack = <<>> /\ here.node = None
      BY DEF WalkFits, HereFits
    <2>2. ~ Waiting(n) /\ ~ InHand(n)
      BY <2>1 DEF Waiting, InHand, FileStages
    <2> QED BY <1>2, <2>2 DEF WalkFits, NothingIsMissed
  <1>3. Missed = {}
    <2> SUFFICES ASSUME Missed # {} PROVE FALSE
      OBVIOUS
    <2>1. PICK n \in Missed : \A m \in Missed : Depth[n] <= Depth[m]
      <3> DEFINE T == {Depth[m] : m \in Missed}
      <3>1. T \subseteq Nat /\ T # {}
        BY DepthAssumption DEF Places
      <3>2. PICK t \in T : \A u \in T : t <= u
        BY <3>1, LeastNat
      <3> QED BY <3>2
    <2>2. /\ Parent[n] \in steady /\ at[Parent[n]] \in {"dir", "link"}
          /\ Parent[n] \in Nodes \cup {Root}
          /\ Depth[n] = Depth[Parent[n]] + 1 /\ Depth[Parent[n]] \in Nat
      BY <2>1, TreeAssumption, DepthAssumption, TreeFacts DEF TreeFits, Places
    <2>3. Parent[n] \in Nodes /\ Parent[n] \notin listed
      BY <1>1, <2>1, <2>2
    <2>4. Parent[n] \notin Missed
      BY <2>1, <2>2
    <2>5. IsHandled(Parent[n], listed)
      BY <1>2, <2>2, <2>3, <2>4
    <2> QED BY <2>2, <2>3, <2>5 DEF IsHandled
  <1> QED BY <1>2, <1>3

LEMMA DoneMeansComplete == Inv /\ WalkInv => ScansAreComplete
  <1> SUFFICES ASSUME Inv, WalkInv, pc = "done", NEW n \in Nodes \cap steady
               PROVE
                 /\ at[n] \in Files /\ n \in Eligible =>
                      \E f \in found : /\ f.node = n
                                       /\ \A g \in found : g.node = n => g = f
                 /\ at[n] # "link"
                 /\ n \in Eligible => ~TooLarge(n)
                 /\ at[n] = "dir" => Depth[n] <= MaxDepth
    BY DEF ScansAreComplete
  <1>1. PICK listed : WalkFits(listed)
    BY DEF WalkInv
  <1>2. at[n] # "absent" => IsHandled(n, listed)
    BY <1>1, EveryDirectoryIsListed DEF WalkInv
  <1>3. /\ \A m \in listed : Depth[m] <= MaxDepth
        /\ \A f, g \in found : f.node = g.node => f = g
    BY <1>1 DEF WalkFits, ListedFit, FoundFit
  <1> QED BY <1>2, <1>3, NoFileKinds DEF IsHandled, TooLarge

\* A scan that returns has one result of every eligible file that was there all
\* the time, and found nothing to refuse, however large and deep the tree and
\* however often its user changed it (LocalFileConnector._scan_directory).
THEOREM ScanReadsEverything == Spec => []ScansAreComplete
  <1>1. Spec => []WalkInv
    BY InvariantHolds, InitEstablishesWalk, NextKeepsWalk, PTL DEF Spec
  <1> QED BY <1>1, InvariantHolds, DoneMeansComplete, PTL
=============================================================================
