-------------------------- MODULE ChatImportProofs --------------------------
(***************************************************************************)
(* ChatImport: however many processes import an export that its user goes  *)
(* on changing, what is stored are the windows of one export that passed   *)
(* the checks, sound and in order, and an import keeps the windows that    *)
(* the change of its export does not reach.  The runs of the imports stay  *)
(* theirs, so that the imports take the steps of SnapshotLedger.           *)
(*                                                                         *)
(* The first half says what the pass of split_conversation and sorted make *)
(* of any sequence of messages.  An induction over messages is an argument *)
(* by a least counterexample (LeastNat, UpTo); the fold of the community   *)
(* modules is the CHOOSE of an iteration, which has to be shown to exist   *)
(* (FoldExists) before anything can be said of it.                         *)
(***************************************************************************)
EXTENDS ChatImport, SequenceTheorems, FiniteSetTheorems, WellFoundedInduction,
        TLAPS

----------------------------------------------------------------------------
(* Induction without an induction theorem, and the folds                   *)

\* A set of numbers has a least one.
LEMMA LeastNat ==
    ASSUME NEW T, T \subseteq Nat, T # {}
    PROVE  \E n \in T : \A m \in T : n <= m
  <1> DEFINE R == OpToRel(<, Nat)
  <1>1. IsWellFoundedOn(R, Nat)
    BY NatLessThanWellFounded
  <1>2. R = {ss \in Nat \X Nat : ss[1] < ss[2]}
    BY DEF OpToRel
  <1> HIDE DEF R
  <1>3. PICK n \in T : \A m \in T : ~ (<<m, n>> \in R)
    BY <1>1, WFMin
  <1>4. ASSUME NEW m \in T PROVE n <= m
    <2>1. <<m, n>> \in Nat \X Nat /\ <<m, n>>[1] = m /\ <<m, n>>[2] = n
      BY <1>3, <1>4
    <2>2. ~ (m < n)
      BY <1>2, <1>3, <1>4, <2>1
    <2> QED BY <1>3, <1>4, <2>2
  <1> QED BY <1>3, <1>4

\* Induction up to n, for a set of numbers.
LEMMA UpTo ==
    ASSUME NEW n \in Nat, NEW T, 0 \in T,
           \A k \in 1 .. n : k - 1 \in T => k \in T
    PROVE  \A k \in 0 .. n : k \in T
  <1> DEFINE Missing == {k \in 0 .. n : k \notin T}
  <1>1. SUFFICES ASSUME Missing # {} PROVE FALSE
    OBVIOUS
  <1>2. PICK k \in Missing : \A m \in Missing : k <= m
    <2>1. Missing \subseteq Nat
      OBVIOUS
    <2> HIDE DEF Missing
    <2> QED BY <1>1, <2>1, LeastNat
  <1>3. k \in 1 .. n /\ k - 1 \in 0 .. n
    BY <1>2
  <1>4. k - 1 \notin Missing
    BY <1>2, <1>3
  <1> QED BY <1>2, <1>3, <1>4

LEMMA MaxProperties ==
    ASSUME NEW n \in Nat, NEW S \in SUBSET (1 .. n), S # {}
    PROVE  Max(S) \in S /\ \A k \in S : k <= Max(S)
  <1> DEFINE T == {u \in 0 .. n : \A k \in S : k <= u}
  <1>1. n \in T
    OBVIOUS
  <1>2. PICK u \in T : \A m \in T : u <= m
    <2>1. T \subseteq Nat
      OBVIOUS
    <2> HIDE DEF T
    <2> QED BY <1>1, <2>1, LeastNat
  <1>3. u \in S
    <2>1. CASE u = 0
      <3>1. PICK k \in S : TRUE
        OBVIOUS
      <3>2. k <= 0 /\ k \in 1 .. n
        BY <1>2, <2>1
      <3> QED BY <3>2
    <2>2. CASE u # 0
      <3>1. u - 1 \in 0 .. n /\ u - 1 \notin T
        BY <1>2, <2>2
      <3>2. PICK k \in S : ~ (k <= u - 1)
        BY <3>1
      <3> QED BY <1>2, <3>1, <3>2
    <2> QED BY <2>1, <2>2
  <1>4. \A k \in S : u >= k
    BY <1>2
  <1>5. \A k \in S : (\A y \in S : k >= y) => k = u
    BY <1>3, <1>4
  <1>6. Max(S) \in S /\ \A y \in S : Max(S) >= y
    BY <1>3, <1>4 DEF Max
  <1> QED BY <1>6

LEMMA MaxOfTop ==
    ASSUME NEW n \in Nat \ {0}, NEW S \in SUBSET (1 .. n), n \in S
    PROVE  Max(S) = n
  <1>1. Max(S) \in S /\ \A k \in S : k <= Max(S)
    BY MaxProperties
  <1>2. Max(S) \in 1 .. n /\ n <= Max(S)
    BY <1>1
  <1> QED BY <1>2

\* f is the iteration of a FoldLeft, for every set of elements left to do.
Iterates(f, A, base, step, seq) ==
    /\ f \in [SUBSET (1 .. Len(seq)) -> A]
    /\ \A s \in SUBSET (1 .. Len(seq)) :
         f[s] = IF s = {} THEN base ELSE step[<<f[s \ {Max(s)}], seq[Max(s)]>>]

\* There is one.
LEMMA FoldExists ==
    ASSUME NEW A, NEW E, NEW base \in A, NEW step \in [A \X E -> A],
           NEW seq \in Seq(E)
    PROVE  \E f : Iterates(f, A, base, step, seq)
  <1> DEFINE Good(f, k) ==
               /\ f \in [SUBSET (1 .. k) -> A]
               /\ \A s \in SUBSET (1 .. k) :
                    f[s] = IF s = {} THEN base ELSE step[<<f[s \ {Max(s)}], seq[Max(s)]>>]
             n == Len(seq)
             T == {k \in 0 .. n : \E f : Good(f, k)}
  <1>1. n \in Nat
    OBVIOUS
  <1>2. 0 \in T
    <2> DEFINE f == [s \in SUBSET (1 .. 0) |-> base]
    <2>1. f \in [SUBSET (1 .. 0) -> A]
      OBVIOUS
    <2>2. \A s \in SUBSET (1 .. 0) : s = {} /\ f[s] = base
      OBVIOUS
    <2> HIDE DEF f
    <2>3. Good(f, 0)
      BY <2>1, <2>2
    <2> HIDE DEF Good
    <2> QED BY <1>1, <2>3
  <1>3. ASSUME NEW k \in 1 .. n, k - 1 \in T PROVE k \in T
    <2>1. PICK f : Good(f, k - 1)
      BY <1>3
    <2> DEFINE g == [s \in SUBSET (1 .. k) |->
                       IF k \in s THEN step[<<f[s \ {k}], seq[k]>>] ELSE f[s]]
    <2>2. k \in Nat \ {0} /\ seq[k] \in E
      BY <1>1, <1>3
    <2>3. \A s \in SUBSET (1 .. k) : k \notin s => s \in SUBSET (1 .. k - 1)
      BY <1>1, <1>3
    <2>4. \A s \in SUBSET (1 .. k) : s \ {k} \in SUBSET (1 .. k - 1)
      BY <1>1, <1>3
    <2>5. ASSUME NEW s \in SUBSET (1 .. k), k \notin s
          PROVE  /\ g[s] = f[s] /\ g[s] \in A
                 /\ g[s] = IF s = {} THEN base ELSE step[<<g[s \ {Max(s)}], seq[Max(s)]>>]
      <3>1. s \in SUBSET (1 .. k - 1) /\ g[s] = f[s]
        BY <2>3, <2>5
      <3>2. s \ {Max(s)} \in SUBSET (1 .. k) /\ k \notin s \ {Max(s)}
        BY <2>5
      <3>3. g[s \ {Max(s)}] = f[s \ {Max(s)}]
        BY <3>2
      <3> QED BY <2>1, <3>1, <3>3
    <2>6. ASSUME NEW s \in SUBSET (1 .. k), k \in s
          PROVE  /\ g[s] \in A /\ s # {}
                 /\ g[s] = step[<<g[s \ {Max(s)}], seq[Max(s)]>>]
      <3>1. Max(s) = k
        BY <2>2, <2>6, MaxOfTop
      <3>2. s \ {k} \in SUBSET (1 .. k - 1) /\ s \ {k} \in SUBSET (1 .. k)
        BY <2>4
      <3>3. f[s \ {k}] \in A
        BY <2>1, <3>2
      <3>4. g[s \ {k}] = f[s \ {k}]
        BY <3>2
      <3>5. g[s] = step[<<f[s \ {k}], seq[k]>>]
        BY <2>6
      <3>6. step[<<f[s \ {k}], seq[k]>>] \in A
        BY <2>2, <3>3
      <3> QED BY <2>6, <3>1, <3>4, <3>5, <3>6
    <2>7. g \in [SUBSET (1 .. k) -> A]
      <3>1. g = [s \in SUBSET (1 .. k) |-> g[s]]
        OBVIOUS
      <3> HIDE DEF g
      <3> QED BY <2>5, <2>6, <3>1
    <2>8. Good(g, k)
      <3> HIDE DEF g
      <3> QED BY <2>5, <2>6, <2>7
    <2> HIDE DEF Good
    <2> QED BY <1>3, <2>8
  <1> HIDE DEF Good
  <1>4. n \in T
    <2> HIDE DEF T
    <2>1. \A k \in 0 .. n : k \in T
      BY <1>1, <1>2, <1>3, UpTo
    <2> QED BY <1>1, <2>1
  <1>5. PICK f : Good(f, n)
    BY <1>4
  <1> QED BY <1>5 DEF Good, Iterates

\* The set a fold has still to do, from its last element.
LEMMA MaxOfInterval ==
    ASSUME NEW k \in Nat \ {0}
    PROVE  1 .. k # {} /\ Max(1 .. k) = k /\ (1 .. k) \ {k} = 1 .. k - 1
  <1>1. k \in 1 .. k /\ 1 .. k \in SUBSET (1 .. k)
    OBVIOUS
  <1>2. Max(1 .. k) = k
    BY <1>1, MaxOfTop
  <1> QED BY <1>1, <1>2

----------------------------------------------------------------------------
(* split_conversation                                                      *)

Timed(M) == \A m \in M : m.at \in Nat

LEMMA AddMessageType ==
    ASSUME NEW M, NEW windows \in Seq(Seq(M)), NEW message \in M,
           NEW size, NEW gap
    PROVE  AddMessage(windows, message, size, gap) \in Seq(Seq(M))
  <1>1. <<message>> \in Seq(M)
    OBVIOUS
  <1>2. CASE OpensWindow(windows, message, size, gap)
    BY <1>1, <1>2, AppendProperties DEF AddMessage
  <1>3. CASE ~OpensWindow(windows, message, size, gap)
    <2>1. Len(windows) \in 1 .. Len(windows)
      BY <1>3, EmptySeq DEF OpensWindow
    <2>2. windows[Len(windows)] \in Seq(M)
      BY <2>1, ElementOfSeq
    <2>3. Append(windows[Len(windows)], message) \in Seq(M)
      BY <2>2, AppendProperties
    <2> QED BY <1>3, <2>1, <2>3, ExceptSeq DEF AddMessage
  <1> QED BY <1>2, <1>3

\* run holds the windows after each message of the pass over a conversation.
Passes(run, M, messages, size, gap) ==
    /\ run \in [0 .. Len(messages) -> Seq(Seq(M))]
    /\ run[0] = <<>>
    /\ \A k \in 1 .. Len(messages) :
         run[k] = AddMessage(run[k - 1], messages[k], size, gap)
    /\ run[Len(messages)] = SplitConversation(messages, size, gap)

LEMMA ConversationRuns ==
    ASSUME NEW M, NEW messages \in Seq(M), NEW size, NEW gap
    PROVE  \E run : Passes(run, M, messages, size, gap)
  <1> DEFINE A == Seq(Seq(M))
             step == [x \in A \X M |-> AddMessage(x[1], x[2], size, gap)]
             n == Len(messages)
             IsIter(f) == f = [s \in SUBSET (DOMAIN messages) |->
                IF s = {} THEN <<>>
                ELSE AddMessage(f[s \ {Max(s)}], messages[Max(s)], size, gap)]
  <1>1. DOMAIN messages = 1 .. n /\ n \in Nat
    BY LenProperties
  <1>2. step \in [A \X M -> A] /\ <<>> \in A
    BY AddMessageType
  <1>3. \A w \in A, m \in M : step[<<w, m>>] = AddMessage(w, m, size, gap)
    OBVIOUS
  <1> HIDE DEF step, A
  <1>4. PICK f \in [SUBSET (1 .. n) -> A] :
          \A s \in SUBSET (1 .. n) :
            f[s] = IF s = {} THEN <<>> ELSE step[<<f[s \ {Max(s)}], messages[Max(s)]>>]
    <2>1. PICK f : Iterates(f, A, <<>>, step, messages)
      BY <1>2, FoldExists
    <2> QED BY <2>1 DEF Iterates
  <1>5. IsIter(f)
    <2>1. ASSUME NEW s \in SUBSET (1 .. n), s # {}
          PROVE  step[<<f[s \ {Max(s)}], messages[Max(s)]>>]
                   = AddMessage(f[s \ {Max(s)}], messages[Max(s)], size, gap)
      <3>1. Max(s) \in 1 .. n
        BY <1>1, <2>1, MaxProperties
      <3>2. f[s \ {Max(s)}] \in A /\ messages[Max(s)] \in M
        BY <1>4, <3>1, ElementOfSeq
      <3> QED BY <1>3, <3>2
    <2> QED BY <1>1, <1>4, <2>1
  <1> DEFINE g == CHOOSE h : IsIter(h)
  <1>6. IsIter(g)
    <2> HIDE DEF IsIter
    <2> QED BY <1>5, Zenon
  <1>7. SplitConversation(messages, size, gap) = g[1 .. n]
    <2>1. SplitConversation(messages, size, gap) = g[DOMAIN messages]
      BY DEF SplitConversation, FoldLeft, MapThenFoldSet
    <2> QED BY <1>1, <2>1
  <1> HIDE DEF g
  <1>8. \A s \in SUBSET (1 .. n) :
          g[s] = IF s = {} THEN <<>>
                 ELSE AddMessage(g[s \ {Max(s)}], messages[Max(s)], size, gap)
    BY <1>1, <1>6
  <1> HIDE DEF IsIter
  <1> DEFINE run == [k \in 0 .. n |-> g[1 .. k]]
  <1>9. run[0] = <<>>
    <2>1. 1 .. 0 = {} /\ 0 \in 0 .. n
      BY <1>1
    <2> QED BY <1>8, <2>1
  <1>10. ASSUME NEW k \in 1 .. n
         PROVE  run[k] = AddMessage(run[k - 1], messages[k], size, gap)
    <2>1. k \in Nat \ {0} /\ k - 1 \in 0 .. n /\ k \in 0 .. n /\ 1 .. k \in SUBSET (1 .. n)
      BY <1>1
    <2>2. 1 .. k # {} /\ Max(1 .. k) = k /\ (1 .. k) \ {k} = 1 .. k - 1
      BY <2>1, MaxOfInterval
    <2>3. g[1 .. k] = AddMessage(g[1 .. k - 1], messages[k], size, gap)
      BY <1>8, <2>1, <2>2
    <2> QED BY <2>1, <2>3
  <1>11. run[n] = SplitConversation(messages, size, gap)
    BY <1>1, <1>7
  <1> HIDE DEF run
  <1>12. ASSUME NEW k \in 0 .. n PROVE run[k] \in A
    <2> DEFINE T == {j \in 0 .. n : run[j] \in A}
    <2>1. 0 \in T
      BY <1>1, <1>2, <1>9
    <2>2. ASSUME NEW j \in 1 .. n, j - 1 \in T PROVE j \in T
      <3>1. run[j - 1] \in A /\ messages[j] \in M /\ j \in 0 .. n
        BY <1>1, <2>2, ElementOfSeq
      <3>2. AddMessage(run[j - 1], messages[j], size, gap) \in A
        BY <3>1, AddMessageType DEF A
      <3> QED BY <1>10, <3>1, <3>2
    <2> HIDE DEF T
    <2>3. \A j \in 0 .. n : j \in T
      BY <1>1, <2>1, <2>2, UpTo
    <2> QED BY <2>3 DEF T
  <1>13. run \in [0 .. n -> A]
    BY <1>12 DEF run
  <1> QED BY <1>9, <1>10, <1>11, <1>13 DEF A, Passes

LEMMA HeadIsFirst ==
    ASSUME NEW M, NEW s \in Seq(M), s # <<>>
    PROVE  Head(s) = s[1]
  <1>1. Len(s) \in Nat \ {0} /\ SubSeq(s, 1, Len(s)) = s
    BY EmptySeq, SubSeqFull
  <1>2. Head(SubSeq(s, 1, Len(s))) = s[1]
    BY <1>1, HeadTailOfSubSeq
  <1> QED BY <1>1, <1>2

\* WindowsAreTight, one window at a time.
TightWindow(window, size, gap) ==
    /\ Len(window) \in 1 .. size
    /\ \A i \in 2 .. Len(window) : window[i].at - window[i - 1].at <= gap

EndsBefore(window, next, size, gap) ==
    \/ Len(window) = size
    \/ next[1].at - window[Len(window)].at > gap

LEMMA TightInParts ==
    ASSUME NEW M, NEW windows \in Seq(Seq(M)), NEW size \in Nat, NEW gap \in Nat
    PROVE  WindowsAreTight(windows, size, gap) <=>
             /\ \A n \in 1 .. Len(windows) : TightWindow(windows[n], size, gap)
             /\ \A n \in 2 .. Len(windows) :
                  EndsBefore(windows[n - 1], windows[n], size, gap)
  <1>1. /\ Len(windows) \in Nat /\ DOMAIN windows = 1 .. Len(windows)
        /\ \A n \in 1 .. Len(windows) :
             windows[n] \in Seq(M) /\ DOMAIN windows[n] = 1 .. Len(windows[n])
    BY LenProperties, ElementOfSeq
  <1>2. (DOMAIN windows) \ {1} = 2 .. Len(windows)
    BY <1>1
  <1>3. ASSUME NEW n \in 1 .. Len(windows), Len(windows[n]) \in 1 .. size
        PROVE  /\ (DOMAIN windows[n]) \ {1} = 2 .. Len(windows[n])
               /\ Head(windows[n]) = windows[n][1]
    <2>1. windows[n] # <<>>
      BY <1>3
    <2> QED BY <1>1, <1>3, <2>1, HeadIsFirst
  <1>4. ASSUME \A n \in 1 .. Len(windows) : Len(windows[n]) \in 1 .. size
        PROVE  /\ \A n \in 1 .. Len(windows) : (DOMAIN windows[n]) \ {1} = 2 .. Len(windows[n])
               /\ \A n \in 2 .. Len(windows) : Head(windows[n]) = windows[n][1]
    BY <1>1, <1>3, <1>4
  <1>5. WindowsAreTight(windows, size, gap) =>
          \A n \in 1 .. Len(windows) : Len(windows[n]) \in 1 .. size
    BY <1>1 DEF WindowsAreTight
  <1>6. CASE \A n \in 1 .. Len(windows) : Len(windows[n]) \in 1 .. size
    <2>1. (\A n \in DOMAIN windows : \A i \in DOMAIN windows[n] \ {1} :
             windows[n][i].at - windows[n][i - 1].at <= gap)
          <=> (\A n \in 1 .. Len(windows) : \A i \in 2 .. Len(windows[n]) :
             windows[n][i].at - windows[n][i - 1].at <= gap)
      BY <1>1, <1>4, <1>6, Zenon
    <2>2. (\A n \in DOMAIN windows \ {1} :
             \/ Len(windows[n - 1]) = size
             \/ Head(windows[n]).at - Last(windows[n - 1]).at > gap)
          <=> (\A n \in 2 .. Len(windows) :
                EndsBefore(windows[n - 1], windows[n], size, gap))
      BY <1>2, <1>4, <1>6, Zenon DEF EndsBefore, Last
    <2> QED BY <1>1, <1>6, <2>1, <2>2, Zenon DEF WindowsAreTight, TightWindow
  <1>7. CASE ~ \A n \in 1 .. Len(windows) : Len(windows[n]) \in 1 .. size
    BY <1>5, <1>7, Zenon DEF TightWindow
  <1> QED BY <1>6, <1>7

\* One more message keeps the windows tight.
LEMMA AddMessageIsTight ==
    ASSUME NEW M, Timed(M), NEW windows \in Seq(Seq(M)), NEW message \in M,
           NEW size \in Nat \ {0}, NEW gap \in Nat,
           WindowsAreTight(windows, size, gap)
    PROVE  WindowsAreTight(AddMessage(windows, message, size, gap), size, gap)
  <1> DEFINE n == Len(windows)
             added == AddMessage(windows, message, size, gap)
  <1>1. /\ n \in Nat
        /\ \A k \in 1 .. n : TightWindow(windows[k], size, gap) /\ windows[k] \in Seq(M)
        /\ \A k \in 2 .. n : EndsBefore(windows[k - 1], windows[k], size, gap)
    BY TightInParts, ElementOfSeq
  <1>2. message.at \in Nat
    BY DEF Timed
  <1>3. added \in Seq(Seq(M))
    BY AddMessageType
  <1>4. CASE OpensWindow(windows, message, size, gap)
    <2> DEFINE new == <<message>>
    <2>1. new \in Seq(M) /\ Len(new) = 1 /\ new[1] = message
      OBVIOUS
    <2> HIDE DEF new
    <2>2. added = Append(windows, new)
      BY <1>4 DEF AddMessage, new
    <2>3. /\ Len(added) = n + 1 /\ added[n + 1] = new
          /\ \A k \in 1 .. n : added[k] = windows[k]
      BY <2>1, <2>2, AppendProperties
    <2> HIDE DEF added
    <2>4. TightWindow(new, size, gap)
      BY <2>1 DEF TightWindow
    <2>5. n \in 1 .. n => EndsBefore(windows[n], new, size, gap)
      <3> SUFFICES ASSUME n \in 1 .. n PROVE EndsBefore(windows[n], new, size, gap)
        OBVIOUS
      <3>1. windows # <<>> /\ Len(windows[n]) \in 1 .. size
        BY <1>1 DEF TightWindow
      <3>2. \/ Len(windows[n]) >= size
            \/ message.at - windows[n][Len(windows[n])].at > gap
        BY <1>4, <3>1 DEF OpensWindow, Last
      <3>3. CASE Len(windows[n]) >= size
        BY <3>1, <3>3 DEF EndsBefore
      <3>4. CASE message.at - windows[n][Len(windows[n])].at > gap
        BY <2>1, <3>4 DEF EndsBefore
      <3> QED BY <3>2, <3>3, <3>4
    <2>6. ASSUME NEW k \in 1 .. n + 1 PROVE TightWindow(added[k], size, gap)
      <3>1. CASE k \in 1 .. n
        <4>1. added[k] = windows[k] /\ TightWindow(windows[k], size, gap)
          BY <1>1, <2>3, <3>1
        <4> QED BY <4>1
      <3>2. CASE k = n + 1
        BY <2>3, <2>4, <3>2
      <3> QED BY <1>1, <3>1, <3>2
    <2>7. ASSUME NEW k \in 2 .. n + 1
          PROVE  EndsBefore(added[k - 1], added[k], size, gap)
      <3>1. CASE k \in 2 .. n
        <4>0. k \in 1 .. n /\ k - 1 \in 1 .. n
          BY <1>1, <3>1
        <4>1. added[k] = windows[k] /\ added[k - 1] = windows[k - 1]
          BY <2>3, <4>0
        <4>2. EndsBefore(windows[k - 1], windows[k], size, gap)
          BY <1>1, <3>1
        <4> QED BY <4>1, <4>2
      <3>2. CASE k = n + 1
        BY <1>1, <2>3, <2>5, <3>2
      <3> QED BY <1>1, <3>1, <3>2
    <2>8. WindowsAreTight(added, size, gap)
      BY <1>3, <2>3, <2>6, <2>7, TightInParts
    <2> QED BY <2>8 DEF added
  <1>5. CASE ~OpensWindow(windows, message, size, gap)
    <2> DEFINE old == windows[n]
               longer == Append(old, message)
    <2>1. windows # <<>> /\ n \in 1 .. n
      BY <1>1, <1>5, EmptySeq DEF OpensWindow
    <2>2. old \in Seq(M) /\ Len(old) \in 1 .. size /\ TightWindow(old, size, gap)
      BY <1>1, <2>1 DEF TightWindow
    <2>3. /\ longer \in Seq(M) /\ Len(longer) = Len(old) + 1
          /\ \A i \in 1 .. Len(old) : longer[i] = old[i]
          /\ longer[Len(old) + 1] = message
      BY <2>2, AppendProperties
    <2>4. ~ (Len(old) >= size) /\ ~ (message.at - old[Len(old)].at > gap)
      BY <1>5, <2>1 DEF OpensWindow, Last
    <2>5. added = [windows EXCEPT ![n] = longer]
      BY <1>5 DEF AddMessage
    <2>6. old[Len(old)].at \in Nat
      <3>1. old[Len(old)] \in M
        BY <2>2, ElementOfSeq
      <3> QED BY <3>1 DEF Timed
    <2> HIDE DEF added, longer, old
    <2>7. /\ Len(added) = n /\ added[n] = longer
          /\ \A k \in 1 .. n - 1 : added[k] = windows[k]
      BY <1>1, <2>1, <2>3, <2>5, ExceptSeq
    <2>8. TightWindow(longer, size, gap)
      <3>1. ASSUME NEW i \in 2 .. Len(longer)
            PROVE  longer[i].at - longer[i - 1].at <= gap
        <4>1. CASE i \in 2 .. Len(old)
          <5>0. i \in 1 .. Len(old) /\ i - 1 \in 1 .. Len(old)
            BY <2>2, <4>1
          <5>1. longer[i] = old[i] /\ longer[i - 1] = old[i - 1]
            BY <2>3, <5>0
          <5>2. old[i].at - old[i - 1].at <= gap
            BY <2>2, <4>1 DEF TightWindow
          <5> QED BY <5>1, <5>2
        <4>2. CASE i = Len(old) + 1
          <5>1. longer[i] = message /\ longer[i - 1] = old[Len(old)]
            BY <2>2, <2>3, <4>2
          <5> QED BY <1>2, <2>4, <2>6, <5>1
        <4> QED BY <2>2, <2>3, <4>1, <4>2
      <3> QED BY <2>2, <2>3, <2>4, <3>1 DEF TightWindow
    <2>9. longer[1] = old[1]
      BY <2>2, <2>3
    <2>10. ASSUME NEW k \in 1 .. n PROVE TightWindow(added[k], size, gap)
      <3>1. CASE k \in 1 .. n - 1
        <4>1. added[k] = windows[k] /\ TightWindow(windows[k], size, gap)
          BY <1>1, <2>7, <3>1
        <4> QED BY <4>1
      <3>2. CASE k = n
        BY <2>7, <2>8, <3>2
      <3> QED BY <1>1, <3>1, <3>2
    <2>11. ASSUME NEW k \in 2 .. n
           PROVE  EndsBefore(added[k - 1], added[k], size, gap)
      <3>1. CASE k \in 2 .. n - 1
        <4>0. k \in 1 .. n - 1 /\ k - 1 \in 1 .. n - 1
          BY <1>1, <3>1
        <4>1. added[k] = windows[k] /\ added[k - 1] = windows[k - 1]
          BY <2>7, <4>0
        <4>2. EndsBefore(windows[k - 1], windows[k], size, gap)
          BY <1>1, <3>1
        <4> QED BY <4>1, <4>2
      <3>2. CASE k = n
        <4>1. EndsBefore(windows[n - 1], old, size, gap) /\ added[n - 1] = windows[n - 1]
          BY <1>1, <2>7, <3>2 DEF old
        <4> QED BY <2>7, <2>9, <3>2, <4>1 DEF EndsBefore
      <3> QED BY <1>1, <3>1, <3>2
    <2>12. WindowsAreTight(added, size, gap)
      BY <1>3, <2>7, <2>10, <2>11, TightInParts
    <2> QED BY <2>12 DEF added
  <1> QED BY <1>4, <1>5

----------------------------------------------------------------------------
\* What a pass makes of a conversation are tight windows.
LEMMA ConversationIsTight ==
    ASSUME NEW M, Timed(M), NEW messages \in Seq(M),
           NEW size \in Nat \ {0}, NEW gap \in Nat
    PROVE  /\ SplitConversation(messages, size, gap) \in Seq(Seq(M))
           /\ WindowsAreTight(SplitConversation(messages, size, gap), size, gap)
  <1> DEFINE n == Len(messages)
  <1>0. PICK run : Passes(run, M, messages, size, gap)
    BY ConversationRuns
  <1>1. /\ run \in [0 .. n -> Seq(Seq(M))]
        /\ run[0] = <<>>
        /\ \A k \in 1 .. n : run[k] = AddMessage(run[k - 1], messages[k], size, gap)
        /\ run[n] = SplitConversation(messages, size, gap)
    BY <1>0 DEF Passes
  <1>2. n \in Nat
    BY LenProperties
  <1> DEFINE T == {k \in 0 .. n : WindowsAreTight(run[k], size, gap)}
  <1>3. 0 \in T
    <2>1. WindowsAreTight(<<>>, size, gap)
      BY DEF WindowsAreTight
    <2> QED BY <1>1, <1>2, <2>1
  <1>4. ASSUME NEW k \in 1 .. n, k - 1 \in T PROVE k \in T
    <2>1. messages[k] \in M /\ k \in 0 .. n /\ k - 1 \in 0 .. n
      BY <1>2, ElementOfSeq
    <2>2. run[k - 1] \in Seq(Seq(M)) /\ WindowsAreTight(run[k - 1], size, gap)
      BY <1>1, <1>4, <2>1
    <2>3. WindowsAreTight(AddMessage(run[k - 1], messages[k], size, gap), size, gap)
      BY <2>1, <2>2, AddMessageIsTight
    <2> QED BY <1>1, <2>1, <2>3
  <1>5. n \in T
    <2> HIDE DEF T
    <2>1. \A k \in 0 .. n : k \in T
      BY <1>2, <1>3, <1>4, UpTo
    <2> QED BY <1>2, <2>1
  <1> QED BY <1>1, <1>2, <1>5

\* joined holds the concatenations of the first windows.
Joins(joined, windows, M) ==
    /\ joined \in [0 .. Len(windows) -> Seq(M)]
    /\ joined[0] = <<>>
    /\ \A k \in 1 .. Len(windows) : joined[k] = joined[k - 1] \o windows[k]

LEMMA FlattenJoins ==
    ASSUME NEW M, NEW windows \in Seq(Seq(M))
    PROVE  \E joined : Joins(joined, windows, M) /\ joined[Len(windows)] = FlattenSeq(windows)
  <1> DEFINE n == Len(windows)
             A == Seq(M)
             step == [x \in A \X A |-> x[1] \o x[2]]
             base == <<>>
  <1>1. n \in Nat /\ base \in A /\ \A k \in 1 .. n : windows[k] \in A
    BY LenProperties, ElementOfSeq, EmptySeq
  <1>2. step \in [A \X A -> A] /\ \A v, w \in A : step[<<v, w>>] = v \o w
    BY ConcatProperties
  <1> HIDE DEF step
  <1>3. PICK f : Iterates(f, A, base, step, windows)
    BY <1>1, <1>2, FoldExists
  <1> DEFINE joined == [k \in 0 .. n |-> f[1 .. k]]
             flatten == [i \in 1 .. n |-> joined[i]]
             IsFlatten(g) == g = [i \in 1 .. n |->
                                    IF i = 1 THEN windows[i] ELSE g[i - 1] \o windows[i]]
  <1>4. joined[0] = <<>>
    <2>1. 1 .. 0 = {} /\ 0 \in 0 .. n
      BY <1>1
    <2> QED BY <1>3, <2>1 DEF Iterates
  <1>5. ASSUME NEW k \in 0 .. n PROVE joined[k] \in A
    <2>1. 1 .. k \in SUBSET (1 .. n)
      BY <1>1
    <2>2. f[1 .. k] \in A
      <3> HIDE DEF A
      <3> QED BY <1>3, <2>1 DEF Iterates
    <2> QED BY <2>2
  <1>6. ASSUME NEW k \in 1 .. n PROVE joined[k] = joined[k - 1] \o windows[k]
    <2>1. k \in Nat \ {0} /\ k - 1 \in 0 .. n /\ k \in 0 .. n /\ 1 .. k \in SUBSET (1 .. n)
      BY <1>1
    <2>2. 1 .. k # {} /\ Max(1 .. k) = k /\ (1 .. k) \ {k} = 1 .. k - 1
      BY <2>1, MaxOfInterval
    <2>3. f[1 .. k] = step[<<f[1 .. k - 1], windows[k]>>]
      BY <1>3, <2>1, <2>2 DEF Iterates
    <2>4. f[1 .. k - 1] \in A
      BY <1>5, <2>1
    <2> QED BY <1>1, <1>2, <2>1, <2>3, <2>4
  <1>7. Joins(joined, windows, M)
    <2>1. joined \in [0 .. n -> Seq(M)]
      BY <1>5
    <2> HIDE DEF joined
    <2> QED BY <1>4, <1>6, <2>1 DEF Joins
  <1> HIDE DEF joined
  <1>8. IsFlatten(flatten)
    <2>1. ASSUME NEW i \in 1 .. n, i # 1
          PROVE  flatten[i] = flatten[i - 1] \o windows[i]
      <3>1. i - 1 \in 1 .. n
        BY <1>1, <2>1
      <3> QED BY <1>6, <3>1
    <2>2. ASSUME 1 \in 1 .. n PROVE flatten[1] = windows[1]
      <3> DEFINE one == 1
      <3>00. one \in 1 .. n /\ one = 1 /\ one - 1 = 0
        BY <2>2
      <3> HIDE DEF one
      <3>0. joined[1] = joined[one - 1] \o windows[1] /\ one - 1 = 0
        BY <1>6, <3>00
      <3>1. joined[1] = <<>> \o windows[1]
        BY <1>4, <3>0
      <3>2. <<>> \o windows[1] = windows[1]
        BY <1>1, <2>2, ConcatEmptySeq
      <3> QED BY <2>2, <3>1, <3>2
    <2> QED BY <1>1, <2>1, <2>2
  <1> DEFINE g == CHOOSE h : IsFlatten(h)
  <1>9. IsFlatten(g)
    <2> HIDE DEF IsFlatten, flatten
    <2> QED BY <1>8, Zenon
  <1>10. n # 0 => FlattenSeq(windows) = g[n]
    BY DEF FlattenSeq
  <1>11. n = 0 => FlattenSeq(windows) = <<>>
    BY DEF FlattenSeq
  <1> HIDE DEF g
  <1>12. \A i \in 1 .. n :
           g[i] = IF i = 1 THEN windows[i] ELSE g[i - 1] \o windows[i]
    BY <1>9
  <1> HIDE DEF IsFlatten
  <1>13. \A k \in 0 .. n : k = 0 \/ g[k] = joined[k]
    <2> DEFINE T == {k \in 0 .. n : k = 0 \/ g[k] = joined[k]}
    <2>1. 0 \in T
      BY <1>1
    <2>2. ASSUME NEW k \in 1 .. n, k - 1 \in T PROVE k \in T
      <3>1. CASE k = 1
        <4>0. 1 \in 1 .. n /\ 1 - 1 = 0
          BY <3>1
        <4>1. joined[1] = <<>> \o windows[1] /\ g[1] = windows[1]
          BY <1>4, <1>6, <1>12, <4>0
        <4>2. <<>> \o windows[1] = windows[1]
          BY <1>1, <4>0, ConcatEmptySeq
        <4> QED BY <1>1, <3>1, <4>1, <4>2
      <3>2. CASE k # 1
        <4>1. k - 1 # 0 /\ k \in 0 .. n
          BY <1>1, <3>2
        <4>2. g[k - 1] = joined[k - 1]
          BY <2>2, <4>1
        <4> QED BY <1>6, <1>12, <3>2, <4>1, <4>2
      <3> QED BY <3>1, <3>2
    <2> HIDE DEF T
    <2>3. \A k \in 0 .. n : k \in T
      BY <1>1, <2>1, <2>2, UpTo
    <2> QED BY <2>3 DEF T
  <1>14. joined[n] = FlattenSeq(windows)
    BY <1>1, <1>4, <1>10, <1>11, <1>13
  <1> QED BY <1>7, <1>14

\* Two sequences of windows that begin alike.
LEMMA JoinsAgree ==
    ASSUME NEW M, NEW v \in Seq(Seq(M)), NEW w \in Seq(Seq(M)), NEW f, NEW g,
           Joins(f, v, M), Joins(g, w, M), Len(w) = Len(v) + 1,
           \A i \in 1 .. Len(v) : w[i] = v[i]
    PROVE  f[Len(v)] = g[Len(v)]
  <1> DEFINE n == Len(v)
  <1>0. n \in Nat /\ Len(w) = n + 1
    BY LenProperties
  <1> DEFINE T == {k \in 0 .. n : f[k] = g[k]}
  <1>1. 0 \in T
    BY <1>0 DEF Joins
  <1>2. ASSUME NEW k \in 1 .. n, k - 1 \in T PROVE k \in T
    <2>1. k \in 1 .. Len(v) /\ k \in 1 .. Len(w) /\ k \in 0 .. n
      BY <1>0
    <2>2. f[k - 1] = g[k - 1] /\ v[k] = w[k]
      BY <1>2
    <2>3. f[k] = f[k - 1] \o v[k] /\ g[k] = g[k - 1] \o w[k]
      BY <2>1 DEF Joins
    <2> QED BY <2>1, <2>2, <2>3
  <1>3. n \in T
    <2> HIDE DEF T
    <2>1. \A k \in 0 .. n : k \in T
      BY <1>0, <1>1, <1>2, UpTo
    <2> QED BY <1>0, <2>1
  <1> QED BY <1>3

\* What follows a first part of the windows.
LEMMA FlattenStep ==
    ASSUME NEW M, NEW v \in Seq(Seq(M)), NEW w \in Seq(Seq(M)),
           Len(w) = Len(v) + 1, \A i \in 1 .. Len(v) : w[i] = v[i]
    PROVE  FlattenSeq(v) \in Seq(M) /\ FlattenSeq(w) = FlattenSeq(v) \o w[Len(w)]
  <1>1. PICK f : Joins(f, v, M) /\ f[Len(v)] = FlattenSeq(v)
    BY FlattenJoins
  <1>2. PICK g : Joins(g, w, M) /\ g[Len(w)] = FlattenSeq(w)
    BY FlattenJoins
  <1>3. Len(v) \in Nat /\ Len(w) \in Nat
    BY LenProperties
  <1>4. f[Len(v)] = g[Len(v)]
    BY <1>1, <1>2, JoinsAgree
  <1>5. Len(w) \in 1 .. Len(w) /\ Len(w) - 1 = Len(v)
    BY <1>3
  <1>6. g[Len(w)] = g[Len(w) - 1] \o w[Len(w)]
    BY <1>2, <1>5 DEF Joins
  <1>7. f[Len(v)] \in Seq(M)
    <2>1. f \in [0 .. Len(v) -> Seq(M)] /\ Len(v) \in 0 .. Len(v)
      BY <1>1, <1>3 DEF Joins
    <2> QED BY <2>1
  <1> QED BY <1>1, <1>2, <1>4, <1>5, <1>6, <1>7

LEMMA FlattenType ==
    ASSUME NEW M, NEW w \in Seq(Seq(M))
    PROVE  FlattenSeq(w) \in Seq(M)
  <1>1. PICK f : Joins(f, w, M) /\ f[Len(w)] = FlattenSeq(w)
    BY FlattenJoins
  <1>2. Len(w) \in Nat
    BY LenProperties
  <1>3. f[Len(w)] \in Seq(M)
    BY <1>1, <1>2 DEF Joins
  <1> QED BY <1>1, <1>3

\* One message more is one message more at the end.
LEMMA AddMessageAppends ==
    ASSUME NEW M, NEW windows \in Seq(Seq(M)), NEW message \in M,
           NEW size, NEW gap
    PROVE  FlattenSeq(AddMessage(windows, message, size, gap))
             = Append(FlattenSeq(windows), message)
  <1> DEFINE n == Len(windows)
             added == AddMessage(windows, message, size, gap)
  <1>1. added \in Seq(Seq(M)) /\ n \in Nat
    BY AddMessageType, LenProperties
  <1>2. CASE OpensWindow(windows, message, size, gap)
    <2> DEFINE new == <<message>>
    <2>1. new \in Seq(M)
      OBVIOUS
    <2>2. added = Append(windows, new)
      BY <1>2 DEF AddMessage
    <2> HIDE DEF added, new
    <2>3. Len(added) = n + 1 /\ added[n + 1] = new /\ \A i \in 1 .. n : added[i] = windows[i]
      BY <2>1, <2>2, AppendProperties
    <2>4. FlattenSeq(windows) \in Seq(M) /\ FlattenSeq(added) = FlattenSeq(windows) \o new
      BY <1>1, <2>3, FlattenStep
    <2>5. FlattenSeq(added) = Append(FlattenSeq(windows), message)
      BY <2>4, AppendIsConcat DEF new
    <2> QED BY <2>5 DEF added
  <1>3. CASE ~OpensWindow(windows, message, size, gap)
    <2> DEFINE old == windows[n]
               longer == Append(old, message)
               front == SubSeq(windows, 1, n - 1)
    <2>1. n \in 1 .. n
      BY <1>1, <1>3, EmptySeq DEF OpensWindow
    <2>2. old \in Seq(M)
      BY <2>1, ElementOfSeq
    <2>3. longer \in Seq(M) /\ longer = old \o <<message>>
      BY <2>2, AppendProperties, AppendIsConcat
    <2>4. added = [windows EXCEPT ![n] = longer]
      BY <1>3 DEF AddMessage
    <2>5. /\ front \in Seq(Seq(M)) /\ Len(front) = n - 1
          /\ \A i \in 1 .. n - 1 : front[i] = windows[i]
      <3>1. \A i \in 1 .. n - 1 : windows[i] \in Seq(M)
        BY <1>1, ElementOfSeq
      <3>0. n \in Nat \ {0}
        BY <1>1, <2>1
      <3>2. 1 \in Int /\ n - 1 \in Int /\ (n - 1) - 1 + 1 = n - 1
            /\ (IF 1 <= n - 1 THEN (n - 1) - 1 + 1 ELSE 0) = n - 1
        <4> HIDE DEF n
        <4>1. 1 <= n - 1 \/ n - 1 = 0
          BY <3>0
        <4> QED BY <3>0, <4>1
      <3>3. /\ front \in Seq(Seq(M))
            /\ Len(front) = IF 1 <= n - 1 THEN (n - 1) - 1 + 1 ELSE 0
            /\ \A i \in 1 .. (n - 1) - 1 + 1 : front[i] = windows[1 + i - 1]
        BY <3>1, <3>2, SubSeqProperties
      <3> QED BY <1>1, <3>2, <3>3
    <2> HIDE DEF added, longer, old, front
    <2>6. /\ Len(added) = n /\ added[n] = longer
          /\ \A i \in 1 .. n - 1 : added[i] = windows[i]
      BY <1>1, <2>1, <2>3, <2>4, ExceptSeq
    <2>7. /\ FlattenSeq(front) \in Seq(M)
          /\ FlattenSeq(windows) = FlattenSeq(front) \o windows[n]
      <3>1. Len(windows) = Len(front) + 1 /\ \A i \in 1 .. Len(front) : windows[i] = front[i]
        BY <1>1, <2>5
      <3> QED BY <2>5, <3>1, FlattenStep
    <2>8. FlattenSeq(added) = FlattenSeq(front) \o longer
      <3>1. Len(added) = Len(front) + 1 /\ \A i \in 1 .. Len(front) : added[i] = front[i]
        BY <1>1, <2>5, <2>6
      <3>2. FlattenSeq(added) = FlattenSeq(front) \o added[Len(added)]
        BY <1>1, <2>5, <3>1, FlattenStep
      <3> QED BY <2>6, <3>2
    <2>9. FlattenSeq(front) \o (old \o <<message>>) = (FlattenSeq(front) \o old) \o <<message>>
      <3>1. <<message>> \in Seq(M)
        OBVIOUS
      <3> QED BY <2>2, <2>7, <3>1, ConcatAssociative
    <2>10. FlattenSeq(windows) \in Seq(M)
      BY FlattenType
    <2>11. Append(FlattenSeq(windows), message) = FlattenSeq(windows) \o <<message>>
      BY <2>10, AppendIsConcat
    <2>12. FlattenSeq(added) = Append(FlattenSeq(windows), message)
      BY <2>3, <2>7, <2>8, <2>9, <2>11 DEF old
    <2> QED BY <2>12 DEF added
  <1> QED BY <1>2, <1>3

\* The windows of a conversation hold it, in order.
LEMMA WindowsHoldTheConversation ==
    ASSUME NEW M, NEW messages \in Seq(M), NEW size, NEW gap
    PROVE  FlattenSeq(SplitConversation(messages, size, gap)) = messages
  <1> DEFINE n == Len(messages)
  <1>0. PICK run : Passes(run, M, messages, size, gap)
    BY ConversationRuns
  <1>1. /\ run \in [0 .. n -> Seq(Seq(M))]
        /\ run[0] = <<>>
        /\ \A k \in 1 .. n : run[k] = AddMessage(run[k - 1], messages[k], size, gap)
        /\ run[n] = SplitConversation(messages, size, gap)
    BY <1>0 DEF Passes
  <1>2. n \in Nat
    BY LenProperties
  <1> DEFINE T == {k \in 0 .. n : FlattenSeq(run[k]) = SubSeq(messages, 1, k)}
  <1>3. 0 \in T
    <2>1. FlattenSeq(<<>>) = <<>>
      BY DEF FlattenSeq
    <2>2. SubSeq(messages, 1, 0) = <<>>
      BY SubSeqEmpty
    <2> QED BY <1>1, <1>2, <2>1, <2>2
  <1>4. ASSUME NEW k \in 1 .. n, k - 1 \in T PROVE k \in T
    <2>1. messages[k] \in M /\ k \in 0 .. n /\ k - 1 \in 0 .. n /\ 1 \in 1 .. n /\ k \in 1 .. n
      BY <1>2, ElementOfSeq
    <2>2. run[k - 1] \in Seq(Seq(M)) /\ FlattenSeq(run[k - 1]) = SubSeq(messages, 1, k - 1)
      BY <1>1, <1>4, <2>1
    <2>3. FlattenSeq(run[k]) = Append(SubSeq(messages, 1, k - 1), messages[k])
      <3>1. FlattenSeq(AddMessage(run[k - 1], messages[k], size, gap))
              = Append(FlattenSeq(run[k - 1]), messages[k])
        BY <2>1, <2>2, AddMessageAppends
      <3> QED BY <1>1, <2>1, <2>2, <3>1
    <2>4. SubSeq(messages, 1, k) = SubSeq(messages, 1, k - 1) \o <<messages[k]>>
      BY <1>2, <2>1, SubSeqRecursiveSecond
    <2>5. SubSeq(messages, 1, k - 1) \in Seq(M)
      BY <2>2, FlattenType
    <2>6. Append(SubSeq(messages, 1, k - 1), messages[k])
            = SubSeq(messages, 1, k - 1) \o <<messages[k]>>
      BY <2>1, <2>5, AppendIsConcat
    <2> QED BY <2>1, <2>3, <2>4, <2>6
  <1>5. n \in T
    <2> HIDE DEF T
    <2>1. \A k \in 0 .. n : k \in T
      BY <1>2, <1>3, <1>4, UpTo
    <2> QED BY <1>2, <2>1
  <1> QED BY <1>1, <1>5, SubSeqFull

----------------------------------------------------------------------------
(* Which windows a conversation's beginning decides                        *)

\* Two conversations that begin alike.
LEMMA PassesAgree ==
    ASSUME NEW M, NEW a \in Seq(M), NEW b \in Seq(M), NEW size, NEW gap, NEW f, NEW g,
           Passes(f, M, a, size, gap), Passes(g, M, b, size, gap),
           NEW n \in 0 .. Len(a), n <= Len(b), \A i \in 1 .. n : a[i] = b[i]
    PROVE  f[n] = g[n]
  <1>0. n \in Nat /\ Len(a) \in Nat /\ Len(b) \in Nat
    BY LenProperties
  <1> DEFINE T == {k \in 0 .. n : f[k] = g[k]}
  <1>1. 0 \in T
    BY <1>0 DEF Passes
  <1>2. ASSUME NEW k \in 1 .. n, k - 1 \in T PROVE k \in T
    <2>1. k \in 1 .. Len(a) /\ k \in 1 .. Len(b) /\ k \in 0 .. n
      BY <1>0
    <2>2. f[k - 1] = g[k - 1] /\ a[k] = b[k]
      BY <1>2
    <2>3. /\ f[k] = AddMessage(f[k - 1], a[k], size, gap)
          /\ g[k] = AddMessage(g[k - 1], b[k], size, gap)
      BY <2>1 DEF Passes
    <2> QED BY <2>1, <2>2, <2>3
  <1>3. n \in T
    <2> HIDE DEF T
    <2>1. \A k \in 0 .. n : k \in T
      BY <1>0, <1>1, <1>2, UpTo
    <2> QED BY <1>0, <2>1
  <1> QED BY <1>3

\* Of one message more, only the last window learns, or a new one.
LEMMA AddMessageChanges ==
    ASSUME NEW M, NEW windows \in Seq(Seq(M)), NEW message \in M, NEW size, NEW gap
    PROVE  LET added == AddMessage(windows, message, size, gap)
               n     == Len(windows)
           IN  /\ \A i \in 1 .. n - 1 : added[i] = windows[i]
               /\ \/ Len(added) = n + 1 /\ \A i \in 1 .. n : added[i] = windows[i]
                  \/ Len(added) = n
               /\ Len(added) \in 1 .. Len(added)
               /\ Last(added[Len(added)]) = message
  <1> DEFINE added == AddMessage(windows, message, size, gap)
             n == Len(windows)
  <1>1. n \in Nat /\ \A i \in 1 .. n : windows[i] \in Seq(M)
    BY LenProperties, ElementOfSeq
  <1>2. CASE OpensWindow(windows, message, size, gap)
    <2> DEFINE new == <<message>>
    <2>1. new \in Seq(M) /\ Len(new) = 1 /\ new[1] = message
      OBVIOUS
    <2>2. added = Append(windows, new)
      BY <1>2 DEF AddMessage
    <2> HIDE DEF added, new
    <2>3. Len(added) = n + 1 /\ added[n + 1] = new /\ \A i \in 1 .. n : added[i] = windows[i]
      BY <2>1, <2>2, AppendProperties
    <2>4. Last(added[Len(added)]) = message
      BY <2>1, <2>3 DEF Last
    <2>5. Len(added) \in 1 .. Len(added) /\ \A i \in 1 .. n - 1 : i \in 1 .. n
      BY <1>1, <2>3
    <2> QED BY <2>3, <2>4, <2>5 DEF added
  <1>3. CASE ~OpensWindow(windows, message, size, gap)
    <2> DEFINE old == windows[n]
               longer == Append(old, message)
    <2>1. n \in 1 .. n
      BY <1>1, <1>3, EmptySeq DEF OpensWindow
    <2>2. old \in Seq(M)
      BY <2>1, ElementOfSeq
    <2>3. longer \in Seq(M) /\ Last(longer) = message
      BY <2>2, AppendProperties DEF Last
    <2>4. added = [windows EXCEPT ![n] = longer]
      BY <1>3 DEF AddMessage
    <2> HIDE DEF added, longer, old
    <2>5. /\ Len(added) = n /\ added[n] = longer
          /\ \A i \in 1 .. n - 1 : added[i] = windows[i]
      BY <1>1, <2>1, <2>3, <2>4, ExceptSeq
    <2> QED BY <2>1, <2>3, <2>5 DEF added
  <1> QED BY <1>2, <1>3

\* A window that is not the last one stays.
LEMMA EarlierStays ==
    ASSUME NEW M, NEW messages \in Seq(M), NEW size, NEW gap, NEW run,
           Passes(run, M, messages, size, gap),
           NEW j \in 0 .. Len(messages), NEW i \in Nat \ {0}, Len(run[j]) > i
    PROVE  run[Len(messages)][i] = run[j][i] /\ i \in 1 .. Len(run[Len(messages)])
  <1> DEFINE n == Len(messages)
             T == {k \in 0 .. n : k < j \/ (Len(run[k]) > i /\ run[k][i] = run[j][i])}
  <1>1. n \in Nat /\ \A k \in 0 .. n : run[k] \in Seq(Seq(M)) /\ Len(run[k]) \in Nat
    BY LenProperties DEF Passes
  <1>2. 0 \in T
    BY <1>1
  <1>3. ASSUME NEW k \in 1 .. n, k - 1 \in T PROVE k \in T
    <2>1. messages[k] \in M /\ k \in 0 .. n /\ k - 1 \in 0 .. n
      BY <1>1, ElementOfSeq
    <2>2. run[k] = AddMessage(run[k - 1], messages[k], size, gap)
      BY DEF Passes
    <2>3. CASE k <= j
      <3>1. k < j \/ k = j
        BY <1>1, <2>3
      <3> QED BY <2>1, <3>1
    <2>4. CASE k > j
      <3>1. Len(run[k - 1]) > i /\ run[k - 1][i] = run[j][i]
        BY <1>1, <1>3, <2>4
      <3>2. run[k - 1] \in Seq(Seq(M))
        BY <1>1, <2>1
      <3>3. /\ \A l \in 1 .. Len(run[k - 1]) - 1 : run[k][l] = run[k - 1][l]
            /\ Len(run[k]) \in {Len(run[k - 1]), Len(run[k - 1]) + 1}
        <4> DEFINE added == AddMessage(run[k - 1], messages[k], size, gap)
               windows == run[k - 1]
        <4>1. /\ \A l \in 1 .. Len(windows) - 1 : added[l] = windows[l]
              /\ \/ Len(added) = Len(windows) + 1 /\ \A l \in 1 .. Len(windows) : added[l] = windows[l]
                 \/ Len(added) = Len(windows)
          <5>1. windows \in Seq(Seq(M)) /\ messages[k] \in M
            BY <2>1, <3>2
          <5>2. added = AddMessage(windows, messages[k], size, gap)
            OBVIOUS
          <5> HIDE DEF windows, added
          <5> QED BY <5>1, <5>2, AddMessageChanges
        <4>2. run[k] = added
          BY <2>2
        <4> HIDE DEF added
        <4> QED BY <4>1, <4>2
      <3>4. i \in 1 .. Len(run[k - 1]) - 1 /\ Len(run[k]) > i
        <4>1. PICK l \in Nat : l = Len(run[k - 1])
          BY <1>1, <2>1
        <4> QED BY <3>1, <3>3, <4>1
      <3>5. run[k][i] = run[j][i]
        BY <3>1, <3>3, <3>4
      <3> QED BY <2>1, <3>4, <3>5
    <2> QED BY <1>1, <2>3, <2>4
  <1>4. n \in T
    <2> HIDE DEF T
    <2>1. \A k \in 0 .. n : k \in T
      BY <1>1, <1>2, <1>3, UpTo
    <2> QED BY <1>1, <2>1
  <1> QED BY <1>1, <1>4

\* In the pass up to k, every window ends in a message; the next one settles it.
SettlesUpTo(run, messages, k) ==
    \A i \in 1 .. Len(run[k]) : \E c \in 1 .. k :
        /\ Last(run[k][i]) = messages[c]
        /\ c < k => Len(run[c + 1]) > i /\ run[c + 1][i] = run[k][i]

LEMMA NextMessageSettles ==
    ASSUME NEW M, NEW messages \in Seq(M), NEW size, NEW gap, NEW run,
           Passes(run, M, messages, size, gap)
    PROVE  SettlesUpTo(run, messages, Len(messages))
  <1> DEFINE n == Len(messages)
             T == {k \in 0 .. n : SettlesUpTo(run, messages, k)}
  <1>1. n \in Nat /\ \A k \in 0 .. n : run[k] \in Seq(Seq(M)) /\ Len(run[k]) \in Nat
    BY LenProperties DEF Passes
  <1>2. 0 \in T
    <2>1. run[0] = <<>> /\ Len(<<>>) = 0
      BY DEF Passes
    <2> QED BY <1>1, <2>1 DEF SettlesUpTo
  <1>3. ASSUME NEW k \in 1 .. n, k - 1 \in T PROVE k \in T
    <2>1. messages[k] \in M /\ k \in 0 .. n /\ k - 1 \in 0 .. n /\ k \in Nat \ {0}
      BY <1>1, ElementOfSeq
    <2>2. run[k] = AddMessage(run[k - 1], messages[k], size, gap)
      BY DEF Passes
    <2>3. run[k - 1] \in Seq(Seq(M)) /\ Len(run[k - 1]) \in Nat /\ Len(run[k]) \in Nat
      BY <1>1, <2>1
    <2>4. /\ \A i \in 1 .. Len(run[k - 1]) - 1 : run[k][i] = run[k - 1][i]
          /\ \/ /\ Len(run[k]) = Len(run[k - 1]) + 1
                /\ \A i \in 1 .. Len(run[k - 1]) : run[k][i] = run[k - 1][i]
             \/ Len(run[k]) = Len(run[k - 1])
          /\ Len(run[k]) \in 1 .. Len(run[k])
          /\ Last(run[k][Len(run[k])]) = messages[k]
      <3> DEFINE added == AddMessage(run[k - 1], messages[k], size, gap)
      <3>1. /\ \A i \in 1 .. Len(run[k - 1]) - 1 : added[i] = run[k - 1][i]
            /\ \/ /\ Len(added) = Len(run[k - 1]) + 1
                  /\ \A i \in 1 .. Len(run[k - 1]) : added[i] = run[k - 1][i]
               \/ Len(added) = Len(run[k - 1])
            /\ Len(added) \in 1 .. Len(added)
            /\ Last(added[Len(added)]) = messages[k]
        BY <2>1, <2>3, AddMessageChanges
      <3>2. run[k] = added
        BY <2>2
      <3> HIDE DEF added
      <3> QED BY <3>1, <3>2
    <2>5. ASSUME NEW i \in 1 .. Len(run[k])
          PROVE  \E c \in 1 .. k :
                    /\ Last(run[k][i]) = messages[c]
                    /\ c < k => Len(run[c + 1]) > i /\ run[c + 1][i] = run[k][i]
      <3>1. CASE i = Len(run[k])
        <4>1. k \in 1 .. k /\ ~ (k < k)
          BY <2>1
        <4> QED BY <2>4, <3>1, <4>1
      <3>2. CASE i # Len(run[k])
        <4>1. /\ i \in 1 .. Len(run[k - 1]) /\ run[k][i] = run[k - 1][i]
              /\ Len(run[k]) > i
          <5>1. PICK l \in Nat : l = Len(run[k])
            BY <2>3
          <5>2. PICK m \in Nat : m = Len(run[k - 1])
            BY <2>3
          <5>3. i \in 1 .. m /\ (l = m => i \in 1 .. m - 1) /\ l > i
            BY <2>4, <3>2, <5>1, <5>2
          <5> QED BY <2>4, <5>1, <5>2, <5>3
        <4>2. PICK c \in 1 .. k - 1 :
                /\ Last(run[k - 1][i]) = messages[c]
                /\ c < k - 1 => Len(run[c + 1]) > i /\ run[c + 1][i] = run[k - 1][i]
          BY <1>3, <4>1 DEF SettlesUpTo
        <4>3. CASE c < k - 1
          BY <2>1, <4>1, <4>2, <4>3
        <4>4. CASE c = k - 1
          <5>1. c + 1 = k
            BY <2>1, <4>4
          <5> QED BY <2>1, <4>1, <4>2, <5>1
        <4> QED BY <2>1, <4>2, <4>3, <4>4
      <3> QED BY <3>1, <3>2
    <2> QED BY <2>1, <2>5 DEF SettlesUpTo
  <1>4. n \in T
    <2> HIDE DEF T
    <2>1. \A k \in 0 .. n : k \in T
      BY <1>1, <1>2, <1>3, UpTo
    <2> QED BY <1>1, <2>1
  <1> QED BY <1>4

\* A window that does not end its conversation is a window of every
\* conversation that begins with the same messages, up to the one after it.
EndsAt(c, i, v, w, a, b) ==
    /\ c \in 1 .. Len(a)
    /\ Last(v[i]) = a[c]
    /\ c < Len(a) /\ c < Len(b) /\ (\A k \in 1 .. c + 1 : a[k] = b[k])
         => i \in 1 .. Len(w) /\ w[i] = v[i]

LEMMA SettledWindowsStay ==
    ASSUME NEW M, NEW a \in Seq(M), NEW b \in Seq(M), NEW size, NEW gap,
           NEW i \in 1 .. Len(SplitConversation(a, size, gap))
    PROVE  \E c : EndsAt(c, i, SplitConversation(a, size, gap),
                         SplitConversation(b, size, gap), a, b)
  <1>1. PICK f : Passes(f, M, a, size, gap)
    BY ConversationRuns
  <1>2. PICK g : Passes(g, M, b, size, gap)
    BY ConversationRuns
  <1>3. /\ f[Len(a)] = SplitConversation(a, size, gap)
        /\ g[Len(b)] = SplitConversation(b, size, gap)
    BY <1>1, <1>2 DEF Passes
  <1>4. Len(a) \in Nat /\ Len(b) \in Nat
    BY LenProperties
  <1>5. SettlesUpTo(f, a, Len(a))
    BY <1>1, NextMessageSettles
  <1>6. PICK c \in 1 .. Len(a) :
          /\ Last(f[Len(a)][i]) = a[c]
          /\ c < Len(a) => Len(f[c + 1]) > i /\ f[c + 1][i] = f[Len(a)][i]
    BY <1>3, <1>5 DEF SettlesUpTo
  <1>7. ASSUME c < Len(a), c < Len(b), \A k \in 1 .. c + 1 : a[k] = b[k]
        PROVE  i \in 1 .. Len(g[Len(b)]) /\ g[Len(b)][i] = f[Len(a)][i]
    <2> DEFINE d == c + 1
    <2>1. d \in 0 .. Len(a) /\ d \in 0 .. Len(b) /\ d <= Len(b) /\ \A k \in 1 .. d : a[k] = b[k]
      BY <1>4, <1>7
    <2>2. Len(f[d]) > i /\ f[d][i] = f[Len(a)][i]
      BY <1>6, <1>7
    <2> HIDE DEF d
    <2>3. f[d] = g[d]
      BY <1>1, <1>2, <2>1, PassesAgree
    <2>4. i \in Nat \ {0} /\ Len(g[d]) > i
      BY <2>2, <2>3
    <2>5. g[Len(b)][i] = g[d][i] /\ i \in 1 .. Len(g[Len(b)])
      BY <1>2, <2>1, <2>4, EarlierStays
    <2> QED BY <2>2, <2>3, <2>5
  <1> QED BY <1>3, <1>6, <1>7 DEF EndsAt

----------------------------------------------------------------------------
(* sorted                                                                  *)

LEMMA MessageType ==
    ASSUME NEW m \in Message
    PROVE  m.at \in Nat /\ m.id \in Nat \ {0}
  BY ExportAssumption DEF Message

\* The order of messages and, of those it cannot tell apart, of their places.
Precedes(messages, j, i) ==
    \/ Before(messages[j], messages[i])
    \/ ~Before(messages[i], messages[j]) /\ j <= i

LEMMA PrecedesIsTotal ==
    ASSUME NEW messages \in Seq(Message),
           NEW i \in 1 .. Len(messages), NEW j \in 1 .. Len(messages)
    PROVE  /\ Precedes(messages, i, i)
           /\ Precedes(messages, i, j) \/ Precedes(messages, j, i)
           /\ Precedes(messages, i, j) /\ Precedes(messages, j, i) => i = j
  <1>1. messages[i] \in Message /\ messages[j] \in Message
    BY ElementOfSeq
  <1>2. /\ messages[i].at \in Nat /\ messages[i].id \in Nat
        /\ messages[j].at \in Nat /\ messages[j].id \in Nat
    BY <1>1, MessageType
  <1>3. i \in Nat /\ j \in Nat
    BY LenProperties
  <1> QED BY <1>2, <1>3 DEF Precedes, Before

LEMMA PrecedesIsTransitive ==
    ASSUME NEW messages \in Seq(Message), NEW i \in 1 .. Len(messages),
           NEW j \in 1 .. Len(messages), NEW k \in 1 .. Len(messages),
           Precedes(messages, i, j), Precedes(messages, j, k)
    PROVE  Precedes(messages, i, k)
  <1>1. messages[i] \in Message /\ messages[j] \in Message /\ messages[k] \in Message
    BY ElementOfSeq
  <1>2. /\ messages[i].at \in Nat /\ messages[i].id \in Nat
        /\ messages[j].at \in Nat /\ messages[j].id \in Nat
        /\ messages[k].at \in Nat /\ messages[k].id \in Nat
    BY <1>1, MessageType
  <1>3. i \in Nat /\ j \in Nat /\ k \in Nat
    BY LenProperties
  <1> QED BY <1>2, <1>3 DEF Precedes, Before

Preceding(messages, i) == {j \in 1 .. Len(messages) : Precedes(messages, j, i)}

LEMMA RankType ==
    ASSUME NEW messages \in Seq(Message), NEW i \in 1 .. Len(messages)
    PROVE  /\ IsFiniteSet(Preceding(messages, i))
           /\ Rank(messages, i) = Cardinality(Preceding(messages, i))
           /\ Rank(messages, i) \in 1 .. Len(messages)
           /\ Rank(messages, i) \in Nat
  <1> DEFINE n == Len(messages)
             R == Preceding(messages, i)
  <1>1. n \in Nat /\ DOMAIN messages = 1 .. n
    BY LenProperties
  <1>2. IsFiniteSet(1 .. n) /\ Cardinality(1 .. n) = n
    BY <1>1, FS_Interval
  <1>3. R \in SUBSET (1 .. n) /\ i \in R
    BY PrecedesIsTotal DEF Preceding
  <1>4. Rank(messages, i) = Cardinality(R)
    BY <1>1 DEF Rank, Precedes, Preceding
  <1> HIDE DEF R
  <1>5. IsFiniteSet(R) /\ Cardinality(R) <= n /\ Cardinality(R) \in Nat
    BY <1>2, <1>3, FS_Subset, FS_CardinalityType
  <1>6. Cardinality(R) # 0
    BY <1>3, <1>5, FS_EmptySet
  <1>7. Cardinality(R) \in 1 .. n
    BY <1>1, <1>5, <1>6
  <1> QED BY <1>4, <1>5, <1>7 DEF R

LEMMA RankGrows ==
    ASSUME NEW messages \in Seq(Message), NEW i \in 1 .. Len(messages),
           NEW j \in 1 .. Len(messages), i # j, Precedes(messages, j, i)
    PROVE  Rank(messages, j) < Rank(messages, i)
  <1> DEFINE R(l) == Preceding(messages, l)
  <1>1. /\ IsFiniteSet(R(i)) /\ IsFiniteSet(R(j))
        /\ Rank(messages, i) = Cardinality(R(i)) /\ Rank(messages, j) = Cardinality(R(j))
        /\ Rank(messages, i) \in Nat /\ Rank(messages, j) \in Nat
    BY RankType
  <1>2. R(j) \in SUBSET R(i)
    BY PrecedesIsTransitive DEF Preceding
  <1>3. i \in R(i) /\ i \notin R(j)
    BY PrecedesIsTotal DEF Preceding
  <1> HIDE DEF R
  <1>4. R(j) # R(i)
    BY <1>3
  <1>5. Cardinality(R(j)) <= Cardinality(R(i)) /\ Cardinality(R(i)) # Cardinality(R(j))
    BY <1>1, <1>2, <1>4, FS_Subset
  <1> QED BY <1>1, <1>5

\* Every place is that of one message.
LEMMA RankIsOnto ==
    ASSUME NEW messages \in Seq(Message)
    PROVE  \A k \in 1 .. Len(messages) : \E i \in 1 .. Len(messages) : Rank(messages, i) = k
  <1> DEFINE n == Len(messages)
             rank == [i \in 1 .. n |-> Rank(messages, i)]
  <1>1. rank \in [1 .. n -> 1 .. n]
    BY RankType
  <1>2. ASSUME NEW i \in 1 .. n, NEW j \in 1 .. n, i # j
        PROVE  Rank(messages, i) # Rank(messages, j)
    <2>1. Rank(messages, i) \in Nat /\ Rank(messages, j) \in Nat
      BY RankType
    <2>2. CASE Precedes(messages, i, j)
      BY <1>2, <2>1, <2>2, RankGrows
    <2>3. CASE Precedes(messages, j, i)
      BY <1>2, <2>1, <2>3, RankGrows
    <2> QED BY <2>2, <2>3, PrecedesIsTotal
  <1>3. \A i, j \in 1 .. n : rank[i] = rank[j] => i = j
    BY <1>2
  <1> HIDE DEF rank
  <1>4. rank \in Injection(1 .. n, 1 .. n)
    BY <1>1, <1>3 DEF Injection, IsInjective
  <1>5. IsFiniteSet(1 .. n)
    BY LenProperties, FS_Interval
  <1>6. rank \in Surjection(1 .. n, 1 .. n)
    BY <1>4, <1>5, FS_Injection
  <1>7. \A k \in 1 .. n : \E i \in 1 .. n : rank[i] = k
    BY <1>6 DEF Surjection
  <1> QED BY <1>7 DEF rank

\* The message that takes the k-th place.
Placed(messages, k) == CHOOSE i \in DOMAIN messages : Rank(messages, i) = k

LEMMA PlacedProperties ==
    ASSUME NEW messages \in Seq(Message), NEW k \in 1 .. Len(messages)
    PROVE  /\ Placed(messages, k) \in 1 .. Len(messages)
           /\ Rank(messages, Placed(messages, k)) = k
           /\ Sorted(messages)[k] = messages[Placed(messages, k)]
  <1>1. DOMAIN messages = 1 .. Len(messages)
    BY LenProperties
  <1>2. \E i \in DOMAIN messages : Rank(messages, i) = k
    BY <1>1, RankIsOnto
  <1>3. Placed(messages, k) \in DOMAIN messages /\ Rank(messages, Placed(messages, k)) = k
    BY <1>2, Zenon DEF Placed
  <1> QED BY <1>1, <1>3 DEF Sorted, Placed

\* What sorted returns: the same messages, in order.
LEMMA SortedProperties ==
    ASSUME NEW messages \in Seq(Message)
    PROVE  /\ Sorted(messages) \in Seq(Message)
           /\ Len(Sorted(messages)) = Len(messages)
           /\ \A k, l \in 1 .. Len(messages) : k < l =>
                /\ Placed(messages, k) # Placed(messages, l)
                /\ ~Before(Sorted(messages)[l], Sorted(messages)[k])
           /\ Range(Sorted(messages)) = Range(messages)
  <1> DEFINE n == Len(messages)
             t == Sorted(messages)
  <1>1. n \in Nat /\ DOMAIN messages = 1 .. n
    BY LenProperties
  <1>2. t = [k \in 1 .. n |-> messages[Placed(messages, k)]]
    BY <1>1 DEF Sorted, Placed
  <1>3. \A k \in 1 .. n : messages[Placed(messages, k)] \in Message
    BY PlacedProperties, ElementOfSeq
  <1>4. t \in Seq(Message) /\ Len(t) = n
    BY <1>1, <1>2, <1>3
  <1>5. ASSUME NEW k \in 1 .. n, NEW l \in 1 .. n, k < l
        PROVE  Placed(messages, k) # Placed(messages, l) /\ ~Before(t[l], t[k])
    <2> DEFINE i == Placed(messages, k)
               j == Placed(messages, l)
    <2>1. /\ i \in 1 .. n /\ j \in 1 .. n
          /\ Rank(messages, i) = k /\ Rank(messages, j) = l
          /\ t[k] = messages[i] /\ t[l] = messages[j]
      BY PlacedProperties
    <2> HIDE DEF i, j, t
    <2>2. i # j
      BY <1>1, <1>5, <2>1
    <2>3. ~Precedes(messages, j, i)
      <3>1. SUFFICES ASSUME Precedes(messages, j, i) PROVE FALSE
        OBVIOUS
      <3>2. Rank(messages, j) < Rank(messages, i)
        BY <2>1, <2>2, <3>1, RankGrows
      <3> QED BY <1>1, <1>5, <2>1, <3>2
    <2>4. ~Before(t[l], t[k])
      BY <2>1, <2>3 DEF Precedes
    <2> QED BY <2>2, <2>4 DEF i, j
  <1>6. Range(t) = Range(messages)
    <2>1. \A k \in 1 .. n : \E i \in 1 .. n : t[k] = messages[i]
      BY PlacedProperties
    <2>2. ASSUME NEW i \in 1 .. n PROVE \E k \in 1 .. n : t[k] = messages[i]
      <3> DEFINE k == Rank(messages, i)
      <3>1. k \in 1 .. n
        BY RankType
      <3>2. /\ Placed(messages, k) \in 1 .. n /\ Rank(messages, Placed(messages, k)) = k
            /\ t[k] = messages[Placed(messages, k)]
        BY <3>1, PlacedProperties
      <3>3. Placed(messages, k) = i
        <4>1. SUFFICES ASSUME Placed(messages, k) # i PROVE FALSE
          OBVIOUS
        <4> DEFINE j == Placed(messages, k)
        <4>2. Precedes(messages, i, j) \/ Precedes(messages, j, i)
          BY <3>2, PrecedesIsTotal
        <4>3. Rank(messages, i) < Rank(messages, j) \/ Rank(messages, j) < Rank(messages, i)
          BY <3>2, <4>1, <4>2, RankGrows
        <4> QED BY <1>1, <3>1, <3>2, <4>3
      <3> QED BY <3>1, <3>2, <3>3
    <2>3. Range(t) = {t[k] : k \in 1 .. n} /\ Range(messages) = {messages[i] : i \in 1 .. n}
      BY <1>4, RangeEquality
    <2> HIDE DEF t
    <2> QED BY <2>1, <2>2, <2>3
  <1> QED BY <1>4, <1>5, <1>6

\* What is in order stays as it is.
LEMMA SortedIsIdempotent ==
    ASSUME NEW messages \in Seq(Message)
    PROVE  Sorted(Sorted(messages)) = Sorted(messages)
  <1> DEFINE n == Len(messages)
             t == Sorted(messages)
  <1>1. /\ n \in Nat /\ t \in Seq(Message) /\ Len(t) = n
        /\ \A k, l \in 1 .. n : k < l => ~Before(t[l], t[k])
    BY SortedProperties, LenProperties
  <1> HIDE DEF t
  <1>2. \A k \in 1 .. n : t[k] \in Message
    BY <1>1, ElementOfSeq
  <1>3. ASSUME NEW i \in 1 .. n PROVE Rank(t, i) = i
    <2>1. ASSUME NEW j \in 1 .. n PROVE Precedes(t, j, i) <=> j <= i
      <3>1. CASE j <= i
        <4>1. ~Before(t[i], t[j])
          <5>1. CASE j = i
            <6>1. t[i].at \in Nat /\ t[i].id \in Nat
              BY <1>2, MessageType
            <6> QED BY <5>1, <6>1 DEF Before
          <5>2. CASE j # i
            <6>1. j < i
              BY <1>1, <3>1, <5>2
            <6> QED BY <1>1, <6>1
          <5> QED BY <5>1, <5>2
        <4> QED BY <3>1, <4>1 DEF Precedes
      <3>2. CASE ~(j <= i)
        <4>1. i < j
          BY <1>1, <3>2
        <4>2. ~Before(t[j], t[i])
          BY <1>1, <4>1
        <4> QED BY <3>2, <4>2 DEF Precedes
      <3> QED BY <3>1, <3>2
    <2>2. Preceding(t, i) = 1 .. i
      BY <1>1, <2>1 DEF Preceding
    <2>3. Rank(t, i) = Cardinality(Preceding(t, i))
      BY <1>1, RankType
    <2>4. Cardinality(1 .. i) = i
      BY <1>1, FS_Interval
    <2> QED BY <2>2, <2>3, <2>4
  <1>4. ASSUME NEW k \in 1 .. n PROVE Sorted(t)[k] = t[k]
    <2>1. /\ Placed(t, k) \in 1 .. n /\ Rank(t, Placed(t, k)) = k
          /\ Sorted(t)[k] = t[Placed(t, k)]
      BY <1>1, PlacedProperties
    <2>2. Placed(t, k) = k
      BY <1>3, <2>1
    <2> QED BY <2>1, <2>2
  <1>5. Sorted(t) \in Seq(Message) /\ Len(Sorted(t)) = n
    BY <1>1, SortedProperties
  <1>6. Sorted(t) = t
    BY <1>1, <1>4, <1>5, SeqEqual
  <1> QED BY <1>6 DEF t

\* _validate has refused an export that has an id twice.
LEMMA SortedIdsDiffer ==
    ASSUME NEW messages \in Seq(Message), Valid(messages)
    PROVE  \A k, l \in 1 .. Len(messages) :
             Sorted(messages)[k].id = Sorted(messages)[l].id => k = l
  <1> DEFINE n == Len(messages)
             id == [i \in 1 .. n |-> messages[i].id]
             ids == IdsOf(messages)
  <1>1. n \in Nat /\ DOMAIN messages = 1 .. n
    BY LenProperties
  <1>2. IsFiniteSet(1 .. n) /\ Cardinality(1 .. n) = n
    BY <1>1, FS_Interval
  <1>3. ids = {messages[i].id : i \in 1 .. n} /\ Cardinality(ids) = n
    BY <1>1 DEF IdsOf, Valid
  <1>4. id \in Surjection(1 .. n, ids)
    BY <1>3 DEF Surjection
  <1>5. id \in Injection(1 .. n, ids)
    <2> HIDE DEF id, ids
    <2> QED BY <1>2, <1>3, <1>4, FS_Surjection
  <1>6. ASSUME NEW i \in 1 .. n, NEW j \in 1 .. n, messages[i].id = messages[j].id
        PROVE  i = j
    <2>1. id[i] = id[j]
      BY <1>6
    <2> HIDE DEF id
    <2> QED BY <1>5, <2>1 DEF Injection, IsInjective
  <1>7. ASSUME NEW k \in 1 .. n, NEW l \in 1 .. n,
               Sorted(messages)[k].id = Sorted(messages)[l].id
        PROVE  k = l
    <2>1. Placed(messages, k) = Placed(messages, l)
      BY <1>6, <1>7, PlacedProperties
    <2>2. ~(k < l) /\ ~(l < k)
      BY <2>1, SortedProperties
    <2> QED BY <1>1, <2>2
  <1> QED BY <1>7

----------------------------------------------------------------------------
(* What is stored of a conversation                                        *)

\* InOrder, of rows.
Ordered(rows) ==
    [i \in 1 .. Cardinality(rows) |-> (CHOOSE row \in rows : row.object = i).window]

RowOf(windows, i) == [object |-> i, path |-> i, window |-> windows[i]]

LEMMA RowsOfProperties ==
    ASSUME NEW windows \in Seq(Seq(Message))
    PROVE  /\ RowsOf(windows) \in SUBSET Row
           /\ RowsOf(windows) = {RowOf(windows, i) : i \in 1 .. Len(windows)}
           /\ Ordered(RowsOf(windows)) = windows
           /\ {row.object : row \in RowsOf(windows)} = DOMAIN windows
  <1> DEFINE n == Len(windows)
             rows == RowsOf(windows)
             at == [i \in 1 .. n |-> RowOf(windows, i)]
  <1>1. /\ n \in Nat /\ DOMAIN windows = 1 .. n /\ windows \in [1 .. n -> Seq(Message)]
        /\ \A i \in 1 .. n : windows[i] \in Seq(Message)
    BY LenProperties, ElementOfSeq
  <1>2. rows = {RowOf(windows, i) : i \in 1 .. n}
    BY <1>1 DEF RowsOf, RowOf
  <1>3. ASSUME NEW i \in 1 .. n
        PROVE  /\ RowOf(windows, i) \in Row /\ RowOf(windows, i).object = i
               /\ RowOf(windows, i).window = windows[i]
    BY <1>1 DEF RowOf, Row
  <1> HIDE DEF rows
  <1>4. rows \in SUBSET Row /\ {row.object : row \in rows} = 1 .. n
    BY <1>2, <1>3
  <1>5. Cardinality(rows) = n
    <2>1. at \in [1 .. n -> rows]
      BY <1>2
    <2>2. /\ \A i, j \in 1 .. n : at[i] = at[j] => i = j
          /\ \A row \in rows : \E i \in 1 .. n : at[i] = row
      BY <1>2, <1>3
    <2> HIDE DEF at
    <2>3. at \in Surjection(1 .. n, rows) /\ at \in Injection(1 .. n, rows)
      BY <2>1, <2>2 DEF Surjection, Injection, IsInjective
    <2>4. IsFiniteSet(1 .. n) /\ Cardinality(1 .. n) = n
      BY <1>1, FS_Interval
    <2> QED BY <2>3, <2>4, FS_Surjection
  <1>6. ASSUME NEW i \in 1 .. n
        PROVE  (CHOOSE row \in rows : row.object = i).window = windows[i]
    <2> DEFINE chosen == CHOOSE row \in rows : row.object = i
    <2>1. RowOf(windows, i) \in rows /\ RowOf(windows, i).object = i
      BY <1>2, <1>3
    <2>2. chosen \in rows /\ chosen.object = i
      BY <2>1
    <2> HIDE DEF chosen
    <2>3. chosen = RowOf(windows, i)
      BY <1>2, <1>3, <2>2
    <2>4. chosen.window = windows[i]
      BY <1>3, <2>3
    <2> QED BY <2>4 DEF chosen
  <1>7. Ordered(rows) = windows
    <2> DEFINE chosen(i) == (CHOOSE row \in rows : row.object = i).window
    <2>1. Ordered(rows) = [i \in 1 .. Cardinality(rows) |-> chosen(i)]
      BY DEF Ordered
    <2>2. \A i \in 1 .. n : chosen(i) = windows[i]
      BY <1>6
    <2> HIDE DEF chosen
    <2>3. Ordered(rows) = [i \in 1 .. n |-> windows[i]]
      BY <1>5, <2>1, <2>2
    <2> QED BY <1>1, <2>3
  <1> QED BY <1>1, <1>2, <1>4, <1>7 DEF rows

\* What an import stores of an export.
Stored(export) == RowsOf(Windows(Sorted(export)))

LEMMA StoredProperties ==
    ASSUME NEW export \in Seq(Message)
    PROVE  /\ Stored(export) \in SUBSET Row
           /\ Ordered(Stored(export)) = Windows(Sorted(export))
           /\ Windows(Sorted(export)) \in Seq(Seq(Message))
           /\ {row.object : row \in Stored(export)} = DOMAIN Windows(Sorted(export))
           /\ WindowsAreTight(Windows(Sorted(export)), WindowSize, WindowGap)
           /\ FlattenSeq(Windows(Sorted(export))) = Sorted(export)
           /\ Sorted(FlattenSeq(Ordered(Stored(export)))) = Sorted(export)
  <1>1. Sorted(export) \in Seq(Message)
    BY SortedProperties
  <1>2. Timed(Message)
    BY MessageType DEF Timed
  <1>3. /\ Windows(Sorted(export)) \in Seq(Seq(Message))
        /\ WindowsAreTight(Windows(Sorted(export)), WindowSize, WindowGap)
    BY <1>1, <1>2, LimitAssumption, ConversationIsTight DEF Windows
  <1>4. FlattenSeq(Windows(Sorted(export))) = Sorted(export)
    BY <1>1, WindowsHoldTheConversation DEF Windows
  <1>5. /\ Stored(export) \in SUBSET Row
        /\ Ordered(Stored(export)) = Windows(Sorted(export))
        /\ {row.object : row \in Stored(export)} = DOMAIN Windows(Sorted(export))
    BY <1>3, RowsOfProperties DEF Stored
  <1>6. Sorted(Sorted(export)) = Sorted(export)
    BY SortedIsIdempotent
  <1> QED BY <1>3, <1>4, <1>5, <1>6

\* A source with no windows has those of an empty export.
LEMMA NothingStored ==
    /\ <<>> \in Seq(Message) /\ Valid(<<>>) /\ Stored(<<>>) = {}
  <1> DEFINE none == <<>>
  <1>1. none \in Seq(Message) /\ Len(none) = 0 /\ DOMAIN none = 1 .. 0
    OBVIOUS
  <1>2. Valid(none)
    <2>1. IdsOf(none) = {}
      BY <1>1 DEF IdsOf
    <2>2. Cardinality({}) = 0
      BY FS_EmptySet
    <2>3. 1 .. 0 = {}
      OBVIOUS
    <2> HIDE DEF none
    <2> QED BY <1>1, <2>1, <2>2, <2>3 DEF Valid
  <1>3. Sorted(none) = none
    <2>1. Sorted(none) \in Seq(Message) /\ Len(Sorted(none)) = 0
      BY <1>1, SortedProperties
    <2> QED BY <2>1, EmptySeq
  <1>4. Windows(none) = <<>>
    <2>1. PICK run : Passes(run, Message, none, WindowSize, WindowGap)
      BY <1>1, ConversationRuns
    <2> QED BY <1>1, <2>1 DEF Passes, Windows
  <1>5. RowsOf(<<>>) = {}
    BY DEF RowsOf
  <1> QED BY <1>1, <1>2, <1>3, <1>4, <1>5 DEF Stored

\* Of two exports' windows, those the beginning they share has settled are
\* stored for both.
LEMMA SettledRowsAreStored ==
    ASSUME NEW e \in Seq(Message), NEW f \in Seq(Message), Valid(e),
           NEW row \in Stored(e), Settled(row, Sorted(e), Sorted(f))
    PROVE  row \in Stored(f)
  <1> DEFINE a == Sorted(e)
             b == Sorted(f)
             last == CHOOSE k \in DOMAIN a : a[k] = Last(row.window)
  <1>1. /\ a \in Seq(Message) /\ b \in Seq(Message)
        /\ DOMAIN a = 1 .. Len(a) /\ Len(a) \in Nat /\ Len(b) \in Nat
    BY SortedProperties, LenProperties
  <1>2. /\ Windows(a) \in Seq(Seq(Message)) /\ Windows(b) \in Seq(Seq(Message))
        /\ Stored(e) = {RowOf(Windows(a), i) : i \in 1 .. Len(Windows(a))}
        /\ Stored(f) = {RowOf(Windows(b), i) : i \in 1 .. Len(Windows(b))}
    BY StoredProperties, RowsOfProperties DEF Stored
  <1>3. PICK i \in 1 .. Len(Windows(a)) : row = RowOf(Windows(a), i)
    BY <1>2
  <1>4. PICK c \in 1 .. Len(a) :
          /\ Last(Windows(a)[i]) = a[c]
          /\ c < Len(a) /\ c < Len(b) /\ (\A k \in 1 .. c + 1 : a[k] = b[k])
               => i \in 1 .. Len(Windows(b)) /\ Windows(b)[i] = Windows(a)[i]
    <2> HIDE DEF a, b
    <2>1. PICK c : EndsAt(c, i, Windows(a), Windows(b), a, b)
      BY <1>1, SettledWindowsStay DEF Windows
    <2> QED BY <2>1 DEF EndsAt
  <1>5. Last(row.window) = a[c]
    BY <1>3, <1>4 DEF RowOf
  <1>6. last = c
    <2>1. \A k \in 1 .. Len(a) : a[k].id = a[c].id => k = c
      <3>1. Len(a) = Len(e)
        BY SortedProperties
      <3> QED BY <3>1, SortedIdsDiffer
    <2>2. c \in DOMAIN a /\ a[c] = Last(row.window)
      BY <1>1, <1>5
    <2> HIDE DEF a
    <2>3. last \in DOMAIN a /\ a[last] = Last(row.window)
      BY <2>2, Zenon
    <2> HIDE DEF last
    <2> QED BY <1>1, <2>1, <2>2, <2>3
  <1>7. /\ Len(a) > c /\ Len(b) > c
        /\ SubSeq(a, 1, c + 1) = SubSeq(b, 1, c + 1)
    BY <1>6 DEF Settled
  <1>8. \A k \in 1 .. c + 1 : a[k] = b[k]
    <2> HIDE DEF a, b
    <2>1. c + 1 \in 1 .. Len(a) /\ c + 1 \in 1 .. Len(b) /\ c \in Nat
      BY <1>1, <1>7
    <2>2. \A k \in 1 .. c + 1 : SubSeq(a, 1, c + 1)[k] = a[k] /\ SubSeq(b, 1, c + 1)[k] = b[k]
      BY <1>1, <2>1
    <2> QED BY <1>7, <2>2
  <1>9. i \in 1 .. Len(Windows(b)) /\ Windows(b)[i] = Windows(a)[i]
    <2> HIDE DEF a, b
    <2> QED BY <1>1, <1>4, <1>7, <1>8
  <1>10. row = RowOf(Windows(b), i)
    BY <1>3, <1>9 DEF RowOf
  <1> QED BY <1>2, <1>9, <1>10

----------------------------------------------------------------------------
(* The imports                                                             *)

ImportsTyped ==
    /\ file \in Exports \cup {None}
    /\ stamp \in Nat
    /\ edits \in 0 .. MaxEdits
    /\ stamp <= edits
    /\ pc \in [Procs -> Stages]
    /\ job \in [Procs -> Job]

RunsTyped ==
    /\ live \subseteq SourceIds
    /\ phase \in [RunIds -> {"none", "open", "published", "failed"}]
    /\ owner \in [RunIds -> SourceIds \cup {None}]

ReadingExport == {"open", "reading", "compare"}

\* An import that saw the identity that is still there has seen what is there.
SameIdentitySameExport(p) ==
    /\ job[p].stamp <= stamp
    /\ job[p].stamp = stamp =>
         \/ job[p].unseen
         \/ /\ file # None
            /\ file \in job[p].held
            /\ pc[p] = "reading" => job[p].first = file
            /\ pc[p] = "compare" => job[p].messages = file

WasHeld(p, e) == job[p].unseen \/ e \in job[p].held

\* What passed the checks, sorted, is what is split and stored.
ImportFits(p) ==
    /\ pc[p] \in ReadingExport => SameIdentitySameExport(p)
    /\ pc[p] = "reading" => job[p].first \in Exports
    /\ pc[p] \in {"parsed", "registered", "started"} =>
         \E e \in Seq(Message) :
            Valid(e) /\ WasHeld(p, e) /\ job[p].messages = Sorted(e)
    /\ pc[p] = "split" =>
         \E e \in Seq(Message) :
            Valid(e) /\ WasHeld(p, e) /\ job[p].rows = Stored(e)

\* The rows of a source are those of one valid export, or of an empty one.
SnapshotFits(s) ==
    \E e \in Seq(Message) : Valid(e) /\ snapshot[s] = Stored(e)

StoreFits ==
    /\ snapshot \in [SourceIds -> SUBSET Row]
    /\ \A s \in SourceIds : SnapshotFits(s)

ImportInv ==
    /\ ImportsTyped
    /\ \A p \in Procs : ImportFits(p)
    /\ StoreFits

LEMMA ExportType == ASSUME NEW e \in Exports PROVE e \in Seq(Message) /\ e # None
  BY ExportAssumption

\* Who reads one content gets it.
LEMMA MixtureOfOne ==
    ASSUME NEW S, NEW a \in Seq(S)
    PROVE  Mixtures(a, a) = {a}
  <1>1. ASSUME NEW k \in 0 .. Len(a)
        PROVE  SubSeq(a, 1, k) \o SubSeq(a, k + 1, Len(a)) = a
    <2> DEFINE s == SubSeq(a, 1, k)
               t == SubSeq(a, k + 1, Len(a))
    <2>1. Len(a) \in Nat /\ k \in Nat /\ k <= Len(a)
      BY LenProperties
    <2>2. /\ s \in Seq(S) /\ Len(s) = k
          /\ \A i \in 1 .. k : s[i] = a[i]
      BY <2>1
    <2>3. /\ t \in Seq(S) /\ Len(t) = Len(a) - k
          /\ \A i \in 1 .. Len(a) - k : t[i] = a[k + i]
      BY <2>1
    <2> HIDE DEF s, t
    <2>4. /\ s \o t \in Seq(S) /\ Len(s \o t) = Len(a)
          /\ \A i \in 1 .. Len(a) : (s \o t)[i] =
               IF i <= k THEN s[i] ELSE t[i - k]
      BY <2>1, <2>2, <2>3, ConcatProperties
    <2>5. ASSUME NEW i \in 1 .. Len(a) PROVE (s \o t)[i] = a[i]
      <3>1. CASE i <= k
        BY <2>1, <2>2, <2>4, <3>1
      <3>2. CASE ~ (i <= k)
        <4>1. i - k \in 1 .. Len(a) - k /\ k + (i - k) = i
          BY <2>1, <3>2
        <4>2. t[i - k] = a[i]
          BY <2>3, <4>1
        <4> QED BY <2>4, <3>2, <4>2
      <3> QED BY <3>1, <3>2
    <2>6. s \o t = a
      BY <2>4, <2>5, SeqEqual
    <2> QED BY <2>6 DEF s, t
  <1> QED BY <1>1 DEF Mixtures

LEMMA MixtureType ==
    ASSUME NEW S, NEW a \in Seq(S), NEW b \in Seq(S)
    PROVE  Mixtures(a, b) \subseteq Seq(S)
  <1>1. ASSUME NEW k \in 0 .. Len(a)
        PROVE  SubSeq(a, 1, k) \o SubSeq(b, k + 1, Len(b)) \in Seq(S)
    <2>1. Len(a) \in Nat /\ k \in Nat /\ k <= Len(a) /\ Len(b) \in Nat
      BY LenProperties
    <2>2. SubSeq(a, 1, k) \in Seq(S) /\ SubSeq(b, k + 1, Len(b)) \in Seq(S)
      BY <2>1
    <2> QED BY <2>2, ConcatProperties
  <1> QED BY <1>1 DEF Mixtures

\* A step of p leaves the others as they are.
LEMMA OthersImport ==
    ASSUME ImportInv, NEW p \in Procs, NEW j, j \in Job, NEW to \in Stages,
           job' = [job EXCEPT ![p] = j], pc' = [pc EXCEPT ![p] = to],
           UNCHANGED <<file, stamp, edits>>
    PROVE  /\ ImportsTyped'
           /\ job'[p] = j /\ pc'[p] = to
           /\ ImportFits(p)' => \A q \in Procs : ImportFits(q)'
  <1>1. pc \in [Procs -> Stages] /\ job \in [Procs -> Job]
    BY DEF ImportInv, ImportsTyped
  <1>2. /\ job'[p] = j /\ pc'[p] = to
        /\ \A q \in Procs \ {p} : job'[q] = job[q] /\ pc'[q] = pc[q]
        /\ job' \in [Procs -> Job]
        /\ pc' \in [Procs -> Stages]
    BY <1>1
  <1>4. ImportsTyped'
    BY <1>2 DEF ImportInv, ImportsTyped, Job, Stages
  <1>5. ASSUME NEW q \in Procs \ {p} PROVE ImportFits(q)'
    <2>1. ImportFits(q) /\ job'[q] = job[q] /\ pc'[q] = pc[q]
      BY <1>2 DEF ImportInv
    <2> QED BY <2>1 DEF ImportFits, SameIdentitySameExport, WasHeld
  <1> QED BY <1>2, <1>4, <1>5

LEMMA NoJobType == NoJob \in Job
  <1>1. <<>> \in Seq(Message)
    OBVIOUS
  <1> QED BY <1>1 DEF Job, NoJob

\* An import that ends.
LEMMA FinishKeepsImports ==
    ASSUME ImportInv, NEW p \in Procs, Finish(p), UNCHANGED <<file, stamp, edits>>
    PROVE  ImportsTyped' /\ \A q \in Procs : ImportFits(q)'
  <1>1. NoJob \in Job /\ "idle" \in Stages
    BY NoJobType DEF Stages
  <1>2. job' = [job EXCEPT ![p] = NoJob] /\ pc' = [pc EXCEPT ![p] = "idle"]
    BY DEF Finish, GoTo
  <1>3. ImportsTyped' /\ pc'[p] = "idle" /\ (ImportFits(p)' => \A q \in Procs : ImportFits(q)')
    BY <1>1, <1>2, OthersImport
  <1>4. ImportFits(p)'
    BY <1>3 DEF ImportFits, ReadingExport
  <1> QED BY <1>3, <1>4

\* The store's rows change only where p publishes and where the user withdraws.
LEMMA StoreStays ==
    ASSUME StoreFits, UNCHANGED snapshot
    PROVE  StoreFits'
  BY DEF StoreFits, SnapshotFits

LEMMA FirstStatKeepsImports ==
    ASSUME ImportInv, NEW p \in Procs, FirstStat(p)
    PROVE  ImportInv'
  <1>1. UNCHANGED <<file, stamp, edits, snapshot>> /\ file # None
    BY DEF FirstStat, fileVars, storeVars
  <1>0. file \in Exports /\ file \in Seq(Message)
    BY <1>1, ExportType DEF ImportInv, ImportsTyped
  <1>2. PICK held \in SUBSET Exports : held = {file}
    BY <1>0
  <1>3. PICK size \in Nat : size = Len(file)
    BY <1>0, LenProperties
  <1> DEFINE none == NoJob
             j == [stamp |-> stamp, size |-> size, first |-> none.first,
                   messages |-> none.messages, source |-> none.source, run |-> none.run,
                   rows |-> none.rows, held |-> held, unseen |-> none.unseen]
  <1>4. none \in Job
    BY NoJobType
  <1>5. job' = [job EXCEPT ![p] =
          [none EXCEPT !.stamp = stamp, !.size = size, !.held = held]]
    BY <1>2, <1>3, Zenon DEF FirstStat
  <1> HIDE DEF none
  <1>6. [none EXCEPT !.stamp = stamp, !.size = size, !.held = held] = j
    <2> DEFINE a == [none EXCEPT !.stamp = stamp]
               b == [a EXCEPT !.size = size]
    <2>1. a = [stamp |-> stamp, size |-> none.size, first |-> none.first,
               messages |-> none.messages, source |-> none.source, run |-> none.run,
               rows |-> none.rows, held |-> none.held, unseen |-> none.unseen]
      BY <1>4 DEF Job
    <2> HIDE DEF a
    <2>2. b = [stamp |-> stamp, size |-> size, first |-> none.first,
               messages |-> none.messages, source |-> none.source, run |-> none.run,
               rows |-> none.rows, held |-> none.held, unseen |-> none.unseen]
      BY <2>1
    <2> HIDE DEF b
    <2>3. [b EXCEPT !.held = held] = j
      BY <2>2
    <2> QED BY <2>3, Zenon DEF a, b
  <1>7. pc' = [pc EXCEPT ![p] = "open"] /\ "open" \in Stages
    BY DEF FirstStat, GoTo, Stages
  <1>8. j \in Job /\ stamp \in Nat
    BY <1>4 DEF Job, ImportInv, ImportsTyped
  <1>9. j.stamp = stamp /\ j.held = held
    OBVIOUS
  <1> HIDE DEF j
  <1>10. /\ ImportsTyped' /\ job'[p] = j /\ pc'[p] = "open"
         /\ ImportFits(p)' => \A q \in Procs : ImportFits(q)'
    BY <1>1, <1>5, <1>6, <1>7, <1>8, OthersImport
  <1>11. ImportFits(p)'
    BY <1>1, <1>2, <1>8, <1>9, <1>10 DEF ImportFits, SameIdentitySameExport
  <1>12. StoreFits'
    BY <1>1, StoreStays DEF ImportInv
  <1> QED BY <1>10, <1>11, <1>12 DEF ImportInv

LEMMA OpenKeepsImports ==
    ASSUME ImportInv, NEW p \in Procs, Open(p)
    PROVE  ImportInv'
  <1> DEFINE i == job[p]
             j == [stamp |-> i.stamp, size |-> i.size, first |-> file,
                   messages |-> i.messages, source |-> i.source, run |-> i.run,
                   rows |-> i.rows, held |-> i.held, unseen |-> i.unseen]
  <1>1. UNCHANGED <<file, stamp, edits, snapshot>> /\ pc[p] = "open" /\ file \in Exports
    BY DEF Open, fileVars, storeVars, ImportInv, ImportsTyped
  <1>2. i \in Job /\ job = [q \in Procs |-> job[q]]
    BY DEF ImportInv, ImportsTyped
  <1>3. job' = [job EXCEPT ![p] = [i EXCEPT !.first = file]]
    BY <1>2 DEF Open
  <1>4. [i EXCEPT !.first = file] = j
    BY <1>2 DEF Job
  <1>5. pc' = [pc EXCEPT ![p] = "reading"] /\ "reading" \in Stages
    BY DEF Open, GoTo, Stages
  <1>6. j \in Job
    BY <1>1, <1>2 DEF Job
  <1>7. j.stamp = i.stamp /\ j.held = i.held /\ j.unseen = i.unseen /\ j.first = file
    OBVIOUS
  <1> HIDE DEF j
  <1>8. /\ ImportsTyped' /\ job'[p] = j /\ pc'[p] = "reading"
        /\ ImportFits(p)' => \A q \in Procs : ImportFits(q)'
    BY <1>1, <1>3, <1>4, <1>5, <1>6, OthersImport
  <1>9. SameIdentitySameExport(p)
    BY <1>1 DEF ImportInv, ImportFits, ReadingExport
  <1>10. ImportFits(p)'
    BY <1>1, <1>7, <1>8, <1>9 DEF ImportFits, SameIdentitySameExport
  <1>11. StoreFits'
    BY <1>1, StoreStays DEF ImportInv
  <1> QED BY <1>8, <1>10, <1>11 DEF ImportInv

\* Two changes of one job.
LEMMA ChangedTwice ==
    ASSUME NEW f, f = [q \in Procs |-> f[q]], NEW p \in Procs, NEW a, NEW b
    PROVE  LET g == [f EXCEPT ![p] = a]
           IN  g[p] = a /\ [g EXCEPT ![p] = b] = [f EXCEPT ![p] = b]
  OBVIOUS

LEMMA ReadKeepsImports ==
    ASSUME ImportInv, NEW p \in Procs, Read(p)
    PROVE  ImportInv'
  <1> DEFINE i == job[p]
             to == IF file = None THEN i.first ELSE file
  <1>1. UNCHANGED <<file, stamp, edits, snapshot>> /\ pc[p] = "reading"
    BY DEF Read, fileVars, storeVars
  <1>2. i \in Job /\ job = [q \in Procs |-> job[q]]
    BY DEF ImportInv, ImportsTyped
  <1>3. PICK messages \in Mixtures(i.first, to) :
          job' = [job EXCEPT ![p].first = None, ![p].messages = messages]
    BY Zenon DEF Read
  <1> DEFINE a == [i EXCEPT !.first = None]
             b == [a EXCEPT !.messages = messages]
             j == [stamp |-> i.stamp, size |-> i.size, first |-> None,
                   messages |-> messages, source |-> i.source, run |-> i.run,
                   rows |-> i.rows, held |-> i.held, unseen |-> i.unseen]
  <1>4. a = [stamp |-> i.stamp, size |-> i.size, first |-> None,
             messages |-> i.messages, source |-> i.source, run |-> i.run,
             rows |-> i.rows, held |-> i.held, unseen |-> i.unseen]
    BY <1>2 DEF Job
  <1> HIDE DEF a
  <1>5. b = j
    BY <1>4
  <1> HIDE DEF b
  <1>6. job' = [job EXCEPT ![p] = b]
    BY <1>2, <1>3, ChangedTwice, Zenon DEF a, b
  <1>7. pc' = [pc EXCEPT ![p] = "compare"] /\ "compare" \in Stages
    BY DEF Read, GoTo, Stages
  <1>16. messages \in Seq(Message)
    <2>1. i.first \in Seq(Message)
      BY <1>1, ExportType DEF ImportInv, ImportFits
    <2>2. to \in Seq(Message)
      BY <2>1, ExportType DEF ImportInv, ImportsTyped
    <2> HIDE DEF to
    <2> QED BY <1>3, <2>1, <2>2, MixtureType
  <1>8. j \in Job
    BY <1>2, <1>16 DEF Job
  <1>9. j.stamp = i.stamp /\ j.held = i.held /\ j.unseen = i.unseen /\ j.messages = messages
    OBVIOUS
  <1> HIDE DEF j
  <1>10. /\ ImportsTyped' /\ job'[p] = j /\ pc'[p] = "compare"
         /\ ImportFits(p)' => \A q \in Procs : ImportFits(q)'
    BY <1>1, <1>5, <1>6, <1>7, <1>8, OthersImport
  <1>11. SameIdentitySameExport(p)
    BY <1>1 DEF ImportInv, ImportFits, ReadingExport
  <1>12. ASSUME file # None, i.first = file PROVE messages = file
    <2>1. file \in Seq(Message)
      BY <1>12, ExportType DEF ImportInv, ImportsTyped
    <2>2. Mixtures(file, file) = {file}
      BY <2>1, MixtureOfOne
    <2> QED BY <1>3, <1>12, <2>2
  <1>13. SameIdentitySameExport(p)'
    BY <1>1, <1>9, <1>10, <1>11, <1>12 DEF SameIdentitySameExport
  <1>14. ImportFits(p)'
    BY <1>10, <1>13 DEF ImportFits
  <1>15. StoreFits'
    BY <1>1, StoreStays DEF ImportInv
  <1> QED BY <1>10, <1>14, <1>15 DEF ImportInv

LEMMA ParseKeepsImports ==
    ASSUME ImportInv, NEW p \in Procs, Parse(p)
    PROVE  ImportInv'
  <1> DEFINE i == job[p]
             sorted == Sorted(i.messages)
             j == [stamp |-> 0, size |-> 0, first |-> i.first,
                   messages |-> sorted, source |-> i.source, run |-> i.run,
                   rows |-> i.rows, held |-> i.held, unseen |-> i.unseen]
  <1>1. /\ UNCHANGED <<file, stamp, edits, snapshot>> /\ pc[p] = "compare"
        /\ file # None /\ stamp = i.stamp /\ Valid(i.messages)
    BY DEF Parse, Unchanged, fileVars, storeVars
  <1>2. i \in Job /\ job = [q \in Procs |-> job[q]]
    BY DEF ImportInv, ImportsTyped
  <1> DEFINE a == [i EXCEPT !.stamp = 0]
             b == [a EXCEPT !.size = 0]
             c == [b EXCEPT !.messages = Sorted(@)]
  <1>3. job' = [job EXCEPT ![p] = c]
    <2> DEFINE f == [job EXCEPT ![p] = a]
               g == [f EXCEPT ![p] = b]
               h == [job EXCEPT ![p] = b]
    <2>1. job' = [[job EXCEPT ![p].stamp = 0, ![p].size = 0]
                        EXCEPT ![p].messages = Sorted(@)]
      BY Zenon DEF Parse
    <2> HIDE DEF a, b, c
    <2>2. f[p] = a /\ g = h
      BY <1>2, ChangedTwice, Zenon
    <2>3. h[p] = b /\ [h EXCEPT ![p] = c] = [job EXCEPT ![p] = c]
      BY <1>2, ChangedTwice, Zenon
    <2> HIDE DEF g, h
    <2>4. [job EXCEPT ![p].stamp = 0, ![p].size = 0] = g
      BY <2>2, Zenon DEF a, b, f, g
    <2>5. [g EXCEPT ![p].messages = Sorted(@)] = [g EXCEPT ![p] = c]
      BY <2>2, <2>3, Zenon DEF c
    <2> QED BY <2>1, <2>2, <2>3, <2>4, <2>5, Zenon
  <1>4. a = [stamp |-> 0, size |-> i.size, first |-> i.first,
             messages |-> i.messages, source |-> i.source, run |-> i.run,
             rows |-> i.rows, held |-> i.held, unseen |-> i.unseen]
    BY <1>2 DEF Job
  <1> HIDE DEF a
  <1>5. b = [stamp |-> 0, size |-> 0, first |-> i.first,
             messages |-> i.messages, source |-> i.source, run |-> i.run,
             rows |-> i.rows, held |-> i.held, unseen |-> i.unseen]
    BY <1>4
  <1> HIDE DEF b
  <1>6. b.messages = i.messages
    BY <1>5
  <1>7. c = [b EXCEPT !.messages = sorted]
    BY <1>6, Zenon
  <1> HIDE DEF sorted, c
  <1>8. c = j
    BY <1>5, <1>7
  <1>9. pc' = [pc EXCEPT ![p] = "parsed"] /\ "parsed" \in Stages
    BY DEF Parse, GoTo, Stages
  <1>18. i.messages \in Seq(Message)
    BY <1>2 DEF Job
  <1>19. sorted \in Seq(Message)
    BY <1>18, SortedProperties DEF sorted
  <1>10. j \in Job
    BY <1>2, <1>19 DEF Job
  <1>11. j.held = i.held /\ j.unseen = i.unseen /\ j.messages = sorted
    OBVIOUS
  <1> HIDE DEF j
  <1>12. /\ ImportsTyped' /\ job'[p] = j /\ pc'[p] = "parsed"
         /\ ImportFits(p)' => \A q \in Procs : ImportFits(q)'
    BY <1>1, <1>3, <1>8, <1>9, <1>10, OthersImport
  <1>13. i.unseen \/ i.messages \in i.held
    BY <1>1 DEF ImportInv, ImportFits, ReadingExport, SameIdentitySameExport
  <1>14. PICK e \in Seq(Message) : e = i.messages
    BY <1>18
  <1>15. /\ Valid(e) /\ WasHeld(p, e)'
         /\ job'[p].messages = Sorted(e)
    BY <1>1, <1>11, <1>12, <1>13, <1>14 DEF WasHeld, sorted
  <1>16. ImportFits(p)'
    BY <1>12, <1>15 DEF ImportFits, ReadingExport
  <1>17. StoreFits'
    BY <1>1, StoreStays DEF ImportInv
  <1> QED BY <1>12, <1>16, <1>17 DEF ImportInv

LEMMA EndingKeepsImports ==
    ASSUME ImportInv, NEW p \in Procs, Reject(p) \/ FailRun(p) \/ Crash(p)
    PROVE  ImportInv'
  <1>1. Finish(p) /\ UNCHANGED <<file, stamp, edits, snapshot>>
    BY DEF Reject, FailRun, Crash, Store!Fail,
           fileVars, storeVars
  <1>2. ImportsTyped' /\ \A q \in Procs : ImportFits(q)'
    BY <1>1, FinishKeepsImports
  <1>3. StoreFits'
    BY <1>1, StoreStays DEF ImportInv
  <1> QED BY <1>2, <1>3 DEF ImportInv

LEMMA RegisterKeepsImports ==
    ASSUME ImportInv, NEW p \in Procs, Register(p)
    PROVE  ImportInv'
  <1> DEFINE i == job[p]
  <1>1. /\ UNCHANGED <<file, stamp, edits, snapshot>> /\ pc[p] = "parsed"
    BY DEF Register, Store!Register, fileVars, storeVars
  <1>2. PICK s \in SourceIds : job' = [job EXCEPT ![p] = [i EXCEPT !.source = s]]
    BY Zenon DEF Register
  <1> DEFINE j == [stamp |-> i.stamp, size |-> i.size, first |-> i.first,
                   messages |-> i.messages, source |-> s, run |-> i.run,
                   rows |-> i.rows, held |-> i.held, unseen |-> i.unseen]
  <1>3. i \in Job
    BY DEF ImportInv, ImportsTyped
  <1>4. [i EXCEPT !.source = s] = j
    BY <1>3 DEF Job
  <1>5. pc' = [pc EXCEPT ![p] = "registered"] /\ "registered" \in Stages
    BY DEF Register, GoTo, Stages
  <1>6. j \in Job
    BY <1>3 DEF Job
  <1>7. j.held = i.held /\ j.unseen = i.unseen /\ j.messages = i.messages
    OBVIOUS
  <1> HIDE DEF j
  <1>8. /\ ImportsTyped' /\ job'[p] = j /\ pc'[p] = "registered"
        /\ ImportFits(p)' => \A q \in Procs : ImportFits(q)'
    BY <1>1, <1>2, <1>4, <1>5, <1>6, OthersImport
  <1>9. PICK e \in Seq(Message) : Valid(e) /\ WasHeld(p, e) /\ i.messages = Sorted(e)
    BY <1>1 DEF ImportInv, ImportFits
  <1>10. WasHeld(p, e)' /\ job'[p].messages = Sorted(e)
    BY <1>7, <1>8, <1>9 DEF WasHeld
  <1>11. ImportFits(p)'
    BY <1>8, <1>9, <1>10 DEF ImportFits, ReadingExport
  <1>12. StoreFits'
    BY <1>1, StoreStays DEF ImportInv
  <1> QED BY <1>8, <1>11, <1>12 DEF ImportInv

LEMMA StartRunKeepsImports ==
    ASSUME ImportInv, NEW p \in Procs, StartRun(p)
    PROVE  ImportInv'
  <1> DEFINE i == job[p]
  <1>1. /\ UNCHANGED <<file, stamp, edits, snapshot>> /\ pc[p] = "registered"
    BY DEF StartRun, Store!Begin, fileVars
  <1>2. PICK r \in RunIds : job' = [job EXCEPT ![p] = [i EXCEPT !.run = r]]
    BY Zenon DEF StartRun
  <1> DEFINE j == [stamp |-> i.stamp, size |-> i.size, first |-> i.first,
                   messages |-> i.messages, source |-> i.source, run |-> r,
                   rows |-> i.rows, held |-> i.held, unseen |-> i.unseen]
  <1>3. i \in Job
    BY DEF ImportInv, ImportsTyped
  <1>4. [i EXCEPT !.run = r] = j
    BY <1>3 DEF Job
  <1>5. pc' = [pc EXCEPT ![p] = "started"] /\ "started" \in Stages
    BY DEF StartRun, GoTo, Stages
  <1>6. j \in Job
    BY <1>3 DEF Job
  <1>7. j.held = i.held /\ j.unseen = i.unseen /\ j.messages = i.messages
    OBVIOUS
  <1> HIDE DEF j
  <1>8. /\ ImportsTyped' /\ job'[p] = j /\ pc'[p] = "started"
        /\ ImportFits(p)' => \A q \in Procs : ImportFits(q)'
    BY <1>1, <1>2, <1>4, <1>5, <1>6, OthersImport
  <1>9. PICK e \in Seq(Message) : Valid(e) /\ WasHeld(p, e) /\ i.messages = Sorted(e)
    BY <1>1 DEF ImportInv, ImportFits
  <1>10. WasHeld(p, e)' /\ job'[p].messages = Sorted(e)
    BY <1>7, <1>8, <1>9 DEF WasHeld
  <1>11. ImportFits(p)'
    BY <1>8, <1>9, <1>10 DEF ImportFits, ReadingExport
  <1>12. StoreFits'
    BY <1>1, StoreStays DEF ImportInv
  <1> QED BY <1>8, <1>11, <1>12 DEF ImportInv

LEMMA SplitKeepsImports ==
    ASSUME ImportInv, NEW p \in Procs, Split(p)
    PROVE  ImportInv'
  <1> DEFINE i == job[p]
  <1>1. UNCHANGED <<file, stamp, edits, snapshot>> /\ pc[p] = "started"
    BY DEF Split, fileVars, storeVars
  <1>2. i \in Job /\ job = [q \in Procs |-> job[q]]
    BY DEF ImportInv, ImportsTyped
  <1>12. PICK e \in Seq(Message) : Valid(e) /\ WasHeld(p, e) /\ i.messages = Sorted(e)
    BY <1>1 DEF ImportInv, ImportFits
  <1>3. PICK rows \in SUBSET Row : rows = RowsOf(Windows(i.messages)) /\ rows = Stored(e)
    BY <1>12, StoredProperties DEF Stored
  <1> DEFINE a == [i EXCEPT !.messages = <<>>]
             b == [a EXCEPT !.rows = rows]
             j == [stamp |-> i.stamp, size |-> i.size, first |-> i.first,
                   messages |-> <<>>, source |-> i.source, run |-> i.run,
                   rows |-> rows, held |-> i.held, unseen |-> i.unseen]
  <1>4. job' = [job EXCEPT ![p].messages = <<>>, ![p].rows = rows]
    BY <1>3, Zenon DEF Split
  <1>5. a = [stamp |-> i.stamp, size |-> i.size, first |-> i.first,
             messages |-> <<>>, source |-> i.source, run |-> i.run,
             rows |-> i.rows, held |-> i.held, unseen |-> i.unseen]
    BY <1>2 DEF Job
  <1> HIDE DEF a
  <1>6. b = j
    BY <1>5
  <1> HIDE DEF b
  <1>7. job' = [job EXCEPT ![p] = b]
    BY <1>2, <1>4, ChangedTwice, Zenon DEF a, b
  <1>8. pc' = [pc EXCEPT ![p] = "split"] /\ "split" \in Stages
    BY DEF Split, GoTo, Stages
  <1>9. j \in Job
    BY <1>2 DEF Job
  <1>10. j.held = i.held /\ j.unseen = i.unseen /\ j.rows = rows
    OBVIOUS
  <1> HIDE DEF j
  <1>11. /\ ImportsTyped' /\ job'[p] = j /\ pc'[p] = "split"
         /\ ImportFits(p)' => \A q \in Procs : ImportFits(q)'
    BY <1>1, <1>6, <1>7, <1>8, <1>9, OthersImport
  <1>13. /\ WasHeld(p, e)'
         /\ job'[p].rows = Stored(e)
    BY <1>3, <1>10, <1>11, <1>12 DEF WasHeld
  <1>14. ImportFits(p)'
    BY <1>11, <1>12, <1>13 DEF ImportFits, ReadingExport
  <1>15. StoreFits'
    BY <1>1, StoreStays DEF ImportInv
  <1> QED BY <1>11, <1>14, <1>15 DEF ImportInv

\* What a step puts into the store.
LEMMA PublishChanges ==
    ASSUME ImportInv, NEW p \in Procs, Publish(p)
    PROVE  /\ StoreFits'
           /\ \A s \in SourceIds : snapshot'[s] # snapshot[s] =>
                /\ pc[p] = "split" /\ owner[job[p].run] = s
                /\ \E e \in Seq(Message) :
                     Valid(e) /\ WasHeld(p, e) /\ snapshot'[s] = Stored(e)
  <1> DEFINE rows == job[p].rows
             s == owner[job[p].run]
  <1>1. pc[p] = "split" /\ snapshot' = [snapshot EXCEPT ![s] = rows]
    BY DEF Publish, Store!Publish
  <1>2. PICK e \in Seq(Message) : Valid(e) /\ WasHeld(p, e) /\ rows = Stored(e)
    BY <1>1 DEF ImportInv, ImportFits
  <1>3. snapshot \in [SourceIds -> SUBSET Row] /\ rows \in SUBSET Row
    BY <1>2, StoredProperties DEF ImportInv, StoreFits
  <1> HIDE DEF rows, s
  <1>4. /\ snapshot' \in [SourceIds -> SUBSET Row]
        /\ \A q \in SourceIds : snapshot'[q] = IF q = s THEN rows ELSE snapshot[q]
    BY <1>1, <1>3
  <1>5. StoreFits'
    BY <1>2, <1>4 DEF ImportInv, StoreFits, SnapshotFits
  <1> QED BY <1>1, <1>2, <1>4, <1>5 DEF s

LEMMA PublishKeepsImports ==
    ASSUME ImportInv, NEW p \in Procs, Publish(p)
    PROVE  ImportInv'
  <1>1. Finish(p) /\ UNCHANGED <<file, stamp, edits>>
    BY DEF Publish, fileVars
  <1>2. ImportsTyped' /\ \A q \in Procs : ImportFits(q)'
    BY <1>1, FinishKeepsImports
  <1> QED BY <1>2, PublishChanges DEF ImportInv

LEMMA WithdrawKeepsImports ==
    ASSUME ImportInv, NEW s \in SourceIds, Withdraw(s)
    PROVE  /\ ImportInv'
           /\ \A q \in SourceIds : snapshot'[q] \in {snapshot[q], {}}
  <1>1. /\ UNCHANGED <<file, stamp, edits, pc, job>>
        /\ snapshot' = [snapshot EXCEPT ![s] = {}]
    BY DEF Withdraw, Store!Clear, Store!Revoke, Store!Forget,
           fileVars, procVars
  <1>2. snapshot \in [SourceIds -> SUBSET Row]
    BY DEF ImportInv, StoreFits
  <1>3. /\ snapshot' \in [SourceIds -> SUBSET Row]
        /\ \A q \in SourceIds : snapshot'[q] \in {snapshot[q], {}}
    BY <1>1, <1>2
  <1>4. StoreFits'
    BY <1>3, NothingStored DEF ImportInv, StoreFits, SnapshotFits
  <1>5. ImportsTyped' /\ \A q \in Procs : ImportFits(q)'
    BY <1>1 DEF ImportInv, ImportsTyped, Job, ImportFits,
                SameIdentitySameExport, WasHeld
  <1> QED BY <1>3, <1>4, <1>5 DEF ImportInv

\* A change of the file is one that the imports see, or one they remember.
LEMMA EditKeepsImports ==
    ASSUME ImportInv, Edit
    PROVE  ImportInv'
  <1>1. PICK new \in (Exports \cup {None}) \ {file}, seen \in BOOLEAN :
          /\ file' = new /\ edits' = edits + 1
          /\ stamp' = IF seen THEN edits + 1 ELSE stamp
          /\ job' = [p \in Procs |->
               IF pc[p] = "idle" THEN NoJob
               ELSE [job[p] EXCEPT !.held = @ \cup ({new} \ {None}),
                                      !.unseen = @ \/ ~seen]]
    BY Zenon DEF Edit
  <1>2. UNCHANGED <<pc, snapshot>>
    BY DEF Edit, storeVars
  <1>3. NoJob \in Job
    BY NoJobType
  <1>4. /\ stamp \in Nat /\ edits \in Nat /\ stamp <= edits
        /\ \A p \in Procs : job[p] \in Job
    BY DEF ImportInv, ImportsTyped
  <1>5. /\ file' \in Exports \cup {None} /\ stamp' \in Nat /\ edits' \in Nat
        /\ edits' \in 0 .. MaxEdits
        /\ stamp' <= edits'
        /\ seen => stamp' > edits
        /\ ~seen => stamp' = stamp
    <2>10. edits < MaxEdits
      BY Zenon DEF Edit
    <2>0. edits + 1 \in 0 .. MaxEdits
      BY <1>4, <2>10, LimitAssumption
    <2>1. /\ file' = new /\ edits' = edits + 1
          /\ seen => stamp' = edits + 1
          /\ ~seen => stamp' = stamp
      BY <1>1, Zenon
    <2>2. CASE seen
      BY <1>4, <2>0, <2>1, <2>2
    <2>3. CASE ~seen
      BY <1>4, <2>0, <2>1, <2>3
    <2> QED BY <2>2, <2>3
  <1>6. ASSUME NEW p \in Procs, pc[p] # "idle"
        PROVE  /\ job'[p] \in Job
               /\ job'[p].stamp = job[p].stamp /\ job'[p].first = job[p].first
               /\ job'[p].messages = job[p].messages
               /\ job'[p].rows = job[p].rows
               /\ job[p].held \subseteq job'[p].held
               /\ job'[p].unseen = (job[p].unseen \/ ~seen)
    <2> DEFINE i == job[p]
               a == [i EXCEPT !.held = @ \cup ({new} \ {None})]
               b == [a EXCEPT !.unseen = @ \/ ~seen]
    <2>1. job'[p] = b
      <3> HIDE DEF a
      <3>1. job'[p] = [i EXCEPT !.held = @ \cup ({new} \ {None}),
                                   !.unseen = @ \/ ~seen]
        BY <1>1, <1>6, Zenon
      <3> QED BY <3>1, Zenon DEF a
    <2>2. PICK held \in SUBSET Exports : held = i.held \cup ({new} \ {None})
      <3>1. i.held \in SUBSET Exports
        BY <1>4 DEF Job
      <3> QED BY <3>1
    <2>3. PICK unseen2 \in BOOLEAN : unseen2 = (i.unseen \/ ~seen)
      OBVIOUS
    <2>4. i \in Job
      BY <1>4
    <2>5. a = [i EXCEPT !.held = held]
      BY <2>2, Zenon
    <2> HIDE DEF a
    <2>6. a = [stamp |-> i.stamp, size |-> i.size, first |-> i.first,
               messages |-> i.messages, source |-> i.source, run |-> i.run,
               rows |-> i.rows, held |-> held, unseen |-> i.unseen]
      BY <2>4, <2>5 DEF Job
    <2>7. a.unseen = i.unseen
      BY <2>6
    <2>8. b = [a EXCEPT !.unseen = unseen2]
      BY <2>3, <2>7, Zenon
    <2> HIDE DEF b
    <2>9. b = [stamp |-> i.stamp, size |-> i.size, first |-> i.first,
               messages |-> i.messages, source |-> i.source, run |-> i.run,
               rows |-> i.rows, held |-> held, unseen |-> unseen2]
      BY <2>6, <2>8
    <2>10. /\ b \in Job /\ b.stamp = i.stamp /\ b.first = i.first /\ b.messages = i.messages
           /\ b.rows = i.rows /\ b.held = held /\ b.unseen = unseen2
      BY <2>4, <2>9 DEF Job
    <2> QED BY <2>1, <2>2, <2>3, <2>10
  <1>7. ASSUME NEW p \in Procs, pc[p] = "idle" PROVE job'[p] = NoJob
    BY <1>1, <1>7, Zenon
  <1>8. job' \in [Procs -> Job]
    <2>1. PICK f : job' = [p \in Procs |-> f[p]]
      <3> DEFINE f == [p \in Procs |->
               IF pc[p] = "idle" THEN NoJob
               ELSE [job[p] EXCEPT !.held = @ \cup ({new} \ {None}),
                                      !.unseen = @ \/ ~seen]]
      <3>1. job' = f
        BY <1>1, Zenon
      <3>2. f = [p \in Procs |-> f[p]]
        BY Zenon
      <3> QED BY <3>1, <3>2, Zenon
    <2>2. \A p \in Procs : job'[p] \in Job
      BY <1>3, <1>6, <1>7
    <2> QED BY <2>1, <2>2
  <1>9. ImportsTyped'
    BY <1>2, <1>3, <1>5, <1>6, <1>7, <1>8 DEF ImportInv, ImportsTyped, Stages
  <1>10. ASSUME NEW p \in Procs PROVE ImportFits(p)'
    <2>1. ImportFits(p)
      BY DEF ImportInv
    <2>2. CASE pc[p] = "idle"
      BY <1>2, <2>2 DEF ImportFits, ReadingExport
    <2>3. CASE pc[p] # "idle"
      <3>1. \A e : WasHeld(p, e) => WasHeld(p, e)'
        BY <1>6, <2>3 DEF WasHeld
      <3>2. ASSUME pc[p] \in ReadingExport PROVE SameIdentitySameExport(p)'
        <4>1. SameIdentitySameExport(p) /\ job[p].stamp \in Nat
          BY <1>4, <2>1, <3>2 DEF ImportFits, Job
        <4>2. CASE seen
          BY <1>4, <1>5, <1>6, <2>3, <4>1, <4>2 DEF SameIdentitySameExport
        <4>3. CASE ~seen
          BY <1>5, <1>6, <2>3, <4>1, <4>3 DEF SameIdentitySameExport
        <4> QED BY <4>2, <4>3
      <3> QED BY <1>2, <1>6, <2>1, <2>3, <3>1, <3>2 DEF ImportFits, ReadingExport
    <2> QED BY <2>2, <2>3
  <1>11. StoreFits'
    BY <1>2, StoreStays DEF ImportInv
  <1> QED BY <1>9, <1>10, <1>11 DEF ImportInv

LEMMA ImportsBegin ==
    ASSUME Init
    PROVE  ImportInv
  <1>1. NoJob \in Job
    BY NoJobType
  <1>2. ImportsTyped
    BY <1>1, LimitAssumption DEF Init, ImportsTyped, Stages
  <1>3. \A p \in Procs : ImportFits(p)
    BY DEF Init, ImportFits, ReadingExport
  <1>4. StoreFits
    BY NothingStored DEF Init, Store!Init, StoreFits, SnapshotFits
  <1> QED BY <1>2, <1>3, <1>4 DEF ImportInv

LEMMA ImportsRest ==
    ASSUME ImportInv, UNCHANGED vars
    PROVE  ImportInv' /\ UNCHANGED snapshot
  <1>1. UNCHANGED <<file, stamp, edits, pc, job, snapshot>>
    BY DEF vars, fileVars, procVars, storeVars
  <1> QED BY <1>1 DEF ImportInv, ImportsTyped, Job, ImportFits,
               SameIdentitySameExport, WasHeld, StoreFits, SnapshotFits

\* One step of the whole: a source's windows are kept, withdrawn, or those of
\* an export that the import which publishes them was there to see.
StoresOneExport ==
    \A s \in SourceIds : snapshot'[s] \notin {snapshot[s], {}} =>
        \E p \in Procs : \E e \in Seq(Message) :
            /\ pc[p] = "split" /\ owner[job[p].run] = s
            /\ Valid(e) /\ WasHeld(p, e)
            /\ snapshot'[s] = Stored(e)

LEMMA ChatStepKeepsImports ==
    ASSUME ImportInv, [Next]_(vars)
    PROVE  ImportInv' /\ StoresOneExport
  <1>1. CASE UNCHANGED vars
    BY <1>1, ImportsRest DEF StoresOneExport
  <1>2. CASE Edit
    <2>1. UNCHANGED snapshot
      BY <1>2 DEF Edit, storeVars
    <2> QED BY <1>2, <2>1, EditKeepsImports DEF StoresOneExport
  <1>3. ASSUME NEW s \in SourceIds, Withdraw(s) PROVE ImportInv' /\ StoresOneExport
    BY <1>3, WithdrawKeepsImports DEF StoresOneExport
  <1>4. ASSUME NEW p \in Procs, Import(p) PROVE ImportInv' /\ StoresOneExport
    <2>1. CASE Publish(p)
      BY <2>1, PublishKeepsImports, PublishChanges DEF StoresOneExport
    <2>2. ASSUME ~ Publish(p) PROVE UNCHANGED snapshot
      BY <1>4, <2>2 DEF Import, FirstStat, Open, Read, Parse,
           Reject, Register, Store!Register, StartRun,
           Store!Begin, Split, FailRun, Store!Fail, Crash,
           storeVars
    <2>3. ImportInv'
      BY <1>4, FirstStatKeepsImports, OpenKeepsImports, ReadKeepsImports,
         ParseKeepsImports, EndingKeepsImports, RegisterKeepsImports,
         StartRunKeepsImports, SplitKeepsImports, PublishKeepsImports DEF Import
    <2> QED BY <2>1, <2>2, <2>3 DEF StoresOneExport
  <1> QED BY <1>1, <1>2, <1>3, <1>4 DEF Next

----------------------------------------------------------------------------
(* What an import promises                                                 *)

LEMMA RunsKeepTheirType ==
    ASSUME ImportInv, RunsTyped, [Next]_vars
    PROVE  RunsTyped'
  <1>1. CASE UNCHANGED storeVars
    BY <1>1 DEF RunsTyped, storeVars
  <1>2. CASE UNCHANGED vars
    BY <1>1, <1>2 DEF vars, storeVars
  <1>3. ASSUME NEW s \in SourceIds, Store!Register(s) PROVE RunsTyped'
    BY <1>3 DEF Store!Register, RunsTyped
  <1>4. ASSUME NEW r \in RunIds, NEW s, Store!Begin(r, s) PROVE RunsTyped'
    <2>1. s \in SourceIds
      BY <1>4 DEF Store!Begin, RunsTyped
    <2> QED BY <1>4, <2>1 DEF Store!Begin, RunsTyped
  <1>5. ASSUME NEW r, NEW rows, Store!Publish(r, rows) PROVE RunsTyped'
    BY <1>5 DEF Store!Publish, RunsTyped
  <1>6. ASSUME NEW r, Store!Fail(r) PROVE RunsTyped'
    BY <1>6 DEF Store!Fail, RunsTyped
  <1>7. ASSUME NEW s \in SourceIds, Withdraw(s) PROVE RunsTyped'
    <2>1. /\ phase' = [r \in RunIds |-> IF owner[r] = s THEN "none" ELSE phase[r]]
          /\ owner' = [r \in RunIds |-> IF owner[r] = s THEN None ELSE owner[r]]
          /\ live' = live \/ live' = live \ {s}
      BY <1>7 DEF Withdraw, Store!Clear, Store!Revoke, Store!Forget
    <2> QED BY <2>1 DEF RunsTyped
  <1>8. ASSUME NEW p \in Procs, Import(p) PROVE RunsTyped'
    <2>1. \/ UNCHANGED storeVars
          \/ \E s \in SourceIds : Store!Register(s)
          \/ \E r \in RunIds : Store!Begin(r, job[p].source)
          \/ Store!Publish(job[p].run, job[p].rows)
          \/ Store!Fail(job[p].run)
      BY <1>8, Zenon DEF Import, FirstStat, Open, Read, Parse, Reject, Register, StartRun,
                  Split, Publish, FailRun, Crash
    <2> QED BY <1>1, <1>3, <1>4, <1>5, <1>6, <2>1
  <1>9. CASE Edit
    BY <1>1, <1>9 DEF Edit
  <1> QED BY <1>2, <1>7, <1>8, <1>9 DEF Next

Inv == ImportInv /\ RunsTyped

LEMMA InvInductive ==
    /\ Init => Inv
    /\ Inv /\ [Next]_vars => Inv' /\ StoresOneExport
  <1>1. Init => Inv
    <2>1. Init => RunsTyped
      BY DEF Init, Store!Init, RunsTyped
    <2> QED BY <2>1, ImportsBegin DEF Inv
  <1>2. Inv /\ [Next]_vars => Inv' /\ StoresOneExport
    BY ChatStepKeepsImports, RunsKeepTheirType DEF Inv
  <1> QED BY <1>1, <1>2

\* Inv is an invariant of the imports, of any number of processes.
THEOREM InvariantHolds == Spec => []Inv
  <1>1. Init => Inv
    BY InvInductive
  <1>2. Inv /\ [Next]_vars => Inv'
    BY InvInductive
  <1> QED BY <1>1, <1>2, PTL DEF Spec

\* The file, the imports' local variables and the store have their types: in
\* particular what is stored are rows of windows of messages.
THEOREM TypeCorrect == Spec => []TypeOK
  <1>1. Inv => TypeOK
    BY DEF Inv, ImportInv, ImportsTyped, StoreFits, RunsTyped, TypeOK
  <1> QED BY <1>1, InvariantHolds, PTL

\* What ChatImport stores of a source are, at any time, the windows of one
\* export that passed the checks of chat_json.py, put in order, or nothing:
\* however imports, withdrawals, crashes and changes of the file interleave.
THEOREM SnapshotsPassedTheChecks == Spec => []StoreFits
  <1>1. Inv => StoreFits
    BY DEF Inv, ImportInv
  <1> QED BY <1>1, InvariantHolds, PTL

LEMMA ConversationOfStored ==
    ASSUME NEW s \in SourceIds, NEW e \in Seq(Message), snapshot[s] = Stored(e)
    PROVE  /\ InOrder(s) = Windows(Sorted(e))
           /\ Conversation(s) = Sorted(e)
  <1>1. InOrder(s) = Ordered(snapshot[s])
    BY DEF InOrder, Ordered
  <1> QED BY <1>1, StoredProperties DEF Conversation

LEMMA ConversationOfStoredNext ==
    ASSUME NEW s \in SourceIds, NEW e \in Seq(Message), snapshot'[s] = Stored(e)
    PROVE  Conversation(s)' = Sorted(e)
  <1>1. InOrder(s)' = Ordered(snapshot'[s])
    BY DEF InOrder, Ordered
  <1>2. Conversation(s)' = Sorted(FlattenSeq(InOrder(s)'))
    BY DEF Conversation
  <1> QED BY <1>1, <1>2, StoredProperties

LEMMA StoredIsSound == StoreFits /\ live \subseteq SourceIds => ConversationsAreSound
  <1> SUFFICES ASSUME StoreFits, live \subseteq SourceIds PROVE ConversationsAreSound
    OBVIOUS
  <1>1. ASSUME NEW s \in live
        PROVE  /\ {row.object : row \in snapshot[s]} = DOMAIN InOrder(s)
               /\ WindowsAreTight(InOrder(s), WindowSize, WindowGap)
               /\ FlattenSeq(InOrder(s)) = Conversation(s)
               /\ \A m, n \in DOMAIN FlattenSeq(InOrder(s)) :
                    FlattenSeq(InOrder(s))[m].id = FlattenSeq(InOrder(s))[n].id => m = n
               /\ \A m \in Range(FlattenSeq(InOrder(s))) :
                    m.reply = 0 \/ \E n \in Range(FlattenSeq(InOrder(s))) : n.id = m.reply
    <2>1. s \in SourceIds
      OBVIOUS
    <2>2. PICK e \in Seq(Message) : Valid(e) /\ snapshot[s] = Stored(e)
      BY <2>1 DEF StoreFits, SnapshotFits
    <2> DEFINE t == Sorted(e)
    <2>3. InOrder(s) = Windows(t) /\ Conversation(s) = t
      BY <2>1, <2>2, ConversationOfStored
    <2>4. /\ FlattenSeq(InOrder(s)) = t
          /\ {row.object : row \in snapshot[s]} = DOMAIN InOrder(s)
          /\ WindowsAreTight(InOrder(s), WindowSize, WindowGap)
      BY <2>2, <2>3, StoredProperties
    <2>5. t \in Seq(Message) /\ Len(t) = Len(e) /\ Range(t) = Range(e)
      BY SortedProperties
    <2> HIDE DEF t
    <2>6. \A m, n \in DOMAIN t : t[m].id = t[n].id => m = n
      <3>1. DOMAIN t = 1 .. Len(e)
        BY <2>5, LenProperties
      <3> QED BY <2>2, <3>1, SortedIdsDiffer DEF t
    <2>7. \A m \in Range(t) : m.reply = 0 \/ \E n \in Range(t) : n.id = m.reply
      <3>1. DOMAIN e = 1 .. Len(e) /\ Range(e) = {e[i] : i \in 1 .. Len(e)}
        BY LenProperties, RangeEquality
      <3>2. ASSUME NEW i \in 1 .. Len(e)
            PROVE  e[i].reply = 0 \/ \E k \in 1 .. Len(e) : e[k].id = e[i].reply
        BY <2>2, <3>1 DEF Valid, IdsOf
      <3> QED BY <2>5, <3>1, <3>2
    <2> QED BY <2>3, <2>4, <2>6, <2>7
  <1> QED BY <1>1, Zenon DEF ConversationsAreSound

\* Whatever the imports, the withdrawals and the user did, what is stored of a
\* source are numbered windows that are as long as they may be and no longer,
\* of a conversation in order, without an id twice and without a reply to
\* nothing: of every set of exports, and for every size and gap.
THEOREM ConversationsStaySound == Spec => []ConversationsAreSound
  <1>1. Inv => ConversationsAreSound
    BY StoredIsSound DEF Inv, ImportInv, RunsTyped
  <1> QED BY <1>1, InvariantHolds, PTL

\* A step that changes what is stored of a source, and does not withdraw it,
\* is the publication of an import whose run is the source's: it stores the
\* windows of what the file contained at one moment since that import began,
\* unless the file changed under it without a new identity.
THEOREM ImportsStoreOneExport == Spec => [][StoresOneExport]_vars
  <1>1. Inv /\ [Next]_vars => [StoresOneExport]_vars
    BY InvInductive
  <1> QED BY <1>1, InvariantHolds, PTL DEF Spec

\* The body of ImportsAreOneExport.
OneExport ==
    \A s \in SourceIds : snapshot'[s] \notin {snapshot[s], {}} =>
         \E p \in Procs :
            /\ pc[p] = "split" /\ owner[job[p].run] = s
            /\ \/ job[p].unseen
               \/ \E e \in job[p].held : Conversation(s)' = Sorted(e)

\* What an import puts in place of what was stored is, read back window by
\* window, what the file contained at one moment since that import began.
THEOREM ImportsHoldOneExport == Spec => ImportsAreOneExport
  <1>1. StoresOneExport => OneExport
    <2> SUFFICES ASSUME StoresOneExport,
                        NEW s \in SourceIds, snapshot'[s] \notin {snapshot[s], {}}
                 PROVE  \E p \in Procs :
                           /\ pc[p] = "split" /\ owner[job[p].run] = s
                           /\ \/ job[p].unseen
                              \/ \E e \in job[p].held : Conversation(s)' = Sorted(e)
      BY DEF OneExport
    <2>1. PICK p \in Procs, e \in Seq(Message) :
            /\ pc[p] = "split" /\ owner[job[p].run] = s
            /\ WasHeld(p, e) /\ snapshot'[s] = Stored(e)
      BY DEF StoresOneExport
    <2>2. Conversation(s)' = Sorted(e)
      BY <2>1, ConversationOfStoredNext
    <2> QED BY <2>1, <2>2 DEF WasHeld
  <1>2. Spec => [][OneExport]_vars
    BY <1>1, ImportsStoreOneExport, PTL
  <1> QED BY <1>2 DEF ImportsAreOneExport, OneExport

\* The body of EarlierWindowsAreKept.
EarlierKept ==
    \A s \in SourceIds : snapshot'[s] \notin {snapshot[s], {}} =>
         \A row \in snapshot[s] \ snapshot'[s] :
            ~Settled(row, Conversation(s), Conversation(s)')

\* An import of a longer export, or of one that differs only at its end, keeps
\* the windows the common beginning has settled, and with them their numbers,
\* which are the identities of the stored objects.
THEOREM EarlierWindowsStay == Spec => EarlierWindowsAreKept
  <1>1. StoreFits /\ StoresOneExport => EarlierKept
    <2> SUFFICES ASSUME StoreFits, StoresOneExport,
                        NEW s \in SourceIds, snapshot'[s] \notin {snapshot[s], {}},
                        NEW row \in snapshot[s] \ snapshot'[s],
                        Settled(row, Conversation(s), Conversation(s)')
                 PROVE  FALSE
      BY DEF EarlierKept
    <2>1. PICK e \in Seq(Message) : Valid(e) /\ snapshot[s] = Stored(e)
      BY DEF StoreFits, SnapshotFits
    <2>2. PICK f \in Seq(Message) : snapshot'[s] = Stored(f)
      BY DEF StoresOneExport
    <2>3. Conversation(s) = Sorted(e)
      BY <2>1, ConversationOfStored
    <2>4. Conversation(s)' = Sorted(f)
      BY <2>2, ConversationOfStoredNext
    <2>5. row \in Stored(e) /\ row \notin Stored(f) /\ Settled(row, Sorted(e), Sorted(f))
      BY <2>1, <2>2, <2>3, <2>4
    <2> QED BY <2>1, <2>5, SettledRowsAreStored
  <1>2. Inv => StoreFits
    BY DEF Inv, ImportInv
  <1>3. Spec => [][EarlierKept]_vars
    BY <1>1, <1>2, InvariantHolds, ImportsStoreOneExport, PTL
  <1> QED BY <1>3 DEF EarlierWindowsAreKept, EarlierKept

----------------------------------------------------------------------------
(* The runs of the imports                                                 *)

Running == {"started", "split"}

\* The run an import holds is open and its source's, or has been forgotten.
HoldsItsRun(p) ==
    /\ pc[p] \in Running =>
         /\ job[p].run \in RunIds
         /\ \/ phase[job[p].run] = "none"
            \/ phase[job[p].run] = "open" /\ owner[job[p].run] = job[p].source
    /\ pc[p] \notin Running => job[p].run = None

\* No run is that of two imports.
RunsAreOwn ==
    \A p, q \in Procs : job[p].run = job[q].run => p = q \/ job[p].run = None

RunsFit ==
    /\ \A p \in Procs : HoldsItsRun(p)
    /\ RunsAreOwn
    /\ NothingIsLeft

\* Steps that leave the store and the imports' runs as they are.
LEMMA QuietKeepsRuns ==
    ASSUME RunsFit, UNCHANGED storeVars,
           \A p \in Procs : /\ job'[p].run = job[p].run
                            /\ pc[p] \in Running => job'[p].source = job[p].source
                            /\ pc'[p] \in Running <=> pc[p] \in Running
    PROVE  RunsFit'
  <1>1. UNCHANGED <<live, snapshot, phase, owner>>
    BY DEF storeVars
  <1>2. ASSUME NEW p \in Procs PROVE HoldsItsRun(p)'
    BY <1>1 DEF RunsFit, HoldsItsRun
  <1>3. RunsAreOwn'
    BY DEF RunsFit, RunsAreOwn
  <1>4. NothingIsLeft'
    BY <1>1 DEF RunsFit, NothingIsLeft
  <1> QED BY <1>2, <1>3, <1>4 DEF RunsFit

LEMMA OneMoves ==
    ASSUME ImportsTyped, NEW p \in Procs, NEW j, NEW stage,
           job' = [job EXCEPT ![p] = j], pc' = [pc EXCEPT ![p] = stage]
    PROVE  /\ job'[p] = j /\ pc'[p] = stage
           /\ \A q \in Procs : q # p => job'[q] = job[q] /\ pc'[q] = pc[q]
  BY DEF ImportsTyped

LEMMA ReadingKeepsRuns ==
    ASSUME ImportsTyped, RunsFit, NEW p \in Procs,
           FirstStat(p) \/ Open(p) \/ Read(p) \/ Parse(p) \/ Split(p)
    PROVE  RunsFit'
  <1> DEFINE i == job[p]
  <1>1. i \in Job
    BY DEF ImportsTyped
  <1>2. \E j, stage : /\ job' = [job EXCEPT ![p] = j] /\ pc' = [pc EXCEPT ![p] = stage]
                      /\ j.run = job[p].run
                      /\ pc[p] \in Running => j.source = job[p].source
                      /\ stage \in Running <=> pc[p] \in Running
    <2>1. CASE FirstStat(p)
      <3> DEFINE j == [NoJob EXCEPT !.stamp = stamp, !.size = Len(file), !.held = {file}]
      <3>1. job' = [job EXCEPT ![p] = j] /\ pc' = [pc EXCEPT ![p] = "open"] /\ pc[p] = "idle"
        BY <2>1 DEF FirstStat, GoTo
      <3>2. j.run = None
        BY DEF NoJob
      <3>3. job[p].run = None
        BY <3>1 DEF RunsFit, HoldsItsRun, Running
      <3> HIDE DEF j
      <3>4. "open" \notin Running /\ pc[p] \notin Running
        BY <3>1 DEF Running
      <3> QED BY <3>1, <3>2, <3>3, <3>4, Zenon
    <2>2. CASE Open(p)
      <3> DEFINE j == [i EXCEPT !.first = file]
      <3>1. job' = [job EXCEPT ![p] = j] /\ pc' = [pc EXCEPT ![p] = "reading"] /\ pc[p] = "open"
        BY <2>2 DEF Open, GoTo
      <3>2. j.run = job[p].run
        BY <1>1 DEF Job
      <3> HIDE DEF j
      <3>3. "reading" \notin Running /\ pc[p] \notin Running
        BY <3>1 DEF Running
      <3> QED BY <3>1, <3>2, <3>3, Zenon
    <2>3. CASE Read(p)
      <3>0. PICK messages : job' = [job EXCEPT ![p].first = None, ![p].messages = messages]
        BY <2>3 DEF Read
      <3> DEFINE j == [i EXCEPT !.first = None, !.messages = messages]
      <3>1. pc' = [pc EXCEPT ![p] = "compare"] /\ pc[p] = "reading"
        BY <2>3 DEF Read, GoTo
      <3>2. job' = [job EXCEPT ![p] = j]
        BY <1>1, <3>0 DEF ImportsTyped, Job
      <3>3. j.run = job[p].run
        BY <1>1 DEF Job
      <3> HIDE DEF j
      <3>4. "compare" \notin Running /\ pc[p] \notin Running
        BY <3>1 DEF Running
      <3> QED BY <3>1, <3>2, <3>3, <3>4, Zenon
    <2>4. CASE Parse(p)
      <3> DEFINE j == [i EXCEPT !.stamp = 0, !.size = 0, !.messages = Sorted(i.messages)]
      <3>1. pc' = [pc EXCEPT ![p] = "parsed"] /\ pc[p] = "compare"
        BY <2>4 DEF Parse, GoTo
      <3>2. job' = [job EXCEPT ![p] = j]
        BY <1>1, <2>4 DEF Parse, ImportsTyped, Job
      <3>3. j.run = job[p].run
        BY <1>1 DEF Job
      <3> HIDE DEF j
      <3>4. "parsed" \notin Running /\ pc[p] \notin Running
        BY <3>1 DEF Running
      <3> QED BY <3>1, <3>2, <3>3, <3>4, Zenon
    <2>5. CASE Split(p)
      <3> DEFINE j == [i EXCEPT !.messages = <<>>, !.rows = RowsOf(Windows(i.messages))]
      <3>1. pc' = [pc EXCEPT ![p] = "split"] /\ pc[p] = "started"
        BY <2>5 DEF Split, GoTo
      <3>2. job' = [job EXCEPT ![p] = j]
        BY <1>1, <2>5 DEF Split, ImportsTyped, Job
      <3>3. j.run = job[p].run /\ j.source = job[p].source
        BY <1>1 DEF Job
      <3> HIDE DEF j
      <3> QED BY <3>1, <3>2, <3>3 DEF Running
    <2> QED BY <2>1, <2>2, <2>3, <2>4, <2>5
  <1>3. \A q \in Procs : /\ job'[q].run = job[q].run
                         /\ pc[q] \in Running => job'[q].source = job[q].source
                         /\ pc'[q] \in Running <=> pc[q] \in Running
    BY <1>2, OneMoves
  <1>4. UNCHANGED storeVars
    BY DEF FirstStat, Open, Read, Parse, Split
  <1> QED BY <1>3, <1>4, QuietKeepsRuns

LEMMA EditKeepsRuns ==
    ASSUME ImportsTyped, RunsFit, Edit
    PROVE  RunsFit'
  <1>1. UNCHANGED storeVars /\ pc' = pc
    BY DEF Edit
  <1>2. ASSUME NEW q \in Procs
        PROVE  /\ job'[q].run = job[q].run
               /\ pc[q] \in Running => job'[q].source = job[q].source
    <2>0. job[q] \in Job
      BY DEF ImportsTyped
    <2>1. CASE pc[q] = "idle"
      <3>1. job'[q] = NoJob
        BY <2>1 DEF Edit
      <3>2. job[q].run = None
        BY <2>1 DEF RunsFit, HoldsItsRun, Running
      <3> QED BY <2>1, <3>1, <3>2 DEF NoJob, Running
    <2>2. CASE pc[q] # "idle"
      <3>1. \E held, unseen : job'[q] = [job[q] EXCEPT !.held = held, !.unseen = unseen]
        BY <2>2 DEF Edit
      <3> QED BY <2>0, <3>1 DEF Job
    <2> QED BY <2>1, <2>2
  <1> QED BY <1>1, <1>2, QuietKeepsRuns

LEMMA RegisterKeepsRuns ==
    ASSUME ImportsTyped, RunsFit, NEW p \in Procs, Register(p)
    PROVE  RunsFit'
  <1> DEFINE i == job[p]
  <1>0. i \in Job
    BY DEF ImportsTyped
  <1>1. PICK s \in SourceIds : job' = [job EXCEPT ![p] = [i EXCEPT !.source = s]]
    BY DEF Register
  <1>2. pc' = [pc EXCEPT ![p] = "registered"] /\ pc[p] = "parsed"
    BY DEF Register, GoTo
  <1> DEFINE j == [i EXCEPT !.source = s]
  <1>3. j.run = i.run
    BY <1>0 DEF Job
  <1> HIDE DEF j
  <1>4. /\ job'[p] = j /\ pc'[p] = "registered"
        /\ \A q \in Procs : q # p => job'[q] = job[q] /\ pc'[q] = pc[q]
    BY <1>1, <1>2, OneMoves DEF j
  <1>5. UNCHANGED <<snapshot, phase, owner>> /\ live \subseteq live'
    BY DEF Register, storeVars, Store!Register
  <1>6. ASSUME NEW q \in Procs PROVE HoldsItsRun(q)' /\ job'[q].run = job[q].run
    BY <1>2, <1>3, <1>4, <1>5 DEF RunsFit, HoldsItsRun, Running
  <1>7. RunsAreOwn'
    BY <1>6 DEF RunsFit, RunsAreOwn
  <1>8. NothingIsLeft'
    BY <1>5 DEF RunsFit, NothingIsLeft
  <1> QED BY <1>6, <1>7, <1>8 DEF RunsFit

LEMMA StartRunKeepsRuns ==
    ASSUME ImportsTyped, RunsTyped, RunsFit, NEW p \in Procs, StartRun(p)
    PROVE  RunsFit'
  <1> DEFINE i == job[p]
  <1>0. i \in Job
    BY DEF ImportsTyped
  <1>1. PICK r \in RunIds : /\ \A q \in Procs : job[q].run # r
                            /\ Store!Begin(r, i.source)
                            /\ job' = [job EXCEPT ![p] = [i EXCEPT !.run = r]]
    BY Zenon DEF StartRun
  <1>2. pc' = [pc EXCEPT ![p] = "started"] /\ pc[p] = "registered"
    BY DEF StartRun, GoTo
  <1> DEFINE j == [i EXCEPT !.run = r]
  <1>3. j.run = r /\ j.source = i.source
    BY <1>0 DEF Job
  <1> HIDE DEF j
  <1>4. /\ job'[p] = j /\ pc'[p] = "started"
        /\ \A q \in Procs : q # p => job'[q] = job[q] /\ pc'[q] = pc[q]
    BY <1>1, <1>2, OneMoves DEF j
  <1>5. /\ UNCHANGED <<live, snapshot>> /\ i.source \in live
        /\ phase' = [phase EXCEPT ![r] = "open"] /\ owner' = [owner EXCEPT ![r] = i.source]
    BY <1>1 DEF Store!Begin
  <1>6. /\ phase'[r] = "open" /\ owner'[r] = i.source
        /\ \A x \in RunIds : x # r => phase'[x] = phase[x] /\ owner'[x] = owner[x]
    BY <1>5 DEF RunsTyped
  <1>7. ASSUME NEW q \in Procs PROVE HoldsItsRun(q)'
    <2>1. CASE q = p
      BY <1>3, <1>4, <1>6, <2>1 DEF HoldsItsRun, Running
    <2>2. CASE q # p
      BY <1>1, <1>4, <1>6, <2>2 DEF RunsFit, HoldsItsRun
    <2> QED BY <2>1, <2>2
  <1>8. RunsAreOwn'
    BY <1>1, <1>3, <1>4 DEF RunsFit, RunsAreOwn
  <1>9. NothingIsLeft'
    BY <1>5, <1>6 DEF RunsFit, NothingIsLeft
  <1> QED BY <1>7, <1>8, <1>9 DEF RunsFit

\* An import that ends gives its run up; the others' are not touched.
LEMMA FinishKeepsRuns ==
    ASSUME ImportsTyped, RunsTyped, RunsFit, NEW p \in Procs, Finish(p), UNCHANGED <<live, owner>>,
           \A r \in RunIds : r # job[p].run => phase'[r] = phase[r],
           \A r \in RunIds : phase[r] = "none" => phase'[r] = "none",
           \A s \in SourceIds \ live : snapshot'[s] = {}
    PROVE  RunsFit'
  <1>1. /\ job'[p] = NoJob /\ pc'[p] = "idle"
        /\ \A q \in Procs : q # p => job'[q] = job[q] /\ pc'[q] = pc[q]
    BY OneMoves DEF Finish, GoTo
  <1>2. NoJob.run = None
    BY DEF NoJob
  <1>3. ASSUME NEW q \in Procs PROVE HoldsItsRun(q)'
    <2>1. CASE q = p
      BY <1>1, <1>2, <2>1 DEF HoldsItsRun, Running
    <2>2. CASE q # p
      <3>1. HoldsItsRun(q) /\ job'[q] = job[q] /\ pc'[q] = pc[q]
        BY <1>1, <2>2 DEF RunsFit
      <3>2. CASE pc[q] \notin Running
        BY <3>1, <3>2 DEF HoldsItsRun
      <3>3. CASE pc[q] \in Running
        <4>1. job[q].run \in RunIds
          BY <3>1, <3>3 DEF HoldsItsRun
        <4>2. job[q].run # None
          BY <4>1, ExportAssumption
        <4>3. job[q].run # job[p].run
          BY <2>2, <4>2 DEF RunsFit, RunsAreOwn
        <4>4. phase'[job[q].run] = phase[job[q].run]
          BY <4>1, <4>3
        <4> QED BY <3>1, <3>3, <4>4 DEF HoldsItsRun
      <3> QED BY <3>2, <3>3
    <2> QED BY <2>1, <2>2
  <1>4. RunsAreOwn'
    BY <1>1, <1>2 DEF RunsFit, RunsAreOwn
  <1>5. NothingIsLeft'
    BY DEF RunsFit, NothingIsLeft
  <1> QED BY <1>3, <1>4, <1>5 DEF RunsFit

LEMMA PublishIsOwn ==
    ASSUME ImportsTyped, RunsTyped, RunsFit, NEW p \in Procs, Publish(p)
    PROVE  LET r == job[p].run
               s == job[p].source
           IN  /\ r \in RunIds /\ s \in live /\ phase[r] = "open" /\ owner[r] = s
               /\ snapshot' = [snapshot EXCEPT ![s] = job[p].rows]
               /\ phase' = [phase EXCEPT ![r] = "published"]
               /\ UNCHANGED <<live, owner>>
  <1>1. /\ pc[p] = "split" /\ phase[job[p].run] = "open"
        /\ snapshot' = [snapshot EXCEPT ![owner[job[p].run]] = job[p].rows]
        /\ phase' = [phase EXCEPT ![job[p].run] = "published"]
        /\ UNCHANGED <<live, owner>>
    BY DEF Publish, Store!Publish
  <1>2. job[p].run \in RunIds /\ owner[job[p].run] = job[p].source
    BY <1>1 DEF RunsFit, HoldsItsRun, Running
  <1>3. owner[job[p].run] \in live
    BY <1>1, <1>2 DEF RunsFit, NothingIsLeft
  <1> QED BY <1>1, <1>2, <1>3

LEMMA EndingKeepsRuns ==
    ASSUME ImportInv, RunsTyped, RunsFit, NEW p \in Procs,
           Publish(p) \/ FailRun(p) \/ Crash(p) \/ Reject(p)
    PROVE  RunsFit'
  <1>0. ImportsTyped /\ snapshot \in [SourceIds -> SUBSET Row]
    BY DEF ImportInv, StoreFits
  <1>1. Finish(p)
    BY DEF Publish, FailRun, Crash, Reject
  <1>2. /\ \A r \in RunIds : phase[r] = "none" \/ owner[r] \in live
        /\ \A s \in SourceIds \ live : snapshot[s] = {}
    BY DEF RunsFit, NothingIsLeft
  <1>3. CASE UNCHANGED storeVars
    <2>1. UNCHANGED <<live, snapshot, phase, owner>>
      BY <1>3 DEF storeVars
    <2> QED BY <1>0, <1>1, <1>2, <2>1, FinishKeepsRuns
  <1>4. CASE Publish(p)
    <2> DEFINE run == job[p].run
               s == job[p].source
    <2>1. /\ run \in RunIds /\ s \in live /\ phase[run] = "open"
          /\ snapshot' = [snapshot EXCEPT ![s] = job[p].rows]
          /\ phase' = [phase EXCEPT ![run] = "published"]
          /\ UNCHANGED <<live, owner>>
      BY <1>0, <1>4, PublishIsOwn
    <2>2. \A r \in RunIds : r # run => phase'[r] = phase[r]
      BY <2>1 DEF RunsTyped
    <2>3. \A r \in RunIds : phase[r] = "none" => phase'[r] = "none"
      BY <2>1 DEF RunsTyped
    <2>4. \A x \in SourceIds \ live : snapshot'[x] = {}
      BY <1>0, <1>2, <2>1
    <2> QED BY <1>0, <1>1, <2>1, <2>2, <2>3, <2>4, FinishKeepsRuns
  <1>5. CASE FailRun(p) /\ Store!Fail(job[p].run)
    <2> DEFINE run == job[p].run
    <2>1. /\ phase[run] = "open" /\ phase' = [phase EXCEPT ![run] = "failed"]
          /\ UNCHANGED <<live, snapshot, owner>>
      BY <1>5 DEF Store!Fail
    <2>2. \A r \in RunIds : r # run => phase'[r] = phase[r]
      BY <2>1 DEF RunsTyped
    <2>3. \A r \in RunIds : phase[r] = "none" => phase'[r] = "none"
      BY <2>1 DEF RunsTyped
    <2> QED BY <1>0, <1>1, <1>2, <2>1, <2>2, <2>3, FinishKeepsRuns
  <1> QED BY <1>3, <1>4, <1>5 DEF FailRun, Crash, Reject

LEMMA WithdrawKeepsRuns ==
    ASSUME ImportInv, RunsTyped, RunsFit, NEW s \in SourceIds, Withdraw(s)
    PROVE  RunsFit'
  <1>1. /\ snapshot' = [snapshot EXCEPT ![s] = {}]
        /\ phase' = [r \in RunIds |-> IF owner[r] = s THEN "none" ELSE phase[r]]
        /\ owner' = [r \in RunIds |-> IF owner[r] = s THEN None ELSE owner[r]]
        /\ UNCHANGED <<pc, job>>
        /\ live \ {s} \subseteq live' /\ live' \subseteq live
    BY DEF Withdraw, Store!Clear, Store!Revoke, Store!Forget, procVars
  <1>2. snapshot \in [SourceIds -> SUBSET Row]
    BY DEF ImportInv, StoreFits
  <1>3. ASSUME NEW q \in Procs PROVE HoldsItsRun(q)'
    BY <1>1 DEF RunsFit, HoldsItsRun
  <1>4. RunsAreOwn'
    BY <1>1 DEF RunsFit, RunsAreOwn
  <1>5. NothingIsLeft'
    <2>1. \A r \in RunIds : phase'[r] = "none" \/ owner'[r] \in live'
      BY <1>1 DEF RunsFit, NothingIsLeft
    <2>2. \A x \in SourceIds \ live' : snapshot'[x] = {}
      BY <1>1, <1>2 DEF RunsFit, NothingIsLeft
    <2> QED BY <2>1, <2>2 DEF NothingIsLeft
  <1> QED BY <1>3, <1>4, <1>5 DEF RunsFit

LEMMA RunsFitInductive ==
    /\ Init => RunsFit
    /\ Inv /\ RunsFit /\ [Next]_vars => RunsFit'
  <1>1. ASSUME Init PROVE RunsFit
    <2>1. /\ \A p \in Procs : pc[p] = "idle" /\ job[p] = NoJob
          /\ live = {} /\ \A r \in RunIds : phase[r] = "none"
          /\ \A s \in SourceIds : snapshot[s] = {}
      BY <1>1 DEF Init, Store!Init
    <2>2. NoJob.run = None /\ "idle" \notin Running
      BY DEF NoJob, Running
    <2> QED BY <2>1, <2>2 DEF RunsFit, HoldsItsRun, RunsAreOwn, NothingIsLeft
  <1>2. ASSUME Inv, RunsFit, [Next]_vars PROVE RunsFit'
    <2>0. ImportInv /\ ImportsTyped /\ RunsTyped
      BY <1>2 DEF Inv, ImportInv
    <2>1. CASE UNCHANGED vars
      BY <1>2, <2>1, QuietKeepsRuns DEF vars, procVars, storeVars
    <2>2. CASE Edit
      BY <1>2, <2>0, <2>2, EditKeepsRuns
    <2>3. ASSUME NEW s \in SourceIds, Withdraw(s) PROVE RunsFit'
      BY <1>2, <2>0, <2>3, WithdrawKeepsRuns
    <2>4. ASSUME NEW p \in Procs, Import(p) PROVE RunsFit'
      <3>1. CASE FirstStat(p) \/ Open(p) \/ Read(p) \/ Parse(p) \/ Split(p)
        BY <1>2, <2>0, <3>1, ReadingKeepsRuns
      <3>2. CASE Register(p)
        BY <1>2, <2>0, <3>2, RegisterKeepsRuns
      <3>3. CASE StartRun(p)
        BY <1>2, <2>0, <3>3, StartRunKeepsRuns
      <3>4. CASE Publish(p) \/ FailRun(p) \/ Crash(p) \/ Reject(p)
        BY <1>2, <2>0, <3>4, EndingKeepsRuns
      <3> QED BY <2>4, <3>1, <3>2, <3>3, <3>4 DEF Import
    <2> QED BY <1>2, <2>1, <2>2, <2>3, <2>4 DEF Next
  <1> QED BY <1>1, <1>2

\* A run is that of one import, which began it for its source; while the
\* import holds it, it is open and that source's or has been forgotten with
\* what was stored of it.  Nothing is stored of a source that was revoked,
\* though imports of it may still be running.
THEOREM RunsStayTheirs == Spec => []RunsFit
  <1>1. Init => RunsFit
    BY RunsFitInductive
  <1>2. Inv /\ RunsFit /\ [Next]_vars => RunsFit'
    BY RunsFitInductive
  <1> QED BY <1>1, <1>2, InvariantHolds, PTL DEF Spec

\* Whatever was in flight when a source was revoked, nothing is stored of it
\* and no run of it is known.
THEOREM RevokedKeepNothing == Spec => []NothingIsLeft
  <1>1. RunsFit => NothingIsLeft
    BY DEF RunsFit
  <1> QED BY <1>1, RunsStayTheirs, PTL

----------------------------------------------------------------------------
(* The imports implement the ledger of snapshots                           *)

ValidExports == {e \in Seq(Message) : Valid(e)}

\* The ledger whose rows are windows of exports that passed the checks.
ChatLedger == INSTANCE SnapshotLedger WITH
    Rows <- UNION {Stored(e) : e \in ValidExports}

LEMMA ImportStepRefines ==
    ASSUME Inv, RunsFit, [Next]_vars
    PROVE  ChatLedger!Next \/ UNCHANGED ChatLedger!ledger
  <1>0. ImportInv /\ ImportsTyped /\ RunsTyped
    BY DEF Inv, ImportInv
  <1>1. CASE UNCHANGED storeVars \/ UNCHANGED vars
    BY <1>1 DEF vars, storeVars, ChatLedger!ledger
  <1>2. CASE Edit
    BY <1>1, <1>2 DEF Edit
  <1>3. ASSUME NEW s \in SourceIds, Withdraw(s) PROVE ChatLedger!Next
    <2>1. ChatLedger!Clear(s) \/ ChatLedger!Revoke(s)
      BY <1>3 DEF Withdraw, Store!Clear, Store!Revoke, Store!Forget,
                  ChatLedger!Clear, ChatLedger!Revoke, ChatLedger!Forget
    <2> QED BY <2>1 DEF ChatLedger!Next
  <1>4. ASSUME NEW p \in Procs, Import(p)
        PROVE  ChatLedger!Next \/ UNCHANGED storeVars
    <2>1. CASE Register(p)
      <3>1. UNCHANGED storeVars \/ \E s \in SourceIds : Store!Register(s)
        BY <2>1 DEF Register
      <3>2. ASSUME NEW s \in SourceIds, Store!Register(s) PROVE ChatLedger!Next
        <4>1. ChatLedger!Register(s)
          BY <3>2 DEF Store!Register, ChatLedger!Register
        <4> QED BY <4>1 DEF ChatLedger!Next
      <3> QED BY <3>1, <3>2
    <2>2. CASE StartRun(p)
      <3>1. PICK r \in RunIds : Store!Begin(r, job[p].source)
        BY <2>2, Zenon DEF StartRun
      <3>2. job[p].source \in SourceIds
        BY <1>0, <3>1 DEF Store!Begin, RunsTyped
      <3>3. ChatLedger!Begin(r, job[p].source)
        BY <3>1 DEF Store!Begin, ChatLedger!Begin
      <3> QED BY <3>2, <3>3 DEF ChatLedger!Next
    <2>3. CASE Publish(p)
      <3>1. pc[p] = "split" /\ Store!Publish(job[p].run, job[p].rows)
        BY <2>3 DEF Publish
      <3>2. job[p].run \in RunIds
        BY <3>1 DEF RunsFit, HoldsItsRun, Running
      <3>3. PICK e \in Seq(Message) : Valid(e) /\ job[p].rows = Stored(e)
        BY <1>0, <3>1 DEF ImportInv, ImportFits
      <3>4. job[p].rows \in SUBSET (UNION {Stored(x) : x \in ValidExports})
        BY <3>3 DEF ValidExports
      <3>5. ChatLedger!Publish(job[p].run, job[p].rows)
        BY <3>1 DEF Store!Publish, Store!Keyed, ChatLedger!Publish, ChatLedger!Keyed
      <3> QED BY <3>2, <3>4, <3>5 DEF ChatLedger!Next
    <2>4. CASE FailRun(p)
      <3>1. pc[p] \in Running /\ (Store!Fail(job[p].run) \/ UNCHANGED storeVars)
        BY <2>4 DEF FailRun, Running
      <3>2. job[p].run \in RunIds
        BY <3>1 DEF RunsFit, HoldsItsRun
      <3>3. ASSUME Store!Fail(job[p].run) PROVE ChatLedger!Next
        <4>1. ChatLedger!Fail(job[p].run)
          BY <3>3 DEF Store!Fail, ChatLedger!Fail
        <4> QED BY <3>2, <4>1 DEF ChatLedger!Next
      <3> QED BY <3>1, <3>3
    <2>5. CASE FirstStat(p) \/ Open(p) \/ Read(p) \/ Parse(p) \/ Split(p) \/ Reject(p) \/ Crash(p)
      BY <2>5 DEF FirstStat, Open, Read, Parse, Split, Reject, Crash
    <2> QED BY <1>4, <2>1, <2>2, <2>3, <2>4, <2>5 DEF Import
  <1> QED BY <1>1, <1>2, <1>3, <1>4 DEF Next

\* ChatImport implements SnapshotLedger: however imports interleave, crash and
\* are withdrawn, the store moves as the ledger allows, each publication of
\* a run that is open, its import's own and used once, and every row it stores
\* is a window of an export that passed the checks.
THEOREM ImportImplementsLedger == Spec => ChatLedger!Spec
  <1>1. Init => ChatLedger!Init
    BY DEF Init, Store!Init, ChatLedger!Init
  <1>2. Inv /\ RunsFit /\ [Next]_vars => [ChatLedger!Next]_(ChatLedger!ledger)
    BY ImportStepRefines
  <1> QED BY <1>1, <1>2, InvariantHolds, RunsStayTheirs, PTL DEF Spec, ChatLedger!Spec
=============================================================================
