--------------------------- MODULE TextSplitting ---------------------------
(***************************************************************************)
(* How mini_GL cuts what it stores: split_chunks of retrieval/lexical.py   *)
(* cuts a text into chunks of at most `limit` characters,                  *)
(* split_conversation of chat_import.py a conversation into windows.  Both *)
(* are one pass over their input, written here as folds, and each is held  *)
(* against what its result has to be, stated without the pass.             *)
(*                                                                         *)
(* A paragraph is a nonempty sequence of characters, already stripped.  A  *)
(* character is a pair of its paragraph and its place there, so that what  *)
(* is lost or misplaced shows.  A message is a record whose field `at` is  *)
(* the time it was sent.                                                   *)
(***************************************************************************)
EXTENDS Naturals, Sequences, SequencesExt

\* A newline; two of them join the paragraphs of a chunk.
Break == <<0, 0>>

Separator == <<Break, Break>>

----------------------------------------------------------------------------
(* Chunks                                                                  *)

AtMost(a, b) == IF a < b THEN a ELSE b

\* paragraph[start : start + limit] for each start of the inner loop.
Parts(paragraph, limit) ==
    [k \in 1 .. (Len(paragraph) + limit - 1) \div limit |->
        SubSeq(paragraph, (k - 1) * limit + 1, AtMost(k * limit, Len(paragraph)))]

Joined(current, part) ==
    IF current = <<>> THEN part ELSE current \o Separator \o part

\* Mutant of Fits: the separator is not counted.
FitsTightly(current, part, limit) == Len(current) + Len(part) <= limit

Fits(current, part, limit) == Len(Joined(current, part)) <= limit

\* The body of the inner loop, over the chunks done and the current one.
AddPart(split, part, limit) ==
    IF split.current # <<>> /\ ~Fits(split.current, part, limit)
      THEN [done |-> Append(split.done, split.current), current |-> part]
      ELSE [split EXCEPT !.current = Joined(@, part)]

SplitChunks(paragraphs, limit) ==
    LET parts == FlattenSeq([i \in DOMAIN paragraphs |-> Parts(paragraphs[i], limit)])
        end   == FoldLeft(LAMBDA split, part : AddPart(split, part, limit),
                          [done |-> <<>>, current |-> <<>>], parts)
    IN  IF end.current = <<>> THEN end.done ELSE Append(end.done, end.current)

----------------------------------------------------------------------------
(* Windows                                                                 *)

\* Mutant of OpensWindow: the window may grow by one message too many.
OpensWindowLate(windows, message, size, gap) ==
    \/ windows = <<>>
    \/ Len(Last(windows)) > size
    \/ message.at - Last(Last(windows)).at > gap

\* Mutant of OpensWindow: the gap is measured from the window's first message.
OpensWindowFromFirst(windows, message, size, gap) ==
    \/ windows = <<>>
    \/ Len(Last(windows)) >= size
    \/ message.at - Head(Last(windows)).at > gap

OpensWindow(windows, message, size, gap) ==
    \/ windows = <<>>
    \/ Len(Last(windows)) >= size
    \/ message.at - Last(Last(windows)).at > gap

AddMessage(windows, message, size, gap) ==
    IF OpensWindow(windows, message, size, gap)
      THEN Append(windows, <<message>>)
      ELSE [windows EXCEPT ![Len(windows)] = Append(@, message)]

SplitConversation(messages, size, gap) ==
    FoldLeft(LAMBDA windows, message : AddMessage(windows, message, size, gap),
             <<>>, messages)

----------------------------------------------------------------------------
(* What the results have to be                                             *)

\* A text of paragraphs of the given lengths, with every character its own.
Text(lengths) ==
    [i \in DOMAIN lengths |-> [k \in 1 .. lengths[i] |-> <<i, k>>]]

\* The places in a sequence of sequences, and which comes before which.
PlacesOf(seqs) == UNION {{<<n, x>> : x \in DOMAIN seqs[n]} : n \in DOMAIN seqs}

Earlier(p, q) == p[1] < q[1] \/ (p[1] = q[1] /\ p[2] < q[2])

\* The characters of the text, which are the places in it, in order, each once.
KeepsText(chunks, paragraphs) ==
    LET kept == {p \in PlacesOf(chunks) : chunks[p[1]][p[2]] # Break}
    IN  /\ {chunks[p[1]][p[2]] : p \in kept} = PlacesOf(paragraphs)
        /\ \A p, q \in kept :
             Earlier(p, q) => Earlier(chunks[p[1]][p[2]], chunks[q[1]][q[2]])

\* In a chunk, paragraphs are apart and no paragraph is torn apart.
KeepsParagraphs(chunk) ==
    \A i, j \in DOMAIN chunk :
        /\ i < j
        /\ Break \notin {chunk[i], chunk[j]}
        /\ \A k \in i + 1 .. j - 1 : chunk[k] = Break
        => chunk[i][1] = chunk[j][1] <=> j = i + 1

\* The part a chunk begins with.
FirstPart(chunk) ==
    LET breaks == {i \in DOMAIN chunk : chunk[i] = Break}
    IN  IF breaks = {} THEN chunk
        ELSE SubSeq(chunk, 1, (CHOOSE i \in breaks : \A j \in breaks : i <= j) - 1)

\* Each chunk keeps the limit and takes every part that it can.
IsTight(chunks, limit) ==
    /\ \A n \in DOMAIN chunks : Len(chunks[n]) \in 1 .. limit
    /\ \A n \in DOMAIN chunks \ {1} :
         ~Fits(chunks[n - 1], FirstPart(chunks[n]), limit)

ChunksAreRight(lengths, limit) ==
    LET chunks == SplitChunks(Text(lengths), limit)
    IN  /\ KeepsText(chunks, Text(lengths))
        /\ \A n \in DOMAIN chunks : KeepsParagraphs(chunks[n])
        /\ IsTight(chunks, limit)

\* A window keeps the size and bridges no gap; it ends only because the next
\* message would break one of these.
WindowsAreTight(windows, size, gap) ==
    /\ \A n \in DOMAIN windows : Len(windows[n]) \in 1 .. size
    /\ \A n \in DOMAIN windows : \A i \in DOMAIN windows[n] \ {1} :
         windows[n][i].at - windows[n][i - 1].at <= gap
    /\ \A n \in DOMAIN windows \ {1} :
         \/ Len(windows[n - 1]) = size
         \/ Head(windows[n]).at - Last(windows[n - 1]).at > gap
=============================================================================
