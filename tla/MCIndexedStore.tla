--------------------------- MODULE MCIndexedStore ---------------------------
(***************************************************************************)
(* An instance of IndexedStore for TLC: contents of one and two chunks,    *)
(* one a prefix of another, which is what tears and what an upsert keeps.  *)
(* The chunks are those that split_chunks makes of short texts.            *)
(***************************************************************************)
EXTENDS IndexedStore, TextSplitting, TLC

CONSTANTS d1, s1, short, long, other, ChunkLimit, Lengths

\* Paragraphs are stripped and the empty ones left out; the limit is 900.
ASSUME TextAssumption == ChunkLimit \in Nat \ {0} /\ Lengths \subseteq Nat \ {0}

OneSource == d1 :> s1

Chunks ==
    short :> SplitChunks(Text(<<3>>), ChunkLimit)
      @@ long :> SplitChunks(Text(<<3, 2>>), ChunkLimit)
      @@ other :> SplitChunks(Tail(Text(<<3, 2>>)), ChunkLimit)

Symmetry == Permutations(Procs) \cup Permutations(Providers)

\* The texts of up to three paragraphs that split_chunks would damage.
DamagedTexts ==
    {lengths \in UNION {[1 .. n -> Lengths] : n \in 0 .. 3} :
        ~ChunksAreRight(lengths, ChunkLimit)}

\* What is in the index was cut by split_chunks, which loses, moves and doubles
\* no character, keeps paragraphs apart in a chunk and tears none apart within
\* one, and makes chunks that keep the limit and have all that fits into them,
\* the separator counted.
ChunksPartitionTexts == lexical # {} => DamagedTexts = {}
=============================================================================
