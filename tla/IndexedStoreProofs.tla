------------------------- MODULE IndexedStoreProofs -------------------------
(***************************************************************************)
(* Proofs about IndexedStore: IndexInvariant is inductive, so the indexes  *)
(* stay traceable and documents whole for any processes, documents,        *)
(* contents and chunking.  The second half is about split_chunks, which    *)
(* makes the chunks: for every text and limit it loses, moves and doubles  *)
(* no character and its chunks are whole, within the limit and tight.      *)
(***************************************************************************)
EXTENDS MCIndexedStore, SequenceTheorems, WellFoundedInduction, TLAPS

USE DEF storeVars, indexVars, procVars

\* The chunks of a content are chunks, one for each place.
LEMMA ChunksInTyped ==
  ASSUME NEW d \in Documents, NEW v \in Versions
  PROVE  /\ ChunksIn(d, v) \subseteq Chunk
         /\ \A c \in ChunksIn(d, v) : c.doc = d
         /\ \A a, b \in ChunksIn(d, v) : a.ordinal = b.ordinal => a = b
<1>1. ChunksIn(d, v) \subseteq Chunk
  <2>1. ChunksIn(d, v) \in {ChunksIn(e, w) : e \in Documents, w \in Versions}
    OBVIOUS
  <2> QED
    BY <2>1 DEF Chunk
<1>2. \A c \in ChunksIn(d, v) : c.doc = d
  BY DEF ChunksIn
<1>3. \A a, b \in ChunksIn(d, v) : a.ordinal = b.ordinal => a = b
  BY DEF ChunksIn
<1> QED
  BY <1>1, <1>2, <1>3

LEMMA ChunkHasDocument ==
  ASSUME NEW c \in Chunk
  PROVE  c.doc \in Documents
  BY DEF Chunk, ChunksIn

\* What a process reads of the documents is whole and within its scope.
LEMMA BuiltRows ==
  ASSUME TypeOK, NEW scope \in Scopes
  PROVE  /\ BuildRows(scope) \subseteq Chunk
         /\ \A c \in BuildRows(scope) : Covers(scope, c.doc)
         /\ \A d \in Documents : IsWhole(BuildRows(scope), d)
<1> DEFINE read == {e \in Documents : Stored(e) /\ Covers(scope, e)}
<1>1. \A d \in read : documents[d] \in Versions
  BY DEF TypeOK, Stored
<1>2. \A d \in read : /\ ChunksIn(d, documents[d]) \subseteq Chunk
                      /\ \A c \in ChunksIn(d, documents[d]) : c.doc = d
  BY <1>1, ChunksInTyped
<1>3. BuildRows(scope) = UNION {ChunksIn(d, documents[d]) : d \in read}
  BY DEF BuildRows
<1> HIDE DEF read
<1>4. BuildRows(scope) \subseteq Chunk
  BY <1>2, <1>3
<1>5. \A c \in BuildRows(scope) : c.doc \in read
  BY <1>2, <1>3
<1>6. ASSUME NEW d \in Documents
      PROVE  IsWhole(BuildRows(scope), d)
  <2> DEFINE own == {c \in BuildRows(scope) : c.doc = d}
  <2>1. CASE d \in read
    <3>1. own = ChunksIn(d, documents[d])
      BY <2>1, <1>2, <1>3
    <3> QED
      BY <2>1, <3>1, <1>1 DEF IsWhole
  <2>2. CASE d \notin read
    <3>1. own = {}
      BY <2>2, <1>5
    <3> QED
      BY <3>1 DEF IsWhole
  <2> QED
    BY <2>1, <2>2
<1> QED
  BY <1>4, <1>5, <1>6 DEF read

\* Rows that are whole have one chunk for a place.
LEMMA WholeRowsAreKeyed ==
  ASSUME NEW rows \in SUBSET Chunk, \A d \in Documents : IsWhole(rows, d),
         NEW a \in rows, NEW b \in rows, a.doc = b.doc, a.ordinal = b.ordinal
  PROVE  a = b
<1>1. a.doc \in Documents
  BY ChunkHasDocument
<1>2. IsWhole(rows, a.doc)
  BY <1>1
<1>3. PICK v \in Versions : {c \in rows : c.doc = a.doc} = ChunksIn(a.doc, v)
  BY <1>2 DEF IsWhole
<1> QED
  BY <1>1, <1>3, ChunksInTyped

----------------------------------------------------------------------------
(* The index: what IndexInvariant says but for the jobs                    *)

Indexes == IndexIsTraceable /\ PlacesAreUnique /\ DocumentsAreWhole

\* Nothing about the index changes that matters to it.
LEMMA IndexUntouched ==
  ASSUME Indexes, UNCHANGED <<documents, lexical, overtaken>>,
         \A v \in vectors' : v.chunk \in lexical
  PROVE  Indexes'
  BY DEF Indexes, IndexIsTraceable, PlacesAreUnique, DocumentsAreWhole, Stored, IsWhole

\* A rebuild writes the rows it read over a scope and nothing else.
LEMMA IndexRebuilt ==
  ASSUME TypeOK, Indexes, NEW p \in Procs, JobFitsItsStage(p), RebuildWrite(p)
  PROVE  Indexes'
<1> DEFINE scope == job[p].scope
           rows == job[p].rows
           remaining == lexical \ Lexical(scope)
<1>1. /\ lexical' = remaining \cup rows
      /\ vectors' = VectorsWithin(remaining)
      /\ overtaken' = {s \in overtaken : scope \notin {s, All}}
      /\ documents' = documents
      /\ Insertable(rows, remaining)
  BY DEF RebuildWrite
<1>2. /\ rows \subseteq Chunk /\ lexical \subseteq Chunk
      /\ \A c \in rows : Covers(scope, c.doc)
      /\ \A c \in remaining : ~Covers(scope, c.doc)
      /\ \A d \in Documents : IsWhole(rows, d)
      /\ scope \in Scopes
  BY DEF TypeOK, Job, JobFitsItsStage, RebuildWrite, Lexical
<1>3. \A d \in Documents : SourceOf[d] \in Sources
  BY SourceAssumption
<1> HIDE DEF scope, rows
<1>4. IndexIsTraceable'
  BY <1>1 DEF Indexes, IndexIsTraceable, VectorsWithin, Insertable, Stored
<1>5. PlacesAreUnique'
  <2> SUFFICES ASSUME NEW a \in lexical', NEW b \in lexical',
                      a.doc = b.doc, a.ordinal = b.ordinal
               PROVE  a = b
    BY DEF PlacesAreUnique
  <2>1. CASE a \in rows /\ b \in rows
    BY <2>1, <1>2, WholeRowsAreKeyed
  <2>2. CASE a \in remaining /\ b \in remaining
    BY <2>2 DEF Indexes, PlacesAreUnique
  <2>3. CASE (a \in rows /\ b \in remaining) \/ (a \in remaining /\ b \in rows)
    BY <2>3, <1>2
  <2> QED
    BY <1>1, <2>1, <2>2, <2>3
<1>6. DocumentsAreWhole'
  <2> SUFFICES ASSUME NEW d \in Documents, SourceOf[d] \notin overtaken'
               PROVE  IsWhole(lexical', d)
    BY DEF DocumentsAreWhole
  <2>1. CASE Covers(scope, d)
    <3>1. {c \in lexical' : c.doc = d} = {c \in rows : c.doc = d}
      BY <1>1, <1>2, <2>1
    <3> QED
      BY <1>2, <3>1 DEF IsWhole
  <2>2. CASE ~Covers(scope, d)
    <3>1. {c \in lexical' : c.doc = d} = {c \in lexical : c.doc = d}
      BY <1>1, <1>2, <2>2 DEF Lexical
    <3>2. SourceOf[d] \notin overtaken
      BY <1>1, <1>3, <2>2 DEF Covers
    <3>3. IsWhole(lexical, d)
      BY <3>2 DEF Indexes, DocumentsAreWhole
    <3> QED
      BY <3>1, <3>3 DEF IsWhole
  <2> QED
    BY <2>1, <2>2
<1> QED
  BY <1>4, <1>5, <1>6 DEF Indexes

\* What an index-sync that was not overtaken leaves of its source is what it
\* read of its documents.
LEMMA SyncWritesRows ==
  ASSUME TypeOK, NEW p \in Procs, JobFitsItsStage(p), SyncWrite(p),
         Lexical(job[p].scope) = job[p].existing
  PROVE  {c \in lexical' : Covers(job[p].scope, c.doc)} = job[p].rows
<1>1. lexical' = (lexical \ (job[p].existing \ job[p].rows)) \cup job[p].rows
  BY DEF SyncWrite, SyncRemaining
<1>2. \A c \in job[p].rows : Covers(job[p].scope, c.doc)
  BY DEF JobFitsItsStage
<1> QED
  BY <1>1, <1>2 DEF Lexical

LEMMA IndexSynced ==
  ASSUME TypeOK, Indexes, NEW p \in Procs, JobFitsItsStage(p), SyncWrite(p)
  PROVE  Indexes'
<1> DEFINE rows == job[p].rows
           remaining == SyncRemaining(p)
<1>1. /\ lexical' = remaining \cup rows
      /\ vectors' = VectorsWithin(remaining)
      /\ documents' = documents
      /\ Insertable(rows, remaining)
      /\ remaining \subseteq lexical
  BY DEF SyncWrite, SyncRemaining
<1>2. /\ rows \subseteq Chunk
      /\ \A d \in Documents : IsWhole(rows, d)
      /\ job[p].scope \in Sources
  BY DEF TypeOK, Job, JobFitsItsStage, SyncWrite
<1>3. IndexIsTraceable'
  BY <1>1 DEF Indexes, IndexIsTraceable, VectorsWithin, Insertable, Stored
<1>4. PlacesAreUnique'
  <2> SUFFICES ASSUME NEW a \in lexical', NEW b \in lexical',
                      a.doc = b.doc, a.ordinal = b.ordinal
               PROVE  a = b
    BY DEF PlacesAreUnique
  <2>1. CASE a \in rows /\ b \in rows
    BY <2>1, <1>2, WholeRowsAreKeyed
  <2>2. CASE a \in remaining /\ b \in remaining
    BY <2>2, <1>1 DEF Indexes, PlacesAreUnique
  <2>3. CASE (a \in rows /\ b \in remaining) \/ (a \in remaining /\ b \in rows)
    BY <2>3, <1>1 DEF Insertable
  <2> QED
    BY <1>1, <2>1, <2>2, <2>3
<1>5. DocumentsAreWhole'
  <2> SUFFICES ASSUME NEW d \in Documents, SourceOf[d] \notin overtaken'
               PROVE  IsWhole(lexical', d)
    BY DEF DocumentsAreWhole
  <2>1. CASE SourceOf[d] = job[p].scope
    <3>1. Lexical(job[p].scope) = job[p].existing
      BY <2>1 DEF SyncWrite
    <3>2. {c \in lexical' : Covers(job[p].scope, c.doc)} = rows
      BY <3>1, SyncWritesRows
    <3>3. {c \in lexical' : c.doc = d} = {c \in rows : c.doc = d}
      BY <2>1, <3>2 DEF Covers
    <3> QED
      BY <1>2, <3>3 DEF IsWhole
  <2>2. CASE SourceOf[d] # job[p].scope
    <3>1. \A c \in job[p].rows \cup job[p].existing : SourceOf[c.doc] = job[p].scope
      BY <1>2, AllAssumption DEF JobFitsItsStage, Covers
    <3>2. {c \in lexical' : c.doc = d} = {c \in lexical : c.doc = d}
      BY <1>1, <2>2, <3>1 DEF SyncRemaining
    <3>3. SourceOf[d] \notin overtaken
      BY <2>2 DEF SyncWrite
    <3>4. IsWhole(lexical, d)
      BY <3>3 DEF Indexes, DocumentsAreWhole
    <3> QED
      BY <3>2, <3>4 DEF IsWhole
  <2> QED
    BY <2>1, <2>2
<1> QED
  BY <1>3, <1>4, <1>5 DEF Indexes

\* Publications, deletions and revocations take whole documents.
LEMMA IndexCascades ==
  ASSUME TypeOK, Indexes, Cascade, UNCHANGED overtaken
  PROVE  Indexes'
<1>1. /\ lexical' = {c \in lexical : documents'[c.doc] # None}
      /\ vectors' = {v \in vectors : v.chunk \in lexical'}
  BY DEF Cascade, VectorsWithin
<1>2. IndexIsTraceable'
  BY <1>1 DEF IndexIsTraceable, Stored
<1>3. PlacesAreUnique'
  BY <1>1 DEF Indexes, PlacesAreUnique
<1>4. ASSUME NEW d \in Documents, SourceOf[d] \notin overtaken'
      PROVE  IsWhole(lexical', d)
  <2>1. IsWhole(lexical, d)
    BY <1>4 DEF Indexes, DocumentsAreWhole
  <2>2. CASE documents'[d] = None
    <3>1. {c \in lexical' : c.doc = d} = {}
      BY <1>1, <2>2
    <3> QED
      BY <3>1 DEF IsWhole
  <2>3. CASE documents'[d] # None
    <3>1. {c \in lexical' : c.doc = d} = {c \in lexical : c.doc = d}
      BY <1>1, <2>3
    <3> QED
      BY <2>1, <3>1 DEF IsWhole
  <2> QED
    BY <2>2, <2>3
<1> QED
  BY <1>2, <1>3, <1>4 DEF Indexes, DocumentsAreWhole

----------------------------------------------------------------------------
(* The jobs                                                                *)

Jobs == \A p \in Procs : JobFitsItsStage(p)

LEMMA JobFinished ==
  ASSUME NEW p \in Procs, TypeOK, Finish(p)
  PROVE  JobFitsItsStage(p)'
<1>1. pc'[p] = "idle" /\ job'[p] = NoJob
  BY DEF Finish, GoTo, TypeOK
<1> QED
  BY <1>1 DEF JobFitsItsStage, NoJob

\* Once a process reads, its job fits what it read; the jobs of the others
\* stay what they are.
LEMMA JobsStep ==
  ASSUME TypeOK, Jobs, [Next]_vars
  PROVE  Jobs'
<1>1. CASE UNCHANGED <<pc, job>>
  BY <1>1 DEF Jobs, JobFitsItsStage
<1>2. ASSUME NEW p \in Procs, Index(p)
      PROVE  Jobs'
  <2>1. \A q \in Procs \ {p} : pc'[q] = pc[q] /\ job'[q] = job[q]
    BY <1>2 DEF Index, RebuildRead, SyncRead, VectorRebuildRead, RebuildWrite,
       SyncCompare, SyncWrite, VectorRebuildWrite, VectorSyncRead, VectorSyncWrite,
       Fail, Finish, GoTo, Remember, TypeOK
  <2>2. \A q \in Procs \ {p} : JobFitsItsStage(q)'
    BY <2>1 DEF Jobs, JobFitsItsStage
  <2>3. JobFitsItsStage(p)'
    <3>0. JobFitsItsStage(p)
      BY DEF Jobs
    <3>1. ASSUME NEW scope \in Scopes, RebuildRead(p, scope)
          PROVE  JobFitsItsStage(p)'
      <4>1. /\ pc'[p] = "rebuilding" /\ job'[p].scope = scope
            /\ job'[p].rows = BuildRows(scope) /\ job'[p].existing = {}
        BY <3>1 DEF RebuildRead, GoTo, Remember, TypeOK
      <4>2. /\ \A c \in BuildRows(scope) : Covers(scope, c.doc)
            /\ \A d \in Documents : IsWhole(BuildRows(scope), d)
        BY BuiltRows
      <4> QED
        BY <4>1, <4>2 DEF JobFitsItsStage
    <3>2. ASSUME NEW s \in Sources, NEW provider \in Providers, SyncRead(p, s, provider)
          PROVE  JobFitsItsStage(p)'
      <4>1. /\ pc'[p] = "comparing" /\ job'[p].scope = s
            /\ job'[p].provider = provider
            /\ job'[p].rows = BuildRows(s) /\ job'[p].existing = {}
        BY <3>2 DEF SyncRead, GoTo, Remember, TypeOK
      <4>2. /\ s \in Scopes
            /\ \A c \in BuildRows(s) : Covers(s, c.doc)
            /\ \A d \in Documents : IsWhole(BuildRows(s), d)
        BY BuiltRows DEF Scopes
      <4> QED
        BY <4>1, <4>2 DEF JobFitsItsStage
    <3>3. CASE SyncCompare(p)
      <4>1. /\ pc[p] = "comparing" /\ pc'[p] = "syncing" /\ job'[p].scope = job[p].scope
            /\ job'[p].provider = job[p].provider
            /\ job'[p].rows = job[p].rows /\ job'[p].existing = Lexical(job[p].scope)
        BY <3>3 DEF SyncCompare, GoTo, Remember, TypeOK
      <4>2. \A c \in Lexical(job[p].scope) : Covers(job[p].scope, c.doc)
        BY DEF Lexical
      <4> QED
        BY <3>0, <4>1, <4>2 DEF JobFitsItsStage
    <3>4. CASE SyncWrite(p)
      <4>1. pc[p] = "syncing" /\ pc'[p] = "synced" /\ job'[p] = job[p]
        BY <3>4 DEF SyncWrite, GoTo, TypeOK
      <4> QED
        BY <3>0, <4>1 DEF JobFitsItsStage
    <3>5. ASSUME NEW s \in Scopes, NEW provider \in Providers,
                 VectorRebuildRead(p, s, provider)
          PROVE  JobFitsItsStage(p)'
      <4>1. /\ pc'[p] = "re-embedding" /\ job'[p].scope = s
            /\ job'[p].provider = provider
            /\ job'[p].rows = Lexical(s) /\ job'[p].existing = {}
        BY <3>5 DEF VectorRebuildRead, GoTo, Remember, TypeOK
      <4> QED
        BY <4>1 DEF JobFitsItsStage, Lexical
    <3>6. CASE VectorSyncRead(p)
      <4>1. /\ pc[p] = "synced" /\ pc'[p] = "embedding"
            /\ job'[p].scope = job[p].scope /\ job'[p].provider = job[p].provider
            /\ job'[p].rows \subseteq Lexical(job[p].scope) /\ job'[p].existing = {}
        BY <3>6 DEF VectorSyncRead, GoTo, Remember, TypeOK
      <4> QED
        BY <3>0, <4>1 DEF JobFitsItsStage, Lexical
    <3>7. CASE RebuildWrite(p) \/ VectorRebuildWrite(p) \/ VectorSyncWrite(p) \/ Fail(p)
      BY <3>7, JobFinished DEF RebuildWrite, VectorRebuildWrite, VectorSyncWrite, Fail
    <3> QED
      BY <1>2, <3>1, <3>2, <3>3, <3>4, <3>5, <3>6, <3>7 DEF Index
  <2> QED
    BY <2>2, <2>3 DEF Jobs
<1> QED
  BY <1>1, <1>2 DEF Next, Store, Publish, DeleteDerived, Revoke, vars

----------------------------------------------------------------------------
(* Types                                                                   *)

LEMMA JobTyped ==
  ASSUME TypeOK, NEW p \in Procs,
         NEW scope \in Scopes, NEW provider \in Providers \cup {None},
         NEW rows \in SUBSET Chunk, NEW existing \in SUBSET Chunk,
         Remember(p, scope, provider, rows, existing)
  PROVE  job' \in [Procs -> Job]
  BY DEF TypeOK, Remember, Job

LEMMA FinishTyped ==
  ASSUME TypeOK, NEW p \in Procs, Finish(p)
  PROVE  pc' \in [Procs -> Stages] /\ job' \in [Procs -> Job]
  BY DEF TypeOK, Finish, GoTo, NoJob, Job, Stages

LEMMA CascadeTyped ==
  ASSUME TypeOK, Cascade
  PROVE  lexical' \subseteq Chunk /\ vectors' \subseteq Vector
  BY DEF TypeOK, Cascade, VectorsWithin

LEMMA TypeStep ==
  ASSUME TypeOK, Jobs, [Next]_vars
  PROVE  TypeOK'
<1> USE DEF TypeOK
<1>1. CASE UNCHANGED vars
  BY <1>1 DEF vars
<1>2. ASSUME NEW p \in Procs, NEW scope \in Scopes, RebuildRead(p, scope)
      PROVE  TypeOK'
  <2>1. job' \in [Procs -> Job]
    <3>1. BuildRows(scope) \in SUBSET Chunk /\ {} \in SUBSET Chunk
      BY BuiltRows
    <3>2. Remember(p, scope, None, BuildRows(scope), {})
      BY <1>2 DEF RebuildRead
    <3> QED
      BY <3>1, <3>2, JobTyped
  <2> QED
    BY <1>2, <2>1 DEF RebuildRead, GoTo, Stages
<1>3. ASSUME NEW p \in Procs, NEW s \in Scopes, NEW provider \in Providers,
             \/ s \in Sources /\ SyncRead(p, s, provider)
             \/ VectorRebuildRead(p, s, provider)
      PROVE  TypeOK'
  <2>1. /\ s \in Scopes
        /\ BuildRows(s) \in SUBSET Chunk /\ Lexical(s) \in SUBSET Chunk
        /\ {} \in SUBSET Chunk
    BY BuiltRows DEF Scopes, Lexical
  <2>2. job' \in [Procs -> Job]
    <3>1. CASE SyncRead(p, s, provider)
      BY <3>1, <2>1, JobTyped DEF SyncRead
    <3>2. CASE VectorRebuildRead(p, s, provider)
      BY <3>2, <2>1, JobTyped DEF VectorRebuildRead
    <3> QED
      BY <1>3, <3>1, <3>2
  <2>3. pc' \in [Procs -> Stages]
    BY <1>3 DEF SyncRead, VectorRebuildRead, GoTo, Stages
  <2> QED
    BY <1>3, <2>2, <2>3 DEF SyncRead, VectorRebuildRead
<1>4. ASSUME NEW p \in Procs, SyncCompare(p) \/ VectorSyncRead(p)
      PROVE  TypeOK'
  <2>1. job[p].scope \in Scopes /\ job[p].provider \in Providers
    BY <1>4 DEF Jobs, JobFitsItsStage, SyncCompare, VectorSyncRead, Scopes
  <2>2. job[p].rows \subseteq Chunk /\ Lexical(job[p].scope) \subseteq Chunk
    BY DEF Job, Lexical
  <2>3. job' \in [Procs -> Job]
    <3>1. CASE SyncCompare(p)
      BY <3>1, <2>1, <2>2, JobTyped DEF SyncCompare
    <3>2. CASE VectorSyncRead(p)
      <4> DEFINE rows == {c \in Lexical(job[p].scope) :
                            [chunk |-> c, provider |-> job[p].provider] \notin vectors}
      <4>1. rows \in SUBSET Chunk /\ {} \in SUBSET Chunk
        BY <2>2
      <4>2. Remember(p, job[p].scope, job[p].provider, rows, {})
        BY <3>2 DEF VectorSyncRead
      <4> HIDE DEF rows
      <4> QED
        BY <2>1, <4>1, <4>2, JobTyped
    <3> QED
      BY <1>4, <3>1, <3>2
  <2>4. pc' \in [Procs -> Stages]
    BY <1>4 DEF SyncCompare, VectorSyncRead, GoTo, Stages
  <2> QED
    BY <1>4, <2>3, <2>4 DEF SyncCompare, VectorSyncRead
<1>5. ASSUME NEW p \in Procs, RebuildWrite(p)
      PROVE  TypeOK'
  <2>1. job[p].rows \subseteq Chunk
    BY DEF Job
  <2>2. lexical' \subseteq Chunk /\ vectors' \subseteq Vector /\ overtaken' \subseteq Sources
    BY <1>5, <2>1 DEF RebuildWrite, VectorsWithin
  <2> QED
    BY <1>5, <2>2, FinishTyped DEF RebuildWrite
<1>6. ASSUME NEW p \in Procs, SyncWrite(p)
      PROVE  TypeOK'
  <2>1. job[p].rows \subseteq Chunk
    BY DEF Job
  <2>2. lexical' \subseteq Chunk /\ vectors' \subseteq Vector
    BY <1>6, <2>1 DEF SyncWrite, SyncRemaining, VectorsWithin
  <2>3. job[p].scope \in Sources
    BY <1>6 DEF Jobs, JobFitsItsStage, SyncWrite
  <2>4. overtaken' \subseteq overtaken \cup {job[p].scope}
    BY <1>6 DEF SyncWrite
  <2>5. overtaken' \subseteq Sources
    BY <2>3, <2>4
  <2>6. pc' \in [Procs -> Stages]
    BY <1>6 DEF SyncWrite, GoTo, Stages
  <2> QED
    BY <1>6, <2>2, <2>5, <2>6 DEF SyncWrite
<1>7. ASSUME NEW p \in Procs, VectorRebuildWrite(p) \/ VectorSyncWrite(p)
      PROVE  TypeOK'
  <2>0. job[p].rows \subseteq Chunk
    BY DEF Job
  <2>1. job[p].provider \in Providers
    BY <1>7 DEF Jobs, JobFitsItsStage, VectorRebuildWrite, VectorSyncWrite
  <2>3. NewVectors(p) \subseteq Vector
    BY <2>0, <2>1 DEF NewVectors, Vector
  <2>2. vectors' \subseteq Vector
    BY <1>7, <2>3 DEF VectorRebuildWrite, VectorSyncWrite
  <2> QED
    BY <1>7, <2>2, FinishTyped DEF VectorRebuildWrite, VectorSyncWrite
<1>8. ASSUME NEW p \in Procs, Fail(p)
      PROVE  TypeOK'
  BY <1>8, FinishTyped DEF Fail
<1>9. ASSUME NEW s \in Sources, Store(s)
      PROVE  TypeOK'
  <2>1. documents' \in [Documents -> Versions \cup {None}]
    BY <1>9 DEF Store, Publish, DeleteDerived, Revoke, Without, DocumentsOf
  <2>2. lexical' \subseteq Chunk /\ vectors' \subseteq Vector
    BY <1>9, CascadeTyped DEF Store, Publish, DeleteDerived, Revoke
  <2>3. live' \subseteq Sources
    BY <1>9 DEF Store, Publish, DeleteDerived, Revoke
  <2>4. UNCHANGED <<procVars, overtaken>>
    BY <1>9 DEF Store, Publish, DeleteDerived, Revoke
  <2> QED
    BY <2>1, <2>2, <2>3, <2>4
<1> QED
  BY <1>1, <1>2, <1>3, <1>4, <1>5, <1>6, <1>7, <1>8, <1>9
  DEF Next, Index, Scopes

----------------------------------------------------------------------------
(* The invariant and what follows from it                                  *)

LEMMA IndexesStep ==
  ASSUME TypeOK, Jobs, Indexes, [Next]_vars
  PROVE  Indexes'
<1>1. CASE UNCHANGED <<documents, lexical, vectors, overtaken>>
  BY <1>1, IndexUntouched DEF Indexes, IndexIsTraceable
<1>2. ASSUME NEW p \in Procs, RebuildWrite(p)
      PROVE  Indexes'
  BY <1>2, IndexRebuilt DEF Jobs
<1>3. ASSUME NEW p \in Procs, SyncWrite(p)
      PROVE  Indexes'
  BY <1>3, IndexSynced DEF Jobs
<1>4. ASSUME NEW p \in Procs, VectorRebuildWrite(p) \/ VectorSyncWrite(p)
      PROVE  Indexes'
  <2>1. \A v \in NewVectors(p) : v.chunk \in lexical
    BY <1>4 DEF VectorRebuildWrite, VectorSyncWrite, HaveChunks, NewVectors
  <2>2. \A v \in vectors' : v.chunk \in lexical
    BY <1>4, <2>1 DEF VectorRebuildWrite, VectorSyncWrite, Indexes, IndexIsTraceable
  <2> QED
    BY <1>4, <2>2, IndexUntouched DEF VectorRebuildWrite, VectorSyncWrite
<1>5. ASSUME NEW s \in Sources, Store(s)
      PROVE  Indexes'
  BY <1>5, IndexCascades DEF Store, Publish, DeleteDerived, Revoke
<1> QED
  BY <1>1, <1>2, <1>3, <1>4, <1>5
  DEF Next, Index, RebuildRead, SyncRead, VectorRebuildRead, SyncCompare,
      VectorSyncRead, Fail, vars, Scopes

LEMMA InitInvariant == Init => IndexInvariant
<1> SUFFICES ASSUME Init
             PROVE  IndexInvariant
  OBVIOUS
<1>1. TypeOK
  BY DEF Init, TypeOK, Stages, Job, NoJob
<1>2. Indexes
  BY DEF Init, Indexes, IndexIsTraceable, PlacesAreUnique, DocumentsAreWhole, IsWhole
<1>3. Jobs
  BY DEF Init, Jobs, JobFitsItsStage, NoJob
<1> QED
  BY <1>1, <1>2, <1>3 DEF IndexInvariant, Indexes, Jobs

THEOREM InvariantHolds == Spec => []IndexInvariant
<1>1. IndexInvariant /\ [Next]_vars => IndexInvariant'
  BY TypeStep, JobsStep, IndexesStep DEF IndexInvariant, Indexes, Jobs
<1> QED
  BY InitInvariant, <1>1, PTL DEF Spec

\* The type invariant of the index tables (lexical.py and vector.py).
THEOREM TypeCorrect == Spec => []TypeOK
<1>1. IndexInvariant => TypeOK
  BY DEF IndexInvariant
<1> QED
  BY <1>1, InvariantHolds, PTL

\* Chunks map to stored documents and vectors to chunks, whatever is deleted
\* between the reads and the write of rebuild, sync and the vector index.
THEOREM IndexStaysTraceable == Spec => []IndexIsTraceable
<1>1. IndexInvariant => IndexIsTraceable
  BY DEF IndexInvariant
<1> QED
  BY <1>1, InvariantHolds, PTL

\* Racing rebuilds and index-syncs leave one chunk for a place of a document.
THEOREM PlacesStayUnique == Spec => []PlacesAreUnique
<1>1. IndexInvariant => PlacesAreUnique
  BY DEF IndexInvariant
<1> QED
  BY <1>1, InvariantHolds, PTL

\* Only an index-sync that was overtaken tears a document
\* (LexicalSearchService.rebuild and sync).
THEOREM OnlyOvertakenSyncsTear == Spec => []DocumentsAreWhole
<1>1. IndexInvariant => DocumentsAreWhole
  BY DEF IndexInvariant
<1> QED
  BY <1>1, InvariantHolds, PTL

\* The incremental index is what a rebuild would have written
\* (LexicalSearchService.sync).
THEOREM IncrementalIsExact == Spec => IndexSyncIsExact
<1>1. ASSUME IndexInvariant, [Next]_vars
      PROVE  [\A p \in Procs :
                 pc[p] = "syncing" /\ pc'[p] = "synced"
                   /\ Lexical(job[p].scope) = job[p].existing
                   => Lexical(job[p].scope)' = job[p].rows]_vars
  <2> SUFFICES ASSUME Next, NEW p \in Procs, pc[p] = "syncing", pc'[p] = "synced",
                      Lexical(job[p].scope) = job[p].existing
               PROVE  Lexical(job[p].scope)' = job[p].rows
    BY <1>1
  <2>1. TypeOK /\ JobFitsItsStage(p)
    BY <1>1 DEF IndexInvariant
  <2>2. SyncWrite(p)
    BY <2>1 DEF Next, Index, Store, Publish, DeleteDerived, Revoke,
       RebuildRead, SyncRead, VectorRebuildRead, RebuildWrite, SyncCompare,
       SyncWrite, VectorRebuildWrite, VectorSyncRead, VectorSyncWrite, Fail,
       Finish, GoTo, TypeOK
  <2>3. {c \in lexical' : Covers(job[p].scope, c.doc)} = job[p].rows
    BY <2>1, <2>2, SyncWritesRows
  <2>4. job'[p] = job[p]
    BY <2>2 DEF SyncWrite
  <2> QED
    BY <2>3, <2>4 DEF Lexical
<1> QED
  BY <1>1, InvariantHolds, PTL DEF Spec, IndexSyncIsExact

\* The write of a rebuild of p that may take v.
Rebuilds(p, v) ==
    /\ pc'[p] = "idle"
    /\ Covers(job[p].scope, v.chunk.doc)
    /\ \/ pc[p] = "rebuilding"
       \/ pc[p] = "re-embedding" /\ v.provider = job[p].provider

VectorsLeave ==
    \A v \in vectors \ vectors' :
       v.chunk \notin lexical' \/ \E p \in Procs : Rebuilds(p, v)

\* Index-sync never takes a vector from a chunk it retains: a vector is lost
\* with its chunk or to a rebuild of its source and provider, nowhere else.
THEOREM VectorsStayWithChunks == Spec => VectorsGoWithTheirChunks
<1>1. ASSUME IndexInvariant, [Next]_vars
      PROVE  [VectorsLeave]_vars
  <2> SUFFICES ASSUME Next, NEW v \in vectors \ vectors', v.chunk \in lexical'
               PROVE  \E p \in Procs : Rebuilds(p, v)
    BY <1>1 DEF VectorsLeave
  <2>1. TypeOK /\ v.chunk \in lexical
    BY <1>1 DEF IndexInvariant, IndexIsTraceable
  <2>2. ASSUME NEW p \in Procs, RebuildWrite(p) \/ VectorRebuildWrite(p)
        PROVE  Rebuilds(p, v)
    <3>1. pc'[p] = "idle"
      BY <2>1, <2>2 DEF RebuildWrite, VectorRebuildWrite, Finish, GoTo, TypeOK
    <3>2. CASE RebuildWrite(p)
      BY <2>1, <3>1, <3>2 DEF RebuildWrite, VectorsWithin, Lexical, Rebuilds
    <3>3. CASE VectorRebuildWrite(p)
      BY <3>1, <3>3 DEF VectorRebuildWrite, VectorsOf, Rebuilds
    <3> QED
      BY <2>2, <3>2, <3>3
  <2>3. ASSUME NEW p \in Procs, SyncWrite(p)
        PROVE  v.chunk \notin lexical'
    BY <2>1, <2>3 DEF SyncWrite, SyncRemaining, VectorsWithin
  <2>4. ASSUME NEW s \in Sources, Store(s)
        PROVE  v.chunk \notin lexical'
    BY <2>1, <2>4 DEF Store, Publish, DeleteDerived, Revoke, Cascade, VectorsWithin
  <2>5. ASSUME NEW p \in Procs, Index(p)
        PROVE  RebuildWrite(p) \/ VectorRebuildWrite(p) \/ SyncWrite(p)
    BY <2>5 DEF Index, RebuildRead, SyncRead, VectorRebuildRead, SyncCompare,
                VectorSyncRead, VectorSyncWrite, Fail
  <2> QED
    BY <2>2, <2>3, <2>4, <2>5 DEF Next
<1>2. Spec => [][VectorsLeave]_vars
  BY <1>1, InvariantHolds, PTL DEF Spec
<1>3. VectorsLeave <=>
         \A v \in vectors \ vectors' :
            \/ v.chunk \notin lexical'
            \/ \E p \in Procs :
                 /\ pc'[p] = "idle"
                 /\ Covers(job[p].scope, v.chunk.doc)
                 /\ \/ pc[p] = "rebuilding"
                    \/ pc[p] = "re-embedding" /\ v.provider = job[p].provider
  BY DEF VectorsLeave, Rebuilds
<1> QED
  BY <1>2, <1>3, PTL DEF VectorsGoWithTheirChunks

----------------------------------------------------------------------------
(* Induction without an induction theorem, and the folds                   *)
(*                                                                         *)
(* split_chunks is a pass: a fold over the parts of the paragraphs.  The   *)
(* induction theorems of the library take an operator, so what follows     *)
(* goes by the least number of a set, and the function a fold chooses is   *)
(* shown to exist.                                                         *)

\* A set of numbers has a least one.
LEMMA LeastNat ==
    ASSUME NEW T, T \subseteq Nat, T # {}
    PROVE  \E n \in T : \A m \in T : n <= m
  <1> DEFINE R == OpToRel(<, Nat)
  <1>1. IsWellFoundedOn(R, Nat)
    BY NatLessThanWellFounded
  <1>2. R = {ss \in Nat \X Nat : ss[1] < ss[2]}
    BY DEF OpToRel
  <1> HIDE DEF R
  <1>3. PICK n \in T : \A m \in T : ~ (<<m, n>> \in R)
    BY <1>1, WFMin
  <1>4. ASSUME NEW m \in T PROVE n <= m
    <2>1. <<m, n>> \in Nat \X Nat /\ <<m, n>>[1] = m /\ <<m, n>>[2] = n
      BY <1>3, <1>4
    <2>2. ~ (m < n)
      BY <1>2, <1>3, <1>4, <2>1
    <2> QED BY <1>3, <1>4, <2>2
  <1> QED BY <1>3, <1>4

\* Induction up to n, for a set of numbers.
LEMMA UpTo ==
    ASSUME NEW n \in Nat, NEW T, 0 \in T,
           \A k \in 1 .. n : k - 1 \in T => k \in T
    PROVE  \A k \in 0 .. n : k \in T
  <1> DEFINE Missing == {k \in 0 .. n : k \notin T}
  <1>1. SUFFICES ASSUME Missing # {} PROVE FALSE
    OBVIOUS
  <1>2. PICK k \in Missing : \A m \in Missing : k <= m
    <2>1. Missing \subseteq Nat
      OBVIOUS
    <2> HIDE DEF Missing
    <2> QED BY <1>1, <2>1, LeastNat
  <1>3. k \in 1 .. n /\ k - 1 \in 0 .. n
    BY <1>2
  <1>4. k - 1 \notin Missing
    BY <1>2, <1>3
  <1> QED BY <1>2, <1>3, <1>4

\* The maximum of a nonempty set of numbers is in it and bounds it.
LEMMA MaxProperties ==
    ASSUME NEW n \in Nat, NEW S \in SUBSET (1 .. n), S # {}
    PROVE  Max(S) \in S /\ \A k \in S : k <= Max(S)
  <1> DEFINE T == {u \in 0 .. n : \A k \in S : k <= u}
  <1>1. n \in T
    OBVIOUS
  <1>2. PICK u \in T : \A m \in T : u <= m
    <2>1. T \subseteq Nat
      OBVIOUS
    <2> HIDE DEF T
    <2> QED BY <1>1, <2>1, LeastNat
  <1>3. u \in S
    <2>1. CASE u = 0
      <3>1. PICK k \in S : TRUE
        OBVIOUS
      <3>2. k <= 0 /\ k \in 1 .. n
        BY <1>2, <2>1
      <3> QED BY <3>2
    <2>2. CASE u # 0
      <3>1. u - 1 \in 0 .. n /\ u - 1 \notin T
        BY <1>2, <2>2
      <3>2. PICK k \in S : ~ (k <= u - 1)
        BY <3>1
      <3> QED BY <1>2, <3>1, <3>2
    <2> QED BY <2>1, <2>2
  <1>4. \A k \in S : u >= k
    BY <1>2
  <1>5. \A k \in S : (\A y \in S : k >= y) => k = u
    BY <1>3, <1>4
  <1>6. Max(S) \in S /\ \A y \in S : Max(S) >= y
    BY <1>3, <1>4 DEF Max
  <1> QED BY <1>6

\* A set that reaches n has the maximum n.
LEMMA MaxOfTop ==
    ASSUME NEW n \in Nat \ {0}, NEW S \in SUBSET (1 .. n), n \in S
    PROVE  Max(S) = n
  <1>1. Max(S) \in S /\ \A k \in S : k <= Max(S)
    BY MaxProperties
  <1>2. Max(S) \in 1 .. n /\ n <= Max(S)
    BY <1>1
  <1> QED BY <1>2

\* f is the iteration of a FoldLeft, for every set of elements left to do.
Iterates(f, A, base, step, seq) ==
    /\ f \in [SUBSET (1 .. Len(seq)) -> A]
    /\ \A s \in SUBSET (1 .. Len(seq)) :
         f[s] = IF s = {} THEN base ELSE step[<<f[s \ {Max(s)}], seq[Max(s)]>>]

\* There is one.
LEMMA FoldExists ==
    ASSUME NEW A, NEW E, NEW base \in A, NEW step \in [A \X E -> A],
           NEW seq \in Seq(E)
    PROVE  \E f : Iterates(f, A, base, step, seq)
  <1> DEFINE Good(f, k) ==
               /\ f \in [SUBSET (1 .. k) -> A]
               /\ \A s \in SUBSET (1 .. k) :
                    f[s] = IF s = {} THEN base ELSE step[<<f[s \ {Max(s)}], seq[Max(s)]>>]
             n == Len(seq)
             T == {k \in 0 .. n : \E f : Good(f, k)}
  <1>1. n \in Nat
    OBVIOUS
  <1>2. 0 \in T
    <2> DEFINE f == [s \in SUBSET (1 .. 0) |-> base]
    <2>1. f \in [SUBSET (1 .. 0) -> A]
      OBVIOUS
    <2>2. \A s \in SUBSET (1 .. 0) : s = {} /\ f[s] = base
      OBVIOUS
    <2> HIDE DEF f
    <2>3. Good(f, 0)
      BY <2>1, <2>2
    <2> HIDE DEF Good
    <2> QED BY <1>1, <2>3
  <1>3. ASSUME NEW k \in 1 .. n, k - 1 \in T PROVE k \in T
    <2>1. PICK f : Good(f, k - 1)
      BY <1>3
    <2> DEFINE g == [s \in SUBSET (1 .. k) |->
                       IF k \in s THEN step[<<f[s \ {k}], seq[k]>>] ELSE f[s]]
    <2>2. k \in Nat \ {0} /\ seq[k] \in E
      BY <1>1, <1>3
    <2>3. \A s \in SUBSET (1 .. k) : k \notin s => s \in SUBSET (1 .. k - 1)
      BY <1>1, <1>3
    <2>4. \A s \in SUBSET (1 .. k) : s \ {k} \in SUBSET (1 .. k - 1)
      BY <1>1, <1>3
    <2>5. ASSUME NEW s \in SUBSET (1 .. k), k \notin s
          PROVE  /\ g[s] = f[s] /\ g[s] \in A
                 /\ g[s] = IF s = {} THEN base ELSE step[<<g[s \ {Max(s)}], seq[Max(s)]>>]
      <3>1. s \in SUBSET (1 .. k - 1) /\ g[s] = f[s]
        BY <2>3, <2>5
      <3>2. s \ {Max(s)} \in SUBSET (1 .. k) /\ k \notin s \ {Max(s)}
        BY <2>5
      <3>3. g[s \ {Max(s)}] = f[s \ {Max(s)}]
        BY <3>2
      <3> QED BY <2>1, <3>1, <3>3
    <2>6. ASSUME NEW s \in SUBSET (1 .. k), k \in s
          PROVE  /\ g[s] \in A /\ s # {}
                 /\ g[s] = step[<<g[s \ {Max(s)}], seq[Max(s)]>>]
      <3>1. Max(s) = k
        BY <2>2, <2>6, MaxOfTop
      <3>2. s \ {k} \in SUBSET (1 .. k - 1) /\ s \ {k} \in SUBSET (1 .. k)
        BY <2>4
      <3>3. f[s \ {k}] \in A
        BY <2>1, <3>2
      <3>4. g[s \ {k}] = f[s \ {k}]
        BY <3>2
      <3>5. g[s] = step[<<f[s \ {k}], seq[k]>>]
        BY <2>6
      <3>6. step[<<f[s \ {k}], seq[k]>>] \in A
        BY <2>2, <3>3
      <3> QED BY <2>6, <3>1, <3>4, <3>5, <3>6
    <2>7. g \in [SUBSET (1 .. k) -> A]
      <3>1. g = [s \in SUBSET (1 .. k) |-> g[s]]
        OBVIOUS
      <3> HIDE DEF g
      <3> QED BY <2>5, <2>6, <3>1
    <2>8. Good(g, k)
      <3> HIDE DEF g
      <3> QED BY <2>5, <2>6, <2>7
    <2> HIDE DEF Good
    <2> QED BY <1>3, <2>8
  <1> HIDE DEF Good
  <1>4. n \in T
    <2> HIDE DEF T
    <2>1. \A k \in 0 .. n : k \in T
      BY <1>1, <1>2, <1>3, UpTo
    <2> QED BY <1>1, <2>1
  <1>5. PICK f : Good(f, n)
    BY <1>4
  <1> QED BY <1>5 DEF Good, Iterates

\* The set a fold has still to do, from its last element.
LEMMA MaxOfInterval ==
    ASSUME NEW k \in Nat \ {0}
    PROVE  1 .. k # {} /\ Max(1 .. k) = k /\ (1 .. k) \ {k} = 1 .. k - 1
  <1>1. k \in 1 .. k /\ 1 .. k \in SUBSET (1 .. k)
    OBVIOUS
  <1>2. Max(1 .. k) = k
    BY <1>1, MaxOfTop
  <1> QED BY <1>1, <1>2

\* joined holds the concatenations of the first seqs.
Joins(joined, seqs, M) ==
    /\ joined \in [0 .. Len(seqs) -> Seq(M)]
    /\ joined[0] = <<>>
    /\ \A k \in 1 .. Len(seqs) : joined[k] = joined[k - 1] \o seqs[k]

\* FlattenSeq is the last of the concatenations.
LEMMA FlattenJoins ==
    ASSUME NEW M, NEW seqs \in Seq(Seq(M))
    PROVE  \E joined : Joins(joined, seqs, M) /\ joined[Len(seqs)] = FlattenSeq(seqs)
  <1> DEFINE n == Len(seqs)
             A == Seq(M)
             step == [x \in A \X A |-> x[1] \o x[2]]
             base == <<>>
  <1>1. n \in Nat /\ base \in A /\ \A k \in 1 .. n : seqs[k] \in A
    BY LenProperties, ElementOfSeq, EmptySeq
  <1>2. step \in [A \X A -> A] /\ \A v, w \in A : step[<<v, w>>] = v \o w
    BY ConcatProperties
  <1> HIDE DEF step
  <1>3. PICK f : Iterates(f, A, base, step, seqs)
    BY <1>1, <1>2, FoldExists
  <1> DEFINE joined == [k \in 0 .. n |-> f[1 .. k]]
             flatten == [i \in 1 .. n |-> joined[i]]
             IsFlatten(g) == g = [i \in 1 .. n |->
                                    IF i = 1 THEN seqs[i] ELSE g[i - 1] \o seqs[i]]
  <1>4. joined[0] = <<>>
    <2>1. 1 .. 0 = {} /\ 0 \in 0 .. n
      BY <1>1
    <2> QED BY <1>3, <2>1 DEF Iterates
  <1>5. ASSUME NEW k \in 0 .. n PROVE joined[k] \in A
    <2>1. 1 .. k \in SUBSET (1 .. n)
      BY <1>1
    <2>2. f[1 .. k] \in A
      <3> HIDE DEF A
      <3> QED BY <1>3, <2>1 DEF Iterates
    <2> QED BY <2>2
  <1>6. ASSUME NEW k \in 1 .. n PROVE joined[k] = joined[k - 1] \o seqs[k]
    <2>1. k \in Nat \ {0} /\ k - 1 \in 0 .. n /\ k \in 0 .. n /\ 1 .. k \in SUBSET (1 .. n)
      BY <1>1
    <2>2. 1 .. k # {} /\ Max(1 .. k) = k /\ (1 .. k) \ {k} = 1 .. k - 1
      BY <2>1, MaxOfInterval
    <2>3. f[1 .. k] = step[<<f[1 .. k - 1], seqs[k]>>]
      BY <1>3, <2>1, <2>2 DEF Iterates
    <2>4. f[1 .. k - 1] \in A
      BY <1>5, <2>1
    <2> QED BY <1>1, <1>2, <2>1, <2>3, <2>4
  <1>7. Joins(joined, seqs, M)
    <2>1. joined \in [0 .. n -> Seq(M)]
      BY <1>5
    <2> HIDE DEF joined
    <2> QED BY <1>4, <1>6, <2>1 DEF Joins
  <1> HIDE DEF joined
  <1>8. IsFlatten(flatten)
    <2>1. ASSUME NEW i \in 1 .. n, i # 1
          PROVE  flatten[i] = flatten[i - 1] \o seqs[i]
      <3>1. i - 1 \in 1 .. n
        BY <1>1, <2>1
      <3> QED BY <1>6, <3>1
    <2>2. ASSUME 1 \in 1 .. n PROVE flatten[1] = seqs[1]
      <3> DEFINE one == 1
      <3>00. one \in 1 .. n /\ one = 1 /\ one - 1 = 0
        BY <2>2
      <3> HIDE DEF one
      <3>0. joined[1] = joined[one - 1] \o seqs[1] /\ one - 1 = 0
        BY <1>6, <3>00
      <3>1. joined[1] = <<>> \o seqs[1]
        BY <1>4, <3>0
      <3>2. <<>> \o seqs[1] = seqs[1]
        BY <1>1, <2>2, ConcatEmptySeq
      <3> QED BY <2>2, <3>1, <3>2
    <2> QED BY <1>1, <2>1, <2>2
  <1> DEFINE g == CHOOSE h : IsFlatten(h)
  <1>9. IsFlatten(g)
    <2> HIDE DEF IsFlatten, flatten
    <2> QED BY <1>8, Zenon
  <1>10. n # 0 => FlattenSeq(seqs) = g[n]
    BY DEF FlattenSeq
  <1>11. n = 0 => FlattenSeq(seqs) = <<>>
    BY DEF FlattenSeq
  <1> HIDE DEF g
  <1>12. \A i \in 1 .. n :
           g[i] = IF i = 1 THEN seqs[i] ELSE g[i - 1] \o seqs[i]
    BY <1>9
  <1> HIDE DEF IsFlatten
  <1>13. \A k \in 0 .. n : k = 0 \/ g[k] = joined[k]
    <2> DEFINE T == {k \in 0 .. n : k = 0 \/ g[k] = joined[k]}
    <2>1. 0 \in T
      BY <1>1
    <2>2. ASSUME NEW k \in 1 .. n, k - 1 \in T PROVE k \in T
      <3>1. CASE k = 1
        <4>0. 1 \in 1 .. n /\ 1 - 1 = 0
          BY <3>1
        <4>1. joined[1] = <<>> \o seqs[1] /\ g[1] = seqs[1]
          BY <1>4, <1>6, <1>12, <4>0
        <4>2. <<>> \o seqs[1] = seqs[1]
          BY <1>1, <4>0, ConcatEmptySeq
        <4> QED BY <1>1, <3>1, <4>1, <4>2
      <3>2. CASE k # 1
        <4>1. k - 1 # 0 /\ k \in 0 .. n
          BY <1>1, <3>2
        <4>2. g[k - 1] = joined[k - 1]
          BY <2>2, <4>1
        <4> QED BY <1>6, <1>12, <3>2, <4>1, <4>2
      <3> QED BY <3>1, <3>2
    <2> HIDE DEF T
    <2>3. \A k \in 0 .. n : k \in T
      BY <1>1, <2>1, <2>2, UpTo
    <2> QED BY <2>3 DEF T
  <1>14. joined[n] = FlattenSeq(seqs)
    BY <1>1, <1>4, <1>10, <1>11, <1>13
  <1> QED BY <1>7, <1>14

----------------------------------------------------------------------------
(* The parts of the paragraphs                                             *)

\* A character, as TextSplitting has it: its paragraph and its place there.
Character == Nat \X Nat

\* A function from 1 .. n is a sequence of length n.
LEMMA SeqOfFunction ==
    ASSUME NEW S, NEW n \in Nat, NEW f \in [1 .. n -> S]
    PROVE  f \in Seq(S) /\ Len(f) = n
  <1>1. f \in Seq(S)
    BY SeqDef
  <1>2. Len(f) \in Nat /\ 1 .. n = 1 .. Len(f)
    BY <1>1, LenProperties
  <1> QED BY <1>1, <1>2

\* part is a piece of one paragraph that keeps the limit.
IsPart(part, limit) ==
    /\ part \in Seq(Character) /\ Len(part) \in 1 .. limit
    /\ \A x \in 1 .. Len(part) : part[x] # Break /\ part[x][1] = part[1][1]
    /\ \A x, y \in 1 .. Len(part) : x < y => Earlier(part[x], part[y])

\* Every character of part is of paragraph p, which has n.
Belongs(part, p, n) ==
    \A x \in 1 .. Len(part) : part[x][1] = p /\ part[x][2] \in 1 .. n

\* The character c is in part.
Holds(part, c) == \E x \in 1 .. Len(part) : part[x] = c

\* All of part comes before all of next in the text.
Precedes(part, next) ==
    \A x \in 1 .. Len(part) : \A y \in 1 .. Len(next) : Earlier(part[x], next[y])

\* parts are paragraph p, of n characters, cut into pieces.
CutsOne(parts, p, n, limit) ==
    /\ parts \in Seq(Seq(Character))
    /\ \A m \in 1 .. Len(parts) : IsPart(parts[m], limit) /\ Belongs(parts[m], p, n)
    /\ \A k \in 1 .. n : \E m \in 1 .. Len(parts) : Holds(parts[m], <<p, k>>)
    /\ \A m, j \in 1 .. Len(parts) : m < j => Precedes(parts[m], parts[j])
    /\ \A m \in 1 .. Len(parts) : m < Len(parts) => Len(parts[m]) = limit

\* The starts and ends of the parts of a paragraph of n characters: each part
\* is nonempty, all but the last are full, and together they reach the end.
LEMMA Multiples ==
    ASSUME NEW limit \in Nat \ {0}, NEW n \in Nat \ {0}
    PROVE  LET last == (n + limit - 1) \div limit
           IN  /\ last \in Nat
               /\ \A m \in 1 .. last :
                    /\ (m - 1) * limit \in Nat /\ m * limit = (m - 1) * limit + limit
                    /\ (m - 1) * limit < n
                    /\ m < last => m * limit < n
               /\ n <= last * limit
               /\ \A m, j \in 1 .. last : m < j => m * limit <= (j - 1) * limit
  <1> DEFINE last == (n + limit - 1) \div limit
  <1>1. /\ last \in Nat /\ last * limit <= n + limit - 1
        /\ n + limit - 1 < last * limit + limit
    OBVIOUS
  <1> HIDE DEF last
  <1>2. ASSUME NEW a \in Nat, NEW b \in Nat, a <= b PROVE a * limit <= b * limit
    BY <1>2
  <1>3. ASSUME NEW m \in 1 .. last
        PROVE  /\ (m - 1) * limit \in Nat /\ m * limit = (m - 1) * limit + limit
               /\ (m - 1) * limit < n
               /\ m < last => m * limit < n
    <2>1. m \in Nat /\ m - 1 \in Nat /\ last \in Nat /\ m <= last
      BY <1>1
    <2>2. (m - 1) * limit \in Nat /\ m * limit = (m - 1) * limit + limit
      BY <2>1
    <2>3. m * limit <= last * limit
      BY <1>2, <2>1
    <2>4. (m - 1) * limit < n
      BY <1>1, <2>2, <2>3
    <2>5. ASSUME m < last PROVE m * limit < n
      <3>1. (m + 1) * limit <= last * limit /\ (m + 1) * limit = m * limit + limit
        BY <1>2, <2>1, <2>5
      <3>2. m * limit \in Nat
        BY <2>1
      <3> QED BY <1>1, <3>1, <3>2
    <2> QED BY <2>2, <2>4, <2>5
  <1>4. ASSUME NEW m \in 1 .. last, NEW j \in 1 .. last, m < j
        PROVE  m * limit <= (j - 1) * limit
    BY <1>1, <1>2, <1>4
  <1>5. n <= last * limit
    <2>1. last * limit \in Nat
      BY <1>1
    <2> QED BY <1>1, <2>1
  <1> QED BY <1>1, <1>3, <1>4, <1>5 DEF last

\* part is s from after a to b.
IsSlice(part, s, S, a, b) ==
    /\ part \in Seq(S) /\ Len(part) = b - a
    /\ \A x \in 1 .. b - a : part[x] = s[a + x]

\* SubSeq is a slice.
LEMMA SliceOf ==
    ASSUME NEW S, NEW s \in Seq(S), NEW a \in Nat, NEW b \in Nat, a < b, b <= Len(s)
    PROVE  IsSlice(SubSeq(s, a + 1, b), s, S, a, b)
  <1>1. SubSeq(s, a + 1, b) \in Seq(S)
    BY LenProperties, ElementOfSeq, SubSeqProperties
  <1>2. Len(SubSeq(s, a + 1, b)) = b - a
    OBVIOUS
  <1>3. \A x \in 1 .. b - a : SubSeq(s, a + 1, b)[x] = s[a + x]
    OBVIOUS
  <1> QED BY <1>1, <1>2, <1>3 DEF IsSlice

\* The parts of a paragraph are it, cut into pieces (split_chunks, inner loop).
LEMMA PartsCutOne ==
    ASSUME NEW p \in Nat \ {0}, NEW n \in Nat \ {0}, NEW limit \in Nat \ {0},
           NEW paragraph, paragraph = [k \in 1 .. n |-> <<p, k>>]
    PROVE  CutsOne(Parts(paragraph, limit), p, n, limit)
  <1> DEFINE last == (n + limit - 1) \div limit
             parts == Parts(paragraph, limit)
             from(m) == (m - 1) * limit
             to(m) == AtMost(m * limit, n)
  <1>1. paragraph \in Seq(Character) /\ Len(paragraph) = n
    <2>1. paragraph \in [1 .. n -> Character]
      BY DEF Character
    <2> QED BY <2>1, SeqOfFunction
  <1>2. /\ last \in Nat
        /\ \A m \in 1 .. last : /\ from(m) \in Nat /\ m * limit = from(m) + limit
                                /\ from(m) < n
                                /\ m < last => m * limit < n
        /\ n <= last * limit
        /\ \A m, j \in 1 .. last : m < j => m * limit <= from(j)
    BY Multiples
  <1>3. parts = [m \in 1 .. last |-> SubSeq(paragraph, from(m) + 1, to(m))]
    BY <1>1 DEF Parts
  <1> HIDE DEF last, parts, from
  <1>4. ASSUME NEW m \in 1 .. last
        PROVE  /\ to(m) \in Nat /\ from(m) \in Nat /\ from(m) < to(m) /\ to(m) <= n
               /\ to(m) <= from(m) + limit
               /\ m < last => to(m) = from(m) + limit
    BY <1>2 DEF AtMost
  <1> HIDE DEF to
  <1>5. ASSUME NEW m \in 1 .. last
        PROVE  /\ parts[m] \in Seq(Character) /\ Len(parts[m]) = to(m) - from(m)
               /\ \A x \in 1 .. to(m) - from(m) : parts[m][x] = <<p, from(m) + x>>
    <2>1. from(m) \in Nat /\ to(m) \in Nat /\ from(m) < to(m) /\ to(m) <= n
      BY <1>4
    <2>2. parts[m] = SubSeq(paragraph, from(m) + 1, to(m))
      BY <1>3
    <2>0. to(m) <= Len(paragraph) /\ paragraph \in Seq(Character)
      BY <1>1, <2>1
    <2>3. /\ parts[m] \in Seq(Character) /\ Len(parts[m]) = to(m) - from(m)
          /\ \A x \in 1 .. to(m) - from(m) : parts[m][x] = paragraph[from(m) + x]
      <3> DEFINE a == from(m)
                 b == to(m)
      <3>1. a \in Nat /\ b \in Nat /\ a < b /\ b <= Len(paragraph)
        BY <2>0, <2>1
      <3>2. parts[m] = SubSeq(paragraph, a + 1, b)
        BY <2>2
      <3> HIDE DEF a, b
      <3>3. IsSlice(SubSeq(paragraph, a + 1, b), paragraph, Character, a, b)
        BY <2>0, <3>1, SliceOf
      <3> QED BY <3>2, <3>3 DEF IsSlice, a, b
    <2>4. ASSUME NEW x \in 1 .. to(m) - from(m)
          PROVE  paragraph[from(m) + x] = <<p, from(m) + x>>
      <3>1. from(m) + x \in 1 .. n
        BY <2>1
      <3> QED BY <3>1
    <2> QED BY <2>3, <2>4
  <1>6. parts \in Seq(Seq(Character)) /\ Len(parts) = last
    <2>1. parts \in [1 .. last -> Seq(Character)]
      BY <1>3, <1>5
    <2> QED BY <1>2, <2>1, SeqOfFunction
  <1>7. ASSUME NEW m \in 1 .. last PROVE IsPart(parts[m], limit)
    <2>1. Len(parts[m]) \in 1 .. limit
      BY <1>4, <1>5
    <2>2. ASSUME NEW x \in 1 .. Len(parts[m])
          PROVE  parts[m][x] = <<p, from(m) + x>> /\ x \in Nat
      BY <1>4, <1>5
    <2>3. ASSUME NEW x \in 1 .. Len(parts[m])
          PROVE  parts[m][x] # Break /\ parts[m][x][1] = parts[m][1][1]
      <3>1. 1 \in 1 .. Len(parts[m])
        BY <2>1
      <3>2. parts[m][x][1] = p /\ parts[m][1][1] = p /\ p # 0
        BY <2>2, <3>1
      <3> QED BY <3>2 DEF Break
    <2>4. ASSUME NEW x \in 1 .. Len(parts[m]), NEW y \in 1 .. Len(parts[m]), x < y
          PROVE  Earlier(parts[m][x], parts[m][y])
      <3>1. /\ parts[m][x] = <<p, from(m) + x>> /\ parts[m][y] = <<p, from(m) + y>>
            /\ x \in Nat /\ y \in Nat /\ from(m) \in Nat
        BY <1>4, <2>2
      <3>2. from(m) + x < from(m) + y
        BY <2>4, <3>1
      <3>3. parts[m][x][1] = p /\ parts[m][y][1] = p
            /\ parts[m][x][2] = from(m) + x /\ parts[m][y][2] = from(m) + y
        BY <3>1
      <3> QED BY <3>2, <3>3 DEF Earlier
    <2> QED BY <1>5, <2>1, <2>3, <2>4 DEF IsPart
  <1>8. ASSUME NEW m \in 1 .. last, NEW x \in 1 .. Len(parts[m])
        PROVE  parts[m][x][1] = p /\ parts[m][x][2] \in 1 .. n
    <2>1. parts[m][x] = <<p, from(m) + x>> /\ from(m) + x \in 1 .. n
      BY <1>4, <1>5
    <2> QED BY <2>1
  <1>9. ASSUME NEW k \in 1 .. n
        PROVE  \E m \in 1 .. last : \E x \in 1 .. Len(parts[m]) : parts[m][x] = <<p, k>>
    <2> DEFINE Enough == {m \in Nat : m <= last /\ k <= m * limit}
    <2>1. last \in Enough
      BY <1>2
    <2>2. PICK m \in Enough : \A j \in Enough : m <= j
      <3> HIDE DEF Enough
      <3>1. Enough \subseteq Nat
        BY DEF Enough
      <3> QED BY <2>1, <3>1, LeastNat
    <2>3. m \in 1 .. last
      BY <1>2, <2>2
    <2>4. from(m) < k
      <3>1. CASE m = 1
        BY <3>1 DEF from
      <3>2. CASE m # 1
        <4>1. m - 1 \in Nat /\ m - 1 <= last /\ ~ (m <= m - 1)
          BY <1>2, <2>3, <3>2
        <4>2. ~ (k <= (m - 1) * limit)
          BY <2>2, <4>1
        <4> QED BY <1>2, <2>3, <4>2 DEF from
      <3> QED BY <3>1, <3>2
    <2>5. k <= to(m) /\ from(m) \in Nat /\ to(m) \in Nat
      BY <1>4, <2>2, <2>3 DEF to, AtMost
    <2>6. k - from(m) \in 1 .. to(m) - from(m) /\ from(m) + (k - from(m)) = k
      BY <2>4, <2>5
    <2>7. parts[m][k - from(m)] = <<p, k>> /\ k - from(m) \in 1 .. Len(parts[m])
      BY <1>5, <2>3, <2>6
    <2> QED BY <2>3, <2>7
  <1>10. ASSUME NEW m \in 1 .. last, NEW j \in 1 .. last, m < j,
                NEW x \in 1 .. Len(parts[m]), NEW y \in 1 .. Len(parts[j])
         PROVE  Earlier(parts[m][x], parts[j][y])
    <2>1. /\ parts[m][x] = <<p, from(m) + x>> /\ parts[j][y] = <<p, from(j) + y>>
          /\ x \in Nat /\ y \in Nat \ {0} /\ x <= to(m) - from(m)
      <3>1. x \in 1 .. to(m) - from(m) /\ y \in 1 .. to(j) - from(j)
        BY <1>5
      <3>2. parts[m][x] = <<p, from(m) + x>> /\ parts[j][y] = <<p, from(j) + y>>
        BY <1>5, <3>1
      <3>3. to(m) \in Nat /\ from(m) \in Nat /\ to(j) \in Nat /\ from(j) \in Nat
        BY <1>4
      <3> QED BY <3>1, <3>2, <3>3
    <2>2. to(m) <= from(j)
      <3>1. m * limit <= from(j)
        BY <1>2, <1>10
      <3> QED BY <1>2, <1>4, <3>1
    <2>3. from(m) + x < from(j) + y
      BY <1>4, <2>1, <2>2
    <2> QED BY <2>1, <2>3 DEF Earlier
  <1>11. ASSUME NEW m \in 1 .. last, m < last PROVE Len(parts[m]) = limit
    BY <1>4, <1>5, <1>11
  <1>12. CutsOne(parts, p, n, limit)
    BY <1>6, <1>7, <1>8, <1>9, <1>10, <1>11 DEF CutsOne, Belongs, Holds, Precedes
  <1> QED BY <1>12 DEF parts

\* parts are the first q paragraphs of a text, cut into pieces.
CutsText(parts, lengths, q, limit) ==
    /\ parts \in Seq(Seq(Character))
    /\ \A m \in 1 .. Len(parts) :
         /\ IsPart(parts[m], limit)
         /\ \E p \in 1 .. q : Belongs(parts[m], p, lengths[p])
    /\ \A p \in 1 .. q : \A k \in 1 .. lengths[p] :
         \E m \in 1 .. Len(parts) : Holds(parts[m], <<p, k>>)
    /\ \A m, j \in 1 .. Len(parts) : m < j => Precedes(parts[m], parts[j])
    /\ \A m \in 1 .. Len(parts) - 1 :
         parts[m][1][1] = parts[m + 1][1][1] => Len(parts[m]) = limit

\* Where the elements of a concatenation are.
LEMMA Concatenation ==
    ASSUME NEW S, NEW s \in Seq(S), NEW t \in Seq(S)
    PROVE  /\ s \o t \in Seq(S) /\ Len(s \o t) = Len(s) + Len(t)
           /\ \A m \in 1 .. Len(s) : (s \o t)[m] = s[m]
           /\ \A m \in 1 .. Len(t) : (s \o t)[Len(s) + m] = t[m]
  OBVIOUS

\* CutsText from its conjuncts, whatever the number of parts is called.
LEMMA IsCut ==
    ASSUME NEW all \in Seq(Seq(Character)), NEW n, Len(all) = n,
           NEW lengths, NEW q, NEW limit,
           \A m \in 1 .. n :
             IsPart(all[m], limit) /\ \E p \in 1 .. q : Belongs(all[m], p, lengths[p]),
           \A p \in 1 .. q : \A k \in 1 .. lengths[p] :
             \E m \in 1 .. n : Holds(all[m], <<p, k>>),
           \A m, j \in 1 .. n : m < j => Precedes(all[m], all[j]),
           \A m \in 1 .. n - 1 : all[m][1][1] = all[m + 1][1][1] => Len(all[m]) = limit
    PROVE  CutsText(all, lengths, q, limit)
  BY DEF CutsText

\* The parts of one more paragraph after those of the paragraphs before it.
LEMMA CutStep ==
    ASSUME NEW lengths \in Seq(Nat \ {0}), NEW limit \in Nat \ {0},
           NEW q \in 1 .. Len(lengths), NEW parts, NEW more,
           CutsText(parts, lengths, q - 1, limit), CutsOne(more, q, lengths[q], limit)
    PROVE  CutsText(parts \o more, lengths, q, limit)
  <1> DEFINE all == parts \o more
             a == Len(parts)
             b == Len(more)
             S == Seq(Character)
  <1>1. parts \in Seq(S) /\ more \in Seq(S) /\ a \in Nat /\ b \in Nat /\ q \in Nat \ {0}
    BY DEF CutsText, CutsOne
  <1>2. /\ all \in Seq(S) /\ Len(all) = a + b
        /\ \A m \in 1 .. a : all[m] = parts[m]
        /\ \A m \in 1 .. b : all[a + m] = more[m]
    <2> HIDE DEF S
    <2> QED BY <1>1, Concatenation
  <1> HIDE DEF all, S
  <1>3. /\ \A m \in 1 .. a :
             /\ IsPart(parts[m], limit)
             /\ \E p \in 1 .. q - 1 : Belongs(parts[m], p, lengths[p])
        /\ \A p \in 1 .. q - 1 : \A k \in 1 .. lengths[p] :
             \E m \in 1 .. a : Holds(parts[m], <<p, k>>)
        /\ \A m, j \in 1 .. a : m < j => Precedes(parts[m], parts[j])
        /\ \A m \in 1 .. a - 1 :
             parts[m][1][1] = parts[m + 1][1][1] => Len(parts[m]) = limit
    BY DEF CutsText
  <1>4. /\ \A m \in 1 .. b : IsPart(more[m], limit) /\ Belongs(more[m], q, lengths[q])
        /\ \A k \in 1 .. lengths[q] : \E m \in 1 .. b : Holds(more[m], <<q, k>>)
        /\ \A m, j \in 1 .. b : m < j => Precedes(more[m], more[j])
        /\ \A m \in 1 .. b : m < b => Len(more[m]) = limit
    BY DEF CutsOne
  <1> HIDE DEF a, b
  <1>5. \A m \in 1 .. a + b : m \in 1 .. a \/ \E k \in 1 .. b : m = a + k
    <2>1. ASSUME NEW m \in 1 .. a + b, m \notin 1 .. a PROVE m - a \in 1 .. b /\ m = a + (m - a)
      BY <1>1, <2>1
    <2> QED BY <2>1
  <1>6. /\ \A m \in 1 .. a : m \in 1 .. a + b /\ m < a + 1
        /\ \A k \in 1 .. b : a + k \in 1 .. a + b /\ k \in Nat \ {0}
    BY <1>1
  \* A part that was there is of an earlier paragraph, a new one of this one.
  <1>7. ASSUME NEW m \in 1 .. a
        PROVE  \E p \in 1 .. q - 1 : p \in 1 .. q /\ p < q /\ Belongs(all[m], p, lengths[p])
    <2>1. PICK p \in 1 .. q - 1 : Belongs(parts[m], p, lengths[p])
      BY <1>3
    <2>2. p \in 1 .. q /\ p < q
      BY <1>1
    <2>3. Belongs(all[m], p, lengths[p])
      BY <1>2, <2>1
    <2> QED BY <2>2, <2>3
  <1>8. ASSUME NEW k \in 1 .. b PROVE Belongs(all[a + k], q, lengths[q])
    BY <1>2, <1>4
  <1>9. ASSUME NEW m \in 1 .. a + b
        PROVE  IsPart(all[m], limit) /\ \E p \in 1 .. q : Belongs(all[m], p, lengths[p])
    <2>1. CASE m \in 1 .. a
      BY <1>2, <1>3, <1>7, <2>1
    <2>2. CASE \E k \in 1 .. b : m = a + k
      <3>1. PICK k \in 1 .. b : m = a + k
        BY <2>2
      <3>2. IsPart(all[a + k], limit)
        BY <1>2, <1>4
      <3>3. q \in 1 .. q
        BY <1>1
      <3> QED BY <1>8, <3>1, <3>2, <3>3
    <2> QED BY <1>5, <2>1, <2>2
  <1>10. ASSUME NEW p \in 1 .. q, NEW k \in 1 .. lengths[p]
         PROVE  \E m \in 1 .. a + b : Holds(all[m], <<p, k>>)
    <2>1. CASE p = q
      <3>1. PICK m \in 1 .. b : Holds(more[m], <<q, k>>)
        BY <1>4, <2>1
      <3> QED BY <1>2, <1>6, <2>1, <3>1
    <2>2. CASE p # q
      <3>0. p \in 1 .. q - 1
        BY <1>1, <2>2
      <3>1. PICK m \in 1 .. a : Holds(parts[m], <<p, k>>)
        BY <1>3, <3>0
      <3> QED BY <1>2, <1>6, <3>1
    <2> QED BY <2>1, <2>2
  <1>11. ASSUME NEW m \in 1 .. a, NEW k \in 1 .. b
         PROVE  Precedes(all[m], all[a + k])
    <2>1. PICK p \in 1 .. q - 1 : p < q /\ Belongs(all[m], p, lengths[p])
      BY <1>7
    <2> QED BY <1>8, <2>1 DEF Belongs, Precedes, Earlier
  <1>12. ASSUME NEW m \in 1 .. a + b, NEW j \in 1 .. a + b, m < j
         PROVE  Precedes(all[m], all[j])
    <2>1. CASE m \in 1 .. a /\ j \in 1 .. a
      BY <1>2, <1>3, <1>12, <2>1
    <2>2. CASE \E k \in 1 .. b : m = a + k
      <3>1. PICK k \in 1 .. b : m = a + k
        BY <2>2
      <3>2. j \notin 1 .. a
        BY <1>1, <1>12, <3>1
      <3>3. PICK i \in 1 .. b : j = a + i
        BY <1>5, <3>2
      <3>4. k < i
        BY <1>1, <1>12, <3>1, <3>3
      <3>5. Precedes(more[k], more[i])
        BY <1>4, <3>4
      <3> QED BY <1>2, <3>1, <3>3, <3>5
    <2>3. CASE m \in 1 .. a /\ \E k \in 1 .. b : j = a + k
      BY <1>11, <2>3
    <2> QED BY <1>5, <2>1, <2>2, <2>3
  <1>13. ASSUME NEW m \in 1 .. a + b - 1, all[m][1][1] = all[m + 1][1][1]
         PROVE  Len(all[m]) = limit
    <2>0. m \in 1 .. a + b /\ m + 1 \in 1 .. a + b
      BY <1>1
    <2>1. CASE m \in 1 .. a /\ m + 1 \in 1 .. a
      <3>1. m \in 1 .. a - 1
        BY <1>1, <2>1
      <3>2. parts[m][1][1] = parts[m + 1][1][1]
        BY <1>2, <1>13, <2>1
      <3> QED BY <1>2, <1>3, <2>1, <3>1, <3>2
    <2>2. CASE m \in 1 .. a /\ \E k \in 1 .. b : m + 1 = a + k
      <3>1. 1 \in 1 .. Len(all[m]) /\ 1 \in 1 .. Len(all[m + 1])
        BY <1>9, <2>0 DEF IsPart
      <3>2. PICK p \in 1 .. q - 1 : p < q /\ Belongs(all[m], p, lengths[p])
        BY <1>7, <2>2
      <3>3. all[m][1][1] = p
        BY <3>1, <3>2 DEF Belongs
      <3>4. all[m + 1][1][1] = q
        BY <1>8, <2>2, <3>1 DEF Belongs
      <3>5. p # q
        BY <1>1, <3>2
      <3> QED BY <1>13, <3>3, <3>4, <3>5, Zenon
    <2>3. CASE \E k \in 1 .. b : m = a + k
      <3>1. PICK k \in 1 .. b : m = a + k
        BY <2>3
      <3>2. k < b
        BY <1>1, <3>1
      <3> QED BY <1>2, <1>4, <3>1, <3>2
    <2>4. m \in 1 .. a \/ ~ (m + 1 \in 1 .. a)
      BY <1>1
    <2> QED BY <1>5, <2>0, <2>1, <2>2, <2>3, <2>4
  <1>14. CutsText(all, lengths, q, limit)
    <2> DEFINE n == a + b
    <2>1. all \in Seq(Seq(Character)) /\ Len(all) = n
      BY <1>2 DEF S
    <2>2. \A m \in 1 .. n :
            IsPart(all[m], limit) /\ \E p \in 1 .. q : Belongs(all[m], p, lengths[p])
      BY <1>9
    <2>3. \A p \in 1 .. q : \A k \in 1 .. lengths[p] :
            \E m \in 1 .. n : Holds(all[m], <<p, k>>)
      BY <1>10
    <2>4. \A m, j \in 1 .. n : m < j => Precedes(all[m], all[j])
      BY <1>12
    <2>5. \A m \in 1 .. n - 1 : all[m][1][1] = all[m + 1][1][1] => Len(all[m]) = limit
      <3>1. ASSUME NEW m \in 1 .. n - 1, all[m][1][1] = all[m + 1][1][1]
            PROVE  Len(all[m]) = limit
        <4>1. m \in 1 .. a + b - 1
          BY <1>1
        <4> QED BY <1>13, <3>1, <4>1, Zenon
      <3> HIDE DEF n
      <3> QED BY <3>1, Zenon
    <2> HIDE DEF n
    <2> QED BY <2>1, <2>2, <2>3, <2>4, <2>5, IsCut, Zenon
  <1> QED BY <1>14 DEF all

\* The parts of a text, in the order in which split_chunks takes them.
PartsOf(lengths, limit) ==
    FlattenSeq([i \in DOMAIN Text(lengths) |-> Parts(Text(lengths)[i], limit)])

\* The parts of a text are it, cut into pieces.
LEMMA PartsCutText ==
    ASSUME NEW lengths \in Seq(Nat \ {0}), NEW limit \in Nat \ {0}
    PROVE  CutsText(PartsOf(lengths, limit), lengths, Len(lengths), limit)
  <1> DEFINE n == Len(lengths)
             seqs == [i \in DOMAIN Text(lengths) |-> Parts(Text(lengths)[i], limit)]
  <1>1. n \in Nat /\ DOMAIN lengths = 1 .. n /\ \A i \in 1 .. n : lengths[i] \in Nat \ {0}
    BY LenProperties, ElementOfSeq
  <1>2. \A i \in 1 .. n : Text(lengths)[i] = [k \in 1 .. lengths[i] |-> <<i, k>>]
    BY <1>1 DEF Text
  <1>3. ASSUME NEW i \in 1 .. n PROVE CutsOne(seqs[i], i, lengths[i], limit)
    <2>1. seqs[i] = Parts(Text(lengths)[i], limit)
      BY <1>1 DEF Text
    <2>2. i \in Nat \ {0} /\ lengths[i] \in Nat \ {0}
      BY <1>1
    <2>3. CutsOne(Parts(Text(lengths)[i], limit), i, lengths[i], limit)
      BY <1>2, <2>2, PartsCutOne, Zenon
    <2> QED BY <2>1, <2>3
  <1>4. seqs \in Seq(Seq(Seq(Character))) /\ Len(seqs) = n
    <2>1. DOMAIN seqs = 1 .. n
      BY <1>1 DEF Text
    <2>2. \A i \in 1 .. n : seqs[i] \in Seq(Seq(Character))
      BY <1>3 DEF CutsOne
    <2>3. seqs = [i \in 1 .. n |-> seqs[i]]
      BY <2>1
    <2> HIDE DEF seqs
    <2>4. seqs \in [1 .. n -> Seq(Seq(Character))]
      BY <2>2, <2>3
    <2> QED BY <1>1, <2>4, SeqOfFunction
  <1>5. PartsOf(lengths, limit) = FlattenSeq(seqs)
    BY DEF PartsOf
  <1> HIDE DEF seqs
  <1>6. PICK joined : Joins(joined, seqs, Seq(Character)) /\ joined[Len(seqs)] = FlattenSeq(seqs)
    BY <1>4, FlattenJoins
  <1> DEFINE T == {q \in 0 .. n : CutsText(joined[q], lengths, q, limit)}
  <1>7. 0 \in T
    <2>1. joined[0] = <<>>
      BY <1>6 DEF Joins
    <2>2. /\ <<>> \in Seq(Seq(Character)) /\ Len(<<>>) = 0 /\ 1 .. 0 = {}
          /\ 1 .. 0 - 1 = {}
      OBVIOUS
    <2>3. CutsText(<<>>, lengths, 0, limit)
      BY <2>2 DEF CutsText
    <2> QED BY <1>1, <2>1, <2>3
  <1>8. ASSUME NEW q \in 1 .. n, q - 1 \in T PROVE q \in T
    <2>1. joined[q] = joined[q - 1] \o seqs[q]
      BY <1>4, <1>6 DEF Joins
    <2>2. CutsText(joined[q - 1], lengths, q - 1, limit)
      BY <1>8
    <2> DEFINE before == joined[q - 1]
               more == seqs[q]
    <2>3. CutsText(before, lengths, q - 1, limit) /\ CutsOne(more, q, lengths[q], limit)
      BY <1>3, <2>2
    <2> HIDE DEF before, more
    <2>4. CutsText(before \o more, lengths, q, limit)
      BY <2>3, CutStep
    <2>5. CutsText(joined[q], lengths, q, limit)
      BY <2>1, <2>4 DEF before, more
    <2> QED BY <1>1, <2>5
  <1> HIDE DEF T
  <1>9. n \in T
    <2>1. \A q \in 0 .. n : q \in T
      BY <1>1, <1>7, <1>8, UpTo
    <2> QED BY <1>1, <2>1
  <1> QED BY <1>4, <1>5, <1>6, <1>9 DEF T

\* A chunk as AddPart makes it.
IsChunk(chunk, limit) ==
    /\ chunk \in Seq(Character) /\ Len(chunk) \in 1 .. limit
    /\ chunk[Len(chunk)] # Break
    /\ KeepsParagraphs(chunk)

\* The first part of a chunk ends before its first break.
LEMMA FirstPartIs ==
    ASSUME NEW c \in Seq(Character), NEW b \in 1 .. Len(c), c[b] = Break,
           \A i \in 1 .. b - 1 : c[i] # Break
    PROVE  FirstPart(c) = SubSeq(c, 1, b - 1)
  <1> DEFINE breaks == {i \in DOMAIN c : c[i] = Break}
             IsLeast(i) == i \in breaks /\ \A j \in breaks : i <= j
  <1>1. Len(c) \in Nat /\ DOMAIN c = 1 .. Len(c)
    BY LenProperties
  <1>2. b \in breaks /\ breaks \subseteq 1 .. Len(c)
    BY <1>1
  <1>3. \A j \in breaks : b <= j
    <2>1. ASSUME NEW j \in breaks, ~ (b <= j) PROVE FALSE
      <3>1. j \in 1 .. b - 1 /\ c[j] = Break
        BY <1>1, <2>1
      <3> QED BY <3>1
    <2> QED BY <2>1
  <1> HIDE DEF breaks
  <1>4. \A i \in breaks : (\A j \in breaks : i <= j) => i = b
    BY <1>1, <1>2, <1>3
  <1>5. (CHOOSE i \in breaks : \A j \in breaks : i <= j) = b
    BY <1>2, <1>3, <1>4
  <1>6. breaks # {}
    BY <1>2
  <1> QED BY <1>5, <1>6 DEF FirstPart, breaks

\* A chunk without a break is one part.
LEMMA NoBreak ==
    ASSUME NEW c \in Seq(Character), \A i \in 1 .. Len(c) : c[i] # Break
    PROVE  FirstPart(c) = c
  <1>1. {i \in DOMAIN c : c[i] = Break} = {}
    BY LenProperties
  <1> QED BY <1>1 DEF FirstPart

\* Breaks are characters.
LEMMA BreakTyped == Break \in Character /\ Separator \in Seq(Character)
  BY DEF Break, Separator, Character

\* Where the characters of joined pieces are.
JoinsPieces(joined, current, part) ==
    /\ joined \in Seq(Character) /\ Len(joined) = Len(current) + 2 + Len(part)
    /\ \A x \in 1 .. Len(current) : joined[x] = current[x]
    /\ joined[Len(current) + 1] = Break /\ joined[Len(current) + 2] = Break
    /\ \A x \in 1 .. Len(part) : joined[Len(current) + 2 + x] = part[x]

\* Joined puts the separator between its two pieces.
LEMMA JoinedPieces ==
    ASSUME NEW current \in Seq(Character), current # <<>>, NEW part \in Seq(Character)
    PROVE  JoinsPieces(Joined(current, part), current, part)
  <1> DEFINE head == current \o Separator
             a == Len(current)
             b == Len(part)
  <1>1. a \in Nat /\ b \in Nat
    OBVIOUS
  <1>2. Len(Separator) = 2 /\ Separator[1] = Break /\ Separator[2] = Break
    BY DEF Separator
  <1>3. /\ head \in Seq(Character) /\ Len(head) = a + 2
        /\ \A x \in 1 .. a : head[x] = current[x]
        /\ head[a + 1] = Break /\ head[a + 2] = Break
    <2>1. /\ head \in Seq(Character) /\ Len(head) = Len(current) + Len(Separator)
          /\ \A m \in 1 .. Len(current) : head[m] = current[m]
          /\ \A m \in 1 .. Len(Separator) : head[Len(current) + m] = Separator[m]
      BY BreakTyped, Concatenation
    <2>2. 1 \in 1 .. Len(Separator) /\ 2 \in 1 .. Len(Separator)
      BY <1>2
    <2> HIDE DEF head
    <2> QED BY <1>2, <2>1, <2>2
  <1> HIDE DEF head
  <1>4. /\ head \o part \in Seq(Character) /\ Len(head \o part) = Len(head) + b
        /\ \A m \in 1 .. Len(head) : (head \o part)[m] = head[m]
        /\ \A m \in 1 .. b : (head \o part)[Len(head) + m] = part[m]
    <2>1. head \in Seq(Character)
      BY <1>3
    <2> QED BY <2>1, Concatenation
  <1>5. Joined(current, part) = head \o part
    BY DEF Joined, head
  <1> DEFINE joined == head \o part
  <1>6. /\ joined \in Seq(Character) /\ Len(joined) = a + 2 + b
        /\ \A m \in 1 .. a + 2 : joined[m] = head[m]
        /\ \A m \in 1 .. b : joined[a + 2 + m] = part[m]
    BY <1>3, <1>4
  <1> HIDE DEF joined, a, b
  <1>7. \A x \in 1 .. a : x \in 1 .. a + 2
    BY <1>1
  <1>8. a + 1 \in 1 .. a + 2 /\ a + 2 \in 1 .. a + 2
    BY <1>1
  <1>9. /\ joined \in Seq(Character) /\ Len(joined) = a + 2 + b
        /\ \A x \in 1 .. a : joined[x] = current[x]
        /\ joined[a + 1] = Break /\ joined[a + 2] = Break
        /\ \A x \in 1 .. b : joined[a + 2 + x] = part[x]
    BY <1>3, <1>6, <1>7, <1>8
  <1>10. JoinsPieces(joined, current, part)
    BY <1>9 DEF JoinsPieces, a, b
  <1> QED BY <1>5, <1>10 DEF joined

\* A chunk that grows begins with the same part.
LEMMA FirstPartOfJoined ==
    ASSUME NEW current \in Seq(Character), current # <<>>, NEW part \in Seq(Character)
    PROVE  FirstPart(Joined(current, part)) = FirstPart(current)
  <1> DEFINE joined == Joined(current, part)
             a == Len(current)
             breaks == {i \in 1 .. a : current[i] = Break}
  <1>1. /\ joined \in Seq(Character) /\ Len(joined) = a + 2 + Len(part)
        /\ \A x \in 1 .. a : joined[x] = current[x]
        /\ joined[a + 1] = Break
    BY JoinedPieces DEF JoinsPieces
  <1>2. a \in Nat /\ Len(part) \in Nat
    OBVIOUS
  <1> HIDE DEF joined
  <1>3. CASE breaks = {}
    <2>1. FirstPart(current) = current
      BY <1>3, NoBreak
    <2> DEFINE b == a + 1
    <2>2. b \in 1 .. Len(joined) /\ joined[b] = Break /\ \A i \in 1 .. b - 1 : joined[i] # Break
      BY <1>1, <1>2, <1>3
    <2> HIDE DEF b
    <2>3. FirstPart(joined) = SubSeq(joined, 1, b - 1)
      BY <1>1, <2>2, FirstPartIs
    <2>4. SubSeq(joined, 1, b - 1) = current
      <3>1. b - 1 = a /\ a <= Len(joined)
        BY <1>1, <1>2 DEF b
      <3> HIDE DEF a
      <3> DEFINE slice == SubSeq(joined, 1, b - 1)
      <3>2. Len(slice) = a /\ \A x \in 1 .. a : slice[x] = joined[x]
        BY <1>1, <1>2, <3>1
      <3>3. slice \in Seq(Character)
        BY <1>1, <1>2, <3>1, LenProperties, ElementOfSeq, SubSeqProperties
      <3> HIDE DEF slice
      <3>4. Len(slice) = Len(current) /\ \A x \in 1 .. Len(slice) : slice[x] = current[x]
        BY <1>1, <3>2 DEF a
      <3>5. slice = current
        BY <3>3, <3>4, SeqEqual
      <3> QED BY <3>5 DEF slice
    <2> QED BY <2>1, <2>3, <2>4 DEF joined
  <1>4. CASE breaks # {}
    <2>1. PICK b \in breaks : \A j \in breaks : b <= j
      <3>1. breaks \subseteq Nat
        BY <1>2
      <3> HIDE DEF breaks
      <3> QED BY <1>4, <3>1, LeastNat
    <2>2. b \in 1 .. Len(current) /\ current[b] = Break /\ \A i \in 1 .. b - 1 : current[i] # Break
      BY <1>2, <2>1
    <2>3. b \in 1 .. Len(joined) /\ joined[b] = Break /\ \A i \in 1 .. b - 1 : joined[i] # Break
      <3>1. Len(joined) \in Nat /\ a <= Len(joined)
        BY <1>1, <1>2
      <3>2. b \in 1 .. a /\ \A i \in 1 .. b - 1 : i \in 1 .. a
        BY <1>2, <2>2
      <3>3. \A i \in 1 .. a : joined[i] = current[i]
        BY <1>1
      <3> HIDE DEF a
      <3> QED BY <1>2, <2>2, <3>1, <3>2, <3>3
    <2>4. FirstPart(current) = SubSeq(current, 1, b - 1)
      BY <2>2, FirstPartIs
    <2>5. FirstPart(joined) = SubSeq(joined, 1, b - 1)
      BY <1>1, <2>3, FirstPartIs
    <2>6. SubSeq(joined, 1, b - 1) = SubSeq(current, 1, b - 1)
      <3> DEFINE one == SubSeq(joined, 1, b - 1)
                 two == SubSeq(current, 1, b - 1)
      <3>1. b - 1 \in Nat /\ b - 1 <= Len(joined) /\ b - 1 <= Len(current)
        BY <1>1, <1>2, <2>2, <2>3
      <3>2. /\ Len(one) = b - 1 /\ \A x \in 1 .. b - 1 : one[x] = joined[x]
            /\ Len(two) = b - 1 /\ \A x \in 1 .. b - 1 : two[x] = current[x]
        BY <1>1, <3>1
      <3>3. one \in Seq(Character) /\ two \in Seq(Character)
        BY <1>1, <3>1, LenProperties, ElementOfSeq, SubSeqProperties
      <3> HIDE DEF one, two
      <3>4. \A x \in 1 .. b - 1 : x \in 1 .. a
        BY <1>2, <2>2
      <3>5. Len(one) = Len(two) /\ \A x \in 1 .. Len(one) : one[x] = two[x]
        BY <1>1, <3>2, <3>4
      <3>6. one = two
        BY <3>3, <3>5, SeqEqual
      <3> QED BY <3>6 DEF one, two
    <2> QED BY <2>4, <2>5, <2>6 DEF joined
  <1> QED BY <1>3, <1>4

\* A part alone is a chunk.
LEMMA PartIsChunk ==
    ASSUME NEW limit \in Nat \ {0}, NEW part, IsPart(part, limit)
    PROVE  IsChunk(part, limit) /\ FirstPart(part) = part
  <1>1. /\ part \in Seq(Character) /\ Len(part) \in 1 .. limit
        /\ \A x \in 1 .. Len(part) : part[x] # Break /\ part[x][1] = part[1][1]
    BY DEF IsPart
  <1>2. DOMAIN part = 1 .. Len(part) /\ Len(part) \in 1 .. Len(part)
    BY <1>1, LenProperties
  <1>3. ASSUME NEW i \in 1 .. Len(part), NEW j \in 1 .. Len(part), i < j,
               \A k \in i + 1 .. j - 1 : part[k] = Break
        PROVE  part[i][1] = part[j][1] /\ j = i + 1
    <2>1. part[i][1] = part[j][1]
      BY <1>1
    <2>2. j = i + 1
      <3>1. ASSUME j # i + 1 PROVE FALSE
        <4>1. i + 1 \in i + 1 .. j - 1 /\ i + 1 \in 1 .. Len(part)
          BY <1>1, <1>3, <3>1
        <4> QED BY <1>1, <1>3, <4>1
      <3> QED BY <3>1
    <2> QED BY <2>1, <2>2
  <1>4. KeepsParagraphs(part)
    BY <1>2, <1>3 DEF KeepsParagraphs
  <1>5. part[Len(part)] # Break
    BY <1>1, <1>2
  <1>6. FirstPart(part) = part
    BY <1>1, NoBreak
  <1> QED BY <1>1, <1>4, <1>5, <1>6 DEF IsChunk

\* A chunk to which a part of another paragraph is joined is a chunk, if it fits.
LEMMA JoinedIsChunk ==
    ASSUME NEW limit \in Nat \ {0}, NEW current, NEW part,
           IsChunk(current, limit), IsPart(part, limit), Fits(current, part, limit),
           current[Len(current)][1] # part[1][1]
    PROVE  /\ IsChunk(Joined(current, part), limit)
           /\ FirstPart(Joined(current, part)) = FirstPart(current)
           /\ JoinsPieces(Joined(current, part), current, part)
  <1> DEFINE joined == Joined(current, part)
             a == Len(current)
             b == Len(part)
  <1>1. /\ current \in Seq(Character) /\ a \in 1 .. limit /\ current[a] # Break
        /\ KeepsParagraphs(current)
    BY DEF IsChunk
  <1>2. /\ part \in Seq(Character) /\ b \in 1 .. limit
        /\ \A x \in 1 .. b : part[x] # Break /\ part[x][1] = part[1][1]
    BY DEF IsPart
  <1>3. current # <<>>
    BY <1>1
  <1>4. JoinsPieces(joined, current, part) /\ FirstPart(joined) = FirstPart(current)
    BY <1>1, <1>2, <1>3, JoinedPieces, FirstPartOfJoined
  <1>5. /\ joined \in Seq(Character) /\ Len(joined) = a + 2 + b
        /\ \A x \in 1 .. a : joined[x] = current[x]
        /\ joined[a + 1] = Break /\ joined[a + 2] = Break
        /\ \A x \in 1 .. b : joined[a + 2 + x] = part[x]
    BY <1>4 DEF JoinsPieces
  <1>6. Len(joined) <= limit
    BY DEF Fits
  <1>7. DOMAIN joined = 1 .. a + 2 + b /\ DOMAIN current = 1 .. a
    BY <1>1, <1>5, LenProperties
  <1> HIDE DEF joined, a, b
  <1>8. a \in Nat /\ b \in Nat /\ a \in 1 .. a
    BY <1>1, <1>2
  <1>9. \A x \in 1 .. a + 2 + b :
          x \in 1 .. a \/ x = a + 1 \/ x = a + 2 \/ \E y \in 1 .. b : x = a + 2 + y
    <2>1. ASSUME NEW x \in 1 .. a + 2 + b, x \notin 1 .. a, x # a + 1, x # a + 2
          PROVE  x - a - 2 \in 1 .. b /\ x = a + 2 + (x - a - 2)
      BY <1>8, <2>1
    <2> QED BY <2>1
  <1>10. ASSUME NEW i \in DOMAIN joined, NEW j \in DOMAIN joined, i < j,
                joined[i] # Break, joined[j] # Break,
                \A k \in i + 1 .. j - 1 : joined[k] = Break
         PROVE  joined[i][1] = joined[j][1] <=> j = i + 1
    <2>1. CASE i \in 1 .. a /\ j \in 1 .. a
      <3>1. current[i] # Break /\ current[j] # Break
        BY <1>5, <1>10, <2>1
      <3>2. \A k \in i + 1 .. j - 1 : k \in 1 .. a /\ current[k] = Break
        BY <1>5, <1>8, <1>10, <2>1
      <3>3. current[i][1] = current[j][1] <=> j = i + 1
        BY <1>1, <1>7, <1>10, <2>1, <3>1, <3>2 DEF KeepsParagraphs
      <3> QED BY <1>5, <2>1, <3>3
    <2>2. CASE i \in 1 .. a /\ \E y \in 1 .. b : j = a + 2 + y
      <3>1. PICK y \in 1 .. b : j = a + 2 + y
        BY <2>2
      <3>2. i = a
        <4>1. ASSUME i # a PROVE FALSE
          <5>1. a \in i + 1 .. j - 1
            BY <1>8, <2>2, <3>1, <4>1
          <5>2. joined[a] # Break
            BY <1>1, <1>5, <1>8
          <5> QED BY <1>10, <5>1, <5>2
        <4> QED BY <4>1
      <3>3. j # i + 1
        BY <1>8, <3>1, <3>2
      <3>4. joined[i] = current[a] /\ joined[j] = part[y] /\ part[y][1] = part[1][1]
        BY <1>2, <1>5, <1>8, <3>1, <3>2
      <3>5. current[a][1] # part[1][1]
        BY DEF a
      <3>6. joined[i][1] # joined[j][1]
        BY <3>4, <3>5, Zenon
      <3> QED BY <3>3, <3>6
    <2>3. CASE \E y \in 1 .. b : i = a + 2 + y
      <3>1. PICK y \in 1 .. b : i = a + 2 + y
        BY <2>3
      <3>2. j \notin 1 .. a /\ j # a + 1 /\ j # a + 2
        BY <1>8, <1>10, <3>1
      <3>3. PICK z \in 1 .. b : j = a + 2 + z
        BY <1>7, <1>9, <3>2
      <3>4. y < z
        BY <1>8, <1>10, <3>1, <3>3
      <3>5. joined[i] = part[y] /\ joined[j] = part[z]
        BY <1>5, <3>1, <3>3
      <3>6. part[y][1] = part[1][1] /\ part[z][1] = part[1][1]
        BY <1>2
      <3>7. j = i + 1
        <4>1. ASSUME j # i + 1 PROVE FALSE
          <5>1. i + 1 \in i + 1 .. j - 1
            BY <1>8, <1>10, <3>1, <3>3, <4>1
          <5>2. y + 1 \in 1 .. b /\ i + 1 = a + 2 + (y + 1)
            BY <1>8, <3>1, <3>3, <3>4
          <5>3. joined[i + 1] = part[y + 1] /\ part[y + 1] # Break
            BY <1>2, <1>5, <5>2
          <5> QED BY <1>10, <5>1, <5>3
        <4> QED BY <4>1
      <3>8. joined[i][1] = joined[j][1]
        BY <3>5, <3>6, Zenon
      <3> QED BY <3>7, <3>8
    <2>4. i # a + 1 /\ i # a + 2 /\ j # a + 1 /\ j # a + 2
      BY <1>5, <1>10
    <2> QED BY <1>7, <1>9, <2>1, <2>2, <2>3, <2>4
  <1>11. KeepsParagraphs(joined)
    BY <1>10 DEF KeepsParagraphs
  <1>12. joined[Len(joined)] # Break
    <2>1. b \in 1 .. b /\ Len(joined) = a + 2 + b
      BY <1>2, <1>5
    <2> QED BY <1>2, <1>5, <2>1
  <1>13. Len(joined) \in 1 .. limit
    BY <1>5, <1>6, <1>8
  <1>14. IsChunk(joined, limit)
    BY <1>5, <1>11, <1>12, <1>13 DEF IsChunk
  <1> QED BY <1>4, <1>14 DEF joined

----------------------------------------------------------------------------
(* What the chunks hold of the parts                                       *)

\* In chunk n, at x, there is a character of the text.
IsMark(chunks, n, x) ==
    n \in 1 .. Len(chunks) /\ x \in 1 .. Len(chunks[n]) /\ chunks[n][x] # Break

\* chunks hold the characters of the first m parts, in order.
KeepsParts(chunks, parts, m) ==
    /\ \A n, x : IsMark(chunks, n, x) => \E k \in 1 .. m : Holds(parts[k], chunks[n][x])
    /\ \A k \in 1 .. m : \A x \in 1 .. Len(parts[k]) :
         \E n, y : IsMark(chunks, n, y) /\ chunks[n][y] = parts[k][x]
    /\ \A n, x, i, y : IsMark(chunks, n, x) /\ IsMark(chunks, i, y) /\ Earlier(<<n, x>>, <<i, y>>)
         => Earlier(chunks[n][x], chunks[i][y])

\* more is chunks with part added to its last chunk, after o characters.
Grows(chunks, more, part, o) ==
    /\ \A n, x : IsMark(chunks, n, x) =>
         IsMark(more, n, x) /\ more[n][x] = chunks[n][x] /\ Earlier(<<n, x>>, <<Len(more), o + 1>>)
    /\ \A n, x : IsMark(more, n, x) =>
         IsMark(chunks, n, x) \/ (n = Len(more) /\ \E y \in 1 .. Len(part) : x = o + y)
    /\ \A y \in 1 .. Len(part) : IsMark(more, Len(more), o + y) /\ more[Len(more)][o + y] = part[y]

\* A part added to the last chunk: the chunks hold one part more, in order.
LEMMA PartsKept ==
    ASSUME NEW chunks \in Seq(Seq(Character)), NEW more \in Seq(Seq(Character)),
           NEW parts \in Seq(Seq(Character)), NEW limit,
           \A k \in 1 .. Len(parts) : IsPart(parts[k], limit),
           \A k, j \in 1 .. Len(parts) : k < j => Precedes(parts[k], parts[j]),
           NEW m \in 1 .. Len(parts), NEW o \in Nat,
           KeepsParts(chunks, parts, m - 1), Grows(chunks, more, parts[m], o)
    PROVE  KeepsParts(more, parts, m)
  <1> DEFINE part == parts[m]
             last == Len(more)
  <1>1. m \in Nat \ {0} /\ last \in Nat /\ m \in 1 .. m /\ Len(part) \in Nat
    BY ElementOfSeq, LenProperties
  <1>2. /\ \A n, x : IsMark(chunks, n, x) =>
             IsMark(more, n, x) /\ more[n][x] = chunks[n][x] /\ Earlier(<<n, x>>, <<last, o + 1>>)
        /\ \A n, x : IsMark(more, n, x) =>
             IsMark(chunks, n, x) \/ (n = last /\ \E y \in 1 .. Len(part) : x = o + y)
        /\ \A y \in 1 .. Len(part) : IsMark(more, last, o + y) /\ more[last][o + y] = part[y]
    BY DEF Grows
  <1>3. /\ \A n, x : IsMark(chunks, n, x) => \E k \in 1 .. m - 1 : Holds(parts[k], chunks[n][x])
        /\ \A k \in 1 .. m - 1 : \A x \in 1 .. Len(parts[k]) :
             \E n, y : IsMark(chunks, n, y) /\ chunks[n][y] = parts[k][x]
        /\ \A n, x, i, y : IsMark(chunks, n, x) /\ IsMark(chunks, i, y) /\ Earlier(<<n, x>>, <<i, y>>)
             => Earlier(chunks[n][x], chunks[i][y])
    BY DEF KeepsParts
  <1>4. \A y \in 1 .. Len(part) : Holds(part, part[y])
    BY DEF Holds
  <1>5. \A k \in 1 .. m - 1 : k \in 1 .. m /\ k \in 1 .. Len(parts) /\ k < m
    BY <1>1
  <1>6. \A x, y \in 1 .. Len(part) : x < y => Earlier(part[x], part[y])
    BY DEF IsPart
  <1>7. \A k \in 1 .. m - 1 : Precedes(parts[k], part)
    BY <1>5
  <1> HIDE DEF part, last
  <1>8. ASSUME NEW n, NEW x, IsMark(more, n, x), ~ IsMark(chunks, n, x)
        PROVE  n = last /\ \E y \in 1 .. Len(part) : x = o + y /\ more[n][x] = part[y]
    <2>1. n = last /\ \E y \in 1 .. Len(part) : x = o + y
      BY <1>2, <1>8, Zenon
    <2>2. PICK y \in 1 .. Len(part) : x = o + y
      BY <2>1
    <2>3. more[last][o + y] = part[y]
      BY <1>2, Zenon
    <2>4. more[n][x] = part[y]
      BY <2>1, <2>2, <2>3, Zenon
    <2> QED BY <2>1, <2>2, <2>4
  <1>9. ASSUME NEW n, NEW x, IsMark(more, n, x)
        PROVE  \E k \in 1 .. m : Holds(parts[k], more[n][x])
    <2>1. CASE IsMark(chunks, n, x)
      <3>1. PICK k \in 1 .. m - 1 : Holds(parts[k], chunks[n][x])
        BY <1>3, <2>1
      <3>2. more[n][x] = chunks[n][x]
        BY <1>2, <2>1
      <3> QED BY <1>5, <3>1, <3>2
    <2>2. CASE ~ IsMark(chunks, n, x)
      <3>1. PICK y \in 1 .. Len(part) : more[n][x] = part[y]
        BY <1>8, <1>9, <2>2
      <3>2. Holds(parts[m], more[n][x])
        BY <1>4, <3>1 DEF part
      <3> QED BY <1>1, <3>2
    <2> QED BY <2>1, <2>2
  <1>10. ASSUME NEW k \in 1 .. m, NEW x \in 1 .. Len(parts[k])
         PROVE  \E n, y : IsMark(more, n, y) /\ more[n][y] = parts[k][x]
    <2>1. CASE k = m
      <3>1. x \in 1 .. Len(part) /\ parts[k][x] = part[x]
        BY <2>1 DEF part
      <3> QED BY <1>2, <3>1
    <2>2. CASE k # m
      <3>1. k \in 1 .. m - 1
        BY <1>1, <2>2
      <3>2. PICK n, y : IsMark(chunks, n, y) /\ chunks[n][y] = parts[k][x]
        BY <1>3, <3>1
      <3>3. IsMark(more, n, y) /\ more[n][y] = chunks[n][y]
        BY <1>2, <3>2, Zenon
      <3> QED BY <3>2, <3>3, Zenon
    <2> QED BY <2>1, <2>2
  <1>11. ASSUME NEW n, NEW x, NEW i, NEW y, IsMark(more, n, x), IsMark(more, i, y),
                Earlier(<<n, x>>, <<i, y>>)
         PROVE  Earlier(more[n][x], more[i][y])
    <2>0. n \in Nat /\ x \in Nat /\ i \in Nat /\ y \in Nat
      BY <1>11 DEF IsMark
    <2>1. CASE IsMark(chunks, n, x) /\ IsMark(chunks, i, y)
      <3>1. Earlier(chunks[n][x], chunks[i][y])
        BY <1>3, <1>11, <2>1
      <3> QED BY <1>2, <2>1, <3>1
    <2>2. CASE IsMark(chunks, n, x) /\ ~ IsMark(chunks, i, y)
      <3>1. PICK k \in 1 .. m - 1 : Holds(parts[k], chunks[n][x])
        BY <1>3, <2>2
      <3>2. PICK z \in 1 .. Len(part) : more[i][y] = part[z]
        BY <1>8, <1>11, <2>2
      <3>3. PICK w \in 1 .. Len(parts[k]) : parts[k][w] = chunks[n][x]
        BY <3>1 DEF Holds
      <3>4. Earlier(parts[k][w], part[z])
        BY <1>7 DEF Precedes
      <3>5. more[n][x] = chunks[n][x]
        BY <1>2, <2>2
      <3> QED BY <3>2, <3>3, <3>4, <3>5, Zenon
    <2>3. CASE ~ IsMark(chunks, n, x) /\ IsMark(chunks, i, y)
      <3>1. Earlier(<<i, y>>, <<last, o + 1>>)
        BY <1>2, <2>3
      <3>2. PICK z \in 1 .. Len(part) : x = o + z /\ n = last
        BY <1>8, <1>11, <2>3
      <3>3. i < last \/ (i = last /\ y < o + 1)
        BY <3>1 DEF Earlier
      <3>4. last < i \/ (last = i /\ o + z < y)
        BY <1>11, <3>2 DEF Earlier
      <3> QED BY <1>1, <2>0, <3>3, <3>4
    <2>4. CASE ~ IsMark(chunks, n, x) /\ ~ IsMark(chunks, i, y)
      <3>1. PICK w \in 1 .. Len(part) : x = o + w /\ n = last /\ more[n][x] = part[w]
        BY <1>8, <1>11, <2>4
      <3>2. PICK z \in 1 .. Len(part) : y = o + z /\ i = last /\ more[i][y] = part[z]
        BY <1>8, <1>11, <2>4
      <3>3. last < last \/ o + w < o + z
        BY <1>11, <3>1, <3>2 DEF Earlier
      <3>4. w < z
        BY <1>1, <3>3
      <3>5. Earlier(part[w], part[z])
        BY <1>6, <3>4
      <3> QED BY <3>1, <3>2, <3>5
    <2> QED BY <2>1, <2>2, <2>3, <2>4
  <1> QED BY <1>9, <1>10, <1>11 DEF KeepsParts

\* What split_chunks has written after some parts.
Written(split) ==
    IF split.current = <<>> THEN split.done ELSE Append(split.done, split.current)

\* The chunks are chunks, and none has room for the first part of the next.
ChunksFit(chunks, limit) ==
    /\ chunks \in Seq(Seq(Character))
    /\ \A n \in 1 .. Len(chunks) : IsChunk(chunks[n], limit)
    /\ \A n \in 2 .. Len(chunks) : ~ Fits(chunks[n - 1], FirstPart(chunks[n]), limit)

\* A new chunk, when the part does not fit into the current one.
LEMMA NewChunk ==
    ASSUME NEW limit \in Nat \ {0}, NEW chunks, ChunksFit(chunks, limit),
           NEW part, IsPart(part, limit),
           chunks = <<>> \/ ~ Fits(chunks[Len(chunks)], part, limit)
    PROVE  ChunksFit(Append(chunks, part), limit) /\ Grows(chunks, Append(chunks, part), part, 0)
  <1> DEFINE more == Append(chunks, part)
             c == Len(chunks)
             S == Seq(Character)
  <1>1. part \in S /\ Len(part) \in 1 .. limit /\ \A x \in 1 .. Len(part) : part[x] # Break
    BY DEF IsPart
  <1>2. chunks \in Seq(S) /\ c \in Nat
    BY LenProperties DEF ChunksFit
  <1>3. /\ more \in Seq(S) /\ Len(more) = c + 1
        /\ \A n \in 1 .. c : more[n] = chunks[n]
        /\ more[c + 1] = part
    <2> HIDE DEF S
    <2> QED BY <1>1, <1>2, AppendProperties
  <1> HIDE DEF more
  <1>4. /\ \A n \in 1 .. c : IsChunk(chunks[n], limit)
        /\ \A n \in 2 .. c : ~ Fits(chunks[n - 1], FirstPart(chunks[n]), limit)
    BY DEF ChunksFit
  <1>5. chunks = <<>> => c = 0
    OBVIOUS
  <1>6. chunks = <<>> \/ ~ Fits(chunks[c], part, limit)
    OBVIOUS
  <1> HIDE DEF c, S
  <1>7. IsChunk(part, limit) /\ FirstPart(part) = part
    BY PartIsChunk
  <1>8. \A n \in 1 .. c + 1 : n \in 1 .. c \/ n = c + 1
    BY <1>2
  <1>9. \A n \in 1 .. c + 1 : IsChunk(more[n], limit)
    BY <1>3, <1>4, <1>7, <1>8
  <1>10. ASSUME NEW n \in 2 .. c + 1
         PROVE  ~ Fits(more[n - 1], FirstPart(more[n]), limit)
    <2>1. CASE n \in 2 .. c
      <3>1. n \in 1 .. c /\ n - 1 \in 1 .. c
        BY <1>2, <2>1
      <3> QED BY <1>3, <1>4, <2>1, <3>1
    <2>2. CASE n = c + 1
      <3>1. n - 1 = c /\ c \in 1 .. c
        BY <1>2, <2>2
      <3>2. chunks # <<>>
        BY <1>5, <3>1
      <3> QED BY <1>3, <1>6, <1>7, <2>2, <3>1, <3>2
    <2> QED BY <1>2, <2>1, <2>2
  <1>11. ChunksFit(more, limit)
    BY <1>3, <1>9, <1>10 DEF ChunksFit, S
  <1>12. ASSUME NEW n, NEW x, IsMark(chunks, n, x)
         PROVE  /\ IsMark(more, n, x) /\ more[n][x] = chunks[n][x]
                /\ Earlier(<<n, x>>, <<Len(more), 0 + 1>>)
    <2>1. n \in 1 .. c /\ x \in 1 .. Len(chunks[n]) /\ chunks[n][x] # Break
      BY <1>12 DEF IsMark, c
    <2>2. n \in 1 .. Len(more) /\ more[n] = chunks[n] /\ n < Len(more)
      BY <1>2, <1>3, <2>1
    <2> QED BY <2>1, <2>2 DEF IsMark, Earlier
  <1>13. ASSUME NEW n, NEW x, IsMark(more, n, x)
         PROVE  IsMark(chunks, n, x) \/ (n = Len(more) /\ \E y \in 1 .. Len(part) : x = 0 + y)
    <2>1. n \in 1 .. c + 1 /\ x \in 1 .. Len(more[n]) /\ more[n][x] # Break
      BY <1>3, <1>13 DEF IsMark
    <2>2. CASE n \in 1 .. c
      BY <1>3, <2>1, <2>2 DEF IsMark, c
    <2>3. CASE n = c + 1
      <3>1. x \in 1 .. Len(part) /\ x = 0 + x
        BY <1>1, <1>3, <2>1, <2>3
      <3> QED BY <1>3, <2>3, <3>1
    <2> QED BY <1>8, <2>1, <2>2, <2>3
  <1>14. ASSUME NEW y \in 1 .. Len(part)
         PROVE  IsMark(more, Len(more), 0 + y) /\ more[Len(more)][0 + y] = part[y]
    <2>1. 0 + y = y /\ Len(more) \in 1 .. Len(more) /\ more[Len(more)] = part
      BY <1>1, <1>2, <1>3
    <2> QED BY <1>1, <2>1 DEF IsMark
  <1>15. Grows(chunks, more, part, 0)
    BY <1>12, <1>13, <1>14 DEF Grows
  <1> QED BY <1>11, <1>15 DEF more

\* A longer chunk, when the part fits into the current one.
LEMMA LongerChunk ==
    ASSUME NEW limit \in Nat \ {0}, NEW done, NEW current,
           ChunksFit(Append(done, current), limit),
           done \in Seq(Seq(Character)), current \in Seq(Character),
           NEW part, IsPart(part, limit), Fits(current, part, limit),
           current[Len(current)][1] # part[1][1]
    PROVE  /\ ChunksFit(Append(done, Joined(current, part)), limit)
           /\ Grows(Append(done, current), Append(done, Joined(current, part)),
                    part, Len(current) + 2)
  <1> DEFINE chunks == Append(done, current)
             joined == Joined(current, part)
             more == Append(done, joined)
             c == Len(done)
             a == Len(current)
             S == Seq(Character)
  <1>1. part \in S /\ Len(part) \in 1 .. limit /\ \A x \in 1 .. Len(part) : part[x] # Break
    BY DEF IsPart
  <1>2. done \in Seq(S) /\ current \in S /\ c \in Nat /\ a \in Nat
    BY LenProperties
  <1>3. /\ chunks \in Seq(S) /\ Len(chunks) = c + 1
        /\ \A n \in 1 .. c : chunks[n] = done[n]
        /\ chunks[c + 1] = current
    <2> HIDE DEF S
    <2> QED BY <1>2, AppendProperties
  <1>4. /\ \A n \in 1 .. Len(chunks) : IsChunk(chunks[n], limit)
        /\ \A n \in 2 .. Len(chunks) : ~ Fits(chunks[n - 1], FirstPart(chunks[n]), limit)
    BY DEF ChunksFit
  <1>5. c + 1 \in 1 .. c + 1 /\ \A n \in 1 .. c : n \in 1 .. c + 1
    BY <1>2
  <1>6. IsChunk(current, limit)
    <2> HIDE DEF chunks
    <2> QED BY <1>3, <1>4, <1>5
  <1>7. IsChunk(joined, limit) /\ FirstPart(joined) = FirstPart(current)
        /\ JoinsPieces(joined, current, part)
    BY <1>6, JoinedIsChunk
  <1>8. joined \in S
    BY <1>7 DEF IsChunk
  <1>9. /\ more \in Seq(S) /\ Len(more) = c + 1
        /\ \A n \in 1 .. c : more[n] = done[n]
        /\ more[c + 1] = joined
    <2> HIDE DEF S, joined
    <2> QED BY <1>2, <1>8, AppendProperties
  <1>10. /\ Len(joined) = a + 2 + Len(part)
         /\ \A x \in 1 .. a : joined[x] = current[x]
         /\ joined[a + 1] = Break /\ joined[a + 2] = Break
         /\ \A x \in 1 .. Len(part) : joined[a + 2 + x] = part[x]
    BY <1>7 DEF JoinsPieces
  <1>11. current # <<>> /\ a \in Nat
    BY <1>2, <1>6 DEF IsChunk
  <1> HIDE DEF chunks, more, joined, S
  <1>12. \A n \in 1 .. c + 1 : n \in 1 .. c \/ n = c + 1
    BY <1>2
  <1>13. \A n \in 1 .. c + 1 : IsChunk(more[n], limit)
    BY <1>3, <1>4, <1>5, <1>7, <1>9, <1>12
  <1>14. ASSUME NEW n \in 2 .. c + 1
         PROVE  ~ Fits(more[n - 1], FirstPart(more[n]), limit)
    <2>1. n \in 1 .. c + 1 /\ n - 1 \in 1 .. c
      BY <1>2
    <2>2. more[n - 1] = chunks[n - 1]
      BY <1>3, <1>9, <2>1
    <2>3. FirstPart(more[n]) = FirstPart(chunks[n])
      BY <1>3, <1>7, <1>9, <1>12, <2>1
    <2>4. ~ Fits(chunks[n - 1], FirstPart(chunks[n]), limit)
      BY <1>3, <1>4
    <2> QED BY <2>2, <2>3, <2>4
  <1>15. ChunksFit(more, limit)
    BY <1>9, <1>13, <1>14 DEF ChunksFit, S
  <1> HIDE DEF a
  <1>16. ASSUME NEW n, NEW x, IsMark(chunks, n, x)
         PROVE  /\ IsMark(more, n, x) /\ more[n][x] = chunks[n][x]
                /\ Earlier(<<n, x>>, <<Len(more), (a + 2) + 1>>)
    <2>1. n \in 1 .. c + 1 /\ x \in 1 .. Len(chunks[n]) /\ chunks[n][x] # Break
      BY <1>3, <1>16 DEF IsMark
    <2>2. CASE n \in 1 .. c
      <3>1. n \in 1 .. Len(more) /\ more[n] = chunks[n] /\ n < Len(more)
        BY <1>2, <1>3, <1>9, <2>2
      <3> QED BY <2>1, <3>1 DEF IsMark, Earlier
    <2>3. CASE n = c + 1
      <3>1. chunks[n] = current /\ more[n] = joined /\ n = Len(more) /\ n \in 1 .. Len(more)
        BY <1>2, <1>3, <1>5, <1>9, <2>3
      <3>2. x \in 1 .. a
        BY <2>1, <3>1 DEF a
      <3>3. x \in 1 .. Len(joined) /\ x < (a + 2) + 1
        BY <1>1, <1>10, <1>11, <3>2
      <3>4. joined[x] = current[x]
        BY <1>10, <3>2
      <3> QED BY <2>1, <3>1, <3>3, <3>4 DEF IsMark, Earlier
    <2> QED BY <1>12, <2>1, <2>2, <2>3
  <1>17. ASSUME NEW n, NEW x, IsMark(more, n, x)
         PROVE  \/ IsMark(chunks, n, x)
                \/ n = Len(more) /\ \E y \in 1 .. Len(part) : x = (a + 2) + y
    <2>1. n \in 1 .. c + 1 /\ x \in 1 .. Len(more[n]) /\ more[n][x] # Break
      BY <1>9, <1>17 DEF IsMark
    <2>2. CASE n \in 1 .. c
      BY <1>3, <1>5, <1>9, <2>1, <2>2 DEF IsMark
    <2>3. CASE n = c + 1
      <3>1. more[n] = joined /\ chunks[n] = current /\ n = Len(more) /\ n \in 1 .. Len(chunks)
        BY <1>3, <1>5, <1>9, <2>3
      <3>2. x \in 1 .. a + 2 + Len(part) /\ joined[x] # Break
        BY <1>10, <2>1, <3>1
      <3>3. CASE x \in 1 .. a
        <4>1. current[x] # Break /\ x \in 1 .. Len(current)
          BY <1>10, <3>2, <3>3 DEF a
        <4> QED BY <3>1, <4>1 DEF IsMark
      <3>4. CASE x \notin 1 .. a
        <4>1. x # a + 1 /\ x # a + 2
          BY <1>10, <3>2
        <4>2. x - (a + 2) \in 1 .. Len(part) /\ x = (a + 2) + (x - (a + 2))
          BY <1>1, <1>11, <3>2, <3>4, <4>1
        <4> QED BY <3>1, <4>2
      <3> QED BY <3>3, <3>4
    <2> QED BY <1>12, <2>1, <2>2, <2>3
  <1>18. ASSUME NEW y \in 1 .. Len(part)
         PROVE  IsMark(more, Len(more), (a + 2) + y) /\ more[Len(more)][(a + 2) + y] = part[y]
    <2>1. Len(more) \in 1 .. Len(more) /\ more[Len(more)] = joined
      BY <1>5, <1>9
    <2>2. (a + 2) + y \in 1 .. Len(joined) /\ (a + 2) + y = a + 2 + y
      BY <1>1, <1>10, <1>11
    <2>3. joined[(a + 2) + y] = part[y] /\ part[y] # Break
      BY <1>1, <1>10, <2>2
    <2> QED BY <2>1, <2>2, <2>3 DEF IsMark
  <1>19. Grows(chunks, more, part, a + 2)
    BY <1>16, <1>17, <1>18 DEF Grows
  <1> QED BY <1>15, <1>19 DEF chunks, more, joined, a

----------------------------------------------------------------------------
(* The pass over the parts                                                 *)

\* The chunks done and the current one, and what a pass begins with.
Split == [done : Seq(Seq(Character)), current : Seq(Character)]

Unsplit == [done |-> <<>>, current |-> <<>>]

\* AddPart makes a split of a split.
LEMMA AddPartType ==
    ASSUME NEW split \in Split, NEW part \in Seq(Character), NEW limit
    PROVE  AddPart(split, part, limit) \in Split
  <1>1. split.done \in Seq(Seq(Character)) /\ split.current \in Seq(Character)
    BY DEF Split
  <1>2. Append(split.done, split.current) \in Seq(Seq(Character))
    <2> DEFINE S == Seq(Character)
    <2> HIDE DEF S
    <2>1. split.done \in Seq(S) /\ split.current \in S
      BY <1>1 DEF S
    <2> QED BY <2>1, AppendProperties DEF S
  <1>3. Joined(split.current, part) \in Seq(Character)
    <2>1. CASE split.current = <<>>
      BY <2>1 DEF Joined
    <2>2. CASE split.current # <<>>
      BY <1>1, <2>2, JoinedPieces DEF JoinsPieces
    <2> QED BY <2>1, <2>2
  <1>4. [done |-> Append(split.done, split.current), current |-> part] \in Split
    BY <1>2 DEF Split
  <1>5. [split EXCEPT !.current = Joined(@, part)] \in Split
    BY <1>3 DEF Split
  <1> QED BY <1>4, <1>5 DEF AddPart

\* run holds the splits after the first parts.
Runs(run, parts, limit) ==
    /\ run \in [0 .. Len(parts) -> Split]
    /\ run[0] = Unsplit
    /\ \A k \in 1 .. Len(parts) : run[k] = AddPart(run[k - 1], parts[k], limit)

\* SplitChunks is the last split of a run that begins with nothing.
LEMMA SplitRuns ==
    ASSUME NEW lengths \in Seq(Nat \ {0}), NEW limit \in Nat \ {0}
    PROVE  LET parts == PartsOf(lengths, limit)
           IN  \E run : /\ Runs(run, parts, limit)
                        /\ SplitChunks(Text(lengths), limit) = Written(run[Len(parts)])
  <1> DEFINE parts == PartsOf(lengths, limit)
             M == Seq(Character)
             step == [x \in Split \X M |-> AddPart(x[1], x[2], limit)]
             n == Len(parts)
             IsIter(f) == f = [s \in SUBSET (DOMAIN parts) |->
                IF s = {} THEN Unsplit
                ELSE AddPart(f[s \ {Max(s)}], parts[Max(s)], limit)]
  <1>0. parts \in Seq(M)
    BY PartsCutText DEF CutsText
  <1> HIDE DEF parts, M
  <1>1. DOMAIN parts = 1 .. n /\ n \in Nat
    BY <1>0, LenProperties
  <1>2. step \in [Split \X M -> Split] /\ Unsplit \in Split
    <2>1. \A w \in Split, m \in M : AddPart(w, m, limit) \in Split
      BY AddPartType DEF M
    <2>2. Unsplit \in Split
      BY DEF Split, Unsplit
    <2> QED BY <2>1, <2>2
  <1>3. \A w \in Split, m \in M : step[<<w, m>>] = AddPart(w, m, limit)
    OBVIOUS
  <1> HIDE DEF step
  <1>4. PICK f \in [SUBSET (1 .. n) -> Split] :
          \A s \in SUBSET (1 .. n) :
            f[s] = IF s = {} THEN Unsplit ELSE step[<<f[s \ {Max(s)}], parts[Max(s)]>>]
    <2>1. PICK f : Iterates(f, Split, Unsplit, step, parts)
      BY <1>0, <1>2, FoldExists
    <2> QED BY <2>1 DEF Iterates
  <1>5. IsIter(f)
    <2>1. ASSUME NEW s \in SUBSET (1 .. n), s # {}
          PROVE  step[<<f[s \ {Max(s)}], parts[Max(s)]>>]
                   = AddPart(f[s \ {Max(s)}], parts[Max(s)], limit)
      <3>1. Max(s) \in 1 .. n
        BY <1>1, <2>1, MaxProperties
      <3>2. f[s \ {Max(s)}] \in Split /\ parts[Max(s)] \in M
        BY <1>0, <1>4, <3>1, ElementOfSeq
      <3> QED BY <1>3, <3>2
    <2> QED BY <1>1, <1>4, <2>1
  <1> DEFINE g == CHOOSE h : IsIter(h)
  <1>6. IsIter(g)
    <2> HIDE DEF IsIter
    <2> QED BY <1>5, Zenon
  <1>7. SplitChunks(Text(lengths), limit) = Written(g[1 .. n])
    <2>1. SplitChunks(Text(lengths), limit) = Written(g[DOMAIN parts])
      BY DEF SplitChunks, FoldLeft, MapThenFoldSet, Written, Unsplit, parts, PartsOf
    <2> QED BY <1>1, <2>1
  <1> HIDE DEF g
  <1>8. \A s \in SUBSET (1 .. n) :
          g[s] = IF s = {} THEN Unsplit
                 ELSE AddPart(g[s \ {Max(s)}], parts[Max(s)], limit)
    BY <1>1, <1>6
  <1> HIDE DEF IsIter
  <1> DEFINE run == [k \in 0 .. n |-> g[1 .. k]]
  <1>9. run[0] = Unsplit
    <2>1. 1 .. 0 = {} /\ 0 \in 0 .. n
      BY <1>1
    <2> QED BY <1>8, <2>1
  <1>10. ASSUME NEW k \in 1 .. n
         PROVE  run[k] = AddPart(run[k - 1], parts[k], limit)
    <2>1. k \in Nat \ {0} /\ k - 1 \in 0 .. n /\ k \in 0 .. n /\ 1 .. k \in SUBSET (1 .. n)
      BY <1>1
    <2>2. 1 .. k # {} /\ Max(1 .. k) = k /\ (1 .. k) \ {k} = 1 .. k - 1
      BY <2>1, MaxOfInterval
    <2>3. g[1 .. k] = AddPart(g[1 .. k - 1], parts[k], limit)
      BY <1>8, <2>1, <2>2
    <2> QED BY <2>1, <2>3
  <1>11. SplitChunks(Text(lengths), limit) = Written(run[n])
    BY <1>1, <1>7
  <1>12. run = [k \in 0 .. n |-> run[k]]
    OBVIOUS
  <1> HIDE DEF run
  <1>13. ASSUME NEW k \in 0 .. n PROVE run[k] \in Split
    <2> DEFINE T == {j \in 0 .. n : run[j] \in Split}
    <2>1. 0 \in T
      BY <1>1, <1>2, <1>9
    <2>2. ASSUME NEW j \in 1 .. n, j - 1 \in T PROVE j \in T
      <3>1. run[j - 1] \in Split /\ parts[j] \in M /\ j \in 0 .. n
        BY <1>0, <1>1, <2>2, ElementOfSeq
      <3>2. AddPart(run[j - 1], parts[j], limit) \in Split
        BY <3>1, AddPartType DEF M
      <3> QED BY <1>10, <3>1, <3>2
    <2> HIDE DEF T
    <2>3. \A j \in 0 .. n : j \in T
      BY <1>1, <2>1, <2>2, UpTo
    <2> QED BY <2>3 DEF T
  <1>14. Runs(run, parts, limit)
    BY <1>9, <1>10, <1>12, <1>13 DEF Runs
  <1> QED BY <1>11, <1>14 DEF parts

\* After m parts the chunks fit, hold the parts, and end with the last one.
SplitsParts(split, parts, m, limit) ==
    /\ ChunksFit(Written(split), limit)
    /\ KeepsParts(Written(split), parts, m)
    /\ m = 0 => split = Unsplit
    /\ m # 0 => /\ split.current # <<>>
                /\ split.current[Len(split.current)] = parts[m][Len(parts[m])]
                /\ Len(parts[m]) <= Len(split.current)

\* Each part keeps SplitsParts.  A part that fits into the current chunk begins
\* another paragraph: after a part of its own paragraph, which is full, it
\* would not fit.
LEMMA SplitStep ==
    ASSUME NEW lengths, NEW q, NEW limit \in Nat \ {0},
           NEW parts, CutsText(parts, lengths, q, limit), NEW m \in 1 .. Len(parts),
           NEW split \in Split, SplitsParts(split, parts, m - 1, limit)
    PROVE  SplitsParts(AddPart(split, parts[m], limit), parts, m, limit)
  <1> DEFINE part == parts[m]
             done == split.done
             current == split.current
             next == AddPart(split, part, limit)
  <1>1. /\ parts \in Seq(Seq(Character))
        /\ \A k \in 1 .. Len(parts) : IsPart(parts[k], limit)
        /\ \A k, j \in 1 .. Len(parts) : k < j => Precedes(parts[k], parts[j])
        /\ \A k \in 1 .. Len(parts) - 1 :
             parts[k][1][1] = parts[k + 1][1][1] => Len(parts[k]) = limit
    BY DEF CutsText
  <1>2. /\ part \in Seq(Character) /\ Len(part) \in 1 .. limit /\ part # <<>>
        /\ IsPart(part, limit) /\ m \in Nat \ {0}
    <2>1. IsPart(part, limit)
      BY <1>1
    <2>2. part \in Seq(Character) /\ Len(part) \in 1 .. limit
      BY <2>1 DEF IsPart
    <2>3. m \in Nat \ {0}
      BY <1>1, LenProperties
    <2> QED BY <2>1, <2>2, <2>3
  <1>3. done \in Seq(Seq(Character)) /\ current \in Seq(Character)
    BY DEF Split
  <1>4. ChunksFit(Written(split), limit) /\ KeepsParts(Written(split), parts, m - 1)
    BY DEF SplitsParts
  <1> HIDE DEF part, next
  \* The first part.
  <1>5. CASE m = 1
    <2>1. split = Unsplit
      BY <1>5 DEF SplitsParts
    <2>2. done = <<>> /\ current = <<>> /\ Written(split) = <<>>
      BY <2>1 DEF Unsplit, Written
    <2>3. next = [split EXCEPT !.current = part]
      BY <2>2 DEF next, AddPart, Joined
    <2>4. next.done = <<>> /\ next.current = part
      BY <2>2, <2>3 DEF Split
    <2>5. Written(next) = Append(<<>>, part)
      BY <1>2, <2>4 DEF Written
    <2>6. ChunksFit(Append(<<>>, part), limit) /\ Grows(<<>>, Append(<<>>, part), part, 0)
      BY <1>2, <1>4, <2>2, NewChunk
    <2>7. KeepsParts(Append(<<>>, part), parts, m)
      BY <1>1, <1>4, <2>2, <2>6, PartsKept DEF ChunksFit, part
    <2> QED BY <1>2, <2>4, <2>5, <2>6, <2>7 DEF SplitsParts, next, part
  <1>6. ASSUME m # 1
        PROVE  /\ current # <<>> /\ Written(split) = Append(done, current)
               /\ Len(parts[m - 1]) <= Len(current)
               /\ current[Len(current)] = parts[m - 1][Len(parts[m - 1])]
    <2>1. m - 1 # 0
      BY <1>2, <1>6
    <2> QED BY <2>1 DEF SplitsParts, Written
  \* The part does not fit.
  <1>7. CASE m # 1 /\ ~ Fits(current, part, limit)
    <2> DEFINE chunks == Append(done, current)
    <2>1. current # <<>> /\ Written(split) = chunks
      BY <1>6, <1>7
    <2>2. next = [done |-> chunks, current |-> part]
      BY <1>7, <2>1 DEF next, AddPart
    <2>3. next.current = part /\ Written(next) = Append(chunks, part)
      BY <1>2, <2>2 DEF Written
    <2>4. chunks[Len(chunks)] = current
      BY <1>3
    <2>5. ChunksFit(chunks, limit) /\ ~ Fits(chunks[Len(chunks)], part, limit)
      BY <1>4, <1>7, <2>1, <2>4
    <2>6. KeepsParts(chunks, parts, m - 1)
      BY <1>4, <2>1
    <2> HIDE DEF chunks
    <2>7. ChunksFit(Append(chunks, part), limit) /\ Grows(chunks, Append(chunks, part), part, 0)
      BY <1>2, <2>5, NewChunk
    <2>8. KeepsParts(Append(chunks, part), parts, m)
      BY <1>1, <2>5, <2>6, <2>7, PartsKept DEF ChunksFit, part
    <2> QED BY <1>2, <2>3, <2>7, <2>8 DEF SplitsParts, next, part
  \* The part fits, so it begins another paragraph.
  <1>8. CASE m # 1 /\ Fits(current, part, limit)
    <2> DEFINE chunks == Append(done, current)
               joined == Joined(current, part)
               before == parts[m - 1]
    <2>1. /\ current # <<>> /\ Written(split) = chunks
          /\ Len(before) <= Len(current)
          /\ current[Len(current)] = before[Len(before)]
      BY <1>6, <1>8
    <2>2. JoinsPieces(joined, current, part)
      BY <1>2, <1>3, <2>1, JoinedPieces
    <2>3. /\ joined \in Seq(Character) /\ Len(joined) = Len(current) + 2 + Len(part)
          /\ \A x \in 1 .. Len(part) : joined[Len(current) + 2 + x] = part[x]
      BY <2>2 DEF JoinsPieces
    <2>4. Len(joined) <= limit
      BY <1>8 DEF Fits
    <2>5. m - 1 \in 1 .. Len(parts) /\ m - 1 \in 1 .. Len(parts) - 1 /\ (m - 1) + 1 = m
      BY <1>1, <1>2, <1>8, LenProperties
    <2>6. IsPart(before, limit)
      BY <1>1, <2>5
    <2>7. Len(before) # limit
      <3>1. Len(before) \in Nat /\ Len(current) \in Nat
        BY <1>3, <2>6 DEF IsPart
      <3> HIDE DEF joined, before
      <3> QED BY <1>2, <2>1, <2>3, <2>4, <3>1
    <2>8. parts[m - 1][1][1] # parts[m][1][1]
      BY <1>1, <2>5, <2>7
    <2>9. before[Len(before)][1] = before[1][1]
      BY <2>6 DEF IsPart
    <2>10. current[Len(current)][1] # part[1][1]
      BY <2>1, <2>8, <2>9, Zenon DEF part
    <2>11. next = [split EXCEPT !.current = joined]
      BY <1>8 DEF next, AddPart
    <2>12. next.current = joined /\ next.done = done
      BY <2>11 DEF Split
    <2>13. joined # <<>>
      <3> HIDE DEF joined
      <3>1. Len(joined) # 0
        BY <1>2, <1>3, <2>3
      <3> QED BY <3>1
    <2>14. Written(next) = Append(done, joined)
      BY <2>12, <2>13 DEF Written
    <2>15. /\ ChunksFit(Append(done, joined), limit)
           /\ Grows(chunks, Append(done, joined), part, Len(current) + 2)
      <3>1. ChunksFit(Append(done, current), limit)
        BY <1>4, <2>1
      <3> QED BY <1>2, <1>3, <1>8, <2>10, <3>1, LongerChunk
    <2>16. ChunksFit(chunks, limit) /\ KeepsParts(chunks, parts, m - 1) /\ Len(current) + 2 \in Nat
      BY <1>3, <1>4, <2>1
    <2> HIDE DEF chunks, joined
    <2>17. KeepsParts(Append(done, joined), parts, m)
      <3> DEFINE o == Len(current) + 2
                 more == Append(done, joined)
      <3>1. o \in Nat /\ Grows(chunks, more, parts[m], o) /\ ChunksFit(more, limit)
        BY <2>15, <2>16 DEF part
      <3> HIDE DEF o, more
      <3>2. KeepsParts(more, parts, m)
        BY <1>1, <2>16, <3>1, PartsKept DEF ChunksFit
      <3> QED BY <3>2 DEF more
    <2>18. Len(part) <= Len(joined) /\ joined[Len(joined)] = part[Len(part)]
      <3>1. Len(part) \in 1 .. Len(part) /\ Len(current) \in Nat /\ Len(part) \in Nat
        BY <1>2, <1>3
      <3> QED BY <2>3, <3>1
    <2> QED BY <1>2, <2>12, <2>13, <2>14, <2>15, <2>17, <2>18 DEF SplitsParts, next, part
  <1> QED BY <1>5, <1>7, <1>8 DEF next, part

\* What split_chunks returns fits and holds all parts of the text.
LEMMA SplitTexts ==
    ASSUME NEW lengths \in Seq(Nat \ {0}), NEW limit \in Nat \ {0}
    PROVE  LET chunks == SplitChunks(Text(lengths), limit)
               parts  == PartsOf(lengths, limit)
           IN  ChunksFit(chunks, limit) /\ KeepsParts(chunks, parts, Len(parts))
  <1> DEFINE chunks == SplitChunks(Text(lengths), limit)
             parts == PartsOf(lengths, limit)
             n == Len(parts)
             q == Len(lengths)
  <1>1. CutsText(parts, lengths, q, limit)
    BY PartsCutText
  <1>2. PICK run : Runs(run, parts, limit) /\ chunks = Written(run[n])
    BY SplitRuns
  <1> HIDE DEF chunks, parts, q
  <1>3. n \in Nat
    BY <1>1, LenProperties DEF CutsText
  <1>4. /\ run \in [0 .. n -> Split] /\ run[0] = Unsplit
        /\ \A k \in 1 .. n : run[k] = AddPart(run[k - 1], parts[k], limit)
    BY <1>2 DEF Runs
  <1> DEFINE T == {k \in 0 .. n : SplitsParts(run[k], parts, k, limit)}
  <1>5. 0 \in T
    <2>1. Written(Unsplit) = <<>>
      BY DEF Written, Unsplit
    <2>2. ChunksFit(<<>>, limit)
      BY DEF ChunksFit
    <2>3. KeepsParts(<<>>, parts, 0)
      <3>1. \A i, x : ~ IsMark(<<>>, i, x)
        BY DEF IsMark
      <3> QED BY <3>1 DEF KeepsParts
    <2>4. SplitsParts(Unsplit, parts, 0, limit)
      BY <2>1, <2>2, <2>3 DEF SplitsParts
    <2> QED BY <1>3, <1>4, <2>4
  <1>6. ASSUME NEW k \in 1 .. n, k - 1 \in T PROVE k \in T
    <2>0. k - 1 \in 0 .. n /\ k \in 0 .. n
      BY <1>3
    <2>1. run[k - 1] \in Split
      BY <1>4, <2>0
    <2>2. SplitsParts(run[k - 1], parts, k - 1, limit)
      BY <1>6
    <2>3. SplitsParts(AddPart(run[k - 1], parts[k], limit), parts, k, limit)
      BY <1>1, <2>1, <2>2, SplitStep
    <2>4. SplitsParts(run[k], parts, k, limit)
      BY <1>4, <2>3
    <2> QED BY <2>0, <2>4
  <1> HIDE DEF T
  <1>7. n \in T
    <2>1. \A k \in 0 .. n : k \in T
      BY <1>3, <1>5, <1>6, UpTo
    <2> QED BY <1>3, <2>1
  <1>8. SplitsParts(run[n], parts, n, limit)
    BY <1>7 DEF T
  <1> QED BY <1>2, <1>8 DEF SplitsParts, chunks, parts

\* split_chunks is right for every text and limit: no character is lost,
\* moved or doubled, and every chunk is whole, within the limit and tight.
THEOREM SplitChunksIsRight ==
    ASSUME NEW lengths \in Seq(Nat \ {0}), NEW limit \in Nat \ {0}
    PROVE  ChunksAreRight(lengths, limit)
  <1> DEFINE chunks == SplitChunks(Text(lengths), limit)
             text == Text(lengths)
             parts == PartsOf(lengths, limit)
             n == Len(parts)
             q == Len(lengths)
  <1>1. CutsText(parts, lengths, q, limit)
    BY PartsCutText
  <1>2. ChunksFit(chunks, limit) /\ KeepsParts(chunks, parts, n)
    BY SplitTexts
  <1>3. q \in Nat /\ DOMAIN lengths = 1 .. q /\ \A p \in 1 .. q : lengths[p] \in Nat
    BY LenProperties, ElementOfSeq
  <1>4. DOMAIN text = 1 .. q /\ \A p \in 1 .. q : DOMAIN text[p] = 1 .. lengths[p]
    BY <1>3 DEF Text
  <1> HIDE DEF chunks, text, parts, q
  <1>5. /\ chunks \in Seq(Seq(Character))
        /\ \A i \in 1 .. Len(chunks) : IsChunk(chunks[i], limit)
        /\ \A i \in 2 .. Len(chunks) : ~ Fits(chunks[i - 1], FirstPart(chunks[i]), limit)
    BY <1>2 DEF ChunksFit
  <1>6. /\ Len(chunks) \in Nat /\ DOMAIN chunks = 1 .. Len(chunks)
        /\ \A i \in 1 .. Len(chunks) : DOMAIN chunks[i] = 1 .. Len(chunks[i])
    BY <1>5, LenProperties, ElementOfSeq
  <1> DEFINE kept == {p \in PlacesOf(chunks) : chunks[p[1]][p[2]] # Break}
  <1>7. kept = {p \in Nat \X Nat : IsMark(chunks, p[1], p[2])}
    <2>1. ASSUME NEW p \in kept PROVE p \in Nat \X Nat /\ IsMark(chunks, p[1], p[2])
      <3>1. PICK i \in 1 .. Len(chunks) : \E x \in DOMAIN chunks[i] : p = <<i, x>>
        BY <1>6 DEF PlacesOf
      <3>2. PICK x \in 1 .. Len(chunks[i]) : p = <<i, x>>
        BY <1>6, <3>1
      <3>3. p[1] = i /\ p[2] = x /\ chunks[i][x] # Break
        BY <3>2
      <3>4. i \in Nat /\ x \in Nat
        BY <1>6
      <3> QED BY <3>2, <3>3, <3>4 DEF IsMark
    <2>2. ASSUME NEW p \in Nat \X Nat, IsMark(chunks, p[1], p[2]) PROVE p \in kept
      <3>1. p = <<p[1], p[2]>> /\ p[1] \in DOMAIN chunks /\ p[2] \in DOMAIN chunks[p[1]]
            /\ chunks[p[1]][p[2]] # Break
        BY <1>6, <2>2 DEF IsMark
      <3>2. p \in PlacesOf(chunks)
        BY <3>1 DEF PlacesOf
      <3> QED BY <3>1, <3>2
    <2> HIDE DEF kept
    <2> QED BY <2>1, <2>2
  <1> HIDE DEF kept
  <1>8. /\ \A i, x : IsMark(chunks, i, x) =>
             /\ <<i, x>> \in kept
             /\ \E k \in 1 .. n : Holds(parts[k], chunks[i][x])
        /\ \A k \in 1 .. n : \A x \in 1 .. Len(parts[k]) :
             \E i, y : IsMark(chunks, i, y) /\ chunks[i][y] = parts[k][x]
        /\ \A i, x, j, y : IsMark(chunks, i, x) /\ IsMark(chunks, j, y) /\ Earlier(<<i, x>>, <<j, y>>)
             => Earlier(chunks[i][x], chunks[j][y])
    <2>1. ASSUME NEW i, NEW x, IsMark(chunks, i, x) PROVE <<i, x>> \in kept
      <3>1. i \in Nat /\ x \in Nat
        BY <2>1 DEF IsMark
      <3> QED BY <1>7, <2>1, <3>1
    <2> QED BY <1>2, <2>1 DEF KeepsParts
  <1>9. \A c : c \in PlacesOf(text) <=> \E p \in 1 .. q : \E k \in 1 .. lengths[p] : c = <<p, k>>
    <2>1. ASSUME NEW c \in PlacesOf(text)
          PROVE  \E p \in 1 .. q : \E k \in 1 .. lengths[p] : c = <<p, k>>
      <3>1. PICK p \in 1 .. q : c \in {<<p, x>> : x \in DOMAIN text[p]}
        BY <1>4, Zenon DEF PlacesOf
      <3> QED BY <1>4, <3>1
    <2>2. ASSUME NEW p \in 1 .. q, NEW k \in 1 .. lengths[p]
          PROVE  <<p, k>> \in PlacesOf(text)
      <3>1. <<p, k>> \in {<<p, x>> : x \in DOMAIN text[p]}
        BY <1>4
      <3> QED BY <1>4, <3>1, Zenon DEF PlacesOf
    <2> QED BY <2>1, <2>2
  <1>10. \A k \in 1 .. n : \A x \in 1 .. Len(parts[k]) : parts[k][x] \in PlacesOf(text)
    <2>1. ASSUME NEW k \in 1 .. n, NEW x \in 1 .. Len(parts[k])
          PROVE  parts[k][x] \in PlacesOf(text)
      <3>1. IsPart(parts[k], limit) /\ \E p \in 1 .. q : Belongs(parts[k], p, lengths[p])
        BY <1>1 DEF CutsText
      <3>2. parts[k][x] \in Character
        BY <3>1, ElementOfSeq DEF IsPart
      <3>3. PICK p \in 1 .. q : Belongs(parts[k], p, lengths[p])
        BY <3>1
      <3>4. parts[k][x][1] = p /\ parts[k][x][2] \in 1 .. lengths[p]
        BY <3>3 DEF Belongs
      <3>5. parts[k][x] = <<p, parts[k][x][2]>>
        BY <3>2, <3>4 DEF Character
      <3> QED BY <1>9, <3>4, <3>5
    <2> QED BY <2>1
  <1>11. \A p \in 1 .. q : \A k \in 1 .. lengths[p] :
           \E m \in 1 .. n : \E x \in 1 .. Len(parts[m]) : parts[m][x] = <<p, k>>
    BY <1>1 DEF CutsText, Holds
  <1>12. {chunks[p[1]][p[2]] : p \in kept} = PlacesOf(text)
    <2>1. ASSUME NEW p \in kept PROVE chunks[p[1]][p[2]] \in PlacesOf(text)
      <3>1. IsMark(chunks, p[1], p[2])
        BY <1>7
      <3>2. PICK k \in 1 .. n : Holds(parts[k], chunks[p[1]][p[2]])
        BY <1>8, <3>1
      <3>3. PICK x \in 1 .. Len(parts[k]) : parts[k][x] = chunks[p[1]][p[2]]
        BY <3>2 DEF Holds
      <3> QED BY <1>10, <3>3
    <2>2. ASSUME NEW c \in PlacesOf(text) PROVE \E p \in kept : chunks[p[1]][p[2]] = c
      <3>1. PICK r \in 1 .. q : \E k \in 1 .. lengths[r] : c = <<r, k>>
        BY <1>9
      <3>2. PICK k \in 1 .. lengths[r] : c = <<r, k>>
        BY <3>1
      <3>3. PICK m \in 1 .. n : \E x \in 1 .. Len(parts[m]) : parts[m][x] = c
        BY <1>11, <3>2
      <3>4. PICK x \in 1 .. Len(parts[m]) : parts[m][x] = c
        BY <3>3
      <3>5. PICK i, y : IsMark(chunks, i, y) /\ chunks[i][y] = c
        <4>1. \E i, y : IsMark(chunks, i, y) /\ chunks[i][y] = parts[m][x]
          BY <1>8, Zenon
        <4> QED BY <3>4, <4>1, Zenon
      <3>6. <<i, y>> \in kept
        BY <1>8, <3>5
      <3> QED BY <3>5, <3>6
    <2> QED BY <2>1, <2>2
  <1>13. ASSUME NEW p \in kept, NEW r \in kept, Earlier(p, r)
         PROVE  Earlier(chunks[p[1]][p[2]], chunks[r[1]][r[2]])
    <2>1. IsMark(chunks, p[1], p[2]) /\ IsMark(chunks, r[1], r[2])
      BY <1>7
    <2>2. p = <<p[1], p[2]>> /\ r = <<r[1], r[2]>>
      BY <1>7
    <2>3. Earlier(<<p[1], p[2]>>, <<r[1], r[2]>>)
      BY <1>13, <2>2, Zenon
    <2> QED BY <1>8, <2>1, <2>3, Zenon
  <1>14. KeepsText(chunks, text)
    BY <1>12, <1>13 DEF KeepsText, kept
  <1>15. \A i \in DOMAIN chunks : KeepsParagraphs(chunks[i])
    BY <1>5, <1>6 DEF IsChunk
  <1>16. IsTight(chunks, limit)
    <2>1. \A i \in DOMAIN chunks : Len(chunks[i]) \in 1 .. limit
      BY <1>5, <1>6 DEF IsChunk
    <2>2. \A i \in DOMAIN chunks \ {1} : i \in 2 .. Len(chunks)
      BY <1>6
    <2> QED BY <1>5, <2>1, <2>2 DEF IsTight
  <1> QED BY <1>14, <1>15, <1>16 DEF ChunksAreRight, chunks, text

\* ChunksPartitionTexts is an invariant: whatever is indexed, no text that
\* split_chunks can be given is damaged, lengths and limit as they may be.
THEOREM ChunksKept == Spec => []ChunksPartitionTexts
  <1>1. DamagedTexts = {}
    <2>1. ASSUME NEW n \in 0 .. 3, NEW lengths \in [1 .. n -> Lengths]
          PROVE  ChunksAreRight(lengths, ChunkLimit)
      <3>0. \A i \in 1 .. n : lengths[i] \in Nat \ {0}
        BY TextAssumption
      <3>1. lengths \in [1 .. n -> Nat \ {0}] /\ ChunkLimit \in Nat \ {0} /\ n \in Nat
        BY <3>0, TextAssumption
      <3>2. lengths \in Seq(Nat \ {0})
        <4> DEFINE S == Nat \ {0}
        <4>1. lengths \in [1 .. n -> S]
          BY <3>1
        <4> HIDE DEF S
        <4>2. lengths \in Seq(S)
          BY <3>1, <4>1, SeqOfFunction
        <4> QED BY <4>2 DEF S
      <3> QED BY <3>1, <3>2, SplitChunksIsRight
    <2> QED BY <2>1 DEF DamagedTexts
  <1>2. ChunksPartitionTexts
    BY <1>1 DEF ChunksPartitionTexts
  <1>3. ChunksPartitionTexts'
    BY <1>1, <1>2 DEF ChunksPartitionTexts, DamagedTexts
  <1> QED BY <1>1, <1>2, <1>3, PTL DEF Spec
=============================================================================
