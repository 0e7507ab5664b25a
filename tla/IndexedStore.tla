---------------------------- MODULE IndexedStore ----------------------------
(***************************************************************************)
(* The derived indexes of mini_gl, retrieval/lexical.py and                *)
(* retrieval/vector.py, over the documents that synchronisation publishes. *)
(* Every index operation reads in statements of their own and writes later *)
(* in one transaction, so other processes publish, delete and index in     *)
(* between.  The documents change as SnapshotLedger says and SyncStore     *)
(* implements: a whole source at a time.                                   *)
(*                                                                         *)
(* A chunk is identified by its document, ordinal and text, as its hash    *)
(* is; titles and paths, which an upsert refreshes, are left out.          *)
(***************************************************************************)
EXTENDS Naturals

CONSTANTS
    Procs,      \* processes and threads that index
    Sources,    \* sources registered at the start
    Documents,  \* document ids, which survive deletion and a new sync
    SourceOf,   \* the source of each document
    Versions,   \* contents a document may have
    ChunksOf,   \* split_chunks of each content, a sequence of texts
    Providers,  \* embedding providers
    All,        \* rebuild of every source
    None

ASSUME SourceAssumption == SourceOf \in [Documents -> Sources]

ASSUME NoneAssumption == None \notin Versions

ASSUME AllAssumption == All \notin Sources

VARIABLES
    live,       \* ids of the rows of table sources
    documents,  \* table documents: the content of each, None without a row
    lexical,    \* rows of table lexical_chunks
    vectors,    \* rows of table vector_chunks
    pc, job,    \* where each process is, and its local variables
    overtaken   \* history: sources whose index was last written by an
                \* index-sync that something had overtaken

storeVars == <<live, documents>>
indexVars == <<lexical, vectors>>
procVars == <<pc, job>>
vars == <<storeVars, indexVars, procVars, overtaken>>

----------------------------------------------------------------------------
ChunksIn(d, v) ==
    {[doc |-> d, ordinal |-> i, text |-> ChunksOf[v][i]] : i \in DOMAIN ChunksOf[v]}

Chunk == UNION {ChunksIn(d, v) : d \in Documents, v \in Versions}

Vector == [chunk : Chunk, provider : Providers]

Scopes == Sources \cup {All}

Covers(scope, d) == scope = All \/ SourceOf[d] = scope

\* The rows a query over a scope returns.
Lexical(scope) == {c \in lexical : Covers(scope, c.doc)}

VectorsOf(scope, provider) ==
    {v \in vectors : Covers(scope, v.chunk.doc) /\ v.provider = provider}

Stored(d) == documents[d] # None

Stages == {"idle", "rebuilding", "comparing", "syncing", "synced",
           "re-embedding", "embedding"}

Job == [scope : Scopes \cup {None}, provider : Providers \cup {None},
        rows : SUBSET Chunk, existing : SUBSET Chunk]

NoJob == [scope |-> None, provider |-> None, rows |-> {}, existing |-> {}]

TypeOK ==
    /\ live \subseteq Sources
    /\ documents \in [Documents -> Versions \cup {None}]
    /\ lexical \subseteq Chunk
    /\ vectors \subseteq Vector
    /\ pc \in [Procs -> Stages]
    /\ job \in [Procs -> Job]
    /\ overtaken \subseteq Sources

Init ==
    /\ live = Sources
    /\ documents = [d \in Documents |-> None]
    /\ lexical = {}
    /\ vectors = {}
    /\ pc = [p \in Procs |-> "idle"]
    /\ job = [p \in Procs |-> NoJob]
    /\ overtaken = {}

GoTo(p, stage) == pc' = [pc EXCEPT ![p] = stage]

Remember(p, scope, provider, rows, existing) ==
    job' = [job EXCEPT ![p] = [scope |-> scope, provider |-> provider,
                               rows |-> rows, existing |-> existing]]

\* The command returns, raises or is killed.
Finish(p) ==
    /\ GoTo(p, "idle")
    /\ job' = [job EXCEPT ![p] = NoJob]

----------------------------------------------------------------------------
(* The lexical index                                                       *)

\* _build_rows: the chunks of the documents as they are read.
BuildRows(scope) ==
    UNION {ChunksIn(d, documents[d]) :
             d \in {e \in Documents : Stored(e) /\ Covers(scope, e)}}

RebuildRead(p, scope) ==
    /\ pc[p] = "idle"
    /\ Remember(p, scope, None, BuildRows(scope), {})
    /\ GoTo(p, "rebuilding")
    /\ UNCHANGED <<storeVars, indexVars, overtaken>>

\* Mutant of Insertable: no foreign key.
InsertableOrphans(rows, remaining) ==
    \A row \in rows, other \in remaining :
        row.doc = other.doc /\ row.ordinal = other.ordinal => row = other

\* The constraints of lexical_chunks on rows that join those remaining: the
\* foreign key to documents and UNIQUE(document_id, ordinal).
Insertable(rows, remaining) ==
    /\ \A row \in rows : Stored(row.doc)
    /\ \A row \in rows, other \in remaining :
         row.doc = other.doc /\ row.ordinal = other.ordinal => row = other

\* Vectors go with their chunk, by cascade.
VectorsWithin(chunks) == {v \in vectors : v.chunk \in chunks}

\* Mutant of RebuildWrite: no DELETE, but INSERT OR REPLACE.
RebuildUpsert(p) ==
    LET replaced == {c \in lexical : \E row \in job[p].rows :
                       c.doc = row.doc /\ c.ordinal = row.ordinal}
    IN  /\ pc[p] = "rebuilding"
        /\ \A row \in job[p].rows : Stored(row.doc)
        /\ lexical' = (lexical \ replaced) \cup job[p].rows
        /\ vectors' = VectorsWithin(lexical \ replaced)
        /\ overtaken' = {s \in overtaken : job[p].scope \notin {s, All}}
        /\ Finish(p)
        /\ UNCHANGED storeVars

\* All rows of the scope are deleted, and with them the vectors of every
\* provider; then the rows read are inserted.
RebuildWrite(p) ==
    LET remaining == lexical \ Lexical(job[p].scope)
    IN  /\ pc[p] = "rebuilding"
        /\ Insertable(job[p].rows, remaining)
        /\ lexical' = remaining \cup job[p].rows
        /\ vectors' = VectorsWithin(remaining)
        /\ overtaken' = {s \in overtaken : job[p].scope \notin {s, All}}
        /\ Finish(p)
        /\ UNCHANGED storeVars

\* index-sync reads the documents, then the rows there are.
SyncRead(p, s, provider) ==
    /\ pc[p] = "idle"
    /\ Remember(p, s, provider, BuildRows(s), {})
    /\ GoTo(p, "comparing")
    /\ UNCHANGED <<storeVars, indexVars, overtaken>>

SyncCompare(p) ==
    /\ pc[p] = "comparing"
    /\ Remember(p, job[p].scope, job[p].provider, job[p].rows,
                Lexical(job[p].scope))
    /\ GoTo(p, "syncing")
    /\ UNCHANGED <<storeVars, indexVars, overtaken>>

\* Mutants of SyncRemaining: nothing is deleted; everything is, as if the
\* upsert were INSERT OR REPLACE.
RemainingAll(p) == lexical

RemainingNone(p) == lexical \ job[p].existing

\* What is left of the index once the rows that were read and are not
\* wanted any more are deleted.
SyncRemaining(p) == lexical \ (job[p].existing \ job[p].rows)

\* A row whose chunk is there is updated in place and keeps its vectors.
SyncWrite(p) ==
    /\ pc[p] = "syncing"
    /\ Insertable(job[p].rows, SyncRemaining(p))
    /\ lexical' = SyncRemaining(p) \cup job[p].rows
    /\ vectors' = VectorsWithin(SyncRemaining(p))
    /\ overtaken' = IF Lexical(job[p].scope) = job[p].existing
                      THEN overtaken \ {job[p].scope}
                      ELSE overtaken \cup {job[p].scope}
    /\ GoTo(p, "synced")
    /\ UNCHANGED <<storeVars, job>>

----------------------------------------------------------------------------
(* The vector index                                                        *)

\* Embedding takes long: the vectors are written after every batch is done.
VectorRebuildRead(p, scope, provider) ==
    /\ pc[p] = "idle"
    /\ Remember(p, scope, provider, Lexical(scope), {})
    /\ GoTo(p, "re-embedding")
    /\ UNCHANGED <<storeVars, indexVars, overtaken>>

NewVectors(p) == [chunk : job[p].rows, provider : {job[p].provider}]

\* The foreign key of vector_chunks.
HaveChunks(rows) == rows \subseteq lexical

\* Mutant of VectorRebuildWrite: the vectors of every provider are deleted.
VectorRebuildWriteAll(p) ==
    /\ pc[p] = "re-embedding"
    /\ HaveChunks(job[p].rows)
    /\ vectors' = {v \in vectors : ~Covers(job[p].scope, v.chunk.doc)}
                    \cup NewVectors(p)
    /\ Finish(p)
    /\ UNCHANGED <<storeVars, lexical, overtaken>>

VectorRebuildWrite(p) ==
    /\ pc[p] = "re-embedding"
    /\ HaveChunks(job[p].rows)
    /\ vectors' = (vectors \ VectorsOf(job[p].scope, job[p].provider))
                    \cup NewVectors(p)
    /\ Finish(p)
    /\ UNCHANGED <<storeVars, lexical, overtaken>>

\* index-sync goes on to embed the chunks without a vector of its provider.
VectorSyncRead(p) ==
    /\ pc[p] = "synced"
    /\ Remember(p, job[p].scope, job[p].provider,
                {c \in Lexical(job[p].scope) :
                   [chunk |-> c, provider |-> job[p].provider] \notin vectors}, {})
    /\ GoTo(p, "embedding")
    /\ UNCHANGED <<storeVars, indexVars, overtaken>>

\* A plain INSERT: PRIMARY KEY(chunk_id, provider) refuses a chunk that
\* another process embedded meanwhile.
VectorSyncWrite(p) ==
    /\ pc[p] = "embedding"
    /\ HaveChunks(job[p].rows)
    /\ NewVectors(p) \cap vectors = {}
    /\ vectors' = vectors \cup NewVectors(p)
    /\ Finish(p)
    /\ UNCHANGED <<storeVars, lexical, overtaken>>

\* A constraint, a lock or the provider raises, or the process is killed:
\* nothing of the transaction under way is written.
Fail(p) ==
    /\ pc[p] # "idle"
    /\ Finish(p)
    /\ UNCHANGED <<storeVars, indexVars, overtaken>>

----------------------------------------------------------------------------
(* The documents                                                           *)

\* Deleted documents take their chunks and vectors with them.
Cascade ==
    /\ lexical' = {c \in lexical : documents'[c.doc] # None}
    /\ vectors' = VectorsWithin(lexical')

DocumentsOf(s) == {d \in Documents : SourceOf[d] = s}

\* apply_scan: documents are inserted, updated in place or deleted.
Publish(s) ==
    /\ s \in live
    /\ \E new \in [DocumentsOf(s) -> Versions \cup {None}] :
         documents' = [d \in Documents |->
                         IF SourceOf[d] = s THEN new[d] ELSE documents[d]]
    /\ Cascade
    /\ UNCHANGED <<live, procVars, overtaken>>

Without(s) == [d \in Documents |-> IF SourceOf[d] = s THEN None ELSE documents[d]]

DeleteDerived(s) ==
    /\ s \in live
    /\ documents' = Without(s)
    /\ Cascade
    /\ UNCHANGED <<live, procVars, overtaken>>

Revoke(s) ==
    /\ s \in live
    /\ live' = live \ {s}
    /\ documents' = Without(s)
    /\ Cascade
    /\ UNCHANGED <<procVars, overtaken>>

----------------------------------------------------------------------------
Index(p) ==
    \/ \E scope \in Scopes :
         \/ RebuildRead(p, scope)
         \/ \E provider \in Providers : VectorRebuildRead(p, scope, provider)
    \/ \E s \in Sources, provider \in Providers : SyncRead(p, s, provider)
    \/ RebuildWrite(p)
    \/ SyncCompare(p)
    \/ SyncWrite(p)
    \/ VectorRebuildWrite(p)
    \/ VectorSyncRead(p)
    \/ VectorSyncWrite(p)
    \/ Fail(p)

Store(s) == Publish(s) \/ DeleteDerived(s) \/ Revoke(s)

Next == (\E p \in Procs : Index(p)) \/ (\E s \in Sources : Store(s))

Spec == Init /\ [][Next]_vars

----------------------------------------------------------------------------
(* What the indexes promise                                                *)

\* Every chunk maps to a document that is stored and every vector to a
\* chunk (product-requirements.md, NFR-04), whatever was deleted while an
\* index operation was computing what it is about to write.
IndexIsTraceable ==
    /\ \A c \in lexical : Stored(c.doc)
    /\ \A v \in vectors : v.chunk \in lexical

\* A document never has two chunks for one place.
PlacesAreUnique ==
    \A a, b \in lexical : a.doc = b.doc /\ a.ordinal = b.ordinal => a = b

IsWhole(rows, d) ==
    LET own == {c \in rows : c.doc = d}
    IN  own = {} \/ \E v \in Versions : own = ChunksIn(d, v)

\* Search sees a document as it was at some time, not a mixture of what it
\* was at two times: rebuilds may race each other and publications, and one
\* alone tears a document, an index-sync that was overtaken between its
\* reads and its write.
DocumentsAreWhole ==
    \A d \in Documents : SourceOf[d] \notin overtaken =>
        IsWhole(lexical, d)

\* An index-sync that was not overtaken leaves the index of its source as a
\* rebuild would, although it deletes and inserts only what differs.
IndexSyncIsExact ==
    [][\A p \in Procs :
          pc[p] = "syncing" /\ pc'[p] = "synced" /\ Lexical(job[p].scope) = job[p].existing
            => Lexical(job[p].scope)' = job[p].rows]_vars

\* A vector goes with its chunk, in a lexical rebuild of its source or in a
\* vector rebuild of its source and provider: index-sync retains the vectors of
\* the chunks it retains, and no provider takes those of another.
VectorsGoWithTheirChunks ==
    [][\A v \in vectors \ vectors' :
          \/ v.chunk \notin lexical'
          \/ \E p \in Procs :
               /\ pc'[p] = "idle"
               /\ Covers(job[p].scope, v.chunk.doc)
               /\ \/ pc[p] = "rebuilding"
                  \/ pc[p] = "re-embedding" /\ v.provider = job[p].provider]_vars

----------------------------------------------------------------------------
(* What the promises rest on: IndexInvariant is inductive.                 *)

\* A process that writes the lexical index is about to write documents as
\* they were at some time, all of the scope it asked for.
JobFitsItsStage(p) ==
    /\ pc[p] \in {"rebuilding", "comparing", "syncing"} =>
         /\ job[p].scope \in Scopes
         /\ \A d \in Documents : IsWhole(job[p].rows, d)
    /\ pc[p] = "re-embedding" =>
         job[p].scope \in Scopes /\ job[p].provider \in Providers
    /\ pc[p] \in {"comparing", "syncing", "synced", "embedding"} =>
         job[p].scope \in Sources /\ job[p].provider \in Providers
    /\ \A c \in job[p].rows \cup job[p].existing : Covers(job[p].scope, c.doc)

IndexInvariant ==
    /\ TypeOK
    /\ \A p \in Procs : JobFitsItsStage(p)
    /\ IndexIsTraceable
    /\ PlacesAreUnique
    /\ DocumentsAreWhole
=============================================================================
