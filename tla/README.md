# A verification of mini_GL

mini_GL keeps a local, private index of a user's text files and chat exports: it
synchronises registered directories into a SQLite file, builds a lexical and a
vector index from it, answers questions from the indexed passages with a local
model, and gates the actions an agent may take. Everything runs on one machine,
but not in one process: the web server is a `ThreadingHTTPServer`, and every
request (and every CLI command) opens the database file for itself. What can go
wrong is therefore what goes wrong between connections: a row read in one
statement and used in a later one, a recovery that meets a run that is not dead,
a source revoked under a job that still writes to it, a process that dies
between two commits.

Contents: 1 inventory; 2 modules; 3 the models and the code; 4 what the runs
check; 5 what is proved; 6 disagreements found; 7 what is not modelled; 8 plan.

## 1. Inventory

Paths are below `src/src/mini_gl/`.

| Part | State | Operations | Interacts with | Hard behaviour | What makes it correct |
|---|---|---|---|---|---|
| Synchronisation store: `storage/sqlite.py`, `ingestion.py` | tables `sources`, `sync_runs`, `file_state`, `documents`, `change_events`, `staged_files` | open and recover, register, sync, resume, pause, delete-derived, revoke | every other part writes through it | every connection recovers the runs of all others; status checks precede the transactions they guard; crashes between commits | a snapshot is replaced as a whole, by one run, which the cursor names and whose events explain it; nothing outlives its source |
| Schema migration: `SQLiteStore._migrate` | `user_version`, the tables themselves | one script per version | runs at every open, before anything else | statements commit one by one; several processes migrate at once | no row is lost; the database opens again; whoever opened it finds its tables |
| File connector and text parser: `connectors/`, `parsers/text.py`, `security/paths.py` | none (reads the file system) | walk, authorise, read, decode | yields the files of a scan | files change, vanish or become links or pipes during the walk, also between the check of a path and its use | a scan is complete or fails; what it read of a file is the file of one moment, and the one it had checked |
| Chat import: `chat_import.py`, `parsers/chat_json.py` | none (reads one export) | validate, sort, split into windows | register, start_run, apply_scan | the export is written while it is read; boundaries of windows | every message is in one window; windows respect size and gap; an import stores one export |
| Lexical index: `retrieval/lexical.py` | table `lexical_chunks` | rebuild, sync, search | reads `documents`, cascades from it | reads in several statements, writes later | chunks map to stored documents; a document is indexed whole; incremental equals rebuilt |
| Vector index: `retrieval/vector.py`, `indexing/embeddings.py` | table `vector_chunks` | rebuild, sync, search | reads `lexical_chunks`, cascades from it | embedding takes long before the write | vectors map to chunks and survive with them |
| Retrieval and answers: `retrieval/hybrid.py`, `generation/` | locals of one question | search, build a context, ask the model, check its answer | reads the indexes while others change them | budget arithmetic, bisection, citation labels, stale hits | the context keeps its budget and shows what is stored; a failed check abstains; every question ends |
| Action workflow: `agent/workflow.py` | table `agent_action_workflows` | prepare, confirm, start, complete, fail, compensate, recover | gated by the policy; cascades from `sources` | tickets that expire; two executors; recovery that meets a live simulation | an operation is carried out at most once, a destructive one only confirmed |
| Policy and audit: `agent/policy.py`, `record_agent_decision`, `LocalWebConsole._authorize_read` | table `agent_action_audit`, one random key per engine | evaluate, verify, record | decisions enter the workflow; reads of the console leave evidence | decisions are kept, altered, passed on; revocation between check and insert | fail closed; a workflow was permitted by all authorities; no read without evidence |
| New files: `maintenance.py`, `adapters/synthetic_chat.py` | files beside the database | backup, restore, convert | copies a database in use | the target is checked before it is created; the process dies while it copies | no existing file is replaced; what is reported is sound; a restore gives back what was backed up |
| Front ends: `web.py`, `cli.py` | session token, shared embedding provider | one operation per request | all of the above | concurrency of requests | |

PROJECT.json lists every part with what is modelled of it, and every hazard at
the line where it bites with the properties aimed at it.

## 2. Modules

| Module | What it is |
|---|---|
| `SyncStore` | the synchronisation store, statement by statement, any number of processes |
| `SnapshotLedger` | what the store promises, with no processes; `SyncStore` implements it |
| `DirectoryScan` | one walk over a directory that its user goes on changing, with `parse_text` and `PathPolicy` |
| `TextSplitting` | `split_chunks` and `split_conversation` as folds, and what their results have to be |
| `ChatImport` | imports of a chat export that changes, from the first stat to the commit |
| `AgentPolicy` | decisions: evaluated, signed, passed on, altered, recorded as evidence, presented |
| `AgentWorkflow` | the action workflow, any number of processes, with tickets and a clock |
| `ActionLedger` | what the workflow promises of one operation; `AgentWorkflow` implements it |
| `IndexedStore` | the lexical and the vector index over documents that change as `SnapshotLedger` says |
| `RAGService` | one question: search, context, model, checks, over an index that changes |
| `NewFiles` | backup, restore and convert over paths that others create and remove |
| `DatabaseSchema` | opening a database of any version: the migration scripts |
| `MC...` | instances for TLC: concrete functions for constants, and symmetry |
| `...Proofs` | theorems about `SyncStore` and `DatabaseSchema` (the two parts of `SQLiteStore`, in `SyncStoreProofs`), `AgentWorkflow`, `AgentPolicy`, `IndexedStore`, `RAGService`, `DirectoryScan`, `NewFiles` and `ChatImport` |

How they compose. `SyncStore` takes what a scan returns as one step, `Scan`;
`DirectoryScan` looks into that step and shows what `Scan` may rely on: a result
is complete, and each file in it is one content, unless a write hides from `stat`
or the place of the file was taken while it was opened. `ChatImport` is the second writer of the store: it takes the store as
`SnapshotLedger` (INSTANCE, with its own rows), which `SyncStore` implements (and
so do the imports: `ImportImplementsLedger`), and its windows from
`TextSplitting`. `IndexedStore` takes documents from the abstract ledger too: a
step of a publication replaces a source's documents as a whole, which is what
`StoreImplementsLedger` proves of the store; its instance for TLC takes its chunks
from `TextSplitting`. `RAGService` takes the index from `IndexedStore` in the same
way: any set of chunks may be there at any step, with vectors only of chunks that
are (`IndexStaysTraceable`). `AgentPolicy` ends with the row that `AgentWorkflow`
begins with. `SyncStore`, `AgentPolicy` and `AgentWorkflow` share the rows of
`sources` and meet in revocation, which each of them models. `NewFiles` is about
whole database files, and `DatabaseSchema` lies below all of them: the other
modules start where it ends, with the newest schema.

## 3. The models and the code

### What is one step

Python's `sqlite3` begins a transaction at the first INSERT, UPDATE or DELETE of
a `with connection:` block and holds the write lock to its end; a SELECT before
that is no part of it. A block is therefore one action, and a SELECT whose
result is used in a later block is an action of its own that stores the result
in `job`. `executescript` is different: it runs outside a transaction, so in
`DatabaseSchema` every statement is an action. Uncommitted rows are visible to
nobody, so `staged_files`, which is filled and emptied within one transaction,
is present through the keys it enforces (`Accepted`).

Constraints of tables are part of the code's logic and are modelled where they
decide: UNIQUE(root_path), the key of `staged_files`, the foreign keys with ON
DELETE CASCADE, UNIQUE(document_id, ordinal), PRIMARY KEY(chunk_id, provider),
UNIQUE(idempotency_key, action, source_id).

### SyncStore

`pc[p]` is where the connection of process p is; `job[p]` holds its locals
(source, run, files of the scan).

| Code | Actions |
|---|---|
| `SQLiteStore.__init__`, `recover_interrupted_runs` | `OpenSelect`, `Recover` |
| `register_source` | `RegisterLookup`, `RegisterInsert` |
| `IngestionService.sync`, `resume`, `start_run` | `SyncRequest`, `ResumeRequest`, `StartCheck`, `StartRefused`, `StartInsert` |
| `LocalFileConnector.scan` | `Scan` (any mixture of contents), `ScanFails` |
| `apply_scan` | `ApplyCheck`, then `ApplyCommit` or `ApplyRollback` |
| `fail_run` | `FailRun` |
| `set_source_paused`, `delete_derived_data`, `revoke_source` | `SetPaused`, `DeleteDerived`, `Revoke` |
| a killed process, an exception outside `try` | `Crash` |

### AgentWorkflow

| Code | Actions |
|---|---|
| `ActionWorkflow.__init__` | `Open` (fails every simulation) |
| `prepare` | `PrepareLookup`, `PrepareInsert`, `PrepareReturn` (a crash before it loses the ticket) |
| `confirm` | `ConfirmCheck`, `ConfirmWrite` |
| `start_simulation`, `complete_simulation`, `fail_simulation`, `compensate_simulation` | `StartSimulation`, `FinishSimulation` (by any caller, with either outcome), `Compensate` |
| `revoke_source` | `RevokeSource` |
| the clock, a process that ends | `Tick`, `Stop` |

A ticket is 256 random bits, so it is identified with its workflow and known to
whom it was returned (`tickets`). Starting and finishing are two calls: whoever
knows a workflow may say that it succeeded or failed, while another says the
opposite, and nobody has to. `wins` is a history variable: how many callers
were told that their call succeeded.

### IndexedStore

`rebuild` is `RebuildRead`/`RebuildWrite`; `sync` of the lexical index is
`SyncRead`, `SyncCompare`, `SyncWrite` (documents, existing rows, transaction);
the vector index is `VectorRebuildRead`/`Write` and `VectorSyncRead`/`Write`. Both
rebuilds are of one source or of all (`All`), the vector rebuild of one provider.
A chunk is identified by document, ordinal and text, as the hash that is its id.
`overtaken` is a history variable: the sources whose index was last written by an
index-sync whose comparison was no longer true when it wrote.

### RAGService

`LexicalSearch` and `VectorSearch` return any hits that are stored, `Gate` drops
those the evidence gate drops, `SkipChunk`, `StopSelecting`, `TakeWhole`,
`StartCut`, `Narrow` and `Cut` are the loop of `ContextBuilder.build` with the
bisection of `_fit_tokens` step by step, `Generate` returns any answer, and
`Accept`, `Abstain` and `FailCheck` are the outcomes of the two checks. A text
is a sequence of kinds of characters, from which `TokenCount` counts tokens as
`ConservativeTokenCounter` does (a CJK character or a mark is one, a word one
per four characters). A sentence of an answer has the labels it cites, its terms
and what its vector is close to. `IsSupported` pools the terms of all sections the
sentence cites, as `_claims_supported` does, and lets it pass when it shares one of
`TermShare` of its terms with them (20 in the code, 2 in the runs), or when one of the
sections is close to it. `Reindex` changes the index at any step; `since` is a
history variable, the chunks that were in the index at some time since the turn of
the chunk in hand began.

### DirectoryScan

| Code | Actions |
|---|---|
| `LocalFileConnector.__init__` and `scan`, `authorize_root` | `Start`, `Leave` |
| `_scan_directory` | `Enter` (depth, link), `List` (`os.scandir`), `Visit` (one entry) |
| `PathPolicy.authorize` | `Authorize` |
| `parse_text` | `Stat`, `OpenAndRead` (over a link too; it may wait for a pipe), `ReadRest`, `Compare` |
| the user | `Replace` (moves away, puts in place, moves back), `WriteFile`, `Feed` (a pipe) |

`at` says what is at each place: a file, a directory, a link, something else, or
nothing. A file keeps its identity wherever it is moved, and whoever has opened it
goes on reading it. The kinds in a listing are those of the moment it was made, as
`DirEntry.is_dir` and `is_file` answer from it; what `lstat`, `stat` and `open` see is
what is there by then, and `open` follows a link to any file. A file has a
`version` (its content), a `size` and a `stamp` (its mtime); a write may, within the
clock's resolution, keep size and stamp, which the history variable `unseen`
remembers. A result remembers which file was authorised, which one the first `lstat`
saw, which one was opened, and whether the place was taken by something else in
between (`swapped`).

### TextSplitting

`SplitChunks` folds `AddPart`, the body of the inner loop of `split_chunks`, over
the parts of all paragraphs; `SplitConversation` folds `AddMessage` over the
messages. Characters are pairs of paragraph and place, so a lost, doubled or
moved one shows. `ChunksAreRight` and `WindowsAreTight` say what the results have
to be without the pass.

### ChatImport

| Code | Actions |
|---|---|
| `authorize`, `read_stable_json` | `FirstStat`, `Open`, `Read` (any mixture), `Parse` (second stat, validation, sort), `Reject` |
| `register_source`, `start_run` | `Register`, `StartRun` |
| `_documents`, `split_conversation` | `Split` |
| `apply_scan`, `fail_run` | `Publish`, `FailRun` |
| a killed process, the user | `Crash`, `Edit`, `Withdraw` |

`validate_messages` sorts by time and id; `Sorted` puts each message at its rank,
the number of messages that come before it (with its place breaking ties, as a
stable sort does), which says what a sort returns without saying how.

### AgentPolicy

| Code | Actions |
|---|---|
| `PolicyEngine.evaluate`, `_decision` | `Evaluate` |
| `record_agent_decision` | `RecordCheck`, `Record` |
| `LocalWebConsole._authorize_read` and the read it guards | `ReadCheck`, `ReadRecord`, `Read` |
| `ActionWorkflow.prepare`, with `verify` | `PrepareCheck`, `Prepare` |
| callers and processes | `PassOn` (also of a copy with any field altered), `Restart` (a new key), `Fail`, `Revoke` |

A hash or a signature stands for what it is computed from: an event id for a
payload, a tag for a payload and the engine that signed it. Both are fields of a
decision beside the payload it shows, and each may be replaced in a copy;
`Verified` is what computes them again, `record_agent_decision` does not. A row of
evidence is an event id with a payload, which need not fit. Two histories: `granted`,
in the tag, says that all authorities had permitted the operation when it was signed;
`spoiled` are the event ids under which something else has been recorded, so that
INSERT OR IGNORE drops the evidence that fits.

### NewFiles

| Code | Actions |
|---|---|
| `backup_database`, `restore_database`, `convert_export`: their checks | `Begin`, `CheckSource`, `CheckTarget` |
| `_copy_verified` | `Connect` or `ConnectFails`, `Copy` or `CopyFails`, `Verify`, `Succeed` |
| the exclusive `open` of `convert_export` | `OpenExclusively`, `Write`, `Succeed` |
| a killed process; other programs; the database in use | `Crash`, `OthersCreate`, `OthersRemove`, `Commit` |

A path leads to an inode and a process keeps the one it opened. What an operation
reports (`Reported`) is what its target path leads to for a copy, which is opened
again to be verified, and what it wrote for a conversion, which never looks at the
path again. `contested` is a
history variable: the paths at which a file appeared after an operation had found
nothing there and before it was done.

### DatabaseSchema

`Scripts` lists the statements of the eight scripts; `at[p]` is the script and
statement of a process. `CanRun` is when SQLite refuses a statement, `After` what
it does to the set of tables, indexes and added columns; `RunAlone` folds the
scripts (`ScriptAlone`), and each the statements of one (`StatementAlone`), over a
schema, which defines both the databases an older application left behind
(`SchemaOf`) and whether a database can be opened again. Two history
variables name the exceptions: `overtaken`, a statement ran although the
database was already past its script; `halfway`, a script that creates tables
unconditionally was left in the middle.

## 4. What the runs check

Every run is exhaustive over its instance. Deadlock is checked in all but two:
in `files_race` every process runs one operation and ends, and in `chat_race` the
changes of the export are bounded and nothing goes on without a file.

| Run | Instance | Properties | What it shows |
|---|---|---|---|
| `sync_race` | 2 processes, 1 source, 3 runs, 2 paths, 2 contents | `CursorExplainsSnapshot`; `EventsDescribeTheChange` | three synchronisations race recovery, deletion and revocation with crashes anywhere |
| `sync_refines_ledger` | 2 processes, 2 uuids for one root, 2 runs, 2 paths that casefold to one object | `OneSourcePerRoot`, `RowsAreKeyed`, `NothingOutlivesItsSource`; `LedgerSpec`, `RunsAreSettled` | every request, registration again after revocation, case twins; refinement, and with fairness no run stays RUNNING |
| `scan_edit` | a root with a place beside a directory with another, depth 1, 2 files (one too large), 2 edits; every tree over these | `ScansAreComplete`, `ReadsAreWhole`; `ScansEnd` | a scan that succeeds is complete, and whole but for what took the place of a file in between; it ends, or waits for a pipe that was put there |
| `chat_race` | 2 processes, 5 exports of 3 or 4 messages, windows of 3, gap 2, 2 edits | `ConversationsAreSound`, `NothingIsLeft`; `ImportsAreOneExport`, `EarlierWindowsAreKept` | two imports of one export that changes under them, with deletion, revocation and crashes |
| `index_race` | 2 processes, 1 document in 3 versions (one a prefix of another), 2 providers; texts of up to 3 paragraphs of 1 to 9 characters, limit 4 | `IndexIsTraceable`, `DocumentsAreWhole`, `ChunksPartitionTexts`; `IndexSyncIsExact`, `VectorsGoWithTheirChunks` | every interleaving of rebuild, index-sync, embedding, publication, deletion and revocation, over chunks that `split_chunks` makes |
| `answer` | 3 chunks (two of equal content, one too long for the rest of the budget), all of which a search may return, budget 6, 2 sections, 5 answers, one for each outcome of the checks | `ContextKeepsItsBudget`, `CutsAreLongest`; `EvidenceIsStored`, `QuestionsEnd` | the context keeps its budget and shows nothing that was gone before its turn; the bisection is exact and ends |
| `policy_gate` | 2 processes, an action of each risk, with and without a key, 2 authorities, 1 restart, copies with another action, key and status, 1 row of evidence by callers | `WorkflowsWereGranted`, `ReadsLeaveEvidence`, `NothingOutlivesItsSource` | decisions passed on, altered, recorded and kept around a restart, reads and a revocation |
| `agent_race` | 2 processes, a reversible and a destructive operation on 2 sources, 3 workflows, clock 0..1 | `CallsWinOnce`, `DestructiveRunsOnlyConfirmed`; `LedgerSpec`, `SimulationsSettle` | all races of the workflow; it implements `ActionLedger` |
| `files_race` | 2 processes with one operation each, 3 paths (one of the database in use), 4 inodes, 1 commit | `ReceiptsAreSound`, `RestoresGiveBackTheBackup`, `UnfinishedOutputsAreRemoved`; `OthersFilesAreKept` | a backup, restore or conversion beside another one, other programs and crashes |
| `schema_open` | 2 processes, a database of every version 0..8, a vector row, an audit row and one of a revoked source | `SchemaTypeOK`, `RowsSurviveMigration`, `ReopensAtRest`, `OpenFindsItsTables` | competing and interrupted migrations |
| two runs that end in a violation | | see section 6 | |

Where a type invariant is a theorem (section 5) no run repeats it, but for
`SchemaTypeOK`, which also says which objects a schema may have; and neither do runs
repeat the parts of an inductive invariant that are only steps of a proof.

Why the bounds are enough to be interesting. Every race in the code is between
one connection that holds a stale read and another that writes: two processes
show each of them, and three runs let a third synchronisation follow two that
raced. Two paths and two contents give every kind of event (created, updated,
unchanged, deleted) for one object while another does something else. Two edits
in `scan_edit` let something be replaced and put back behind the walk; the
deeper directory is one level beyond the depth allowed (`Depth` is a constant, one
more than that of the parent by assumption, so that no definition recurses). The exports of
`chat_race` differ by a message at the end (a new window), by one within (which
fills a window and moves every later one), by an id used twice and by a reply to
nothing. The versions of the indexed document are one chunk, its extension by a
chunk and an unrelated one, which is what an upsert keeps, extends and replaces;
paragraphs of 1, 4, 5 and 8 characters lie on both sides of the limit of 4 and of
its multiples, with and without the separator. In `answer` the long content needs
the bisection in every context it follows, its word of five characters crosses
the boundary of a token, and label 0 is the one that Python would take for the
last section. In `policy_gate` two operations, one without a key, and the reads
reach every verdict, one restart makes a decision of a former engine, and one row by
callers is enough to spoil the event of a read; the source of a decision is altered
by no copy there, which the theorem covers. Three workflows let an operation be
prepared again after its first row is gone. Four
inodes are the database, a file of any kind that was there, and one for each
operation. Two processes reach the case where the slower migration re-creates a
table in the gap of the faster. Bounds that are in the model rather than in a
cfg: uuids are drawn from `SourceIds`, `RunIds` and `Workflows` (which bounds how
many are ever used), files from `Inodes`, the clock stops at `MaxTime`.

Symmetry (of processes, uuids, contents, files, paths and providers) is used only in
runs without liveness properties. The properties of each run were checked to be
sensitive: each has a mutant of the modelled code, defined beside what it mutates,
that violates it.

### Fairness

- `SyncStore!FairSpec`: a request under way continues (`WF Continue`: the thread
  is scheduled), idle processes open the database again some day and a request
  that only reads returns (`WF OpenSelect`, `WF Close`), and processes do not die
  in every single recovery (`SF Recover`). The web console opens the database on
  every request, which is what makes "some day" reasonable; without any further
  open an abandoned run does stay RUNNING, which is why `RunsAreSettled` needs
  it. No fairness is assumed of scans succeeding, of users or of crashes.
- `DirectoryScan!FairSpec`: the thread that walks is scheduled (`WF Walk`). The
  user is bounded by `MaxEdits`, which is what keeps a walk from following a
  directory that grows faster than it is read. Nobody has to write to a pipe
  (`Feed`), so a walk that opens one may wait for ever, which `ScansEnd` says.
- `AgentWorkflow!FairSpec`: a process that stopped is some day started again
  (`WF Open`), and nothing else. The executor that calls `complete_simulation` or
  `fail_simulation` is no part of the repository, so nobody is assumed to call
  back, to confirm, to start or to compensate; a simulation that no restart follows
  stays "simulating".
- `RAGService!FairSpec`: the answering thread runs (`WF Answer`). The model call
  is bounded by a timeout in `generation/local_http.py`, so `Generate` or `Raise`
  happens.

`IndexedStore`, `ChatImport`, `NewFiles`, `AgentPolicy` and `DatabaseSchema` have no
liveness property: their operations are straight lines of statements, and each
loop in them is over what has been read already.

## 5. What is proved

With TLAPS, for every value of the constants (any number of processes, sources,
runs, paths, chunks, any texts, trees, budgets and answers):

| Module | Theorems |
|---|---|
| `SyncStoreProofs` | `TypeCorrect`, `RowsStayKeyed`, `RootsAreUnique`, `RevocationIsComplete`, `UnsuccessfulRunsAreSilent`, `CursorsExplain`, `OutcomesStay`, `SnapshotsMoveWithCursors`, `EventsAreTheChange`, `StoreImplementsLedger`; of `DatabaseSchema`: `SchemaTypeCorrect`, `RowsAreKept`, `TablesAreReplacedByOne`, `DatabasesReopen`, `OpenedIsCurrent` |
| `AgentWorkflowProofs` | `TypeCorrect`, `OneWorkflowEach`, `TransitionsAreWonOnce`, `DestructionIsConfirmed`, `WorkflowsFollowTheirSource`, `WorkflowImplementsLedger` |
| `IndexedStoreProofs` | `TypeCorrect`, `IndexStaysTraceable`, `PlacesStayUnique`, `OnlyOvertakenSyncsTear`, `IncrementalIsExact`, `VectorsStayWithChunks`, `SplitChunksIsRight`, `ChunksKept` |
| `RAGServiceProofs` | `TypeCorrect`, `BudgetIsKept`, `BisectionIsExact`, `EvidenceStaysStored` |
| `DirectoryScanProofs` | `TypeCorrect`, `FilesAreReadWhole`, `ScanReadsEverything` |
| `AgentPolicyProofs` | `TypeCorrect`, `WorkflowsAreGranted`, `ReadsAreEvidenced`, `RevocationTakesEverything` |
| `NewFilesProofs` | `TypeCorrect`, `SoundReceipts`, `UnfinishedOutputsGo`, `FilesOfOthersAreKept`, `BackupsAreGivenBack` |
| `ChatImportProofs` | `InvariantHolds`, `TypeCorrect`, `SnapshotsPassedTheChecks`, `ConversationsStaySound`, `ImportsStoreOneExport`, `ImportsHoldOneExport`, `EarlierWindowsStay`, `RunsStayTheirs`, `RevokedKeepNothing`, `ImportImplementsLedger` |

Most state a property that a run checks. Proved and not run, because the run of
the module asks for what is harder to get right: `OnlySuccessHasEvents`,
`OutcomesAreFinal` and `SnapshotMovesWithCursor` of the store,
`OneWorkflowPerOperation` and `NothingOutlivesItsSource` of the workflow,
`PlacesAreUnique` of the index, and the type invariants.

Assumptions are those named in the modules: that `None` and the like are none of
the values they stand beside (`NewFiles`: no process, path or inode), that
functions have the types their comments say, that the sets of chunks are finite
and chunks not empty (`split_chunks` returns no empty one), that bounds, budgets
and limits are natural numbers, that a stripped paragraph that is kept is not empty
and the limit of a chunk not 0, that a denial cites nothing, that a directory
entry is one level below its directory, and that rows of revoked sources are in
the two tables that had no cascade once.

The arguments:

- **SyncStore.** `StoreInvariant` adds to the promised invariants what they rest
  on. `RunsHaveOneDriver`: a run is driven by the process that drew its uuid and
  by no other, has no row before that process inserts it, and while the process
  is active is RUNNING, ABORTED by someone's recovery, or gone. That is what
  makes the unconditional UPDATE at the end of `apply_scan` harmless for outcomes
  (`OutcomesAreFinal`) although it is not for aborted runs. `CursorExplainsSnapshot`
  is kept by a commit because a committing run has no events yet (it is not
  SUCCEEDED, and only successful runs have events). Each is preserved by a lemma
  of its own (`TypeStep`, `DriverStep`, `ReferencesStep`, `CursorStep`, ...), and
  the action properties follow from the invariant.
- **The events of a publication** (`EventsDescribeTheChange`). The hashes an object
  has in a table (`HashesOf`) are none or one, by `RowsAreKeyed`; a step that adds
  events is a commit, whose kinds (`NewEvents`) are read off the same two sets of
  rows that are the snapshot before and after it.
- **The ledger of snapshots.** `PhaseOf` maps RUNNING and ABORTED to "open", since
  the code publishes runs in either; with that mapping every step of the store is
  one step of the ledger or leaves it as it is (`StepRefines`).
- **AgentWorkflow.** `WinsFitState` ties the history of successful calls to the
  state of the row: in "ready" nobody was told that it started, and so on. The
  conditional UPDATEs preserve it, and `CallsWinOnce` follows.
- **The ledger of actions.** The mapping picks the one row of an operation
  (`OneWorkflowPerOperation` makes it unique); lemmas say what a moved, an
  inserted and a deleted row does to it.
- **IndexedStore.** `JobFitsItsStage` says that a process about to write holds
  rows that are whole, of documents as they were, within its scope. A rebuild
  deletes its scope and inserts such rows (`IndexRebuilt`); an index-sync that was
  not overtaken leaves exactly what it read (`SyncWritesRows`). Which step takes a
  vector is a question of cascades: by cases over the steps, its chunk goes with
  it, or the step is the write of a lexical rebuild of its source, or that of a
  vector rebuild of its source and its own provider.
- **split_chunks** (`SplitChunksIsRight`, in `IndexedStoreProofs`, for a text of any
  number of paragraphs of any lengths and any limit; `ChunksKept` is the invariant of
  the run). The parts of one paragraph start and end where division says
  (`Multiples`), so together they are the paragraph (`PartsCutOne`), and those of all
  paragraphs are the text (`PartsCutText`). `SplitsParts` is the invariant of the
  pass: the chunks written so far hold the parts taken so far, in order, are whole
  and within the limit, none has room for the first part of the next, and the last
  chunk is at least as long as the last part and ends with it. That last conjunct is
  why a chunk tears no paragraph: all parts of a paragraph but its last are of full
  length, so a part that fits begins another paragraph, and the separator is right.
- **RAGService.** While `_fit_tokens` bisects, the longest prefix that fits is
  between `low` and `high` (`Bisecting`). `TokenCount` is a cardinality, so that it
  grows with the prefix is a fact about subsets (`CountIsMonotone`) and needs no
  induction. The budget is kept by relating each section to what was left before
  it (`Left`) rather than by a sum. A context grows by two steps only, and in both
  the chunk was in the index after its turn began (`OnlyStoredAreAdded`): one reads
  it in that step, the other bisects a row that it had read (`Bisecting`).
- **DirectoryScan.** A file's stamp never passes its version (`StampsFollow`), and
  while the stamp is the one the first `lstat` saw, the file was not written to, unless
  the file system did not show it (`unseen`; `SameStampSameContent`). The identity that is compared names the file, so
  it is the same one before and after; and the file that was opened is that one too,
  unless the place was taken in between, because as long as it was not, what is
  there is what `authorize` saw (`HandIsAuthorized`).
  `ScansAreComplete` needs to know what is not on the walk's stack any more.
  `WalkInv` relates each directory to the entries of its listing that are done, on
  the stack or still to come, so that at the end every entry of every directory
  that was listed is handled. That each steady directory was listed is shown by a
  least number: of those that were not, take one of least depth (`LeastNat`); its
  parent was listed.
- **ChatImport.** Two arguments, one about control and one about data. Control: an
  import whose first `stat` returned the identity that is still there saw the
  content that is still there, or the change was one without a new identity
  (`SameIdentitySameExport`); a reader that began and ended in one content has that
  content (`MixtureOfOne`). So what `Parse` lets through is an export the file held
  since the import began, and valid; the later steps carry it along sorted, then
  split (`ImportFits`), and a publication is the only step that stores something.
  `SnapshotsPassedTheChecks`: what is stored of a source is nothing, or the
  windows of one sorted export that passed the checks.
  Data: what sorting, splitting and joining return. A rank is a bijection of the
  places (`RankIsOnto`), so sorting loses and doubles nothing, and what is sorted
  stays as it is (`SortedIsIdempotent`). The windows that `SplitConversation` has so
  far are tight after each message (`AddMessageIsTight`), hence at the end, and
  joined they give the conversation back (`WindowsHoldTheConversation`). That makes
  what is stored sound (`ConversationsStaySound`) and, with the control argument, the
  sorted messages of one export (`ImportsHoldOneExport`). `EarlierWindowsAreKept`
  compares two exports: a pass over a common beginning has the same windows, and a
  message added later settles all of them but the last (`NextMessageSettles`,
  `SettledWindowsStay`).
  The refinement needs to know whose run a publication commits. `RunsFit`: no two
  imports hold one run, the run an import holds is open and its source's unless a
  withdrawal has forgotten it, and of a source that is not registered there is no
  run and no row (`RunsStayTheirs`). With it each step of an import is a step of
  `SnapshotLedger` or a stutter, with the windows of valid exports as rows
  (`ImportImplementsLedger`), and a publication finds its source registered, so that
  a withdrawn source keeps nothing (`RevokedKeepNothing`).
- **AgentPolicy.** Whoever made the decision a process holds, a tag that does not
  say "deny" was put on it by an engine while every authority permitted the
  operation (`SignedSoundly`); altering the copy, in whatever field, leaves the tag as
  it is. What a process holds between its check and its insert of a workflow is what
  the tag says (`HandFitsItsStage`), so that a workflow is never made from an altered
  decision or from one of an engine that has been restarted. Evidence is not checked
  like that: a row whose payload is not that of its event has spoiled the event
  (`SpoiledAreKnown`), and a read finds its evidence unless that has happened.
- **NewFiles.** `Inv` says who made a file. While a target is not contested, it
  leads to nothing or to the file the operation itself created (`HoldsItsTarget`,
  `OwnsItsTarget`), and who holds one inode has one target (`HoldersAgree`); a
  failing operation then removes only its own file. `RestoreInv` adds that what
  was reported done and is uncontested is written by nobody any more: steps that
  write no finished file (`Quiet`) keep it, and for those that write the writer is
  shown to be the only holder of its file.
- **DatabaseSchema.** The scripts are first taken apart (`Script0` .. `Script7`,
  `StatementsFit`): what a statement may be, and what went before it. The copy of a
  table is a lock: CREATE TABLE is refused when the copy is there, RENAME removes
  its name, and nothing between removes it, so of all the processes one at most is
  in between (`OneReplaces`), although nobody meant it for that. While no process
  was overtaken, every script that runs is of the database's version or an older
  one (`VersionsFollow`); whoever inserts has opened the newest version, and whoever
  drops a table after that has been overtaken. So what was copied is still complete
  when a table is dropped by its version's own script (`CopiesAreComplete`). That rows of revoked sources are gone
  does not rest on that: they are in no copy, and in the tables of the last script
  only before their DROP (`OrphansGo`).
- **Databases at rest** (`DatabasesReopen`, `OpenedIsCurrent`). A schema is described
  by its form: for each of the eighteen names, the script that made what has it, or
  `Absent`. Statements are functions of forms (`AfterForm`, `Effects0` .. `Effects7`),
  and so are whole scripts that one process runs alone (`ScriptLeadsOn`). `FormsFit`
  relates the form to the version and to where the processes are: whoever is in the
  middle of one of the first three scripts is alone there; a copy is there exactly
  while someone is between its CREATE and its RENAME; a table is missing only while
  someone is about to put its copy in its place, or before anybody can have made it;
  a table has an old form only while nobody has got past the script that replaces it.
  One kind of race breaks this: another process makes the table anew in the gap
  between DROP and RENAME. Then the RENAME will be refused, which is a disjunct of its
  own (`Doomed`) that lasts until the process leaves and `halfway` becomes true, since
  nobody else can drop that table (`OneReplaces` again). `FormsInv` is the disjunction;
  it needs one lemma per statement (`Script0Fits` .. `Script7Fits`). At rest nobody is
  doomed, so the form fits and is one from which the scripts that are left run
  (`RestReopens`, `RunLeadsOn`); and a process that has opened the database stands for
  all scripts, which leaves one form only (`RestIsNewest`).

Data without induction. The library's induction theorems take an operator as a
parameter, which the provers do not instantiate. The proofs use two facts instead: a
nonempty set of naturals has a least element (`LeastNat`, from the well-foundedness
of < as a relation), hence a set that holds 0 and with k - 1 also k holds every k up to n
(`UpTo`); and the function of a fold, which the community modules CHOOSE, exists
(`FoldExists`, built up to n by `UpTo`), so that a fold is an iteration whose steps
can be followed (`ScriptRuns`, `AloneRuns`, `ConversationRuns`, `SplitRuns`).

Only model-checked: liveness (`RunsAreSettled`, `SimulationsSettle`,
`QuestionsEnd`, `ScansEnd`), which is out of the prover's reach, as is ENABLED. Every
other property of a run that passes is a theorem, for every value of the constants.

## 6. Disagreements found

Two are runs that TLC ends with the violation of one property.

- `sync_aborted_publishes` (`AbortedRunNeverPublishes`): `apply_scan` says "Sync run
  is not active" of a run that is not RUNNING, but it checks before its
  transaction begins; a run aborted in between is published.
- `answer_raises` (`FailedChecksAbstain`): an answer with one cited sentence and one
  line that only denies passes the citation check and makes the claim check take
  `max()` of nothing; the question ends in a ValueError, not in an
  insufficient-evidence answer. (Confirmed by calling the functions.)

The others are visible in the models, whose actions do what the code does, but
have no run of their own:

- The plan of answers wants each sentence supported by "the cited chunk"
  (`docs/phase4-local-rag-plan.md:40`). `_claims_supported` pools the terms of all
  sections the sentence cites (`generation/service.py:138`), so that a sentence
  passes which none of them supports; `IsSupported` does the same.
- `record_agent_decision` compares neither the event id nor the signature with the
  fields it is given, and inserts with OR IGNORE (`storage/sqlite.py:302-329`). A row
  recorded under the event id of a read, but with other fields, makes the evidence of
  that read disappear: `spoiled`, the exception in `ReadsLeaveEvidence`.
- `path.open` comes after `authorize` and follows links (`parsers/text.py:48`). A link
  put in the place of a file in between is followed, and what it leads to is accepted
  when it is as long as the link itself, since `lstat` sees the same link before and
  after; with a pipe in that place the scan waits until somebody writes to it. These
  are `swapped` in `ReadsAreWhole` and in `ScansEnd`.
- A conversion whose write fails leaves its file behind
  (`adapters/synthetic_chat.py:31-33`), and every repetition is refused because the
  target exists.
- When SQLite cannot open the target of a copy, the failure handler removes whatever
  is at the path by then (`maintenance.py:46`, `50-55`; `ConnectFails`), also what
  another program has put there.
- A lexical rebuild deletes, by cascade, the vectors of every provider
  (`retrieval/lexical.py:88`), and the caller computes those of one again.
- Constructing a second `ActionWorkflow` fails, as INTERRUPTED_SIMULATION, the
  simulation another process is working on (`agent/workflow.py:50`): every row in
  "simulating" is taken for the remains of a dead process.
- A ticket that expires between the check and the UPDATE still confirms
  (`agent/workflow.py:117`); the agent plan says that tickets expire
  (`docs/phase8-controlled-agent-plan.md:32`).
- The interface plan says that paused sources reject index actions
  (`docs/phase6-local-ui-plan.md:16`); no index operation looks at `paused`
  (`retrieval/lexical.py:81`, `web.py:241`).
- The reliability plan says that partial outputs are rejected
  (`docs/phase7-reliability-plan.md:16`). A backup that is killed after the target
  was opened leaves an empty file, which is a valid empty database: restoring it
  passes the integrity check.
- A file that another program creates between the check of a target and the
  connection to it is overwritten when it is a database, and deleted with the
  failed output when it is not (`maintenance.py`, `_copy_verified`); `contested`
  in `NewFiles` names that case, and `convert_export`, which opens exclusively,
  does not have it.
- The agent plan derives an event id from idempotency key, action and source
  (`docs/phase8-controlled-agent-plan.md:22`); the code hashes the decision too
  (`agent/policy.py:106`), so that the same request recorded under other
  permissions leaves a second event.
- `_valid_idempotency_key` accepts a UUID in either case (`agent/policy.py:139`),
  and the two spellings are two keys.
- The size and mtime stored beside the windows of a chat come from a `stat` made
  after the export was read (`chat_import.py:43`) and may be those of a later file.
- An index-sync that is overtaken may leave a mixture of two versions of a
  document (the exception in `DocumentsAreWhole`).
- Migration is not safe when it is interrupted or raced (`halfway` and `overtaken`
  in `DatabaseSchema`). TLC shows two behaviours. Rows: two processes read version
  7, one finishes and others write to the new audit table, the slower then drops
  it after having copied it. Blocking: two processes at version 2, the slower
  creates `vector_chunks` between the drop and the rename of the faster, which
  fails, and the copy it leaves behind makes every later open fail (this was
  reproduced against SQLite statement by statement).

## 7. What is not modelled

- Scores (BM25, cosine, rank fusion, reranking): a search returns any stored rows
  in any order, which the properties hold for; ranking quality is measured by the
  project's evaluation, not a matter of correctness.
- The evaluation and benchmark programs, which only read and measure.
- HTTP, the page, argument parsing, output; of the console and the command line
  only which operations they call, in which order and under which checks.
- Contents, titles and metadata beyond what identifies them; which encoding a text
  is decoded with; validation and rendering of the single fields of a chat message,
  and the renaming of fields in the adapters.
- Canonical forms of paths: a path is a node of the tree, and one root is scanned.
  `authorize` with its `resolve` is one step. A link may lead to any file but is not
  told from another link, and a pipe not from another pipe, although `lstat` would.
- Files that grow beyond `max_file_size` between `authorize` and the read; the size
  is checked once, and the model reads them as the code does.
- Which of `file_state` and `documents` has which key: one transaction writes both, and
  the model has rows with path and object for both. That they agree is a conjunct of
  `StoreInvariant` (`SnapshotMirrorsDocuments`) and true by construction there, so it
  is no property of a run.
- The protocols of the local model and of the embedding servers: a call answers or
  fails.
- Which older snapshot loses when two scans race: the later commit wins, and no
  document promises otherwise.
- Durability of SQLite itself: a committed transaction survives, an uncommitted
  one leaves nothing.

## 8. Plan

Every module has its theorems, and each property of a passing run that is not a
liveness property is one of them. What can still be added is of the model: the
parts that section 7 leaves out, first the protocols of the model and embedding
servers, and an order between two scans of one source once a document says which
of them should win.
