------------------------------ MODULE SyncStore ------------------------------
(***************************************************************************)
(* The synchronisation store of mini_gl: storage/sqlite.py, ingestion.py   *)
(* and the result of connectors/local_files.py.  Every process (a CLI      *)
(* command or a thread of the web server) opens the one database file,     *)
(* performs one request and closes it.  What a connection does between two *)
(* points where another connection may write is one action: a SELECT       *)
(* outside a transaction is a step of its own, and a "with connection"     *)
(* block is one step, because sqlite3 begins the transaction at its first  *)
(* write and the write lock is then held to the commit.                    *)
(*                                                                         *)
(* Uncommitted rows are seen by no other connection, so staged_files, which*)
(* apply_scan empties before it commits, is present only through the keys  *)
(* it enforces (see Accepted).                                             *)
(***************************************************************************)
CONSTANTS
    Procs,        \* processes and threads that open the database
    SourceIds,    \* uuids register_source may draw (bounds registrations)
    RunIds,       \* uuids start_run may draw (bounds synchronisations)
    Roots,        \* canonical root directories
    Paths,        \* relative paths of files below a root
    Hashes,       \* content hashes
    ObjectOf,     \* object_id_for: relative path to object, by casefold
    Requests,     \* the kinds of request the processes issue
    None

Objects == {ObjectOf[path] : path \in Paths}

AllRequests ==
    {"register", "sync", "resume", "pause", "delete-derived", "revoke"}

ASSUME RequestsAssumption == Requests \subseteq AllRequests

ASSUME NoneAssumption ==
    /\ None \notin SourceIds
    /\ None \notin RunIds
    /\ None \notin Roots
    /\ None \notin Hashes

VARIABLES
    sources,      \* ids of the rows of table sources
    rootOf,       \* sources.root_path
    paused,       \* sources.paused
    lastRun,      \* sources.last_successful_run_id
    drawnSources, \* uuids drawn so far for sources
    runStatus,    \* sync_runs.status, "ABSENT" when there is no row
    runSource,    \* sync_runs.source_id
    drawnRuns,    \* uuids drawn so far for runs
    fileState,    \* rows of table file_state
    documents,    \* rows of table documents
    events,       \* rows of table change_events
    pc,           \* where each process is in its request
    job           \* the local variables of each process

sourceVars == <<sources, rootOf, paused, lastRun, drawnSources>>
runVars == <<runStatus, runSource, drawnRuns>>
tableVars == <<fileState, documents, events>>
procVars == <<pc, job>>
vars == <<sourceVars, runVars, tableVars, procVars>>

----------------------------------------------------------------------------
FileRow == [source : SourceIds, object : Objects, path : Paths, hash : Hashes]

EventRow == [run : RunIds, object : Objects,
             kind : {"created", "updated", "unchanged", "deleted"},
             hash : Hashes \cup {None}]

Statuses == {"ABSENT", "RUNNING", "SUCCEEDED", "FAILED", "ABORTED"}

Stages == {"idle", "recovering", "open", "registering", "starting",
           "inserting", "scanning", "checking", "applying", "failing"}

Job == [source : SourceIds \cup {None}, run : RunIds \cup {None},
        root : Roots \cup {None}, files : SUBSET FileRow]

NoJob == [source |-> None, run |-> None, root |-> None, files |-> {}]

TypeOK ==
    /\ sources \subseteq drawnSources
    /\ drawnSources \subseteq SourceIds
    /\ rootOf \in [SourceIds -> Roots \cup {None}]
    /\ paused \in [SourceIds -> BOOLEAN]
    /\ lastRun \in [SourceIds -> RunIds \cup {None}]
    /\ runStatus \in [RunIds -> Statuses]
    /\ runSource \in [RunIds -> SourceIds \cup {None}]
    /\ drawnRuns \subseteq RunIds
    /\ fileState \subseteq FileRow
    /\ documents \subseteq FileRow
    /\ events \subseteq EventRow
    /\ pc \in [Procs -> Stages]
    /\ job \in [Procs -> Job]

\* A database that has just been migrated, with every process at rest.
Init ==
    /\ sources = {}
    /\ rootOf = [s \in SourceIds |-> None]
    /\ paused = [s \in SourceIds |-> FALSE]
    /\ lastRun = [s \in SourceIds |-> None]
    /\ drawnSources = {}
    /\ runStatus = [r \in RunIds |-> "ABSENT"]
    /\ runSource = [r \in RunIds |-> None]
    /\ drawnRuns = {}
    /\ fileState = {}
    /\ documents = {}
    /\ events = {}
    /\ pc = [p \in Procs |-> "idle"]
    /\ job = [p \in Procs |-> NoJob]

\* The process closes its connection and forgets its locals.
Finish(p) ==
    /\ pc' = [pc EXCEPT ![p] = "idle"]
    /\ job' = [job EXCEPT ![p] = NoJob]

GoTo(p, stage) == pc' = [pc EXCEPT ![p] = stage]

----------------------------------------------------------------------------
(* Opening the database, SQLiteStore.__init__ and recover_interrupted_runs *)

\* Mutant of OpenSelect: the open does not recover.
OpenWithoutRecovery(p) ==
    /\ pc[p] = "idle"
    /\ GoTo(p, "open")
    /\ UNCHANGED <<job, sourceVars, runVars, tableVars>>

\* The SELECT of RUNNING runs, which no transaction covers.
OpenSelect(p) ==
    /\ pc[p] = "idle"
    /\ GoTo(p, IF \E r \in RunIds : runStatus[r] = "RUNNING"
                 THEN "recovering" ELSE "open")
    /\ UNCHANGED <<job, sourceVars, runVars, tableVars>>

\* Mutant of Recovered: the UPDATE without WHERE status='RUNNING'.
RecoveredAll == [r \in RunIds |->
    IF runStatus[r] # "ABSENT" THEN "ABORTED" ELSE runStatus[r]]

\* The UPDATE, which aborts every run that is RUNNING by now, not only
\* those the SELECT returned.
Recovered == [r \in RunIds |->
    IF runStatus[r] = "RUNNING" THEN "ABORTED" ELSE runStatus[r]]

Recover(p) ==
    /\ pc[p] = "recovering"
    /\ runStatus' = Recovered
    /\ GoTo(p, "open")
    /\ UNCHANGED <<runSource, drawnRuns, job, sourceVars, tableVars>>

\* A request that only reads, or that raises before it writes.
Close(p) ==
    /\ pc[p] = "open"
    /\ Finish(p)
    /\ UNCHANGED <<sourceVars, runVars, tableVars>>

----------------------------------------------------------------------------
(* register_source: look the root up, then insert a row with a fresh uuid  *)

RootIsFree(root) == \A s \in sources : rootOf[s] # root

\* The lookup finds no source at this root (if it finds one, the request
\* only reads).
RegisterLookup(p, root) ==
    /\ "register" \in Requests
    /\ pc[p] = "open"
    /\ RootIsFree(root)
    /\ \E s \in SourceIds \ drawnSources :
         /\ drawnSources' = drawnSources \cup {s}
         /\ job' = [job EXCEPT ![p] = [NoJob EXCEPT !.source = s, !.root = root]]
    /\ GoTo(p, "registering")
    /\ UNCHANGED <<sources, rootOf, paused, lastRun, runVars, tableVars>>

\* Mutant of RegisterInsert: root_path is not UNIQUE.
RegisterAnyway(p) ==
    /\ pc[p] = "registering"
    /\ sources' = sources \cup {job[p].source}
    /\ rootOf' = [rootOf EXCEPT ![job[p].source] = job[p].root]
    /\ Finish(p)
    /\ UNCHANGED <<paused, lastRun, drawnSources, runVars, tableVars>>

\* The INSERT; UNIQUE(root_path) rejects it when another process was first.
RegisterInsert(p) ==
    /\ pc[p] = "registering"
    /\ IF RootIsFree(job[p].root)
         THEN /\ sources' = sources \cup {job[p].source}
              /\ rootOf' = [rootOf EXCEPT ![job[p].source] = job[p].root]
         ELSE UNCHANGED <<sources, rootOf>>
    /\ Finish(p)
    /\ UNCHANGED <<paused, lastRun, drawnSources, runVars, tableVars>>

----------------------------------------------------------------------------
(* IngestionService.sync and resume, up to the run's row                   *)

\* sync reads the source's row for its path policy.
SyncRequest(p, s) ==
    /\ "sync" \in Requests
    /\ pc[p] = "open"
    /\ s \in sources
    /\ job' = [job EXCEPT ![p].source = s]
    /\ GoTo(p, "starting")
    /\ UNCHANGED <<sourceVars, runVars, tableVars>>

\* latest_recoverable_run: resume goes on to an ordinary sync when the
\* source has a failed or aborted run, however old.
ResumeRequest(p, s) ==
    /\ "resume" \in Requests
    /\ pc[p] = "open"
    /\ s \in sources
    /\ \E r \in RunIds :
         runSource[r] = s /\ runStatus[r] \in {"FAILED", "ABORTED"}
    /\ job' = [job EXCEPT ![p].source = s]
    /\ GoTo(p, "starting")
    /\ UNCHANGED <<sourceVars, runVars, tableVars>>

MayStart(s) == s \in sources /\ ~paused[s]

\* start_run reads the row again and refuses a paused source; the run's
\* uuid is drawn here, before its row is inserted.
StartCheck(p) ==
    /\ pc[p] = "starting"
    /\ MayStart(job[p].source)
    /\ \E r \in RunIds \ drawnRuns :
         /\ drawnRuns' = drawnRuns \cup {r}
         /\ job' = [job EXCEPT ![p].run = r]
    /\ GoTo(p, "inserting")
    /\ UNCHANGED <<runStatus, runSource, sourceVars, tableVars>>

\* The request raises, or the bound on runs is reached.
StartRefused(p) ==
    /\ pc[p] = "starting"
    /\ ~MayStart(job[p].source) \/ RunIds = drawnRuns
    /\ Finish(p)
    /\ UNCHANGED <<sourceVars, runVars, tableVars>>

\* Mutant of StartInsert: sync_runs.source_id is no foreign key.
StartAnyway(p) ==
    /\ pc[p] = "inserting"
    /\ runStatus' = [runStatus EXCEPT ![job[p].run] = "RUNNING"]
    /\ runSource' = [runSource EXCEPT ![job[p].run] = job[p].source]
    /\ GoTo(p, "scanning")
    /\ UNCHANGED <<drawnRuns, job, sourceVars, tableVars>>

\* The INSERT of the run; the foreign key rejects it when the source was
\* revoked after the check, and start_run is outside sync's try.
StartInsert(p) ==
    /\ pc[p] = "inserting"
    /\ IF job[p].source \in sources
         THEN /\ runStatus' = [runStatus EXCEPT ![job[p].run] = "RUNNING"]
              /\ runSource' = [runSource EXCEPT ![job[p].run] = job[p].source]
              /\ GoTo(p, "scanning")
              /\ UNCHANGED job
         ELSE /\ Finish(p)
              /\ UNCHANGED <<runStatus, runSource>>
    /\ UNCHANGED <<drawnRuns, sourceVars, tableVars>>

----------------------------------------------------------------------------
(* The scan and apply_scan                                                 *)

\* The files of a tree as the scan saw them, None where there was no file.
FilesOf(s, tree) ==
    {[source |-> s, object |-> ObjectOf[path], path |-> path,
      hash |-> tree[path]] : path \in {q \in Paths : tree[q] # None}}

\* Files are read one after the other while the user edits them, so the
\* scan may return any combination of contents.
Scan(p) ==
    /\ pc[p] = "scanning"
    /\ \E tree \in [Paths -> Hashes \cup {None}] :
         job' = [job EXCEPT ![p].files = FilesOf(job[p].source, tree)]
    /\ GoTo(p, "checking")
    /\ UNCHANGED <<sourceVars, runVars, tableVars>>

\* One unreadable entry makes the whole scan raise.
ScanFails(p) ==
    /\ pc[p] = "scanning"
    /\ GoTo(p, "failing")
    /\ UNCHANGED <<job, sourceVars, runVars, tableVars>>

IsActive(r, s) == runStatus[r] = "RUNNING" /\ runSource[r] = s

\* The status check of apply_scan: a SELECT before the transaction begins.
ApplyCheck(p) ==
    /\ pc[p] = "checking"
    /\ GoTo(p, IF IsActive(job[p].run, job[p].source)
                 THEN "applying" ELSE "failing")
    /\ UNCHANGED <<job, sourceVars, runVars, tableVars>>

ObjectsIn(rows) == {row.object : row \in rows}

Snapshot(s) == {row \in fileState : row.source = s}

Removed(s, files) == ObjectsIn(Snapshot(s)) \ ObjectsIn(files)

\* Mutant of KindOf: content hashes are not compared.
KindByPresence(file, previous) ==
    IF file.object \in ObjectsIn(previous) THEN "updated" ELSE "created"

KindOf(file, previous) ==
    IF file.object \notin ObjectsIn(previous) THEN "created"
    ELSE IF \E row \in previous : row.object = file.object /\ row.hash = file.hash
           THEN "unchanged" ELSE "updated"

Diff(r, s, files) ==
    {[run |-> r, object |-> file.object, kind |-> KindOf(file, Snapshot(s)),
      hash |-> file.hash] : file \in files}
    \cup
    {[run |-> r, object |-> object, kind |-> "deleted", hash |-> None] :
      object \in Removed(s, files)}

\* Mutant of Merge: files that have gone are not deleted.
MergeOnlyUpserts(table, s, files) ==
    {row \in table : row.source = s => row.object \notin ObjectsIn(files)}
      \cup files

\* Upsert the files and delete what the scan no longer found, in a table
\* keyed by source and object.
Merge(table, s, files) ==
    {row \in table : row.source = s =>
        row.object \notin ObjectsIn(files) \cup Removed(s, files)} \cup files

\* Mutants of Accepted: foreign keys are off, staged_files has no key.
AcceptedUnreferenced(r, s, files) ==
    \A f, g \in files : f.object = g.object => f = g

AcceptedUnkeyed(r, s, files) ==
    /\ runStatus[r] = "ABSENT" => files = {} /\ Removed(s, files) = {}
    /\ s \notin sources => files = {}

\* The constraints of the tables written: the key of staged_files refuses
\* two files of one object, the foreign keys refuse a staged row or an
\* event of a run that has no row and a file of a source that has none.
Accepted(r, s, files) ==
    /\ \A f, g \in files : f.object = g.object => f = g
    /\ runStatus[r] = "ABSENT" => files = {} /\ Removed(s, files) = {}
    /\ s \notin sources => files = {}

\* The transaction.  Neither UPDATE at its end looks at the run's status.
ApplyCommit(p) ==
    LET r == job[p].run
        s == job[p].source
        files == job[p].files
    IN  /\ pc[p] = "applying"
        /\ Accepted(r, s, files)
        /\ fileState' = Merge(fileState, s, files)
        /\ documents' = Merge(documents, s, files)
        /\ events' = events \cup Diff(r, s, files)
        /\ runStatus' = [runStatus EXCEPT
                           ![r] = IF @ = "ABSENT" THEN @ ELSE "SUCCEEDED"]
        /\ lastRun' = [lastRun EXCEPT ![s] = IF s \in sources THEN r ELSE @]
        /\ Finish(p)
        /\ UNCHANGED <<runSource, drawnRuns, sources, rootOf, paused, drawnSources>>

\* Mutant of ApplyRollback: what was written before the error is kept.
ApplyHalf(p) ==
    /\ pc[p] = "applying"
    /\ Accepted(job[p].run, job[p].source, job[p].files)
    /\ fileState' = Merge(fileState, job[p].source, job[p].files)
    /\ documents' = Merge(documents, job[p].source, job[p].files)
    /\ GoTo(p, "failing")
    /\ UNCHANGED <<events, job, sourceVars, runVars>>

\* A constraint, a lock timeout or a full disk raises: nothing is written.
ApplyRollback(p) ==
    /\ pc[p] = "applying"
    /\ GoTo(p, "failing")
    /\ UNCHANGED <<job, sourceVars, runVars, tableVars>>

Failed(r) == [runStatus EXCEPT ![r] = IF @ = "RUNNING" THEN "FAILED" ELSE @]

FailRun(p) ==
    /\ pc[p] = "failing"
    /\ runStatus' = Failed(job[p].run)
    /\ Finish(p)
    /\ UNCHANGED <<runSource, drawnRuns, sourceVars, tableVars>>

----------------------------------------------------------------------------
(* The other writes.  Their existence checks are followed by statements    *)
(* that change nothing when the source has gone, so each is one step.      *)

SetPaused(p, s) ==
    /\ "pause" \in Requests
    /\ pc[p] = "open"
    /\ s \in sources
    /\ \E b \in BOOLEAN : paused' = [paused EXCEPT ![s] = b]
    /\ Finish(p)
    /\ UNCHANGED <<sources, rootOf, lastRun, drawnSources, runVars, tableVars>>

\* The runs of a source and, by cascade, their events.
RunsOf(s) == {r \in RunIds : runSource[r] = s}

DropRuns(s) ==
    /\ runStatus' = [r \in RunIds |->
                       IF r \in RunsOf(s) THEN "ABSENT" ELSE runStatus[r]]
    /\ runSource' = [r \in RunIds |->
                       IF r \in RunsOf(s) THEN None ELSE runSource[r]]
    /\ events' = {e \in events : e.run \notin RunsOf(s)}

DropFiles(s) ==
    /\ fileState' = {row \in fileState : row.source # s}
    /\ documents' = {row \in documents : row.source # s}

DeleteDerived(p, s) ==
    /\ "delete-derived" \in Requests
    /\ pc[p] = "open"
    /\ s \in sources
    /\ DropFiles(s)
    /\ DropRuns(s)
    /\ lastRun' = [lastRun EXCEPT ![s] = None]
    /\ Finish(p)
    /\ UNCHANGED <<drawnRuns, sources, rootOf, paused, drawnSources>>

\* One DELETE; every other table follows by ON DELETE CASCADE.
Revoke(p, s) ==
    /\ "revoke" \in Requests
    /\ pc[p] = "open"
    /\ s \in sources
    /\ sources' = sources \ {s}
    /\ rootOf' = [rootOf EXCEPT ![s] = None]
    /\ paused' = [paused EXCEPT ![s] = FALSE]
    /\ lastRun' = [lastRun EXCEPT ![s] = None]
    /\ DropFiles(s)
    /\ DropRuns(s)
    /\ Finish(p)
    /\ UNCHANGED <<drawnRuns, drawnSources>>

\* The process is killed, or a statement outside sync's try (fail_run
\* included) raises: what was committed stays, the locals are lost.
Crash(p) ==
    /\ pc[p] # "idle"
    /\ Finish(p)
    /\ UNCHANGED <<sourceVars, runVars, tableVars>>

----------------------------------------------------------------------------
\* What a process does on its own once a request is under way.
Continue(p) ==
    \/ Recover(p)
    \/ RegisterInsert(p)
    \/ StartCheck(p)
    \/ StartRefused(p)
    \/ StartInsert(p)
    \/ Scan(p)
    \/ ScanFails(p)
    \/ ApplyCheck(p)
    \/ ApplyCommit(p)
    \/ ApplyRollback(p)
    \/ FailRun(p)

Ask(p) ==
    \/ Close(p)
    \/ \E root \in Roots : RegisterLookup(p, root)
    \/ \E s \in SourceIds :
         \/ SyncRequest(p, s)
         \/ ResumeRequest(p, s)
         \/ SetPaused(p, s)
         \/ DeleteDerived(p, s)
         \/ Revoke(p, s)

Next == \E p \in Procs : OpenSelect(p) \/ Ask(p) \/ Continue(p) \/ Crash(p)

Spec == Init /\ [][Next]_vars

\* A thread that was started runs on, and requests keep coming: each
\* process that is idle opens the database again some day.  Processes may
\* die again and again, but not at every single recovery.
Fairness ==
    \A p \in Procs :
        /\ WF_vars(Continue(p))
        /\ SF_vars(Recover(p))
        /\ WF_vars(OpenSelect(p))
        /\ WF_vars(Close(p))

FairSpec == Spec /\ Fairness
----------------------------------------------------------------------------
(* What the store promises                                                 *)

\* The two tables are written by the same statements of one transaction, so
\* that they agree: a part of StoreInvariant, which the other parts use.
SnapshotMirrorsDocuments == fileState = documents

\* A snapshot holds one row for an object and one for a path, although two
\* paths may casefold to one object.
RowsAreKeyed ==
    \A a, b \in fileState :
        a.source = b.source /\ (a.object = b.object \/ a.path = b.path) => a = b

\* Processes that register one directory at the same time end up with one
\* source for it.
OneSourcePerRoot ==
    \A s, t \in sources : rootOf[s] = rootOf[t] => s = t

\* Whatever a synchronisation in flight was about to write, nothing of a
\* source is left once it is revoked, and no event outlives its run.
NothingOutlivesItsSource ==
    /\ \A row \in fileState \cup documents : row.source \in sources
    /\ \A r \in RunIds : runStatus[r] # "ABSENT" => runSource[r] \in sources
    /\ \A e \in events : runStatus[e.run] # "ABSENT"

\* A run that failed, was aborted or is still under way has published no
\* change event, a deletion least of all (README.md: a failed scan never
\* emits false deletion events).
OnlySuccessHasEvents ==
    \A e \in events : runStatus[e.run] = "SUCCEEDED"

\* Deletions leave the snapshot, everything else an event names is in it.
Explains(r, s) ==
    {<<e.object, e.hash>> : e \in {f \in events : f.run = r /\ f.kind # "deleted"}}
      = {<<row.object, row.hash>> : row \in Snapshot(s)}

CursorExplains(s) ==
    \/ /\ lastRun[s] # None
       /\ runStatus[lastRun[s]] = "SUCCEEDED"
       /\ runSource[lastRun[s]] = s
       /\ Explains(lastRun[s], s)
    \/ /\ lastRun[s] = None \/ runStatus[lastRun[s]] = "ABSENT"
       /\ Snapshot(s) = {}

\* The cursor of a source explains its snapshot: the events of the run it
\* names list exactly the objects and hashes stored.  The cursor may name a
\* run whose row has gone (an empty scan that finished after its derived
\* data were deleted), but then nothing is stored, as when there is none.
CursorExplainsSnapshot == \A s \in sources : CursorExplains(s)

\* A snapshot changes only as a whole, by a run that succeeds in that very
\* step, or is emptied together with its cursor.
SnapshotMovesWithCursor ==
    [][\A s \in SourceIds : Snapshot(s)' # Snapshot(s) =>
          \/ \E r \in RunIds :
               /\ runStatus[r] # "SUCCEEDED" /\ runStatus'[r] = "SUCCEEDED"
               /\ lastRun'[s] = r
          \/ Snapshot(s)' = {} /\ lastRun'[s] = None]_vars

\* A run that succeeded or failed keeps its outcome until its row goes,
\* whichever processes recover, fail or finish it meanwhile.
OutcomesAreFinal ==
    [][\A r \in RunIds : runStatus[r] \in {"SUCCEEDED", "FAILED"} =>
          runStatus'[r] \in {runStatus[r], "ABSENT"}]_vars

\* The events of a publication describe the change it makes: a created
\* object was not there, a deleted one was and is gone, an unchanged one
\* keeps its hash and an updated one does not.
EventsDescribeTheChange ==
    [][\A e \in events' \ events :
          LET HashesIn(table) ==
                {row.hash : row \in {x \in table : /\ x.source = runSource[e.run]
                                                   /\ x.object = e.object}}
              before == HashesIn(fileState)
              after == HashesIn(fileState')
          IN  CASE e.kind = "created" -> before = {} /\ after # {}
                [] e.kind = "deleted" -> before # {} /\ after = {}
                [] e.kind = "unchanged" -> after # {} /\ before = after
                [] e.kind = "updated" ->
                     before # {} /\ after # {} /\ before # after]_vars

\* Everything but registering, publishing, failing, clearing and revoking
\* is invisible.  An aborted run is still open: its process may publish.
PhaseOf(status) ==
    CASE status = "ABSENT" -> "none"
      [] status \in {"RUNNING", "ABORTED"} -> "open"
      [] status = "SUCCEEDED" -> "published"
      [] status = "FAILED" -> "failed"

Ledger == INSTANCE SnapshotLedger WITH
    Rows <- FileRow,
    live <- sources,
    snapshot <- [s \in SourceIds |-> Snapshot(s)],
    phase <- [r \in RunIds |-> PhaseOf(runStatus[r])],
    owner <- runSource

\* The store implements the ledger: between requests, failures and crashes
\* of any number of processes a snapshot is replaced only as a whole, by a
\* run that has neither failed nor published before.
LedgerSpec == Ledger!Spec

\* A run does not stay RUNNING for ever, even when its process dies or the
\* UPDATE that should fail it is lost: a later open settles it.
RunsAreSettled ==
    \A r \in RunIds : runStatus[r] = "RUNNING" ~> runStatus[r] # "RUNNING"

----------------------------------------------------------------------------
(* What holds of the processes while they work, which the promises above   *)
(* rest on: StoreInvariant is inductive.                                   *)

ActiveStages == {"scanning", "checking", "applying", "failing"}

\* The locals of a process fit the stage it is in.
JobFitsItsStage(p) ==
    /\ pc[p] = "registering" =>
         job[p].source \in drawnSources /\ job[p].root \in Roots
    /\ pc[p] \in ActiveStages \cup {"starting", "inserting"} =>
         job[p].source \in SourceIds
    /\ pc[p] \in ActiveStages \cup {"inserting"} => job[p].run \in drawnRuns
    /\ pc[p] \notin ActiveStages \cup {"inserting"} => job[p].run = None
    /\ \A f, g \in job[p].files :
         f.source = job[p].source /\ (f.path = g.path => f = g)
    /\ pc[p] \notin ActiveStages => job[p].files = {}

JobsFitTheirStage == \A p \in Procs : JobFitsItsStage(p)

\* A run is driven by the one process that drew it, has no row before that
\* process inserts it, and is neither published nor failed before it does.
RunsHaveOneDriver ==
    /\ \A p, q \in Procs :
         p # q /\ job[p].run = job[q].run => job[p].run = None
    /\ \A r \in RunIds : runStatus[r] # "ABSENT" => r \in drawnRuns
    /\ \A s \in SourceIds : lastRun[s] \in drawnRuns \cup {None}
    /\ \A p \in Procs : pc[p] = "inserting" =>
         /\ runStatus[job[p].run] = "ABSENT"
         /\ \A s \in SourceIds : lastRun[s] # job[p].run
    /\ \A p \in Procs : pc[p] \in ActiveStages =>
         \/ runStatus[job[p].run] = "ABSENT"
         \/ /\ runStatus[job[p].run] \in {"RUNNING", "ABORTED"}
            /\ runSource[job[p].run] = job[p].source

UnregisteredSourcesHaveNoCursor ==
    \A s \in SourceIds \ sources : lastRun[s] = None

StoreInvariant ==
    /\ TypeOK
    /\ JobsFitTheirStage
    /\ RunsHaveOneDriver
    /\ UnregisteredSourcesHaveNoCursor
    /\ NothingOutlivesItsSource
    /\ OnlySuccessHasEvents
    /\ SnapshotMirrorsDocuments
    /\ RowsAreKeyed
    /\ OneSourcePerRoot
    /\ CursorExplainsSnapshot

----------------------------------------------------------------------------
(* What the code says of itself and does not do                            *)

\* A run that is not active is refused (sqlite.py:509): a run that another
\* process's recovery aborted, interrupted or not, never becomes successful.
AbortedRunNeverPublishes ==
    [][\A r \in RunIds : runStatus[r] = "ABORTED" =>
          runStatus'[r] # "SUCCEEDED"]_vars
=============================================================================
