-------------------------- MODULE SyncStoreProofs --------------------------
(***************************************************************************)
(* The two parts of SQLiteStore.  SyncStore: StoreInvariant is inductive,  *)
(* its promises follow, and every step is one of SnapshotLedger or none.   *)
(* DatabaseSchema, from the middle on: however many processes migrate, no  *)
(* row is lost, the rows of revoked sources go, the database can be opened *)
(* again and whoever has opened it finds the newest tables.                *)
(***************************************************************************)
EXTENDS SyncStore, DatabaseSchema, SequenceTheorems, WellFoundedInduction, TLAPS

USE DEF sourceVars, runVars, tableVars, procVars

LEMMA InitTyped == Init => TypeOK /\ JobsFitTheirStage
  BY DEF Init, TypeOK, JobsFitTheirStage, JobFitsItsStage, Job, NoJob, Statuses, Stages, ActiveStages

LEMMA TypeStep ==
  ASSUME TypeOK, JobsFitTheirStage, [Next]_vars
  PROVE  TypeOK'
<1> USE DEF TypeOK, JobsFitTheirStage, JobFitsItsStage, ActiveStages, Statuses, Stages, NoJob, GoTo, Finish
<1>1. CASE UNCHANGED vars
  BY <1>1 DEF vars
<1>2. CASE \E p \in Procs : OpenSelect(p)
  BY <1>2 DEF OpenSelect
<1>3. CASE \E p \in Procs : Ask(p)
  <2> PICK p \in Procs : Ask(p)
    BY <1>3
  <2>1. CASE Close(p)
    BY <2>1 DEF Close, Job
  <2>2. CASE \E root \in Roots : RegisterLookup(p, root)
    <3> PICK root \in Roots, s \in SourceIds \ drawnSources :
               /\ drawnSources' = drawnSources \cup {s}
               /\ job' = [job EXCEPT ![p] = [NoJob EXCEPT !.source = s, !.root = root]]
      BY <2>2 DEF RegisterLookup
    <3>1. [NoJob EXCEPT !.source = s, !.root = root] \in Job
      BY DEF Job
    <3> QED
      BY <2>2, <3>1 DEF RegisterLookup
  <2>3. CASE \E s \in SourceIds : SyncRequest(p, s)
    BY <2>3 DEF SyncRequest, Job
  <2>4. CASE \E s \in SourceIds : ResumeRequest(p, s)
    BY <2>4 DEF ResumeRequest, Job
  <2>5. CASE \E s \in SourceIds : SetPaused(p, s)
    BY <2>5 DEF SetPaused, Job
  <2>6. CASE \E s \in SourceIds : DeleteDerived(p, s)
    BY <2>6 DEF DeleteDerived, DropRuns, DropFiles, Job
  <2>7. CASE \E s \in SourceIds : Revoke(p, s)
    BY <2>7 DEF Revoke, DropRuns, DropFiles, Job
  <2> QED
    BY <2>1, <2>2, <2>3, <2>4, <2>5, <2>6, <2>7 DEF Ask
<1>4. CASE \E p \in Procs : Continue(p)
  <2> PICK p \in Procs : Continue(p)
    BY <1>4
  <2>1. CASE Recover(p)
    BY <2>1 DEF Recover, Recovered
  <2>2. CASE RegisterInsert(p)
    BY <2>2 DEF RegisterInsert, Job
  <2>3. CASE StartCheck(p)
    BY <2>3 DEF StartCheck, Job
  <2>4. CASE StartRefused(p)
    BY <2>4 DEF StartRefused, Job
  <2>5. CASE StartInsert(p)
    <3>1. CASE job[p].source \in sources
      BY <2>5, <3>1 DEF StartInsert
    <3>2. CASE job[p].source \notin sources
      BY <2>5, <3>2 DEF StartInsert, Job
    <3> QED
      BY <3>1, <3>2
  <2>6. CASE Scan(p)
    <3> PICK tree \in [Paths -> Hashes \cup {None}] :
               job' = [job EXCEPT ![p].files = FilesOf(job[p].source, tree)]
      BY <2>6 DEF Scan
    <3>1. FilesOf(job[p].source, tree) \subseteq FileRow
      BY <2>6 DEF Scan, FilesOf, FileRow, Objects
    <3> QED
      BY <2>6, <3>1 DEF Scan, Job
  <2>7. CASE ScanFails(p)
    BY <2>7 DEF ScanFails
  <2>8. CASE ApplyCheck(p)
    BY <2>8 DEF ApplyCheck
  <2>9. CASE ApplyCommit(p)
    <3>1. job[p].files \subseteq FileRow
      BY DEF Job
    <3>2. Diff(job[p].run, job[p].source, job[p].files) \subseteq EventRow
      BY <2>9, <3>1 DEF ApplyCommit, Diff, EventRow, FileRow, KindOf, Removed, ObjectsIn, Snapshot
    <3>3. fileState' \subseteq FileRow /\ documents' \subseteq FileRow
      BY <2>9, <3>1 DEF ApplyCommit, Merge
    <3> QED
      BY <2>9, <3>2, <3>3 DEF ApplyCommit, Job
  <2>10. CASE ApplyRollback(p)
    BY <2>10 DEF ApplyRollback
  <2>11. CASE FailRun(p)
    BY <2>11 DEF FailRun, Failed, Job
  <2> QED
    BY <2>1, <2>2, <2>3, <2>4, <2>5, <2>6, <2>7, <2>8, <2>9, <2>10, <2>11 DEF Continue
<1>5. CASE \E p \in Procs : Crash(p)
  BY <1>5 DEF Crash, Job
<1> QED
  BY <1>1, <1>2, <1>3, <1>4, <1>5 DEF Next

LEMMA JobsStep ==
  ASSUME TypeOK, JobsFitTheirStage, [Next]_vars
  PROVE  JobsFitTheirStage'
<1> SUFFICES ASSUME NEW q \in Procs
             PROVE  JobFitsItsStage(q)'
  BY DEF JobsFitTheirStage
<1> USE DEF TypeOK, JobsFitTheirStage, JobFitsItsStage, ActiveStages, NoJob, Job, GoTo, Finish
<1>1. CASE UNCHANGED vars
  BY <1>1 DEF vars
<1>2. CASE \E p \in Procs : OpenSelect(p)
  BY <1>2 DEF OpenSelect
<1>3. CASE \E p \in Procs : Ask(p)
  <2> PICK p \in Procs : Ask(p)
    BY <1>3
  <2>1. CASE \E root \in Roots : RegisterLookup(p, root)
    BY <2>1 DEF RegisterLookup
  <2>2. CASE \E s \in SourceIds : SyncRequest(p, s) \/ ResumeRequest(p, s)
    BY <2>2 DEF SyncRequest, ResumeRequest
  <2>3. CASE \/ Close(p)
             \/ \E s \in SourceIds :
                  SetPaused(p, s) \/ DeleteDerived(p, s) \/ Revoke(p, s)
    BY <2>3 DEF Close, SetPaused, DeleteDerived, Revoke
  <2> QED
    BY <2>1, <2>2, <2>3 DEF Ask
<1>4. CASE \E p \in Procs : Continue(p)
  <2> PICK p \in Procs : Continue(p)
    BY <1>4
  <2>1. CASE Recover(p) \/ ScanFails(p) \/ ApplyCheck(p) \/ ApplyRollback(p)
    BY <2>1 DEF Recover, ScanFails, ApplyCheck, ApplyRollback
  <2>2. CASE RegisterInsert(p) \/ StartRefused(p) \/ ApplyCommit(p) \/ FailRun(p)
    BY <2>2 DEF RegisterInsert, StartRefused, ApplyCommit, FailRun
  <2>3. CASE StartCheck(p)
    BY <2>3 DEF StartCheck
  <2>4. CASE StartInsert(p)
    BY <2>4 DEF StartInsert
  <2>5. CASE Scan(p)
    <3> PICK tree \in [Paths -> Hashes \cup {None}] :
               job' = [job EXCEPT ![p].files = FilesOf(job[p].source, tree)]
      BY <2>5 DEF Scan
    <3>1. \A f, g \in FilesOf(job[p].source, tree) :
            f.source = job[p].source /\ (f.path = g.path => f = g)
      BY DEF FilesOf
    <3> QED
      BY <2>5, <3>1 DEF Scan
  <2> QED
    BY <2>1, <2>2, <2>3, <2>4, <2>5 DEF Continue
<1>5. CASE \E p \in Procs : Crash(p)
  BY <1>5 DEF Crash
<1> QED
  BY <1>1, <1>2, <1>3, <1>4, <1>5 DEF Next

LEMMA InitDriven == Init => RunsHaveOneDriver /\ UnregisteredSourcesHaveNoCursor
  BY DEF Init, RunsHaveOneDriver, UnregisteredSourcesHaveNoCursor, NoJob, ActiveStages

\* A process that gives up its run leaves the others' runs alone.
LEMMA FinishKeepsDrivers ==
  ASSUME TypeOK, RunsHaveOneDriver, NEW p \in Procs, Finish(p),
         UNCHANGED <<lastRun, drawnRuns, runStatus, runSource>>
  PROVE  RunsHaveOneDriver'
<1>1. /\ job'[p] = NoJob /\ pc'[p] = "idle"
      /\ \A q \in Procs \ {p} : job'[q] = job[q] /\ pc'[q] = pc[q]
  BY DEF Finish, TypeOK
<1>2. \A q \in Procs : job'[q].run = job[q].run \/ job'[q].run = None
  BY <1>1 DEF NoJob
<1>3. \A q1, q2 \in Procs :
        q1 # q2 /\ job'[q1].run = job'[q2].run => job'[q1].run = None
  BY <1>2 DEF RunsHaveOneDriver
<1>4. \A q \in Procs : pc'[q] \in ActiveStages \cup {"inserting"} =>
        job'[q] = job[q] /\ pc'[q] = pc[q]
  BY <1>1 DEF ActiveStages
<1> QED
  BY <1>3, <1>4 DEF RunsHaveOneDriver, ActiveStages

LEMMA DriverStep ==
  ASSUME TypeOK, JobsFitTheirStage, RunsHaveOneDriver, [Next]_vars
  PROVE  RunsHaveOneDriver'
<1> USE NoneAssumption
    DEF TypeOK, JobsFitTheirStage, JobFitsItsStage, RunsHaveOneDriver,
        ActiveStages, NoJob, Job, GoTo, Finish
<1>1. CASE UNCHANGED vars
  BY <1>1 DEF vars
<1>2. CASE \E p \in Procs : OpenSelect(p)
  BY <1>2 DEF OpenSelect
<1>3. CASE \E p \in Procs : Ask(p)
  <2> PICK p \in Procs : Ask(p)
    BY <1>3
  <2>1. CASE Close(p) \/ \E s \in SourceIds : SetPaused(p, s)
    BY <2>1, FinishKeepsDrivers DEF Close, SetPaused
  <2>2. CASE \E root \in Roots : RegisterLookup(p, root)
    BY <2>2 DEF RegisterLookup
  <2>3. CASE \E s \in SourceIds : SyncRequest(p, s) \/ ResumeRequest(p, s)
    <3> PICK s \in SourceIds : /\ job' = [job EXCEPT ![p].source = s]
                               /\ pc[p] = "open"
                               /\ pc' = [pc EXCEPT ![p] = "starting"]
                               /\ UNCHANGED <<sourceVars, runVars>>
      BY <2>3 DEF SyncRequest, ResumeRequest
    <3>1. \A q \in Procs : job'[q].run = job[q].run
      OBVIOUS
    <3> QED
      BY <3>1
  <2>4. CASE \E s \in SourceIds : DeleteDerived(p, s)
    BY <2>4 DEF DeleteDerived, DropRuns, RunsOf
  <2>5. CASE \E s \in SourceIds : Revoke(p, s)
    BY <2>5 DEF Revoke, DropRuns, RunsOf
  <2> QED
    BY <2>1, <2>2, <2>3, <2>4, <2>5 DEF Ask
<1>4. CASE \E p \in Procs : Continue(p)
  <2> PICK p \in Procs : Continue(p)
    BY <1>4
  <2>1. CASE ScanFails(p) \/ ApplyCheck(p) \/ ApplyRollback(p)
    BY <2>1 DEF ScanFails, ApplyCheck, ApplyRollback
  <2>2. CASE Recover(p)
    BY <2>2 DEF Recover, Recovered
  <2>3. CASE RegisterInsert(p) \/ StartRefused(p)
    BY <2>3 DEF RegisterInsert, StartRefused
  <2>4. CASE StartCheck(p)
    BY <2>4 DEF StartCheck
  <2>5. CASE StartInsert(p)
    <3>1. CASE job[p].source \notin sources
      BY <2>5, <3>1, FinishKeepsDrivers DEF StartInsert
    <3>2. CASE job[p].source \in sources
      <4>1. /\ pc[p] = "inserting" /\ job[p].run \in RunIds
            /\ job[p].run \in drawnRuns /\ job[p].run # None
        BY <2>5 DEF StartInsert
      <4>2. /\ job' = job /\ lastRun' = lastRun /\ drawnRuns' = drawnRuns
            /\ pc' = [pc EXCEPT ![p] = "scanning"]
            /\ runStatus' = [runStatus EXCEPT ![job[p].run] = "RUNNING"]
            /\ runSource' = [runSource EXCEPT ![job[p].run] = job[p].source]
        BY <2>5, <3>2 DEF StartInsert
      <4>3. \A q \in Procs : q # p => job[q].run # job[p].run
        BY <4>1
      <4>4. \A q \in Procs : pc'[q] = "inserting" =>
              /\ runStatus'[job'[q].run] = "ABSENT"
              /\ \A s \in SourceIds : lastRun'[s] # job'[q].run
        BY <4>2, <4>3
      <4>5. \A q \in Procs : pc'[q] \in ActiveStages =>
              \/ runStatus'[job'[q].run] = "ABSENT"
              \/ /\ runStatus'[job'[q].run] \in {"RUNNING", "ABORTED"}
                 /\ runSource'[job'[q].run] = job'[q].source
        BY <4>1, <4>2, <4>3
      <4> QED
        BY <4>1, <4>2, <4>4, <4>5
    <3> QED
      BY <3>1, <3>2
  <2>6. CASE Scan(p)
    BY <2>6 DEF Scan
  <2>7. CASE ApplyCommit(p)
    BY <2>7 DEF ApplyCommit
  <2>8. CASE FailRun(p)
    BY <2>8 DEF FailRun, Failed
  <2> QED
    BY <2>1, <2>2, <2>3, <2>4, <2>5, <2>6, <2>7, <2>8 DEF Continue
<1>5. CASE \E p \in Procs : Crash(p)
  BY <1>5 DEF Crash
<1> QED
  BY <1>1, <1>2, <1>3, <1>4, <1>5 DEF Next

\* A step that changes nothing another process can see.
Quiet ==
    UNCHANGED <<sources, rootOf, lastRun, runStatus, runSource,
                fileState, documents, events>>

\* The steps that are not quiet.
Writes(p) ==
    \/ Recover(p)
    \/ RegisterInsert(p)
    \/ StartInsert(p)
    \/ ApplyCommit(p)
    \/ FailRun(p)
    \/ \E s \in SourceIds : DeleteDerived(p, s)
    \/ \E s \in SourceIds : Revoke(p, s)

LEMMA QuietOrWrites ==
  ASSUME [Next]_vars
  PROVE  Quiet \/ \E p \in Procs : Writes(p)
<1> USE DEF Quiet
<1>1. CASE UNCHANGED vars
  BY <1>1 DEF vars
<1>2. CASE \E p \in Procs : OpenSelect(p) \/ Crash(p)
  BY <1>2 DEF OpenSelect, Crash
<1>3. CASE \E p \in Procs : Ask(p)
  BY <1>3 DEF Ask, Writes, Close, RegisterLookup, SyncRequest, ResumeRequest, SetPaused
<1>4. CASE \E p \in Procs : Continue(p)
  BY <1>4 DEF Continue, Writes, StartCheck, StartRefused, Scan, ScanFails, ApplyCheck, ApplyRollback
<1> QED
  BY <1>1, <1>2, <1>3, <1>4 DEF Next

LEMMA ReferencesStep ==
  ASSUME TypeOK, JobsFitTheirStage, RunsHaveOneDriver, NothingOutlivesItsSource, [Next]_vars
  PROVE  NothingOutlivesItsSource'
<1> USE DEF NothingOutlivesItsSource, TypeOK
<1>1. CASE Quiet
  BY <1>1 DEF Quiet
<1>2. CASE \E p \in Procs : Writes(p)
  <2> PICK p \in Procs : Writes(p)
    BY <1>2
  <2>1. CASE Recover(p)
    BY <2>1 DEF Recover, Recovered, EventRow
  <2>2. CASE RegisterInsert(p)
    BY <2>2 DEF RegisterInsert
  <2>3. CASE StartInsert(p)
    BY <2>3 DEF StartInsert, EventRow
  <2>4. CASE ApplyCommit(p)
    <3> DEFINE r == job[p].run
               s == job[p].source
               files == job[p].files
    <3>1. \A row \in fileState' \cup documents' : row.source \in sources'
      <4>1. files # {} => s \in sources
        BY <2>4 DEF ApplyCommit, Accepted
      <4>2. pc[p] = "applying" => \A f \in files : f.source = s
        BY DEF JobsFitTheirStage, JobFitsItsStage
      <4> QED
        BY <2>4, <4>1, <4>2 DEF ApplyCommit, Merge
    <3>2. \A q \in RunIds : runStatus'[q] # "ABSENT" => runSource'[q] \in sources'
      BY <2>4 DEF ApplyCommit
    <3>3. \A e \in events' : runStatus'[e.run] # "ABSENT"
      <4>1. r \in RunIds
        BY <2>4 DEF ApplyCommit, JobsFitTheirStage, JobFitsItsStage, ActiveStages
      <4>2. runStatus[r] = "ABSENT" => Diff(r, s, files) = {}
        BY <2>4 DEF ApplyCommit, Accepted, Diff
      <4>3. \A e \in Diff(r, s, files) : e.run = r
        BY DEF Diff
      <4> QED
        BY <2>4, <4>1, <4>2, <4>3 DEF ApplyCommit, EventRow
    <3> QED
      BY <3>1, <3>2, <3>3
  <2>5. CASE FailRun(p)
    BY <2>5 DEF FailRun, Failed
  <2>6. CASE \E s \in SourceIds : DeleteDerived(p, s)
    BY <2>6 DEF DeleteDerived, DropRuns, DropFiles, RunsOf, EventRow
  <2>7. CASE \E s \in SourceIds : Revoke(p, s)
    BY <2>7 DEF Revoke, DropRuns, DropFiles, RunsOf, EventRow
  <2> QED
    BY <2>1, <2>2, <2>3, <2>4, <2>5, <2>6, <2>7 DEF Writes
<1> QED
  BY <1>1, <1>2, QuietOrWrites

LEMMA SilenceStep ==
  ASSUME TypeOK, JobsFitTheirStage, RunsHaveOneDriver,
         NothingOutlivesItsSource, OnlySuccessHasEvents, [Next]_vars
  PROVE  OnlySuccessHasEvents'
<1> USE DEF OnlySuccessHasEvents, TypeOK
<1>1. CASE Quiet
  BY <1>1 DEF Quiet
<1>2. CASE \E p \in Procs : Writes(p)
  <2> PICK p \in Procs : Writes(p)
    BY <1>2
  <2>1. CASE Recover(p)
    BY <2>1 DEF Recover, Recovered, EventRow
  <2>2. CASE RegisterInsert(p)
    BY <2>2 DEF RegisterInsert
  <2>3. CASE StartInsert(p)
    BY <2>3 DEF StartInsert, RunsHaveOneDriver, NothingOutlivesItsSource, EventRow
  <2>4. CASE ApplyCommit(p)
    <3> DEFINE r == job[p].run
               s == job[p].source
               files == job[p].files
    <3>1. r \in RunIds
      BY <2>4 DEF ApplyCommit, JobsFitTheirStage, JobFitsItsStage, ActiveStages
    <3>2. runStatus[r] = "ABSENT" => Diff(r, s, files) = {}
      BY <2>4 DEF ApplyCommit, Accepted, Diff
    <3>3. \A e \in Diff(r, s, files) : e.run = r
      BY DEF Diff
    <3> QED
      BY <2>4, <3>1, <3>2, <3>3 DEF ApplyCommit, EventRow
  <2>5. CASE FailRun(p)
    BY <2>5 DEF FailRun, Failed, EventRow
  <2>6. CASE \E s \in SourceIds : DeleteDerived(p, s)
    BY <2>6 DEF DeleteDerived, DropRuns, RunsOf, EventRow
  <2>7. CASE \E s \in SourceIds : Revoke(p, s)
    BY <2>7 DEF Revoke, DropRuns, RunsOf, EventRow
  <2> QED
    BY <2>1, <2>2, <2>3, <2>4, <2>5, <2>6, <2>7 DEF Writes
<1> QED
  BY <1>1, <1>2, QuietOrWrites

LEMMA MirrorStep ==
  ASSUME SnapshotMirrorsDocuments, [Next]_vars
  PROVE  SnapshotMirrorsDocuments'
<1> USE DEF SnapshotMirrorsDocuments
<1>1. CASE Quiet
  BY <1>1 DEF Quiet
<1>2. CASE \E p \in Procs : Writes(p)
  <2> PICK p \in Procs : Writes(p)
    BY <1>2
  <2>1. CASE ApplyCommit(p)
    BY <2>1 DEF ApplyCommit
  <2>2. CASE UNCHANGED <<fileState, documents>>
    BY <2>2
  <2>3. CASE \E s \in SourceIds : DeleteDerived(p, s) \/ Revoke(p, s)
    BY <2>3 DEF DeleteDerived, Revoke, DropFiles
  <2> QED
    BY <2>1, <2>2, <2>3 DEF Writes, Recover, RegisterInsert, StartInsert, FailRun
<1> QED
  BY <1>1, <1>2, QuietOrWrites

LEMMA KeysStep ==
  ASSUME TypeOK, JobsFitTheirStage, RowsAreKeyed, [Next]_vars
  PROVE  RowsAreKeyed'
<1>1. CASE Quiet
  BY <1>1 DEF Quiet, RowsAreKeyed
<1>2. CASE \E p \in Procs : Writes(p)
  <2> PICK p \in Procs : Writes(p)
    BY <1>2
  <2>1. CASE ApplyCommit(p)
    <3> DEFINE s == job[p].source
               files == job[p].files
    <3>1. \A f, g \in files :
            f.source = s /\ (f.object = g.object \/ f.path = g.path => f = g)
      BY <2>1 DEF ApplyCommit, Accepted, JobsFitTheirStage, JobFitsItsStage
    <3>2. \A row \in fileState' : row \in fileState \/ row \in files
      BY <2>1 DEF ApplyCommit, Merge
    <3>3. \A row \in fileState' : row.source = s => row \in files
      BY <2>1 DEF ApplyCommit, Merge, Removed, Snapshot, ObjectsIn
    <3> QED
      BY <3>1, <3>2, <3>3 DEF RowsAreKeyed
  <2>2. CASE UNCHANGED fileState
    BY <2>2 DEF RowsAreKeyed
  <2>3. CASE \E s \in SourceIds : DeleteDerived(p, s) \/ Revoke(p, s)
    BY <2>3 DEF DeleteDerived, Revoke, DropFiles, RowsAreKeyed
  <2> QED
    BY <2>1, <2>2, <2>3 DEF Writes, Recover, RegisterInsert, StartInsert, FailRun
<1> QED
  BY <1>1, <1>2, QuietOrWrites

LEMMA RootsStep ==
  ASSUME TypeOK, JobsFitTheirStage, OneSourcePerRoot, [Next]_vars
  PROVE  OneSourcePerRoot'
<1> USE DEF OneSourcePerRoot, TypeOK
<1>1. CASE Quiet
  BY <1>1 DEF Quiet
<1>2. CASE \E p \in Procs : Writes(p)
  <2> PICK p \in Procs : Writes(p)
    BY <1>2
  <2>1. CASE RegisterInsert(p)
    BY <2>1 DEF RegisterInsert, RootIsFree, JobsFitTheirStage, JobFitsItsStage
  <2>2. CASE \E s \in SourceIds : Revoke(p, s)
    BY <2>2 DEF Revoke
  <2>3. CASE UNCHANGED <<sources, rootOf>>
    BY <2>3
  <2> QED
    BY <2>1, <2>2, <2>3 DEF Writes, Recover, StartInsert, ApplyCommit, FailRun, DeleteDerived
<1> QED
  BY <1>1, <1>2, QuietOrWrites

LEMMA NoCursorStep ==
  ASSUME TypeOK, UnregisteredSourcesHaveNoCursor, [Next]_vars
  PROVE  UnregisteredSourcesHaveNoCursor'
<1> USE DEF UnregisteredSourcesHaveNoCursor, TypeOK
<1>1. CASE Quiet
  BY <1>1 DEF Quiet
<1>2. CASE \E p \in Procs : Writes(p)
  BY <1>2 DEF Writes, Recover, RegisterInsert, StartInsert, ApplyCommit,
              FailRun, DeleteDerived, Revoke
<1> QED
  BY <1>1, <1>2, QuietOrWrites

\* What a committing process relies on.
LEMMA CommitFacts ==
  ASSUME StoreInvariant, NEW p \in Procs, ApplyCommit(p)
  PROVE  /\ job[p].run \in RunIds
         /\ job[p].source \in SourceIds
         /\ \A f \in job[p].files : f.source = job[p].source
         /\ runStatus[job[p].run] # "SUCCEEDED"
         /\ runStatus[job[p].run] # "FAILED"
         /\ runStatus[job[p].run] # "ABSENT" =>
              runSource[job[p].run] = job[p].source
         /\ \A e \in Diff(job[p].run, job[p].source, job[p].files) :
              e.run = job[p].run
         /\ \A s \in SourceIds : Snapshot(s)' =
              IF s = job[p].source THEN job[p].files ELSE Snapshot(s)
<1>1. pc[p] = "applying"
  BY DEF ApplyCommit
<1>2. job[p].run \in RunIds /\ job[p].source \in SourceIds
  BY <1>1 DEF StoreInvariant, TypeOK, JobsFitTheirStage, JobFitsItsStage, ActiveStages
<1>3. \A f \in job[p].files : f.source = job[p].source
  BY DEF StoreInvariant, JobsFitTheirStage, JobFitsItsStage
<1>4. /\ runStatus[job[p].run] \notin {"SUCCEEDED", "FAILED"}
      /\ runStatus[job[p].run] # "ABSENT" => runSource[job[p].run] = job[p].source
  BY <1>1 DEF StoreInvariant, RunsHaveOneDriver, ActiveStages
<1>5. \A e \in Diff(job[p].run, job[p].source, job[p].files) : e.run = job[p].run
  BY DEF Diff
<1>6. ASSUME NEW s \in SourceIds, s = job[p].source
      PROVE  Snapshot(s)' = job[p].files
  BY <1>3, <1>6 DEF ApplyCommit, Snapshot, Merge, Removed, ObjectsIn
<1>7. ASSUME NEW t \in SourceIds \ {job[p].source}
      PROVE  Snapshot(t)' = Snapshot(t)
  BY <1>3 DEF ApplyCommit, Snapshot, Merge
<1> QED
  BY <1>2, <1>3, <1>4, <1>5, <1>6, <1>7

LEMMA CursorStep ==
  ASSUME StoreInvariant, [Next]_vars
  PROVE  CursorExplainsSnapshot'
<1> SUFFICES ASSUME NEW s \in sources'
             PROVE  CursorExplains(s)'
  BY DEF CursorExplainsSnapshot
<1> USE DEF CursorExplains
<1>a. TypeOK /\ NothingOutlivesItsSource /\ CursorExplainsSnapshot
  BY DEF StoreInvariant
<1>b. s \in SourceIds
  BY TypeStep DEF StoreInvariant, TypeOK
<1>1. CASE Quiet
  BY <1>1, <1>a DEF Quiet, CursorExplainsSnapshot, Explains, Snapshot
<1>2. CASE \E p \in Procs : Writes(p)
  <2> PICK p \in Procs : Writes(p)
    BY <1>2
  <2>1. CASE Recover(p) \/ FailRun(p)
    <3>1. s \in sources /\ lastRun' = lastRun /\ Explains(lastRun[s], s)' = Explains(lastRun[s], s)
      BY <2>1 DEF Recover, FailRun, Explains, Snapshot
    <3>2. /\ runSource' = runSource /\ Snapshot(s)' = Snapshot(s)
          /\ \A r \in RunIds : runStatus[r] \in {"SUCCEEDED", "ABSENT"} =>
               runStatus'[r] = runStatus[r]
      BY <2>1, <1>a DEF Recover, Recovered, FailRun, Failed, Snapshot, TypeOK
    <3>3. lastRun[s] \in RunIds \cup {None}
      BY <1>a, <1>b DEF TypeOK
    <3> QED
      BY <3>1, <3>2, <3>3, <1>a DEF CursorExplainsSnapshot, Explains
  <2>2. CASE RegisterInsert(p)
    <3>1. CASE s \in sources
      BY <2>2, <3>1, <1>a DEF RegisterInsert, CursorExplainsSnapshot, Explains, Snapshot
    <3>2. CASE s \notin sources
      BY <2>2, <3>2, <1>a, <1>b DEF RegisterInsert, NothingOutlivesItsSource, Snapshot,
         StoreInvariant, UnregisteredSourcesHaveNoCursor
    <3> QED
      BY <3>1, <3>2
  <2>3. CASE StartInsert(p)
    <3>1. /\ s \in sources /\ lastRun' = lastRun
          /\ events' = events /\ Snapshot(s)' = Snapshot(s)
      BY <2>3 DEF StartInsert, Snapshot
    <3>2. lastRun[s] # job[p].run /\ lastRun[s] \in RunIds \cup {None}
      BY <2>3, <1>a, <1>b DEF StartInsert, StoreInvariant, RunsHaveOneDriver, TypeOK
    <3>3. lastRun[s] \in RunIds =>
            /\ runStatus'[lastRun[s]] = runStatus[lastRun[s]]
            /\ runSource'[lastRun[s]] = runSource[lastRun[s]]
      BY <2>3, <3>2, <1>a DEF StartInsert, TypeOK
    <3> QED
      BY <3>1, <3>2, <3>3, <1>a DEF CursorExplainsSnapshot, Explains, Snapshot
  <2>4. CASE ApplyCommit(p)
    <3> PICK r \in RunIds, files \in SUBSET FileRow :
               r = job[p].run /\ files = job[p].files
      BY <2>4, <1>a, CommitFacts DEF TypeOK, Job
    <3> DEFINE Named(table) == {<<row.object, row.hash>> : row \in table}
    <3>1. s \in sources /\ runSource' = runSource
      BY <2>4 DEF ApplyCommit
    <3>2. CASE s = job[p].source /\ runStatus[r] # "ABSENT"
      <4>1. lastRun'[s] = r /\ runStatus'[r] = "SUCCEEDED" /\ r # None
        BY <2>4, <3>1, <3>2, <1>a, CommitFacts, NoneAssumption DEF ApplyCommit, TypeOK
      <4>2. \A e \in events : e.run # r
        BY <2>4, CommitFacts DEF StoreInvariant, OnlySuccessHasEvents
      <4>3. {e \in events' : e.run = r /\ e.kind # "deleted"}
              = {e \in Diff(r, s, files) : e.kind # "deleted"}
        BY <2>4, <3>2, <4>2, CommitFacts DEF ApplyCommit
      <4>4. Named({e \in Diff(r, s, files) : e.kind # "deleted"}) = Named(files)
        <5>1. \A f \in files :
                 [run |-> r, object |-> f.object, kind |-> KindOf(f, Snapshot(s)),
                  hash |-> f.hash] \in Diff(r, s, files)
          BY DEF Diff
        <5>2. \A f \in files : KindOf(f, Snapshot(s)) # "deleted"
          BY DEF KindOf
        <5>3. \A e \in Diff(r, s, files) : e.kind # "deleted" =>
                 \E f \in files : e.object = f.object /\ e.hash = f.hash
          BY DEF Diff
        <5>4. ASSUME NEW f \in files
              PROVE  \E e \in Diff(r, s, files) :
                        e.kind # "deleted" /\ e.object = f.object /\ e.hash = f.hash
          <6> DEFINE e == [run |-> r, object |-> f.object,
                           kind |-> KindOf(f, Snapshot(s)), hash |-> f.hash]
          <6>1. e \in Diff(r, s, files) /\ e.kind # "deleted"
            BY <5>1, <5>2
          <6>2. e.object = f.object /\ e.hash = f.hash
            OBVIOUS
          <6> QED
            BY <6>1, <6>2
        <5> QED
          BY <5>3, <5>4
      <4>5. Snapshot(s)' = files
        BY <2>4, <3>2, CommitFacts
      <4>6. Explains(r, s)'
        BY <4>3, <4>4, <4>5 DEF Explains
      <4> QED
        BY <4>1, <4>6, <3>1, <3>2, <2>4, CommitFacts
    <3>3. CASE s = job[p].source /\ runStatus[r] = "ABSENT"
      <4>1. lastRun'[s] = r /\ runStatus'[r] = "ABSENT"
        BY <2>4, <3>1, <3>3, <1>a, CommitFacts DEF ApplyCommit, TypeOK
      <4>2. Snapshot(s)' = {}
        BY <2>4, <3>3, CommitFacts DEF ApplyCommit, Accepted
      <4> QED
        BY <4>1, <4>2
    <3>4. CASE s # job[p].source
      <4>1. Snapshot(s)' = Snapshot(s)
        BY <2>4, <3>4, <1>b, CommitFacts
      <4>2. lastRun'[s] = lastRun[s] /\ lastRun[s] \in RunIds \cup {None}
        BY <2>4, <3>4, <1>a, <1>b DEF ApplyCommit, TypeOK
      <4>3. CASE lastRun[s] # r
        <5>1. lastRun[s] \in RunIds => runStatus'[lastRun[s]] = runStatus[lastRun[s]]
          BY <2>4, <4>3, <1>a DEF ApplyCommit, TypeOK
        <5>2. {e \in events' : e.run = lastRun[s] /\ e.kind # "deleted"}
                = {e \in events : e.run = lastRun[s] /\ e.kind # "deleted"}
          BY <2>4, <4>3, CommitFacts DEF ApplyCommit
        <5> QED
          BY <5>1, <5>2, <4>1, <4>2, <3>1, <1>a DEF CursorExplainsSnapshot, Explains
      <4>4. CASE lastRun[s] = r
        <5>1. runStatus[r] = "ABSENT" /\ Snapshot(s) = {}
          BY <4>4, <3>1, <3>4, <2>4, <1>a, CommitFacts, NoneAssumption DEF CursorExplainsSnapshot
        <5>2. runStatus'[r] = "ABSENT"
          BY <2>4, <5>1, <1>a, CommitFacts DEF ApplyCommit, TypeOK
        <5> QED
          BY <5>1, <5>2, <4>1, <4>2, <4>4
      <4> QED
        BY <4>3, <4>4
    <3> QED
      BY <3>2, <3>3, <3>4
  <2>5. ASSUME NEW t \in SourceIds, DeleteDerived(p, t) \/ Revoke(p, t)
        PROVE  CursorExplains(s)'
    <3>1. s \in sources
      BY <2>5 DEF DeleteDerived, Revoke
    <3>2. CASE s = t
      BY <2>5, <3>2, <1>a, <1>b DEF DeleteDerived, Revoke, DropFiles, Snapshot, TypeOK
    <3>3. CASE s # t
      <4>1. lastRun'[s] = lastRun[s] /\ Snapshot(s)' = Snapshot(s)
        BY <2>5, <3>3, <1>a, <1>b DEF DeleteDerived, Revoke, DropFiles, Snapshot, TypeOK
      <4>2. lastRun[s] \in RunIds \cup {None}
        BY <1>a, <1>b DEF TypeOK
      <4>3. CASE lastRun[s] # None /\ runStatus[lastRun[s]] # "ABSENT"
        <5>1. runSource[lastRun[s]] = s /\ runStatus[lastRun[s]] = "SUCCEEDED" /\ Explains(lastRun[s], s)
          BY <3>1, <4>3, <1>a DEF CursorExplainsSnapshot
        <5>2. /\ runSource'[lastRun[s]] = s /\ runStatus'[lastRun[s]] = "SUCCEEDED"
              /\ {e \in events' : e.run = lastRun[s] /\ e.kind # "deleted"}
                   = {e \in events : e.run = lastRun[s] /\ e.kind # "deleted"}
          BY <2>5, <3>3, <4>2, <4>3, <5>1, <1>a
             DEF DeleteDerived, Revoke, DropRuns, RunsOf, TypeOK
        <5> QED
          BY <4>1, <4>3, <5>1, <5>2 DEF Explains
      <4>4. CASE lastRun[s] = None \/ runStatus[lastRun[s]] = "ABSENT"
        <5>1. Snapshot(s) = {}
          BY <3>1, <4>4, <1>a DEF CursorExplainsSnapshot
        <5>2. lastRun[s] = None \/ runStatus'[lastRun[s]] = "ABSENT"
          BY <2>5, <4>2, <4>4, <1>a DEF DeleteDerived, Revoke, DropRuns, RunsOf, TypeOK
        <5> QED
          BY <4>1, <5>1, <5>2
      <4> QED
        BY <4>3, <4>4
    <3> QED
      BY <3>2, <3>3
  <2> QED
    BY <2>1, <2>2, <2>3, <2>4, <2>5 DEF Writes
<1> QED
  BY <1>1, <1>2, QuietOrWrites

----------------------------------------------------------------------------
LEMMA InitInvariant == Init => StoreInvariant
<1> SUFFICES ASSUME Init
             PROVE  StoreInvariant
  OBVIOUS
<1>1. /\ UnregisteredSourcesHaveNoCursor /\ NothingOutlivesItsSource
      /\ OnlySuccessHasEvents /\ SnapshotMirrorsDocuments /\ RowsAreKeyed
      /\ OneSourcePerRoot /\ CursorExplainsSnapshot
  BY DEF Init, UnregisteredSourcesHaveNoCursor, NothingOutlivesItsSource,
         OnlySuccessHasEvents, SnapshotMirrorsDocuments, RowsAreKeyed,
         OneSourcePerRoot, CursorExplainsSnapshot
<1> QED
  BY <1>1, InitTyped, InitDriven DEF StoreInvariant

LEMMA InvariantStep == StoreInvariant /\ [Next]_vars => StoreInvariant'
<1> SUFFICES ASSUME StoreInvariant, [Next]_vars
             PROVE  StoreInvariant'
  OBVIOUS
<1>1. TypeOK' /\ JobsFitTheirStage' /\ RunsHaveOneDriver'
  BY TypeStep, JobsStep, DriverStep DEF StoreInvariant
<1>2. UnregisteredSourcesHaveNoCursor' /\ NothingOutlivesItsSource' /\ OnlySuccessHasEvents'
  BY NoCursorStep, ReferencesStep, SilenceStep DEF StoreInvariant
<1>3. SnapshotMirrorsDocuments' /\ RowsAreKeyed' /\ OneSourcePerRoot'
  BY MirrorStep, KeysStep, RootsStep DEF StoreInvariant
<1>4. CursorExplainsSnapshot'
  BY CursorStep
<1> QED
  BY <1>1, <1>2, <1>3, <1>4 DEF StoreInvariant

\* The inductive invariant holds of every execution of the store.
THEOREM InvariantHolds == Spec => []StoreInvariant
  BY InitInvariant, InvariantStep, PTL DEF Spec

\* Every variable keeps its type, for any number of processes, sources,
\* runs, paths and contents.
THEOREM TypeCorrect == Spec => []TypeOK
<1>1. StoreInvariant => TypeOK
  BY DEF StoreInvariant
<1> QED
  BY <1>1, InvariantHolds, PTL

\* A snapshot has one row for an object and one for a path, also when two
\* paths casefold to one object.
THEOREM RowsStayKeyed == Spec => []RowsAreKeyed
<1>1. StoreInvariant => RowsAreKeyed
  BY DEF StoreInvariant
<1> QED
  BY <1>1, InvariantHolds, PTL

\* Racing registrations of one directory yield one source.
THEOREM RootsAreUnique == Spec => []OneSourcePerRoot
<1>1. StoreInvariant => OneSourcePerRoot
  BY DEF StoreInvariant
<1> QED
  BY <1>1, InvariantHolds, PTL

\* Revocation leaves nothing behind, whatever was in flight.
THEOREM RevocationIsComplete == Spec => []NothingOutlivesItsSource
<1>1. StoreInvariant => NothingOutlivesItsSource
  BY DEF StoreInvariant
<1> QED
  BY <1>1, InvariantHolds, PTL

\* A run that did not succeed has published no event.
THEOREM UnsuccessfulRunsAreSilent == Spec => []OnlySuccessHasEvents
<1>1. StoreInvariant => OnlySuccessHasEvents
  BY DEF StoreInvariant
<1> QED
  BY <1>1, InvariantHolds, PTL

\* The run a cursor names explains the snapshot.
THEOREM CursorsExplain == Spec => []CursorExplainsSnapshot
<1>1. StoreInvariant => CursorExplainsSnapshot
  BY DEF StoreInvariant
<1> QED
  BY <1>1, InvariantHolds, PTL

\* A run that succeeded or failed keeps its outcome.
THEOREM OutcomesStay == Spec => OutcomesAreFinal
<1> DEFINE Kept == \A r \in RunIds : runStatus[r] \in {"SUCCEEDED", "FAILED"} =>
                      runStatus'[r] \in {runStatus[r], "ABSENT"}
<1>1. StoreInvariant /\ [Next]_vars => [Kept]_vars
  <2> SUFFICES ASSUME StoreInvariant, [Next]_vars
               PROVE  Kept
    OBVIOUS
  <2>0. TypeOK
    BY DEF StoreInvariant
  <2>1. CASE Quiet
    BY <2>1 DEF Quiet
  <2>2. CASE \E p \in Procs : Writes(p)
    <3> PICK p \in Procs : Writes(p)
      BY <2>2
    <3>1. CASE Recover(p) \/ FailRun(p)
      BY <3>1, <2>0 DEF Recover, Recovered, FailRun, Failed, TypeOK
    <3>2. CASE RegisterInsert(p)
      BY <3>2 DEF RegisterInsert
    <3>3. CASE StartInsert(p)
      BY <3>3, <2>0 DEF StartInsert, StoreInvariant, RunsHaveOneDriver, TypeOK
    <3>4. CASE ApplyCommit(p)
      BY <3>4, <2>0, CommitFacts DEF ApplyCommit, TypeOK
    <3>5. CASE \E s \in SourceIds : DeleteDerived(p, s) \/ Revoke(p, s)
      BY <3>5 DEF DeleteDerived, Revoke, DropRuns
    <3> QED
      BY <3>1, <3>2, <3>3, <3>4, <3>5 DEF Writes
  <2> QED
    BY <2>1, <2>2, QuietOrWrites
<1> QED
  BY <1>1, InvariantHolds, PTL DEF Spec, OutcomesAreFinal

\* A snapshot changes only as a whole, together with its cursor.
THEOREM SnapshotsMoveWithCursors == Spec => SnapshotMovesWithCursor
<1> DEFINE Moved == \A s \in SourceIds : Snapshot(s)' # Snapshot(s) =>
               \/ \E r \in RunIds :
                    /\ runStatus[r] # "SUCCEEDED" /\ runStatus'[r] = "SUCCEEDED"
                    /\ lastRun'[s] = r
               \/ Snapshot(s)' = {} /\ lastRun'[s] = None
<1>1. StoreInvariant /\ [Next]_vars => [Moved]_vars
  <2> SUFFICES ASSUME StoreInvariant, [Next]_vars, NEW s \in SourceIds,
                      Snapshot(s)' # Snapshot(s)
               PROVE  \/ \E r \in RunIds :
                           /\ runStatus[r] # "SUCCEEDED" /\ runStatus'[r] = "SUCCEEDED"
                           /\ lastRun'[s] = r
                      \/ Snapshot(s)' = {} /\ lastRun'[s] = None
    OBVIOUS
  <2>0. TypeOK
    BY DEF StoreInvariant
  <2>1. CASE Quiet
    BY <2>1 DEF Quiet, Snapshot
  <2>2. CASE \E p \in Procs : Writes(p)
    <3> PICK p \in Procs : Writes(p)
      BY <2>2
    <3>1. CASE ApplyCommit(p)
      <4>1. s = job[p].source
        BY <3>1, CommitFacts
      <4>2. runStatus[job[p].run] # "ABSENT"
        <5>1. SUFFICES ASSUME runStatus[job[p].run] = "ABSENT"
                       PROVE  FALSE
          OBVIOUS
        <5>2. job[p].files = {} /\ Removed(job[p].source, job[p].files) = {}
          BY <3>1, <5>1 DEF ApplyCommit, Accepted
        <5>3. Snapshot(s) = {}
          BY <4>1, <5>2 DEF Removed, ObjectsIn
        <5> QED
          BY <3>1, <4>1, <5>2, <5>3, CommitFacts
      <4>3. s \in sources
        BY <3>1, <4>1, <4>2, CommitFacts DEF StoreInvariant, NothingOutlivesItsSource
      <4> QED
        BY <3>1, <4>1, <4>2, <4>3, <2>0, CommitFacts DEF ApplyCommit, TypeOK
    <3>2. CASE UNCHANGED fileState
      BY <3>2 DEF Snapshot
    <3>3. CASE \E t \in SourceIds : DeleteDerived(p, t) \/ Revoke(p, t)
      BY <3>3, <2>0 DEF DeleteDerived, Revoke, DropFiles, Snapshot, TypeOK
    <3> QED
      BY <3>1, <3>2, <3>3 DEF Writes, Recover, RegisterInsert, StartInsert, FailRun
  <2> QED
    BY <2>1, <2>2, QuietOrWrites
<1> QED
  BY <1>1, InvariantHolds, PTL DEF Spec, SnapshotMovesWithCursor

\* The hashes stored for one object of a source, as EventsDescribeTheChange
\* collects them.
HashesOf(table, source, object) ==
    {row.hash : row \in {x \in table : x.source = source /\ x.object = object}}

\* What the events of a commit say of a file that was scanned.
LEMMA FileEvents ==
  ASSUME StoreInvariant, NEW p \in Procs, ApplyCommit(p),
         NEW file \in job[p].files
  PROVE  LET before == HashesOf(fileState, job[p].source, file.object)
             after  == HashesOf(fileState', job[p].source, file.object)
             kind   == KindOf(file, Snapshot(job[p].source))
         IN  /\ kind = "created" => before = {} /\ after # {}
             /\ kind = "unchanged" => after # {} /\ before = after
             /\ kind = "updated" => before # {} /\ after # {} /\ before # after
             /\ kind # "deleted"
<1> DEFINE s == job[p].source
           before == HashesOf(fileState, s, file.object)
           after == HashesOf(fileState', s, file.object)
<1>1. s \in SourceIds /\ {x \in fileState' : x.source = s} = job[p].files
  BY CommitFacts DEF Snapshot
<1>2. \A f, g \in job[p].files : f.object = g.object => f = g
  BY DEF ApplyCommit, Accepted
<1>3. {x \in fileState' : x.source = s /\ x.object = file.object} = {file}
  BY <1>1, <1>2
<1>4. after = {file.hash}
  BY <1>3 DEF HashesOf
<1>5. before = {row.hash : row \in {x \in Snapshot(s) : x.object = file.object}}
  BY DEF HashesOf, Snapshot
<1>6. \A a, b \in Snapshot(s) : a.object = b.object => a = b
  BY DEF StoreInvariant, RowsAreKeyed, Snapshot
<1>7. CASE file.object \notin ObjectsIn(Snapshot(s))
  <2>1. before = {}
    BY <1>5, <1>7 DEF ObjectsIn
  <2> QED
    BY <1>4, <1>7, <2>1 DEF KindOf
<1>8. CASE file.object \in ObjectsIn(Snapshot(s))
  <2>1. PICK row \in Snapshot(s) : row.object = file.object
    BY <1>8 DEF ObjectsIn
  <2>2. {x \in Snapshot(s) : x.object = file.object} = {row}
    BY <2>1, <1>6
  <2>3. before = {row.hash}
    BY <1>5, <2>2
  <2>4. KindOf(file, Snapshot(s)) =
          IF row.hash = file.hash THEN "unchanged" ELSE "updated"
    BY <1>8, <2>1, <1>6 DEF KindOf
  <2> QED
    BY <1>4, <2>3, <2>4
<1> QED
  BY <1>7, <1>8

\* An event that is new is one of the commit, whose run is that of its source.
LEMMA NewEvents ==
  ASSUME StoreInvariant, [Next]_vars, NEW e \in events' \ events
  PROVE  \E p \in Procs :
           /\ ApplyCommit(p)
           /\ e \in Diff(job[p].run, job[p].source, job[p].files)
           /\ runSource[e.run] = job[p].source
<1>1. ~Quiet
  BY DEF Quiet
<1>2. PICK p \in Procs : Writes(p)
  BY <1>1, QuietOrWrites
<1>3. ApplyCommit(p)
  BY <1>2 DEF Writes, Recover, RegisterInsert, StartInsert, FailRun,
              DeleteDerived, Revoke, DropRuns
<1>4. e \in Diff(job[p].run, job[p].source, job[p].files)
  BY <1>3 DEF ApplyCommit
<1>5. e.run = job[p].run
  BY <1>3, <1>4, CommitFacts
<1>6. runStatus[job[p].run] # "ABSENT"
  BY <1>3, <1>4 DEF ApplyCommit, Accepted, Diff
<1> QED
  BY <1>3, <1>4, <1>5, <1>6, CommitFacts

\* The events of a publication are the difference it makes: what is called
\* created, deleted, updated or unchanged is that, between the snapshot before
\* and the one after the very step (SQLiteStore.apply_scan).
THEOREM EventsAreTheChange == Spec => EventsDescribeTheChange
<1> DEFINE Described ==
      \A e \in events' \ events :
          LET before == HashesOf(fileState, runSource[e.run], e.object)
              after == HashesOf(fileState', runSource[e.run], e.object)
          IN  CASE e.kind = "created" -> before = {} /\ after # {}
                [] e.kind = "deleted" -> before # {} /\ after = {}
                [] e.kind = "unchanged" -> after # {} /\ before = after
                [] e.kind = "updated" ->
                     before # {} /\ after # {} /\ before # after
<1>1. StoreInvariant /\ [Next]_vars => [Described]_vars
  <2> SUFFICES ASSUME StoreInvariant, [Next]_vars, NEW e \in events' \ events
               PROVE  LET before == HashesOf(fileState, runSource[e.run], e.object)
                          after == HashesOf(fileState', runSource[e.run], e.object)
                      IN  CASE e.kind = "created" -> before = {} /\ after # {}
                            [] e.kind = "deleted" -> before # {} /\ after = {}
                            [] e.kind = "unchanged" -> after # {} /\ before = after
                            [] e.kind = "updated" ->
                                 before # {} /\ after # {} /\ before # after
    OBVIOUS
  <2>1. PICK p \in Procs :
          /\ ApplyCommit(p)
          /\ e \in Diff(job[p].run, job[p].source, job[p].files)
          /\ runSource[e.run] = job[p].source
    BY NewEvents
  <2> DEFINE s == job[p].source
             before == HashesOf(fileState, s, e.object)
             after == HashesOf(fileState', s, e.object)
  <2>2. CASE \E file \in job[p].files :
               e.object = file.object /\ e.kind = KindOf(file, Snapshot(s))
    <3>1. PICK file \in job[p].files :
            e.object = file.object /\ e.kind = KindOf(file, Snapshot(s))
      BY <2>2
    <3>2. e.kind \in {"created", "unchanged", "updated"}
      BY <3>1 DEF KindOf
    <3>3. /\ e.kind = "created" => before = {} /\ after # {}
          /\ e.kind = "unchanged" => after # {} /\ before = after
          /\ e.kind = "updated" => before # {} /\ after # {} /\ before # after
      BY <3>1, <2>1, FileEvents
    <3> QED
      BY <2>1, <3>2, <3>3
  <2>3. CASE e.object \in Removed(s, job[p].files) /\ e.kind = "deleted"
    <3>1. {x \in fileState' : x.source = s} = job[p].files
      BY <2>1, CommitFacts DEF Snapshot
    <3>2. before # {}
      BY <2>3 DEF HashesOf, Removed, ObjectsIn, Snapshot
    <3>3. after = {}
      BY <2>3, <3>1 DEF HashesOf, Removed, ObjectsIn
    <3> QED
      BY <2>1, <2>3, <3>2, <3>3
  <2>4. \/ \E file \in job[p].files :
             e.object = file.object /\ e.kind = KindOf(file, Snapshot(s))
        \/ e.object \in Removed(s, job[p].files) /\ e.kind = "deleted"
    BY <2>1 DEF Diff
  <2> QED
    BY <2>2, <2>3, <2>4
<1>2. [Described]_vars =>
        [\A e \in events' \ events :
          LET HashesIn(table) ==
                {row.hash : row \in {x \in table : /\ x.source = runSource[e.run]
                                                   /\ x.object = e.object}}
              before == HashesIn(fileState)
              after == HashesIn(fileState')
          IN  CASE e.kind = "created" -> before = {} /\ after # {}
                [] e.kind = "deleted" -> before # {} /\ after = {}
                [] e.kind = "unchanged" -> after # {} /\ before = after
                [] e.kind = "updated" ->
                     before # {} /\ after # {} /\ before # after]_vars
  BY DEF HashesOf
<1> QED
  BY <1>1, <1>2, InvariantHolds, PTL DEF Spec, EventsDescribeTheChange

----------------------------------------------------------------------------
\* The refinement: each step of the store is a step of the ledger or leaves
\* it as it is.

LEMMA InitRefines == Init => Ledger!Init
  BY DEF Init, Ledger!Init, Snapshot, PhaseOf

LEMMA Phases ==
  /\ PhaseOf("ABSENT") = "none"
  /\ PhaseOf("RUNNING") = "open"
  /\ PhaseOf("ABORTED") = "open"
  /\ PhaseOf("SUCCEEDED") = "published"
  /\ PhaseOf("FAILED") = "failed"
  BY DEF PhaseOf

LEMMA StepRefines ==
  ASSUME StoreInvariant, [Next]_vars
  PROVE  [Ledger!Next]_(Ledger!ledger)
<1>0. TypeOK
  BY DEF StoreInvariant
<1> DEFINE snapshots == [s \in SourceIds |-> Snapshot(s)]
           phases == [r \in RunIds |-> PhaseOf(runStatus[r])]
<1>1. CASE Quiet
  <2>1. snapshots' = snapshots /\ phases' = phases
    BY <1>1 DEF Quiet, Snapshot
  <2> QED
    BY <1>1, <2>1 DEF Quiet, Ledger!ledger
<1>2. CASE \E p \in Procs : Writes(p)
  <2> PICK p \in Procs : Writes(p)
    BY <1>2
  <2>1. CASE Recover(p)
    <3>1. snapshots' = snapshots
      BY <2>1 DEF Recover, Snapshot
    <3>2. phases' = phases
      BY <2>1, <1>0, Phases DEF Recover, Recovered, TypeOK
    <3> QED
      BY <2>1, <3>1, <3>2 DEF Recover, Ledger!ledger
  <2>2. CASE RegisterInsert(p)
    <3>1. snapshots' = snapshots /\ phases' = phases /\ runSource' = runSource
      BY <2>2 DEF RegisterInsert, Snapshot
    <3>2. CASE sources' = sources
      BY <3>1, <3>2 DEF Ledger!ledger
    <3>3. CASE sources' # sources
      <4>1. pc[p] = "registering" /\ sources' = sources \cup {job[p].source}
        BY <2>2, <3>3 DEF RegisterInsert
      <4>2. job[p].source \in SourceIds
        BY <4>1, <1>0 DEF StoreInvariant, JobsFitTheirStage, JobFitsItsStage, TypeOK
      <4>3. job[p].source \notin sources
        BY <3>3, <4>1
      <4>4. Ledger!Register(job[p].source)
        BY <3>1, <4>1, <4>3 DEF Ledger!Register
      <4> QED
        BY <4>2, <4>4 DEF Ledger!Next
    <3> QED
      BY <3>2, <3>3
  <2>3. CASE StartInsert(p)
    <3>1. snapshots' = snapshots
      BY <2>3 DEF StartInsert, Snapshot
    <3>2. CASE job[p].source \in sources
      <4>1. job[p].run \in RunIds /\ job[p].source \in SourceIds /\ runStatus[job[p].run] = "ABSENT"
        BY <2>3, <1>0 DEF StartInsert, StoreInvariant, JobsFitTheirStage, JobFitsItsStage, RunsHaveOneDriver, TypeOK
      <4>2. phases' = [phases EXCEPT ![job[p].run] = "open"]
        BY <2>3, <3>2, <4>1, <1>0, Phases DEF StartInsert, TypeOK
      <4>3. Ledger!Begin(job[p].run, job[p].source)
        BY <2>3, <3>1, <3>2, <4>1, <4>2, Phases DEF StartInsert, Ledger!Begin
      <4> QED
        BY <4>1, <4>3 DEF Ledger!Next
    <3>3. CASE job[p].source \notin sources
      BY <2>3, <3>1, <3>3 DEF StartInsert, Ledger!ledger
    <3> QED
      BY <3>2, <3>3
  <2>4. CASE ApplyCommit(p)
    <3> PICK r \in RunIds, t \in SourceIds, files \in SUBSET FileRow :
               r = job[p].run /\ t = job[p].source /\ files = job[p].files
      BY <2>4, <1>0, CommitFacts DEF TypeOK, Job
    <3>1. snapshots' = [snapshots EXCEPT ![t] = files]
      BY <2>4, CommitFacts
    <3>2. sources' = sources /\ runSource' = runSource
      BY <2>4 DEF ApplyCommit
    <3>3. CASE runStatus[r] = "ABSENT"
      <4>1. files = {} /\ Snapshot(t) = {}
        BY <2>4, <3>3 DEF ApplyCommit, Accepted, Removed, ObjectsIn
      <4>2. snapshots' = snapshots
        BY <3>1, <4>1
      <4>3. phases' = phases
        BY <2>4, <3>3, <1>0 DEF ApplyCommit, TypeOK
      <4> QED
        BY <3>2, <4>2, <4>3 DEF Ledger!ledger
    <3>4. CASE runStatus[r] # "ABSENT"
      <4>1. runStatus[r] \in {"RUNNING", "ABORTED"} /\ runSource[r] = t
        BY <2>4, <3>4, <1>0, CommitFacts DEF TypeOK, Statuses
      <4>2. phases' = [phases EXCEPT ![r] = "published"]
        BY <2>4, <3>4, <1>0, Phases DEF ApplyCommit, TypeOK
      <4>3. Ledger!Keyed(files)
        BY <2>4, CommitFacts DEF ApplyCommit, Accepted, Ledger!Keyed, StoreInvariant,
                                 JobsFitTheirStage, JobFitsItsStage
      <4>4. Ledger!Publish(r, files)
        BY <3>1, <3>2, <4>1, <4>2, <4>3, Phases DEF Ledger!Publish
      <4> QED
        BY <4>4 DEF Ledger!Next
    <3> QED
      BY <3>3, <3>4
  <2>5. CASE FailRun(p)
    <3>1. snapshots' = snapshots
      BY <2>5 DEF FailRun, Snapshot
    <3>2. job[p].run \in RunIds
      BY <2>5, <1>0 DEF FailRun, StoreInvariant, JobsFitTheirStage, JobFitsItsStage, ActiveStages, TypeOK
    <3>3. CASE runStatus[job[p].run] = "RUNNING"
      <4>1. phases' = [phases EXCEPT ![job[p].run] = "failed"]
        BY <2>5, <3>2, <3>3, <1>0, Phases DEF FailRun, Failed, TypeOK
      <4>2. Ledger!Fail(job[p].run)
        BY <2>5, <3>1, <3>2, <3>3, <4>1, Phases DEF FailRun, Ledger!Fail
      <4> QED
        BY <3>2, <4>2 DEF Ledger!Next
    <3>4. CASE runStatus[job[p].run] # "RUNNING"
      <4>1. phases' = phases
        BY <2>5, <3>4, <1>0 DEF FailRun, Failed, TypeOK
      <4> QED
        BY <2>5, <3>1, <4>1 DEF FailRun, Ledger!ledger
    <3> QED
      BY <3>3, <3>4
  <2>6. ASSUME NEW t \in SourceIds, DeleteDerived(p, t) \/ Revoke(p, t)
        PROVE  Ledger!Next
    <3>1. snapshots' = [snapshots EXCEPT ![t] = {}]
      BY <2>6 DEF DeleteDerived, Revoke, DropFiles, Snapshot
    <3>2. phases' = [r \in RunIds |-> IF runSource[r] = t THEN "none" ELSE phases[r]]
      BY <2>6, Phases DEF DeleteDerived, Revoke, DropRuns, RunsOf
    <3>3. runSource' = [r \in RunIds |-> IF runSource[r] = t THEN None ELSE runSource[r]]
      BY <2>6 DEF DeleteDerived, Revoke, DropRuns, RunsOf
    <3>4. t \in sources
      BY <2>6 DEF DeleteDerived, Revoke
    <3>5. Ledger!Forget(t)
      BY <3>1, <3>2, <3>3, <3>4 DEF Ledger!Forget
    <3>6. Ledger!Clear(t) \/ Ledger!Revoke(t)
      BY <2>6, <3>5 DEF DeleteDerived, Revoke, Ledger!Clear, Ledger!Revoke
    <3> QED
      BY <3>6 DEF Ledger!Next
  <2> QED
    BY <2>1, <2>2, <2>3, <2>4, <2>5, <2>6 DEF Writes
<1> QED
  BY <1>1, <1>2, QuietOrWrites

\* The store implements the ledger: a snapshot is replaced only as a whole,
\* by a run that has neither failed nor published before.
THEOREM StoreImplementsLedger == Spec => LedgerSpec
  BY InitRefines, StepRefines, InvariantHolds, PTL DEF Spec, LedgerSpec, Ledger!Spec

----------------------------------------------------------------------------
(***************************************************************************)
(* DatabaseSchema                                                          *)
(***************************************************************************)

(* What holds while processes migrate                                      *)

Copying == {"copy", "copy_owned"}
Replacing == Copying \cup {"drop", "rename"}

\* p has created the copy of t and not yet put it in the place of t.
Replaces(p, t) ==
    /\ IsMigrating(p)
    /\ Statement(p).op \in Replacing
    /\ Statement(p).name = t

\* What has the name of a table is a table, which goes with no other.
NamesOfTables == \A o \in schema : o.name \in Copied \cup Copies => o.on = "none"

\* The copy is a lock: CREATE TABLE is refused to whoever comes second, until
\* RENAME removes its name.
OneReplaces ==
    \A p \in Openers, t \in Copied : Replaces(p, t) =>
        /\ Has(schema, CopyOf[t])
        /\ \A q \in Openers : Replaces(q, t) => q = p

RowsHaveTables ==
    \A t \in Copied \cup Copies : rows[t] # {} => Has(schema, t)

RowsAreInPlace ==
    \A t \in Copied : \A r \in rows[t] \cup rows[CopyOf[t]] : TableOf[r] = t

\* The version of the database is at least that of every script that runs ...
VersionsFollow == ~overtaken => \A p \in Openers : at[p][1] <= version

\* ... so that nobody inserts while a table is about to be dropped.
CopiesAreComplete ==
    \A p \in Openers, t \in Copied :
        /\ ~overtaken
        /\ Replaces(p, t)
        /\ Statement(p).op = "drop"
        /\ version = at[p][1]
        => rows[t] \ Orphans \subseteq rows[CopyOf[t]]

Gone(t) == rows[t] \cap Orphans = {}

\* The rows of revoked sources stay behind in the tables that are dropped.
OrphansGo ==
    /\ \A t \in Copies : Gone(t)
    /\ \A p \in Openers : at[p][1] = 7 =>
         /\ at[p][2] > 3 => Gone("agent_action_audit")
         /\ at[p][2] > 8 => Gone("agent_action_workflows")
    /\ version = Newest => \A t \in Copied : Gone(t)

RowsStay ==
    ~overtaken => \A r \in written \ Orphans :
        r \in rows[TableOf[r]] \cup rows[CopyOf[TableOf[r]]]

Inv ==
    /\ SchemaTypeOK
    /\ NamesOfTables
    /\ OneReplaces
    /\ RowsHaveTables
    /\ RowsAreInPlace
    /\ VersionsFollow
    /\ CopiesAreComplete
    /\ OrphansGo
    /\ RowsStay

----------------------------------------------------------------------------
(* The scripts                                                             *)

\* What a sequence has to be in order to be the one joined from two.
LEMMA Joined ==
    ASSUME NEW S, NEW s \in Seq(S), NEW t \in Seq(S), NEW u \in Seq(S),
           Len(u) = Len(s) + Len(t),
           \A i \in 1 .. Len(s) : u[i] = s[i],
           \A i \in 1 .. Len(t) : u[Len(s) + i] = t[i]
    PROVE  s \o t = u
  <1>1. /\ s \o t \in Seq(S)
        /\ Len(s \o t) = Len(s) + Len(t)
        /\ \A i \in 1 .. Len(s) + Len(t) : (s \o t)[i] =
             IF i <= Len(s) THEN s[i] ELSE t[i - Len(s)]
    BY ConcatProperties
  <1>2. Len(s) \in Nat /\ Len(t) \in Nat
    BY LenProperties
  <1>3. ASSUME NEW i \in 1 .. Len(u) PROVE (s \o t)[i] = u[i]
    <2>1. CASE i <= Len(s)
      BY <1>1, <1>2, <2>1
    <2>2. CASE ~ (i <= Len(s))
      <3>1. i - Len(s) \in 1 .. Len(t) /\ Len(s) + (i - Len(s)) = i
        BY <1>2, <2>2
      <3>2. u[i] = t[i - Len(s)]
        BY <3>1
      <3> QED BY <1>1, <1>2, <2>2, <3>2
    <2> QED BY <2>1, <2>2
  <1> QED BY <1>1, <1>3, SeqEqual

\* The two joins that Scripts contains.
LEMMA FourAndTwo ==
    ASSUME NEW a, NEW b, NEW c, NEW d, NEW e, NEW f
    PROVE  <<a, b, c, d>> \o <<e, f>> = <<a, b, c, d, e, f>>
  <1> DEFINE S == {a, b, c, d, e, f}
             s == <<a, b, c, d>>
             t == <<e, f>>
             u == <<a, b, c, d, e, f>>
  <1>1. s \in Seq(S) /\ t \in Seq(S) /\ u \in Seq(S)
    OBVIOUS
  <1>2. /\ Len(u) = Len(s) + Len(t)
        /\ \A i \in 1 .. Len(s) : u[i] = s[i]
        /\ \A i \in 1 .. Len(t) : u[Len(s) + i] = t[i]
    OBVIOUS
  <1> HIDE DEF S, s, t, u
  <1>3. s \o t = u
    BY <1>1, <1>2, Joined
  <1> QED BY <1>3 DEF s, t, u

LEMMA FourOneFourOne ==
    ASSUME NEW a, NEW b, NEW c, NEW d, NEW e,
           NEW f, NEW g, NEW h, NEW i, NEW j
    PROVE  <<a, b, c, d>> \o <<e>> \o <<f, g, h, i>> \o <<j>>
             = <<a, b, c, d, e, f, g, h, i, j>>
  <1> DEFINE S == {a, b, c, d, e, f, g, h, i, j}
             s == <<a, b, c, d>>
             t == <<e>>
             st == <<a, b, c, d, e>>
             u == <<f, g, h, i>>
             stu == <<a, b, c, d, e, f, g, h, i>>
             v == <<j>>
             stuv == <<a, b, c, d, e, f, g, h, i, j>>
  <1>1. /\ s \in Seq(S) /\ t \in Seq(S) /\ st \in Seq(S) /\ u \in Seq(S)
        /\ stu \in Seq(S) /\ v \in Seq(S) /\ stuv \in Seq(S)
    OBVIOUS
  <1>2. /\ Len(st) = Len(s) + Len(t)
        /\ \A k \in 1 .. Len(s) : st[k] = s[k]
        /\ \A k \in 1 .. Len(t) : st[Len(s) + k] = t[k]
    OBVIOUS
  <1>3. /\ Len(stu) = Len(st) + Len(u)
        /\ \A k \in 1 .. Len(st) : stu[k] = st[k]
        /\ \A k \in 1 .. Len(u) : stu[Len(st) + k] = u[k]
    OBVIOUS
  <1>4. /\ Len(stuv) = Len(stu) + Len(v)
        /\ \A k \in 1 .. Len(stu) : stuv[k] = stu[k]
        /\ \A k \in 1 .. Len(v) : stuv[Len(stu) + k] = v[k]
    OBVIOUS
  <1> HIDE DEF S, s, t, st, u, stu, v, stuv
  <1>5. s \o t = st /\ st \o u = stu /\ stu \o v = stuv
    <2>1. s \o t = st
      BY <1>1, <1>2, Joined
    <2>2. st \o u = stu
      BY <1>1, <1>2, <1>3, Joined
    <2>3. stu \o v = stuv
      BY <1>1, <1>3, <1>4, Joined
    <2> QED BY <2>1, <2>2, <2>3
  <1> QED BY <1>5 DEF s, t, u, v, stuv

\* The scripts, statement by statement.
LEMMA Script0 ==
    /\ Len(ScriptOf(0)) = 7
    /\ ScriptOf(0)[1] = Create("sources")
    /\ ScriptOf(0)[2] = Create("sync_runs")
    /\ ScriptOf(0)[3] = Create("file_state")
    /\ ScriptOf(0)[4] = Create("documents")
    /\ ScriptOf(0)[5] = Create("change_events")
    /\ ScriptOf(0)[6] = Create("staged_files")
    /\ ScriptOf(0)[7] = SetVersion
  BY DEF ScriptOf, Scripts

LEMMA Script1 ==
    /\ Len(ScriptOf(1)) = 4
    /\ ScriptOf(1)[1] = Create("lexical_chunks")
    /\ ScriptOf(1)[2] = CreateIndex("lexical_chunks_source_idx", "lexical_chunks")
    /\ ScriptOf(1)[3] = CreateIndex("lexical_chunks_type_idx", "lexical_chunks")
    /\ ScriptOf(1)[4] = SetVersion
  BY DEF ScriptOf, Scripts

LEMMA Script2 ==
    /\ Len(ScriptOf(2)) = 3
    /\ ScriptOf(2)[1] = Create("vector_chunks")
    /\ ScriptOf(2)[2] = CreateIndex("vector_chunks_source_idx", "vector_chunks")
    /\ ScriptOf(2)[3] = SetVersion
  BY DEF ScriptOf, Scripts

LEMMA Script3 ==
    /\ Len(ScriptOf(3)) = 6
    /\ ScriptOf(3)[1] = Create(CopyOf["vector_chunks"])
    /\ ScriptOf(3)[2] = Copy("vector_chunks")
    /\ ScriptOf(3)[3] = Drop("vector_chunks")
    /\ ScriptOf(3)[4] = Rename("vector_chunks")
    /\ ScriptOf(3)[5] = CreateIndex("vector_chunks_source_idx", "vector_chunks")
    /\ ScriptOf(3)[6] = SetVersion
  <1>1. ScriptOf(3) = <<Create(CopyOf["vector_chunks"]),
             Copy("vector_chunks"),
             Drop("vector_chunks"),
             Rename("vector_chunks"),
             CreateIndex("vector_chunks_source_idx", "vector_chunks"),
             SetVersion>>
    BY FourAndTwo DEF ScriptOf, Scripts, Replaced, Replace
  <1> QED BY <1>1

LEMMA Script4 ==
    /\ Len(ScriptOf(4)) = 3
    /\ ScriptOf(4)[1] = LookFor("paused", "sources")
    /\ ScriptOf(4)[2] = AddColumn("paused", "sources")
    /\ ScriptOf(4)[3] = SetVersion
  BY DEF ScriptOf, Scripts

LEMMA Script5 ==
    /\ Len(ScriptOf(5)) = 2
    /\ ScriptOf(5)[1] = CreateIfMissing("agent_action_audit")
    /\ ScriptOf(5)[2] = SetVersion
  BY DEF ScriptOf, Scripts, Added

LEMMA Script6 ==
    /\ Len(ScriptOf(6)) = 2
    /\ ScriptOf(6)[1] = CreateIfMissing("agent_action_workflows")
    /\ ScriptOf(6)[2] = SetVersion
  BY DEF ScriptOf, Scripts, Added

LEMMA Script7 ==
    /\ Len(ScriptOf(7)) = 10
    /\ ScriptOf(7)[1] = Create(CopyOf["agent_action_audit"])
    /\ ScriptOf(7)[2] = CopyOwned("agent_action_audit")
    /\ ScriptOf(7)[3] = Drop("agent_action_audit")
    /\ ScriptOf(7)[4] = Rename("agent_action_audit")
    /\ ScriptOf(7)[5] = CreateIndex("agent_action_audit_operation_idx", "agent_action_audit")
    /\ ScriptOf(7)[6] = Create(CopyOf["agent_action_workflows"])
    /\ ScriptOf(7)[7] = CopyOwned("agent_action_workflows")
    /\ ScriptOf(7)[8] = Drop("agent_action_workflows")
    /\ ScriptOf(7)[9] = Rename("agent_action_workflows")
    /\ ScriptOf(7)[10] = SetVersion
  <1>1. ScriptOf(7) = <<Create(CopyOf["agent_action_audit"]),
             CopyOwned("agent_action_audit"),
             Drop("agent_action_audit"),
             Rename("agent_action_audit"),
             CreateIndex("agent_action_audit_operation_idx", "agent_action_audit"),
             Create(CopyOf["agent_action_workflows"]),
             CopyOwned("agent_action_workflows"),
             Drop("agent_action_workflows"),
             Rename("agent_action_workflows"),
             SetVersion>>
    BY FourOneFourOne DEF ScriptOf, Scripts, ReplacedOwned, Replace
  <1> QED BY <1>1

LEMMA TableNames ==
    /\ Copied = {"vector_chunks", "agent_action_audit", "agent_action_workflows"}
    /\ CopyOf["vector_chunks"] = "vector_chunks_v4"
    /\ CopyOf["agent_action_audit"] = "agent_action_audit_v8"
    /\ CopyOf["agent_action_workflows"] = "agent_action_workflows_v8"
    /\ \A t \in Copied : CopyOf[t] \in Copies /\ CopyOf[t] \notin Copied
    /\ \A t, u \in Copied : CopyOf[t] = CopyOf[u] => t = u
    /\ Copies = {"vector_chunks_v4", "agent_action_audit_v8",
                 "agent_action_workflows_v8"}
    /\ "none" \notin Copied \cup Copies
  BY DEF Copied, Copies, CopyOf

\* What the statement at i of a script may be, and what went before it.
StatementFits(script, v, i) ==
    LET st == script[i]
        before == script[i - 1]
    IN  /\ st.op # "set_version" => i < Len(script)
        /\ st.op = "look" => v = 4 /\ i = 1
        /\ /\ st.op \in {"create", "create_if_missing", "add_column"}
           /\ st.name \in Copied \cup Copies
           => st.on = "none"
        /\ st.op \in Replacing => i > 1 /\ st.name \in Copied
        /\ st.op \in Copying => before = Create(CopyOf[st.name])
        /\ st.op = "copy" => st.name = "vector_chunks"
        /\ st.op = "drop" => before.op \in Copying /\ before.name = st.name
        /\ st.op = "rename" => before.op = "drop" /\ before.name = st.name
        /\ v = 7 /\ i = 3 => st = Drop("agent_action_audit")
        /\ v = 7 /\ i = 8 => st = Drop("agent_action_workflows")
        /\ v = 7 /\ st.op = "set_version" => i > 8

LEMMA StatementsFit ==
    /\ \A i \in 1 .. 7 : StatementFits(ScriptOf(0), 0, i)
    /\ \A i \in 1 .. 4 : StatementFits(ScriptOf(1), 1, i)
    /\ \A i \in 1 .. 3 : StatementFits(ScriptOf(2), 2, i)
    /\ \A i \in 1 .. 6 : StatementFits(ScriptOf(3), 3, i)
    /\ \A i \in 1 .. 3 : StatementFits(ScriptOf(4), 4, i)
    /\ \A i \in 1 .. 2 : StatementFits(ScriptOf(5), 5, i)
    /\ \A i \in 1 .. 2 : StatementFits(ScriptOf(6), 6, i)
    /\ \A i \in 1 .. 10 : StatementFits(ScriptOf(7), 7, i)
  <1> USE TableNames
      DEF StatementFits, Create, CreateIfMissing, CreateIndex, Copy, CopyOwned,
          Drop, Rename, LookFor, AddColumn, SetVersion, Copying, Replacing
  <1>0. \A i \in 1 .. 7 : StatementFits(ScriptOf(0), 0, i)
    <2>1. StatementFits(ScriptOf(0), 0, 1)
      BY Script0
    <2>2. StatementFits(ScriptOf(0), 0, 2)
      BY Script0
    <2>3. StatementFits(ScriptOf(0), 0, 3)
      BY Script0
    <2>4. StatementFits(ScriptOf(0), 0, 4)
      BY Script0
    <2>5. StatementFits(ScriptOf(0), 0, 5)
      BY Script0
    <2>6. StatementFits(ScriptOf(0), 0, 6)
      BY Script0
    <2>7. StatementFits(ScriptOf(0), 0, 7)
      BY Script0
    <2> HIDE DEF StatementFits
    <2> QED BY <2>1, <2>2, <2>3, <2>4, <2>5, <2>6, <2>7
  <1>1. \A i \in 1 .. 4 : StatementFits(ScriptOf(1), 1, i)
    <2>1. StatementFits(ScriptOf(1), 1, 1)
      BY Script1
    <2>2. StatementFits(ScriptOf(1), 1, 2)
      BY Script1
    <2>3. StatementFits(ScriptOf(1), 1, 3)
      BY Script1
    <2>4. StatementFits(ScriptOf(1), 1, 4)
      BY Script1
    <2> HIDE DEF StatementFits
    <2> QED BY <2>1, <2>2, <2>3, <2>4
  <1>2. \A i \in 1 .. 3 : StatementFits(ScriptOf(2), 2, i)
    <2>1. StatementFits(ScriptOf(2), 2, 1)
      BY Script2
    <2>2. StatementFits(ScriptOf(2), 2, 2)
      BY Script2
    <2>3. StatementFits(ScriptOf(2), 2, 3)
      BY Script2
    <2> HIDE DEF StatementFits
    <2> QED BY <2>1, <2>2, <2>3
  <1>3. \A i \in 1 .. 6 : StatementFits(ScriptOf(3), 3, i)
    <2>1. StatementFits(ScriptOf(3), 3, 1)
      BY Script3
    <2>2. StatementFits(ScriptOf(3), 3, 2)
      BY Script3
    <2>3. StatementFits(ScriptOf(3), 3, 3)
      BY Script3
    <2>4. StatementFits(ScriptOf(3), 3, 4)
      BY Script3
    <2>5. StatementFits(ScriptOf(3), 3, 5)
      BY Script3
    <2>6. StatementFits(ScriptOf(3), 3, 6)
      BY Script3
    <2> HIDE DEF StatementFits
    <2> QED BY <2>1, <2>2, <2>3, <2>4, <2>5, <2>6
  <1>4. \A i \in 1 .. 3 : StatementFits(ScriptOf(4), 4, i)
    <2>1. StatementFits(ScriptOf(4), 4, 1)
      BY Script4
    <2>2. StatementFits(ScriptOf(4), 4, 2)
      BY Script4
    <2>3. StatementFits(ScriptOf(4), 4, 3)
      BY Script4
    <2> HIDE DEF StatementFits
    <2> QED BY <2>1, <2>2, <2>3
  <1>5. \A i \in 1 .. 2 : StatementFits(ScriptOf(5), 5, i)
    <2>1. StatementFits(ScriptOf(5), 5, 1)
      BY Script5
    <2>2. StatementFits(ScriptOf(5), 5, 2)
      BY Script5
    <2> HIDE DEF StatementFits
    <2> QED BY <2>1, <2>2
  <1>6. \A i \in 1 .. 2 : StatementFits(ScriptOf(6), 6, i)
    <2>1. StatementFits(ScriptOf(6), 6, 1)
      BY Script6
    <2>2. StatementFits(ScriptOf(6), 6, 2)
      BY Script6
    <2> HIDE DEF StatementFits
    <2> QED BY <2>1, <2>2
  <1>7. \A i \in 1 .. 10 : StatementFits(ScriptOf(7), 7, i)
    <2>1. StatementFits(ScriptOf(7), 7, 1)
      BY Script7
    <2>2. StatementFits(ScriptOf(7), 7, 2)
      BY Script7
    <2>3. StatementFits(ScriptOf(7), 7, 3)
      BY Script7
    <2>4. StatementFits(ScriptOf(7), 7, 4)
      BY Script7
    <2>5. StatementFits(ScriptOf(7), 7, 5)
      BY Script7
    <2>6. StatementFits(ScriptOf(7), 7, 6)
      BY Script7
    <2>7. StatementFits(ScriptOf(7), 7, 7)
      BY Script7
    <2>8. StatementFits(ScriptOf(7), 7, 8)
      BY Script7
    <2>9. StatementFits(ScriptOf(7), 7, 9)
      BY Script7
    <2>10. StatementFits(ScriptOf(7), 7, 10)
      BY Script7
    <2> HIDE DEF StatementFits
    <2> QED BY <2>1, <2>2, <2>3, <2>4, <2>5, <2>6, <2>7, <2>8, <2>9, <2>10
  <1> HIDE DEF StatementFits
  <1> QED BY <1>0, <1>1, <1>2, <1>3, <1>4, <1>5, <1>6, <1>7

LEMMA ScriptsFit ==
    ASSUME NEW v \in 0 .. 7
    PROVE  /\ Len(ScriptOf(v)) \in Nat \ {0}
           /\ \A i \in 1 .. Len(ScriptOf(v)) : StatementFits(ScriptOf(v), v, i)
  <1>0. CASE v = 0
    <2>1. Len(ScriptOf(0)) = 7
      BY Script0
    <2>2. \A i \in 1 .. Len(ScriptOf(0)) : StatementFits(ScriptOf(0), 0, i)
      BY <2>1, StatementsFit
    <2>3. Len(ScriptOf(0)) \in Nat \ {0}
      BY <2>1
    <2> QED BY <1>0, <2>2, <2>3
  <1>1. CASE v = 1
    <2>1. Len(ScriptOf(1)) = 4
      BY Script1
    <2>2. \A i \in 1 .. Len(ScriptOf(1)) : StatementFits(ScriptOf(1), 1, i)
      BY <2>1, StatementsFit
    <2>3. Len(ScriptOf(1)) \in Nat \ {0}
      BY <2>1
    <2> QED BY <1>1, <2>2, <2>3
  <1>2. CASE v = 2
    <2>1. Len(ScriptOf(2)) = 3
      BY Script2
    <2>2. \A i \in 1 .. Len(ScriptOf(2)) : StatementFits(ScriptOf(2), 2, i)
      BY <2>1, StatementsFit
    <2>3. Len(ScriptOf(2)) \in Nat \ {0}
      BY <2>1
    <2> QED BY <1>2, <2>2, <2>3
  <1>3. CASE v = 3
    <2>1. Len(ScriptOf(3)) = 6
      BY Script3
    <2>2. \A i \in 1 .. Len(ScriptOf(3)) : StatementFits(ScriptOf(3), 3, i)
      BY <2>1, StatementsFit
    <2>3. Len(ScriptOf(3)) \in Nat \ {0}
      BY <2>1
    <2> QED BY <1>3, <2>2, <2>3
  <1>4. CASE v = 4
    <2>1. Len(ScriptOf(4)) = 3
      BY Script4
    <2>2. \A i \in 1 .. Len(ScriptOf(4)) : StatementFits(ScriptOf(4), 4, i)
      BY <2>1, StatementsFit
    <2>3. Len(ScriptOf(4)) \in Nat \ {0}
      BY <2>1
    <2> QED BY <1>4, <2>2, <2>3
  <1>5. CASE v = 5
    <2>1. Len(ScriptOf(5)) = 2
      BY Script5
    <2>2. \A i \in 1 .. Len(ScriptOf(5)) : StatementFits(ScriptOf(5), 5, i)
      BY <2>1, StatementsFit
    <2>3. Len(ScriptOf(5)) \in Nat \ {0}
      BY <2>1
    <2> QED BY <1>5, <2>2, <2>3
  <1>6. CASE v = 6
    <2>1. Len(ScriptOf(6)) = 2
      BY Script6
    <2>2. \A i \in 1 .. Len(ScriptOf(6)) : StatementFits(ScriptOf(6), 6, i)
      BY <2>1, StatementsFit
    <2>3. Len(ScriptOf(6)) \in Nat \ {0}
      BY <2>1
    <2> QED BY <1>6, <2>2, <2>3
  <1>7. CASE v = 7
    <2>1. Len(ScriptOf(7)) = 10
      BY Script7
    <2>2. \A i \in 1 .. Len(ScriptOf(7)) : StatementFits(ScriptOf(7), 7, i)
      BY <2>1, StatementsFit
    <2>3. Len(ScriptOf(7)) \in Nat \ {0}
      BY <2>1
    <2> QED BY <1>7, <2>2, <2>3
  <1> QED BY <1>0, <1>1, <1>2, <1>3, <1>4, <1>5, <1>6, <1>7

----------------------------------------------------------------------------
(* Steps of a process through the scripts                                  *)

LEMMA AtStatement ==
    ASSUME SchemaTypeOK, NEW p \in Openers, IsMigrating(p)
    PROVE  /\ at[p][1] \in 0 .. 7
           /\ Len(ScriptOf(at[p][1])) \in Nat
           /\ at[p][2] \in 1 .. Len(ScriptOf(at[p][1]))
           /\ StatementFits(ScriptOf(at[p][1]), at[p][1], at[p][2])
  <1>1. /\ at[p][1] \in 0 .. 7
        /\ at[p][2] \in 1 .. Len(ScriptOf(at[p][1]))
    BY DEF SchemaTypeOK, Newest
  <1> QED BY <1>1, ScriptsFit

\* Only p moves.
LEMMA OthersStay ==
    ASSUME SchemaTypeOK, NEW p \in Openers, NEW now \in Nat \X Nat,
           at' = [at EXCEPT ![p] = now]
    PROVE  /\ at' \in [Openers -> Nat \X Nat]
           /\ at'[p] = now
           /\ \A q \in Openers \ {p} :
                /\ at'[q] = at[q]
                /\ IsMigrating(q)' = IsMigrating(q)
                /\ Statement(q)' = Statement(q)
                /\ \A t \in Copied : Replaces(q, t)' = Replaces(q, t)
  <1>1. at \in [Openers -> Nat \X Nat]
    BY DEF SchemaTypeOK
  <1>2. at' \in [Openers -> Nat \X Nat] /\ at'[p] = now
    BY <1>1
  <1>3. ASSUME NEW q \in Openers \ {p}
        PROVE  /\ at'[q] = at[q]
               /\ IsMigrating(q)' = IsMigrating(q)
               /\ Statement(q)' = Statement(q)
               /\ \A t \in Copied : Replaces(q, t)' = Replaces(q, t)
    <2>1. at'[q] = at[q]
      BY <1>1
    <2>2. IsMigrating(q)' = IsMigrating(q)
      BY <2>1 DEF IsMigrating
    <2>3. Statement(q)' = Statement(q)
      BY <2>1 DEF Statement
    <2>4. ASSUME NEW t \in Copied
          PROVE  Replaces(q, t)' = Replaces(q, t)
      BY <2>2, <2>3 DEF Replaces
    <2> QED BY <2>1, <2>2, <2>3, <2>4
  <1> QED BY <1>2, <1>3

\* Where the processes are has its type when that holds of the one that moved.
LEMMA PlacesAreTyped ==
    ASSUME SchemaTypeOK, NEW p \in Openers, NEW now \in Nat \X Nat,
           at' = [at EXCEPT ![p] = now],
           now \in {Closed, Opened}
             \/ (now[1] \in 0 .. 7 /\ now[2] \in 1 .. Len(ScriptOf(now[1])))
    PROVE  \A q \in Openers : IsMigrating(q)' =>
             at'[q][1] \in 0 .. (Newest - 1) /\ at'[q][2] \in 1 .. Len(ScriptOf(at'[q][1]))
  <1>1. Newest - 1 = 7
    BY DEF Newest
  <1>2. IsMigrating(p)' =>
          at'[p][1] \in 0 .. 7 /\ at'[p][2] \in 1 .. Len(ScriptOf(at'[p][1]))
    <2>1. at'[p] = now
      BY OthersStay
    <2> QED BY <2>1 DEF IsMigrating
  <1>3. ASSUME NEW q \in Openers \ {p}, IsMigrating(q)'
        PROVE  at'[q][1] \in 0 .. 7 /\ at'[q][2] \in 1 .. Len(ScriptOf(at'[q][1]))
    <2>1. at'[q] = at[q] /\ IsMigrating(q)
      BY <1>3, OthersStay
    <2>2. at[q][1] \in 0 .. 7 /\ at[q][2] \in 1 .. Len(ScriptOf(at[q][1]))
      BY <2>1, AtStatement
    <2> QED BY <2>1, <2>2
  <1> QED BY <1>1, <1>2, <1>3

\* After a statement that is not the last comes the next one of the script.
LEMMA Advances ==
    ASSUME SchemaTypeOK, NEW p \in Openers, IsMigrating(p), Advance(p, 1),
           Statement(p).op # "set_version"
    PROVE  /\ <<at[p][1], at[p][2] + 1>> \in Nat \X Nat
           /\ at' = [at EXCEPT ![p] = <<at[p][1], at[p][2] + 1>>]
           /\ at'[p] = <<at[p][1], at[p][2] + 1>>
           /\ at[p][2] + 1 \in 1 .. Len(ScriptOf(at[p][1]))
           /\ IsMigrating(p)'
           /\ \A q \in Openers : at'[q][1] = at[q][1]
  <1> DEFINE now == <<at[p][1], at[p][2] + 1>>
  <1>1. /\ at[p][1] \in 0 .. 7
        /\ Len(ScriptOf(at[p][1])) \in Nat
        /\ at[p][2] \in 1 .. Len(ScriptOf(at[p][1]))
        /\ StatementFits(ScriptOf(at[p][1]), at[p][1], at[p][2])
    BY AtStatement
  <1>2. at[p][2] < Len(ScriptOf(at[p][1]))
    BY <1>1 DEF StatementFits, Statement
  <1>3. now \in Nat \X Nat /\ at[p][2] + 1 \in 1 .. Len(ScriptOf(at[p][1]))
    BY <1>1, <1>2
  <1>4. at' = [at EXCEPT ![p] = now]
    BY DEF Advance
  <1>5. at'[p] = now /\ \A q \in Openers \ {p} : at'[q] = at[q]
    BY <1>3, <1>4, OthersStay
  <1>6. IsMigrating(p)'
    <2>1. now # Closed /\ now # Opened
      BY <1>1 DEF Closed, Opened, Newest
    <2> QED BY <2>1, <1>5 DEF IsMigrating
  <1>7. ASSUME NEW q \in Openers PROVE at'[q][1] = at[q][1]
    <2>1. CASE q = p
      BY <2>1, <1>5
    <2>2. CASE q # p
      BY <2>2, <1>5
    <2> QED BY <2>1, <2>2
  <1> QED BY <1>3, <1>4, <1>5, <1>6, <1>7

\* What the statement that comes next says of the one that was run.
LEMMA WhatWentBefore ==
    ASSUME SchemaTypeOK, NEW p \in Openers, IsMigrating(p), Advance(p, 1),
           Statement(p).op # "set_version", NEW t \in Copied, Replaces(p, t)'
    PROVE  /\ Statement(p)'.op \in Copying => Statement(p) = Create(CopyOf[t])
           /\ Statement(p)'.op = "drop" => Replaces(p, t) /\ Statement(p).op \in Copying
           /\ Statement(p)'.op = "rename" => Replaces(p, t) /\ Statement(p).op = "drop"
  <1> DEFINE v == at[p][1]
             i == at[p][2]
             script == ScriptOf(v)
  <1>1. /\ at'[p] = <<v, i + 1>>
        /\ i + 1 \in 1 .. Len(script)
        /\ v \in 0 .. 7
        /\ i \in Nat
    <2>1. at'[p] = <<v, i + 1>> /\ i + 1 \in 1 .. Len(script)
      BY Advances
    <2>2. v \in 0 .. 7 /\ Len(script) \in Nat /\ i \in 1 .. Len(script)
      BY AtStatement
    <2> QED BY <2>1, <2>2
  <1>2. Statement(p)' = script[i + 1] /\ Statement(p) = script[i]
    BY <1>1 DEF Statement
  <1>3. StatementFits(script, v, i + 1)
    BY <1>1, ScriptsFit
  <1>4. (i + 1) - 1 = i
    BY <1>1
  <1>5. Statement(p)'.op \in Replacing /\ Statement(p)'.name = t
    BY DEF Replaces
  <1> HIDE DEF v, i, script
  <1>6. /\ Statement(p)'.op \in Copying => Statement(p) = Create(CopyOf[t])
        /\ Statement(p)'.op = "drop" => Statement(p).op \in Copying /\ Statement(p).name = t
        /\ Statement(p)'.op = "rename" => Statement(p).op = "drop" /\ Statement(p).name = t
    BY <1>2, <1>3, <1>4, <1>5 DEF StatementFits
  <1> QED BY <1>6 DEF Replaces, Replacing, Copying

\* p goes on by a statement that creates nothing: nobody begins to replace.
LEMMA NobodyBegins ==
    ASSUME SchemaTypeOK, NEW p \in Openers, IsMigrating(p), Advance(p, 1),
           Statement(p).op \in Replacing
    PROVE  /\ \A q \in Openers, t \in Copied : Replaces(q, t)' => Replaces(q, t)
           /\ \A q \in Openers, t \in Copied :
                Replaces(q, t)' /\ Statement(q)'.op = "drop" =>
                  IF q = p THEN Statement(p).op \in Copying
                  ELSE Statement(q).op = "drop"
           /\ \A t \in Copied : Replaces(p, t)' => Statement(p).op # "rename"
  <1>1. Statement(p).op # "set_version" /\ Statement(p).op # "create"
    BY DEF Replacing, Copying
  <1>2. \A q \in Openers \ {p} :
          /\ Statement(q)' = Statement(q)
          /\ \A t \in Copied : Replaces(q, t)' = Replaces(q, t)
    <2>1. /\ <<at[p][1], at[p][2] + 1>> \in Nat \X Nat
          /\ at' = [at EXCEPT ![p] = <<at[p][1], at[p][2] + 1>>]
      BY <1>1, Advances
    <2> QED BY <2>1, OthersStay
  <1>3. ASSUME NEW t \in Copied, Replaces(p, t)'
        PROVE  /\ Replaces(p, t)
               /\ Statement(p)'.op = "drop" => Statement(p).op \in Copying
               /\ Statement(p).op # "rename"
    <2>1. /\ Statement(p)'.op \in Copying => Statement(p) = Create(CopyOf[t])
          /\ Statement(p)'.op = "drop" => Replaces(p, t) /\ Statement(p).op \in Copying
          /\ Statement(p)'.op = "rename" => Replaces(p, t) /\ Statement(p).op = "drop"
      BY <1>1, <1>3, WhatWentBefore
    <2>2. Statement(p)'.op \notin Copying
      BY <1>1, <2>1 DEF Create
    <2>3. Statement(p)'.op \in {"drop", "rename"}
      BY <1>3, <2>2 DEF Replaces, Replacing
    <2> QED BY <2>1, <2>3 DEF Copying
  <1>4. ASSUME NEW q \in Openers, NEW t \in Copied, Replaces(q, t)'
        PROVE  /\ Replaces(q, t)
               /\ Statement(q)'.op = "drop" =>
                    IF q = p THEN Statement(p).op \in Copying
                    ELSE Statement(q).op = "drop"
    <2>1. CASE q = p
      BY <2>1, <1>3, <1>4
    <2>2. CASE q # p
      BY <2>2, <1>2, <1>4
    <2> QED BY <2>1, <2>2
  <1> QED BY <1>3, <1>4

\* The statement at which a process replaces a table is about that table.
LEMMA AboutTheTable ==
    ASSUME SchemaTypeOK, NEW p \in Openers, IsMigrating(p), Statement(p).op \in Replacing
    PROVE  Statement(p).name \in Copied /\ Replaces(p, Statement(p).name)
  <1>1. StatementFits(ScriptOf(at[p][1]), at[p][1], at[p][2])
    BY AtStatement
  <1>2. Statement(p).name \in Copied
    BY <1>1 DEF StatementFits, Statement
  <1> QED BY <1>2 DEF Replaces

\* What it takes, when a statement is run, for the rows of revoked sources to
\* be gone where they were and from a table of theirs that is dropped.
LEMMA OrphansStayGone ==
    ASSUME SchemaTypeOK, OrphansGo, NEW p \in Openers, IsMigrating(p), Advance(p, 1),
           Statement(p).op # "set_version", version' = version,
           \A t \in Copied \cup Copies : Gone(t) => Gone(t)',
           Statement(p) = Drop("agent_action_audit") => Gone("agent_action_audit")',
           Statement(p) = Drop("agent_action_workflows") => Gone("agent_action_workflows")'
    PROVE  OrphansGo'
  <1> DEFINE v == at[p][1]
             i == at[p][2]
  <1>1. /\ at'[p] = <<v, i + 1>>
        /\ \A q \in Openers : at'[q][1] = at[q][1]
        /\ \A q \in Openers \ {p} : at'[q] = at[q]
    <2>1. /\ <<v, i + 1>> \in Nat \X Nat
          /\ at' = [at EXCEPT ![p] = <<v, i + 1>>]
          /\ at'[p] = <<v, i + 1>>
          /\ \A q \in Openers : at'[q][1] = at[q][1]
      BY Advances
    <2>2. \A q \in Openers \ {p} : at'[q] = at[q]
      BY <2>1, OthersStay
    <2> QED BY <2>1, <2>2
  <1>2. /\ i \in Nat
        /\ v = 7 /\ i = 3 => Statement(p) = Drop("agent_action_audit")
        /\ v = 7 /\ i = 8 => Statement(p) = Drop("agent_action_workflows")
    <2>1. /\ Len(ScriptOf(v)) \in Nat /\ i \in 1 .. Len(ScriptOf(v))
          /\ StatementFits(ScriptOf(v), v, i)
      BY AtStatement
    <2> QED BY <2>1 DEF StatementFits, Statement
  <1>3. "agent_action_audit" \in Copied /\ "agent_action_workflows" \in Copied
    BY TableNames
  <1>4. ASSUME NEW q \in Openers, at'[q][1] = 7
        PROVE  /\ at'[q][2] > 3 => Gone("agent_action_audit")'
               /\ at'[q][2] > 8 => Gone("agent_action_workflows")'
    <2>0. at[q][1] = 7
      BY <1>1, <1>4
    <2>1. /\ at[q][2] > 3 => Gone("agent_action_audit")
          /\ at[q][2] > 8 => Gone("agent_action_workflows")
      BY <2>0 DEF OrphansGo
    <2>2. /\ at[q][2] > 3 => Gone("agent_action_audit")'
          /\ at[q][2] > 8 => Gone("agent_action_workflows")'
      BY <2>1, <1>3
    <2>3. CASE q = p
      <3>1. at'[p][2] = i + 1 /\ v = 7
        BY <1>1, <2>0, <2>3
      <3>2. i > 3 \/ i = 3 \/ ~ (at'[p][2] > 3)
        BY <1>2, <3>1
      <3>3. i > 8 \/ i = 8 \/ ~ (at'[p][2] > 8)
        BY <1>2, <3>1
      <3>4. at'[q][2] > 3 => Gone("agent_action_audit")'
        BY <1>2, <2>2, <2>3, <3>1, <3>2
      <3>5. at'[q][2] > 8 => Gone("agent_action_workflows")'
        BY <1>2, <2>2, <2>3, <3>1, <3>3
      <3> QED BY <3>4, <3>5
    <2>4. CASE q # p
      BY <2>2, <2>4, <1>1
    <2> QED BY <2>3, <2>4
  <1>5. /\ \A t \in Copies : Gone(t)'
        /\ version' = Newest => \A t \in Copied : Gone(t)'
    BY DEF OrphansGo
  <1> QED BY <1>4, <1>5 DEF OrphansGo

\* What a statement changes of the version, the flags and the places.
LEMMA StatementTyped ==
    ASSUME SchemaTypeOK, VersionsFollow, NEW p \in Openers, IsMigrating(p), Advance(p, 1),
           Statement(p).op # "set_version", Overtakes(p), version' = version
    PROVE  /\ VersionsFollow'
           /\ ~overtaken' => ~overtaken /\ version = at[p][1]
           /\ version' \in 0 .. Newest
           /\ overtaken' \in BOOLEAN
           /\ at' \in [Openers -> Nat \X Nat]
           /\ \A q \in Openers : IsMigrating(q)' =>
                /\ at'[q][1] \in 0 .. (Newest - 1)
                /\ at'[q][2] \in 1 .. Len(ScriptOf(at'[q][1]))
  <1> DEFINE now == <<at[p][1], at[p][2] + 1>>
  <1>1. /\ now \in Nat \X Nat
        /\ at' = [at EXCEPT ![p] = now]
        /\ at[p][2] + 1 \in 1 .. Len(ScriptOf(at[p][1]))
        /\ \A q \in Openers : at'[q][1] = at[q][1]
    BY Advances
  <1>2. at[p][1] \in 0 .. 7
    BY AtStatement
  <1>3. at' \in [Openers -> Nat \X Nat]
    BY <1>1, OthersStay
  <1>4. \A q \in Openers : IsMigrating(q)' =>
          /\ at'[q][1] \in 0 .. (Newest - 1)
          /\ at'[q][2] \in 1 .. Len(ScriptOf(at'[q][1]))
    <2>1. now[1] \in 0 .. 7 /\ now[2] \in 1 .. Len(ScriptOf(now[1]))
      BY <1>1, <1>2
    <2> QED BY <1>1, <2>1, PlacesAreTyped
  <1>5. version \in Nat /\ overtaken \in BOOLEAN /\ version \in 0 .. Newest
    BY DEF SchemaTypeOK, Newest
  <1>6. ~overtaken' => ~overtaken /\ version <= at[p][1]
    <2>1. ~ (version > at[p][1]) <=> version <= at[p][1]
      BY <1>2, <1>5
    <2>2. ~overtaken' => ~overtaken /\ ~ (version > at[p][1])
      BY Zenon DEF Overtakes
    <2> QED BY <2>1, <2>2
  <1>7. ~overtaken' => ~overtaken /\ version = at[p][1]
    BY <1>2, <1>5, <1>6 DEF VersionsFollow
  <1>8. VersionsFollow'
    BY <1>1, <1>6 DEF VersionsFollow
  <1>9. overtaken' \in BOOLEAN
    BY <1>5 DEF Overtakes
  <1> QED BY <1>3, <1>4, <1>5, <1>7, <1>8, <1>9

----------------------------------------------------------------------------
(* Steps that leave the tables and their rows alone                        *)

LEMMA TablesStay ==
    ASSUME Inv, NEW p \in Openers, NEW now \in Nat \X Nat,
           at' = [at EXCEPT ![p] = now], \A t \in Copied : ~Replaces(p, t)',
           ~overtaken' => ~overtaken,
           \A q \in Openers \ {p} : ~overtaken' /\ version' = at[q][1] => version' = version,
           schema' = schema, rows' = rows, written' = written
    PROVE  /\ NamesOfTables' /\ OneReplaces' /\ RowsHaveTables' /\ RowsAreInPlace'
           /\ CopiesAreComplete' /\ RowsStay'
           /\ \A t \in Copied \cup Copies : Gone(t)' = Gone(t)
  <1>1. \A q \in Openers \ {p} :
          /\ at'[q] = at[q]
          /\ Statement(q)' = Statement(q)
          /\ \A t \in Copied : Replaces(q, t)' = Replaces(q, t)
    BY OthersStay DEF Inv
  <1>2. \A t \in Copied : Has(schema', CopyOf[t]) = Has(schema, CopyOf[t])
    OBVIOUS
  <1>3. OneReplaces'
    <2>1. ASSUME NEW q \in Openers, NEW t \in Copied, Replaces(q, t)'
          PROVE  /\ Has(schema', CopyOf[t])
                 /\ \A r \in Openers : Replaces(r, t)' => r = q
      <3>1. q # p /\ Replaces(q, t)
        BY <1>1, <2>1
      <3>2. \A r \in Openers : Replaces(r, t)' => Replaces(r, t)
        BY <1>1
      <3> QED BY <1>2, <3>1, <3>2 DEF Inv, OneReplaces
    <2> QED BY <2>1 DEF OneReplaces
  <1>4. CopiesAreComplete'
    <2>1. ASSUME NEW q \in Openers, NEW t \in Copied, ~overtaken', Replaces(q, t)',
                 Statement(q)'.op = "drop", version' = at'[q][1]
          PROVE  rows'[t] \ Orphans \subseteq rows'[CopyOf[t]]
      <3>1. q # p /\ Replaces(q, t) /\ Statement(q).op = "drop" /\ version' = at[q][1]
        BY <1>1, <2>1
      <3>2. ~overtaken /\ version = at[q][1]
        BY <2>1, <3>1
      <3>3. rows[t] \ Orphans \subseteq rows[CopyOf[t]]
        BY <3>1, <3>2 DEF Inv, CopiesAreComplete
      <3> QED BY <3>3
    <2> QED BY <2>1 DEF CopiesAreComplete
  <1>5. NamesOfTables'
    BY DEF Inv, NamesOfTables
  <1>6. RowsHaveTables'
    BY DEF Inv, RowsHaveTables, Has
  <1>7. RowsAreInPlace'
    BY DEF Inv, RowsAreInPlace
  <1>8. RowsStay'
    BY DEF Inv, RowsStay
  <1>9. \A t \in Copied \cup Copies : Gone(t)' = Gone(t)
    BY DEF Gone
  <1> QED BY <1>3, <1>4, <1>5, <1>6, <1>7, <1>8, <1>9

\* A process that opens, finishes a script, looks at a table or leaves is not
\* at a statement that replaces one.
LEMMA FirstOfAScript ==
    ASSUME NEW v \in 0 .. Newest
    PROVE  /\ <<v, 1>> \in Nat \X Nat
           /\ <<v, 1>> \in {Closed, Opened}
                \/ (v \in 0 .. 7 /\ 1 \in 1 .. Len(ScriptOf(v)))
           /\ <<v, 1>> \notin {Closed, Opened} => ScriptOf(v)[1].op \notin Replacing
  <1>1. v \in 0 .. 7 \/ v = 8
    BY DEF Newest
  <1>2. CASE v = 8
    <2>1. <<v, 1>> = Opened
      BY <1>2 DEF Opened, Newest
    <2>2. v \in Nat
      BY <1>2
    <2> QED BY <2>1, <2>2
  <1>3. CASE v \in 0 .. 7
    <2>1. /\ Len(ScriptOf(v)) \in Nat \ {0}
          /\ \A i \in 1 .. Len(ScriptOf(v)) : StatementFits(ScriptOf(v), v, i)
      BY <1>3, ScriptsFit
    <2>2. 1 \in 1 .. Len(ScriptOf(v))
      BY <2>1
    <2>3. ScriptOf(v)[1].op \notin Replacing
      <3>1. StatementFits(ScriptOf(v), v, 1)
        BY <2>1, <2>2
      <3>2. ~ (1 > 1)
        OBVIOUS
      <3> QED BY <3>1, <3>2 DEF StatementFits
    <2>4. v \in Nat
      BY <1>3
    <2> QED BY <1>3, <2>2, <2>3, <2>4
  <1> QED BY <1>1, <1>2, <1>3

LEMMA OpenKeeps ==
    ASSUME Inv, NEW p \in Openers, Open(p)
    PROVE  Inv'
  <1> DEFINE now == <<version, 1>>
  <1>1. version \in 0 .. Newest /\ SchemaTypeOK
    BY DEF Inv, SchemaTypeOK
  <1>2. /\ now \in Nat \X Nat
        /\ now \in {Closed, Opened}
             \/ (now[1] \in 0 .. 7 /\ now[2] \in 1 .. Len(ScriptOf(now[1])))
        /\ now \notin {Closed, Opened} => ScriptOf(now[1])[now[2]].op \notin Replacing
    BY <1>1, FirstOfAScript
  <1>3. at' = [at EXCEPT ![p] = now]
    BY DEF Open, FirstScript
  <1>4. /\ at' \in [Openers -> Nat \X Nat]
        /\ at'[p] = now
        /\ \A q \in Openers \ {p} : at'[q] = at[q]
    BY <1>1, <1>2, <1>3, OthersStay
  <1>5. UNCHANGED <<version, schema, rows, written, overtaken, halfway>>
    BY DEF Open, histories
  <1>6. \A t \in Copied : ~Replaces(p, t)'
    BY <1>2, <1>4 DEF Replaces, IsMigrating, Statement
  <1>7. /\ NamesOfTables' /\ OneReplaces' /\ RowsHaveTables' /\ RowsAreInPlace'
        /\ CopiesAreComplete' /\ RowsStay'
        /\ \A t \in Copied \cup Copies : Gone(t)' = Gone(t)
    BY <1>2, <1>3, <1>5, <1>6, TablesStay
  <1>8. SchemaTypeOK'
    <2>1. \A q \in Openers : IsMigrating(q)' =>
            /\ at'[q][1] \in 0 .. (Newest - 1)
            /\ at'[q][2] \in 1 .. Len(ScriptOf(at'[q][1]))
      BY <1>1, <1>2, <1>3, PlacesAreTyped
    <2> QED BY <1>1, <1>4, <1>5, <2>1 DEF SchemaTypeOK
  <1>9. VersionsFollow'
    <2>1. version <= version
      BY <1>1 DEF Newest
    <2> QED BY <1>4, <1>5, <2>1 DEF Inv, VersionsFollow
  <1>10. OrphansGo'
    <2>1. \A q \in Openers : at'[q][1] = 7 =>
            /\ at'[q][2] > 3 => Gone("agent_action_audit")'
            /\ at'[q][2] > 8 => Gone("agent_action_workflows")'
      <3>1. ASSUME NEW q \in Openers \ {p}, at'[q][1] = 7
            PROVE  /\ at'[q][2] > 3 => Gone("agent_action_audit")'
                   /\ at'[q][2] > 8 => Gone("agent_action_workflows")'
        BY <1>4, <1>7, <3>1, TableNames DEF Inv, OrphansGo
      <3>2. ~ (at'[p][2] > 3) /\ ~ (at'[p][2] > 8)
        BY <1>4
      <3> QED BY <3>1, <3>2
    <2> QED BY <1>5, <1>7, <2>1 DEF Inv, OrphansGo
  <1> QED BY <1>7, <1>8, <1>9, <1>10 DEF Inv

LEMMA LeaveKeeps ==
    ASSUME Inv, NEW p \in Openers, Leave(p)
    PROVE  Inv'
  <1>1. Closed \in Nat \X Nat /\ SchemaTypeOK
    BY DEF Closed, Inv
  <1>3. at' = [at EXCEPT ![p] = Closed]
    BY DEF Leave
  <1>4. /\ at' \in [Openers -> Nat \X Nat]
        /\ at'[p] = Closed
        /\ \A q \in Openers \ {p} : at'[q] = at[q]
    BY <1>1, <1>3, OthersStay
  <1>5. UNCHANGED <<version, schema, rows, written, overtaken>>
    BY DEF Leave
  <1>6. \A t \in Copied : ~Replaces(p, t)'
    BY <1>4 DEF Replaces, IsMigrating
  <1>7. /\ NamesOfTables' /\ OneReplaces' /\ RowsHaveTables' /\ RowsAreInPlace'
        /\ CopiesAreComplete' /\ RowsStay'
        /\ \A t \in Copied \cup Copies : Gone(t)' = Gone(t)
    BY <1>1, <1>3, <1>5, <1>6, TablesStay
  <1>8. SchemaTypeOK'
    <2>1. \A q \in Openers : IsMigrating(q)' =>
            /\ at'[q][1] \in 0 .. (Newest - 1)
            /\ at'[q][2] \in 1 .. Len(ScriptOf(at'[q][1]))
      BY <1>1, <1>3, PlacesAreTyped
    <2>2. halfway' \in BOOLEAN
      BY <1>1 DEF Leave, SchemaTypeOK
    <2> QED BY <1>1, <1>4, <1>5, <2>1, <2>2 DEF SchemaTypeOK
  <1>9. VersionsFollow'
    <2>1. 0 <= version
      BY <1>1 DEF SchemaTypeOK, Newest
    <2>2. at'[p][1] = 0
      BY <1>4 DEF Closed
    <2> QED BY <1>4, <1>5, <2>1, <2>2 DEF Inv, VersionsFollow
  <1>10. OrphansGo'
    <2>1. \A q \in Openers : at'[q][1] = 7 =>
            /\ at'[q][2] > 3 => Gone("agent_action_audit")'
            /\ at'[q][2] > 8 => Gone("agent_action_workflows")'
      <3>1. ASSUME NEW q \in Openers \ {p}, at'[q][1] = 7
            PROVE  /\ at'[q][2] > 3 => Gone("agent_action_audit")'
                   /\ at'[q][2] > 8 => Gone("agent_action_workflows")'
        BY <1>4, <1>7, <3>1, TableNames DEF Inv, OrphansGo
      <3>2. at'[p][1] # 7
        BY <1>4 DEF Closed
      <3> QED BY <3>1, <3>2
    <2> QED BY <1>5, <1>7, <2>1 DEF Inv, OrphansGo
  <1> QED BY <1>7, <1>8, <1>9, <1>10 DEF Inv

LEMMA LookKeeps ==
    ASSUME Inv, NEW p \in Openers, Look(p)
    PROVE  Inv'
  <1> DEFINE n == IF Has(schema, Statement(p).name) THEN 2 ELSE 1
             now == <<4, 1 + n>>
  <1>1. SchemaTypeOK /\ IsMigrating(p) /\ Statement(p).op = "look"
    BY DEF Inv, Look
  <1>2. at[p][1] = 4 /\ at[p][2] = 1
    <2>1. StatementFits(ScriptOf(at[p][1]), at[p][1], at[p][2])
      BY <1>1, AtStatement
    <2> QED BY <1>1, <2>1 DEF StatementFits, Statement
  <1>3. at' = [at EXCEPT ![p] = now]
    <2>1. at' = [at EXCEPT ![p] = <<at[p][1], at[p][2] + n>>]
      BY DEF Look, Advance
    <2> QED BY <1>2, <2>1
  <1>a. n \in {1, 2}
    OBVIOUS
  <1> HIDE DEF n
  <1>b. /\ now \in Nat \X Nat
        /\ now[1] \in 0 .. 7
        /\ now[2] \in 1 .. Len(ScriptOf(now[1]))
        /\ ScriptOf(now[1])[now[2]].op \notin Replacing
    <2>1. CASE n = 1
      BY <2>1, Script4 DEF AddColumn, Replacing, Copying
    <2>2. CASE n = 2
      BY <2>2, Script4 DEF SetVersion, Replacing, Copying
    <2> QED BY <1>a, <2>1, <2>2
  <1>4. /\ at' \in [Openers -> Nat \X Nat]
        /\ at'[p] = now
        /\ \A q \in Openers \ {p} : at'[q] = at[q]
    BY <1>1, <1>b, <1>3, OthersStay
  <1>5. UNCHANGED <<version, schema, rows, written, overtaken, halfway>>
    BY DEF Look, histories
  <1>6. \A t \in Copied : ~Replaces(p, t)'
    BY <1>b, <1>4 DEF Replaces, Statement
  <1>7. /\ NamesOfTables' /\ OneReplaces' /\ RowsHaveTables' /\ RowsAreInPlace'
        /\ CopiesAreComplete' /\ RowsStay'
        /\ \A t \in Copied \cup Copies : Gone(t)' = Gone(t)
    BY <1>b, <1>3, <1>5, <1>6, TablesStay
  <1>8. SchemaTypeOK'
    <2>1. \A q \in Openers : IsMigrating(q)' =>
            /\ at'[q][1] \in 0 .. (Newest - 1)
            /\ at'[q][2] \in 1 .. Len(ScriptOf(at'[q][1]))
      BY <1>1, <1>b, <1>3, PlacesAreTyped
    <2> QED BY <1>1, <1>4, <1>5, <2>1 DEF SchemaTypeOK
  <1>9. VersionsFollow'
    <2>1. at'[p][1] = at[p][1]
      BY <1>2, <1>4
    <2>2. \A q \in Openers : at'[q][1] = at[q][1]
      BY <1>4, <2>1
    <2> QED BY <1>5, <2>2 DEF Inv, VersionsFollow
  <1>10. OrphansGo'
    <2>1. \A q \in Openers : at'[q][1] = 7 =>
            /\ at'[q][2] > 3 => Gone("agent_action_audit")'
            /\ at'[q][2] > 8 => Gone("agent_action_workflows")'
      <3>1. ASSUME NEW q \in Openers \ {p}, at'[q][1] = 7
            PROVE  /\ at'[q][2] > 3 => Gone("agent_action_audit")'
                   /\ at'[q][2] > 8 => Gone("agent_action_workflows")'
        BY <1>4, <1>7, <3>1, TableNames DEF Inv, OrphansGo
      <3>2. at'[p][1] # 7
        BY <1>4
      <3> QED BY <3>1, <3>2
    <2> QED BY <1>5, <1>7, <2>1 DEF Inv, OrphansGo
  <1> QED BY <1>7, <1>8, <1>9, <1>10 DEF Inv

\* The rows of vector_chunks are of sources that are there.
LEMMA VectorsAreOwned ==
    ASSUME RowsAreInPlace
    PROVE  Gone("vector_chunks")
  <1>1. "vector_chunks" \in Copied
    BY TableNames
  <1>2. \A r \in rows["vector_chunks"] : TableOf[r] = "vector_chunks"
    BY <1>1 DEF RowsAreInPlace
  <1> QED BY <1>2, RowsAssumption DEF Gone

\* A script that finishes raises the version to its own, past every other one
\* that runs, or else it was overtaken.
LEMMA FinishKeeps ==
    ASSUME Inv, NEW p \in Openers, FinishScript(p)
    PROVE  Inv'
  <1> DEFINE v == at[p][1]
             now == <<v + 1, 1>>
  <1>1. SchemaTypeOK /\ IsMigrating(p) /\ Statement(p).op = "set_version"
    BY DEF Inv, FinishScript
  <1>2. /\ v \in 0 .. 7
        /\ v = 7 => at[p][2] > 8
    <2>1. v \in 0 .. 7 /\ StatementFits(ScriptOf(v), v, at[p][2])
      BY <1>1, AtStatement
    <2> QED BY <1>1, <2>1 DEF StatementFits, Statement
  <1>3. at' = [at EXCEPT ![p] = now] /\ version' = v + 1
    BY DEF FinishScript, NextVersion
  <1>a. v + 1 \in 0 .. Newest
    BY <1>2 DEF Newest
  <1>b. /\ now \in Nat \X Nat
        /\ now \in {Closed, Opened}
             \/ (now[1] \in 0 .. 7 /\ now[2] \in 1 .. Len(ScriptOf(now[1])))
        /\ now \notin {Closed, Opened} => ScriptOf(now[1])[now[2]].op \notin Replacing
    BY <1>a, FirstOfAScript
  <1>4. /\ at' \in [Openers -> Nat \X Nat]
        /\ at'[p] = now
        /\ \A q \in Openers \ {p} : at'[q] = at[q]
    BY <1>1, <1>b, <1>3, OthersStay
  <1>5. UNCHANGED <<schema, rows, written, halfway>>
    BY DEF FinishScript
  <1>c. \A t \in Copied : ~Replaces(p, t)'
    BY <1>b, <1>4 DEF Replaces, IsMigrating, Statement
  <1>d. ~overtaken' => ~overtaken /\ version <= v
    <2>1. version \in Nat
      BY <1>1 DEF SchemaTypeOK, Newest
    <2>2. ~ (version > v) <=> version <= v
      BY <1>2, <2>1
    <2>3. ~overtaken' => ~overtaken /\ ~ (version > v)
      BY Zenon DEF FinishScript, Overtakes
    <2> QED BY <2>2, <2>3
  <1>6. ASSUME ~overtaken', NEW q \in Openers
        PROVE  at[q][1] <= v /\ at[q][1] \in Nat
    <2>1. at[q][1] <= version
      BY <1>6, <1>d DEF Inv, VersionsFollow
    <2>2. at[q][1] \in Nat /\ version \in Nat
      BY <1>1 DEF SchemaTypeOK, Newest
    <2> QED BY <1>2, <1>6, <1>d, <2>1, <2>2
  <1>e. \A q \in Openers \ {p} : ~overtaken' /\ version' = at[q][1] => version' = version
    <2>1. ASSUME NEW q \in Openers, ~overtaken', version' = at[q][1]
          PROVE  FALSE
      BY <1>2, <1>3, <1>6, <2>1
    <2> QED BY <2>1
  <1>7. /\ NamesOfTables' /\ OneReplaces' /\ RowsHaveTables' /\ RowsAreInPlace'
        /\ CopiesAreComplete' /\ RowsStay'
        /\ \A t \in Copied \cup Copies : Gone(t)' = Gone(t)
    BY <1>b, <1>3, <1>5, <1>c, <1>d, <1>e, TablesStay
  <1>8. SchemaTypeOK'
    <2>1. \A q \in Openers : IsMigrating(q)' =>
            /\ at'[q][1] \in 0 .. (Newest - 1)
            /\ at'[q][2] \in 1 .. Len(ScriptOf(at'[q][1]))
      BY <1>1, <1>b, <1>3, PlacesAreTyped
    <2>2. overtaken' \in BOOLEAN
      BY DEF FinishScript, Overtakes
    <2> QED BY <1>1, <1>3, <1>4, <1>5, <1>a, <2>1, <2>2 DEF SchemaTypeOK
  <1>9. VersionsFollow'
    <2>1. ASSUME ~overtaken', NEW q \in Openers
          PROVE  at'[q][1] <= version'
      <3>1. CASE q = p
        BY <1>2, <1>3, <1>4, <3>1
      <3>2. CASE q # p
        <4>1. at[q][1] <= v /\ at[q][1] \in Nat
          BY <1>6, <2>1
        <4> QED BY <1>2, <1>3, <1>4, <3>2, <4>1
      <3> QED BY <3>1, <3>2
    <2> QED BY <2>1 DEF VersionsFollow
  <1>10. OrphansGo'
    <2>1. \A q \in Openers : at'[q][1] = 7 =>
            /\ at'[q][2] > 3 => Gone("agent_action_audit")'
            /\ at'[q][2] > 8 => Gone("agent_action_workflows")'
      <3>1. ASSUME NEW q \in Openers \ {p}, at'[q][1] = 7
            PROVE  /\ at'[q][2] > 3 => Gone("agent_action_audit")'
                   /\ at'[q][2] > 8 => Gone("agent_action_workflows")'
        BY <1>4, <1>7, <3>1, TableNames DEF Inv, OrphansGo
      <3>2. ~ (at'[p][2] > 3) /\ ~ (at'[p][2] > 8)
        BY <1>4
      <3> QED BY <3>1, <3>2
    <2>2. ASSUME version' = Newest PROVE \A t \in Copied : Gone(t)'
      <3>1. v = 7 /\ at[p][2] > 8
        BY <1>2, <1>3, <2>2 DEF Newest
      <3>2. at[p][2] > 3
        <4>1. at[p][2] \in Nat
          BY <1>1 DEF SchemaTypeOK
        <4> QED BY <3>1, <4>1
      <3>3. Gone("agent_action_audit") /\ Gone("agent_action_workflows")
        BY <3>1, <3>2 DEF Inv, OrphansGo
      <3>4. Gone("vector_chunks")
        BY VectorsAreOwned DEF Inv
      <3>5. \A t \in Copied : Gone(t)
        BY <3>3, <3>4, TableNames
      <3> QED BY <1>7, <3>5
    <2>3. \A t \in Copies : Gone(t)'
      BY <1>7 DEF Inv, OrphansGo
    <2> QED BY <2>1, <2>2, <2>3 DEF OrphansGo
  <1> QED BY <1>7, <1>8, <1>9, <1>10 DEF Inv

----------------------------------------------------------------------------
(* Steps that change the tables                                            *)

LEMMA DefineKeeps ==
    ASSUME Inv, NEW p \in Openers, Define(p)
    PROVE  Inv'
  <1> DEFINE st == Statement(p)
  <1>1. /\ SchemaTypeOK /\ IsMigrating(p) /\ Advance(p, 1)
        /\ st.op # "set_version" /\ st.op \notin Replacing
        /\ st.op \in {"create", "create_if_missing", "add_column"}
    BY DEF Inv, Define, Replacing, Copying
  <1>2. /\ at[p][1] \in 0 .. 7
        /\ st.name \in Copied \cup Copies => st.on = "none"
    <2>1. at[p][1] \in 0 .. 7 /\ StatementFits(ScriptOf(at[p][1]), at[p][1], at[p][2])
      BY <1>1, AtStatement
    <2> QED BY <1>1, <2>1 DEF StatementFits, Statement
  <1>3. UNCHANGED <<version, rows, written, halfway>> /\ Overtakes(p)
    BY DEF Define
  <1> DEFINE new == New(st, at[p][1])
  <1>4. schema' = schema \/ schema' = schema \cup {new}
    BY <1>1 DEF Define, After
  <1>5. schema \subseteq schema' /\ \A o \in schema' : o \in schema \/ o = new
    BY <1>4
  <1>6. new = [name |-> st.name, on |-> st.on, form |-> at[p][1]]
    BY DEF New
  <1>a. st.op = "create" => ~Has(schema, st.name) /\ Has(schema', st.name)
    <2>1. SUFFICES ASSUME st.op = "create"
                   PROVE  ~Has(schema, st.name) /\ Has(schema', st.name)
      OBVIOUS
    <2>2. schema' = schema \cup {new}
      BY <2>1 DEF Define, After
    <2>3. new.name = st.name
      BY <1>6
    <2>4. ~Has(schema, st.name)
      BY <2>1 DEF Define, CanRun
    <2> QED BY <2>2, <2>3, <2>4 DEF Has
  <1> HIDE DEF st, new
  <1>7. /\ VersionsFollow'
        /\ ~overtaken' => ~overtaken /\ version = at[p][1]
        /\ version' \in 0 .. Newest
        /\ overtaken' \in BOOLEAN
        /\ at' \in [Openers -> Nat \X Nat]
        /\ \A q \in Openers : IsMigrating(q)' =>
             /\ at'[q][1] \in 0 .. (Newest - 1)
             /\ at'[q][2] \in 1 .. Len(ScriptOf(at'[q][1]))
    BY <1>1, <1>3, StatementTyped DEF Inv, st
  <1>8. SchemaTypeOK'
    <2>1. \A o \in schema' : IsObject(o)
      <3>1. IsObject(new)
        BY <1>2, <1>6 DEF IsObject, New, Newest
      <3> QED BY <1>1, <1>5, <3>1 DEF SchemaTypeOK
    <2> QED BY <1>1, <1>3, <1>7, <2>1 DEF SchemaTypeOK
  <1>9. NamesOfTables'
    <2>1. new.name \in Copied \cup Copies => new.on = "none"
      BY <1>2, <1>6
    <2> QED BY <1>5, <2>1 DEF Inv, NamesOfTables
  <1>10. RowsHaveTables'
    BY <1>3, <1>5 DEF Inv, RowsHaveTables, Has
  <1>11. RowsAreInPlace' /\ RowsStay'
    BY <1>3, <1>7 DEF Inv, RowsAreInPlace, RowsStay
  <1>12. ASSUME NEW t \in Copied, Replaces(p, t)'
         PROVE  /\ ~Has(schema, CopyOf[t]) /\ Has(schema', CopyOf[t])
                /\ Statement(p)'.op # "drop"
    <2>1. /\ Statement(p)'.op \in Copying => Statement(p) = Create(CopyOf[t])
          /\ Statement(p)'.op = "drop" => Replaces(p, t) /\ Statement(p).op \in Copying
          /\ Statement(p)'.op = "rename" => Replaces(p, t) /\ Statement(p).op = "drop"
      BY <1>1, <1>12, WhatWentBefore DEF st
    <2>2. Statement(p)'.op \notin {"drop", "rename"}
      BY <1>1, <2>1 DEF st, Copying
    <2>3. st = Create(CopyOf[t])
      BY <1>12, <2>1, <2>2 DEF st, Replaces, Replacing
    <2>4. st.op = "create" /\ st.name = CopyOf[t]
      BY <2>3 DEF Create
    <2> QED BY <1>a, <2>2, <2>4
  <1>13. \A q \in Openers \ {p} :
           /\ at'[q] = at[q]
           /\ Statement(q)' = Statement(q)
           /\ \A t \in Copied : Replaces(q, t)' = Replaces(q, t)
    <2>1. /\ <<at[p][1], at[p][2] + 1>> \in Nat \X Nat
          /\ at' = [at EXCEPT ![p] = <<at[p][1], at[p][2] + 1>>]
      BY <1>1, Advances DEF st
    <2> QED BY <1>1, <2>1, OthersStay
  <1>14. OneReplaces'
    <2>1. ASSUME NEW q \in Openers, NEW t \in Copied, Replaces(q, t)'
          PROVE  /\ Has(schema', CopyOf[t])
                 /\ \A r \in Openers : Replaces(r, t)' => r = q
      <3>1. \A r \in Openers \ {p} : Replaces(r, t)' => Has(schema, CopyOf[t])
        BY <1>13 DEF Inv, OneReplaces
      <3>2. Has(schema, CopyOf[t]) => Has(schema', CopyOf[t])
        BY <1>5 DEF Has
      <3>3. CASE q = p
        BY <1>12, <2>1, <3>1, <3>3
      <3>4. CASE q # p
        <4>1. Has(schema, CopyOf[t]) /\ Replaces(q, t)
          BY <1>13, <2>1, <3>1, <3>4
        <4>2. ~Replaces(p, t)'
          BY <1>12, <4>1
        <4>3. \A r \in Openers : Replaces(r, t)' => Replaces(r, t)
          BY <1>13, <4>2
        <4> QED BY <3>2, <4>1, <4>3 DEF Inv, OneReplaces
      <3> QED BY <3>3, <3>4
    <2> QED BY <2>1 DEF OneReplaces
  <1>15. CopiesAreComplete'
    <2>1. ASSUME NEW q \in Openers, NEW t \in Copied, ~overtaken', Replaces(q, t)',
                 Statement(q)'.op = "drop", version' = at'[q][1]
          PROVE  rows'[t] \ Orphans \subseteq rows'[CopyOf[t]]
      <3>1. q # p
        BY <1>12, <2>1
      <3>2. ~overtaken /\ Replaces(q, t) /\ Statement(q).op = "drop" /\ version = at[q][1]
        BY <1>3, <1>7, <1>13, <2>1, <3>1
      <3>3. rows[t] \ Orphans \subseteq rows[CopyOf[t]]
        BY <3>2 DEF Inv, CopiesAreComplete
      <3> QED BY <1>3, <3>3
    <2> QED BY <2>1 DEF CopiesAreComplete
  <1>16. OrphansGo'
    <2>1. \A t \in Copied \cup Copies : Gone(t) => Gone(t)'
      BY <1>3 DEF Gone
    <2>2. st # Drop("agent_action_audit") /\ st # Drop("agent_action_workflows")
      <3>1. \A t : Drop(t).op = "drop"
        BY DEF Drop
      <3> QED BY <1>1, <3>1
    <2> QED BY <1>1, <1>3, <2>1, <2>2, OrphansStayGone DEF Inv, st
  <1> QED BY <1>7, <1>8, <1>9, <1>10, <1>11, <1>14, <1>15, <1>16 DEF Inv

LEMMA CopyKeeps ==
    ASSUME Inv, NEW p \in Openers, CopyRows(p)
    PROVE  Inv'
  <1> DEFINE st == Statement(p)
             t0 == st.name
             left == IF st.op = "copy_owned" THEN Orphans ELSE {}
  <1>1. /\ SchemaTypeOK /\ IsMigrating(p) /\ Advance(p, 1)
        /\ st.op \in Copying /\ st.op \in Replacing /\ st.op # "set_version"
    BY DEF Inv, CopyRows, Replacing, Copying
  <1>2. t0 \in Copied /\ Replaces(p, t0) /\ (st.op = "copy" => t0 = "vector_chunks")
    <2>1. StatementFits(ScriptOf(at[p][1]), at[p][1], at[p][2])
      BY <1>1, AtStatement
    <2>2. st.op = "copy" => t0 = "vector_chunks"
      BY <2>1 DEF StatementFits, Statement
    <2> QED BY <1>1, <2>2, AboutTheTable
  <1>3. UNCHANGED <<version, schema, written, halfway>> /\ Overtakes(p)
    BY DEF CopyRows
  <1>4. rows' = [rows EXCEPT ![CopyOf[t0]] = @ \cup (rows[t0] \ left)]
    BY DEF CopyRows
  <1>5. Has(schema, CopyOf[t0])
    BY <1>1 DEF CopyRows, CanRun, Copying
  <1>6. left \subseteq Orphans /\ (st.op = "copy_owned" => left = Orphans)
    OBVIOUS
  <1>a. CopyOf[t0] \in Copies /\ CopyOf[t0] \notin Copied
    BY <1>2, TableNames
  <1> HIDE DEF st, t0, left
  <1>b. rows \in [Copied \cup Copies -> SUBSET Rows]
    BY <1>1 DEF SchemaTypeOK
  <1>c. /\ rows' \in [Copied \cup Copies -> SUBSET Rows]
        /\ rows'[CopyOf[t0]] = rows[CopyOf[t0]] \cup (rows[t0] \ left)
        /\ \A t \in (Copied \cup Copies) \ {CopyOf[t0]} : rows'[t] = rows[t]
    BY <1>2, <1>4, <1>a, <1>b
  <1>d. \A t \in Copied : /\ rows'[t] = rows[t]
                          /\ rows[CopyOf[t]] \subseteq rows'[CopyOf[t]]
                          /\ rows'[CopyOf[t]] \subseteq rows[CopyOf[t]] \cup rows[t]
    <2>1. ASSUME NEW t \in Copied
          PROVE  /\ rows'[t] = rows[t]
                 /\ rows[CopyOf[t]] \subseteq rows'[CopyOf[t]]
                 /\ rows'[CopyOf[t]] \subseteq rows[CopyOf[t]] \cup rows[t]
      <3>1. rows'[t] = rows[t]
        BY <1>a, <1>c
      <3>2. CASE t = t0
        BY <1>c, <3>1, <3>2
      <3>3. CASE t # t0
        <4>1. CopyOf[t] \in Copies /\ CopyOf[t] # CopyOf[t0]
          BY <1>2, <3>3, TableNames
        <4>2. rows'[CopyOf[t]] = rows[CopyOf[t]]
          BY <1>c, <4>1
        <4> QED BY <3>1, <4>2
      <3> QED BY <3>2, <3>3
    <2> QED BY <2>1
  <1>7. /\ VersionsFollow'
        /\ ~overtaken' => ~overtaken /\ version = at[p][1]
        /\ version' \in 0 .. Newest
        /\ overtaken' \in BOOLEAN
        /\ at' \in [Openers -> Nat \X Nat]
        /\ \A q \in Openers : IsMigrating(q)' =>
             /\ at'[q][1] \in 0 .. (Newest - 1)
             /\ at'[q][2] \in 1 .. Len(ScriptOf(at'[q][1]))
    BY <1>1, <1>3, StatementTyped DEF Inv, st
  <1>8. SchemaTypeOK'
    BY <1>1, <1>3, <1>7, <1>c DEF SchemaTypeOK
  <1>9. NamesOfTables'
    BY <1>3 DEF Inv, NamesOfTables
  <1>10. RowsHaveTables'
    <2>1. ASSUME NEW t \in Copied \cup Copies, rows'[t] # {}
          PROVE  Has(schema, t)
      <3>1. CASE t = CopyOf[t0]
        BY <1>5, <3>1
      <3>2. CASE t # CopyOf[t0]
        <4>1. rows[t] # {}
          BY <1>c, <2>1, <3>2
        <4> QED BY <4>1 DEF Inv, RowsHaveTables
      <3> QED BY <3>1, <3>2
    <2> QED BY <1>3, <2>1 DEF RowsHaveTables, Has
  <1>11. RowsAreInPlace'
    <2>1. \A t \in Copied : rows'[t] \cup rows'[CopyOf[t]] \subseteq rows[t] \cup rows[CopyOf[t]]
      BY <1>d
    <2> QED BY <2>1 DEF Inv, RowsAreInPlace
  <1>12. RowsStay'
    <2>1. ASSUME ~overtaken', NEW r \in written \ Orphans
          PROVE  r \in rows'[TableOf[r]] \cup rows'[CopyOf[TableOf[r]]]
      <3>1. r \in rows[TableOf[r]] \cup rows[CopyOf[TableOf[r]]]
        BY <1>7, <2>1 DEF Inv, RowsStay
      <3>2. TableOf[r] \in Copied
        BY <1>1, RowsAssumption DEF SchemaTypeOK
      <3> QED BY <1>d, <3>1, <3>2
    <2> QED BY <1>3, <2>1 DEF RowsStay
  <1>13. /\ \A q \in Openers, t \in Copied : Replaces(q, t)' => Replaces(q, t)
         /\ \A q \in Openers, t \in Copied :
              Replaces(q, t)' /\ Statement(q)'.op = "drop" =>
                IF q = p THEN Statement(p).op \in Copying
                ELSE Statement(q).op = "drop"
    BY <1>1, NobodyBegins DEF st
  <1>14. OneReplaces'
    BY <1>3, <1>13 DEF Inv, OneReplaces, Has
  <1>15. CopiesAreComplete'
    <2>1. ASSUME NEW q \in Openers, NEW t \in Copied, ~overtaken', Replaces(q, t)',
                 Statement(q)'.op = "drop", version' = at'[q][1]
          PROVE  rows'[t] \ Orphans \subseteq rows'[CopyOf[t]]
      <3>1. Replaces(q, t)
        BY <1>13, <2>1
      <3>2. CASE q = p
        <4>1. t = t0
          BY <3>1, <3>2 DEF Replaces, t0, st
        <4> QED BY <1>6, <1>c, <1>d, <4>1
      <3>3. CASE q # p
        <4>1. Statement(q).op = "drop"
          BY <1>13, <2>1, <3>3
        <4>2. at'[q][1] = at[q][1]
          BY <1>1, Advances DEF st
        <4>3. ~overtaken /\ version = at[q][1]
          BY <1>3, <1>7, <2>1, <4>2
        <4>4. rows[t] \ Orphans \subseteq rows[CopyOf[t]]
          BY <3>1, <4>1, <4>3 DEF Inv, CopiesAreComplete
        <4> QED BY <1>d, <4>4
      <3> QED BY <3>2, <3>3
    <2> QED BY <2>1 DEF CopiesAreComplete
  <1>16. OrphansGo'
    <2>1. (rows[t0] \ left) \cap Orphans = {}
      <3>1. CASE st.op = "copy_owned"
        BY <1>6, <3>1
      <3>2. CASE st.op = "copy"
        <4>1. Gone(t0)
          BY <1>2, <3>2, VectorsAreOwned DEF Inv
        <4> QED BY <4>1 DEF Gone
      <3> QED BY <1>1, <3>1, <3>2 DEF Copying
    <2>2. ASSUME NEW t \in Copied \cup Copies, Gone(t)
          PROVE  Gone(t)'
      <3>1. rows'[t] = rows[t] \/ rows'[t] = rows[t] \cup (rows[t0] \ left)
        BY <1>c
      <3> QED BY <2>1, <2>2, <3>1 DEF Gone
    <2>3. st # Drop("agent_action_audit") /\ st # Drop("agent_action_workflows")
      <3>1. \A t : Drop(t).op = "drop"
        BY DEF Drop
      <3> QED BY <1>1, <3>1 DEF Copying
    <2> QED BY <1>1, <1>3, <2>2, <2>3, OrphansStayGone DEF Inv, st
  <1> QED BY <1>7, <1>8, <1>9, <1>10, <1>11, <1>12, <1>14, <1>15, <1>16 DEF Inv

LEMMA DropKeeps ==
    ASSUME Inv, NEW p \in Openers, DropTable(p)
    PROVE  Inv'
  <1> DEFINE st == Statement(p)
             t0 == st.name
  <1>1. /\ SchemaTypeOK /\ IsMigrating(p) /\ Advance(p, 1)
        /\ st.op = "drop" /\ st.op \in Replacing /\ st.op # "set_version"
    BY DEF Inv, DropTable, Replacing
  <1>2. t0 \in Copied /\ Replaces(p, t0)
    BY <1>1, AboutTheTable
  <1>3. UNCHANGED <<version, written, halfway>> /\ Overtakes(p)
    BY DEF DropTable
  <1>4. rows' = [rows EXCEPT ![t0] = {}]
    BY DEF DropTable
  <1>5. schema' = {o \in schema : o.name # t0 /\ o.on # t0}
    BY <1>1 DEF DropTable, After
  <1> HIDE DEF st, t0
  <1>a. rows \in [Copied \cup Copies -> SUBSET Rows]
    BY <1>1 DEF SchemaTypeOK
  <1>b. /\ rows' \in [Copied \cup Copies -> SUBSET Rows]
        /\ rows'[t0] = {}
        /\ \A t \in (Copied \cup Copies) \ {t0} : rows'[t] = rows[t]
    BY <1>2, <1>4, <1>a
  <1>c. \A t \in Copied \cup Copies : rows'[t] \subseteq rows[t]
    BY <1>b
  <1>d. \A t \in Copied : /\ CopyOf[t] \in Copies
                          /\ CopyOf[t] # t0
                          /\ rows'[CopyOf[t]] = rows[CopyOf[t]]
    <2>1. \A t \in Copied : CopyOf[t] \in Copies /\ CopyOf[t] # t0
      BY <1>2, TableNames
    <2> QED BY <1>b, <2>1
  \* The tables and copies other than t0 are still there.
  <1>e. \A t \in (Copied \cup Copies) \ {t0} : Has(schema, t) => Has(schema', t)
    <2>1. ASSUME NEW t \in (Copied \cup Copies) \ {t0}, NEW o \in schema, o.name = t
          PROVE  o \in schema'
      <3>1. o.on = "none"
        BY <2>1 DEF Inv, NamesOfTables
      <3>2. t0 # "none"
        BY <1>2, TableNames
      <3> QED BY <1>5, <2>1, <3>1, <3>2
    <2> QED BY <2>1 DEF Has
  <1>7. /\ VersionsFollow'
        /\ ~overtaken' => ~overtaken /\ version = at[p][1]
        /\ version' \in 0 .. Newest
        /\ overtaken' \in BOOLEAN
        /\ at' \in [Openers -> Nat \X Nat]
        /\ \A q \in Openers : IsMigrating(q)' =>
             /\ at'[q][1] \in 0 .. (Newest - 1)
             /\ at'[q][2] \in 1 .. Len(ScriptOf(at'[q][1]))
    BY <1>1, <1>3, StatementTyped DEF Inv, st
  <1>8. SchemaTypeOK'
    BY <1>1, <1>3, <1>5, <1>7, <1>b DEF SchemaTypeOK
  <1>9. NamesOfTables'
    BY <1>5 DEF Inv, NamesOfTables
  <1>10. RowsHaveTables'
    <2>1. ASSUME NEW t \in Copied \cup Copies, rows'[t] # {}
          PROVE  Has(schema', t)
      <3>1. t # t0 /\ rows[t] # {}
        BY <1>b, <2>1
      <3> QED BY <1>e, <3>1 DEF Inv, RowsHaveTables
    <2> QED BY <2>1 DEF RowsHaveTables
  <1>11. RowsAreInPlace'
    <2>1. \A t \in Copied : rows'[t] \cup rows'[CopyOf[t]] \subseteq rows[t] \cup rows[CopyOf[t]]
      BY <1>c, <1>d
    <2> QED BY <2>1 DEF Inv, RowsAreInPlace
  <1>12. RowsStay'
    <2>1. ASSUME ~overtaken', NEW r \in written \ Orphans
          PROVE  r \in rows'[TableOf[r]] \cup rows'[CopyOf[TableOf[r]]]
      <3>1. r \in rows[TableOf[r]] \cup rows[CopyOf[TableOf[r]]]
        BY <1>7, <2>1 DEF Inv, RowsStay
      <3>2. TableOf[r] \in Copied
        BY <1>1, RowsAssumption DEF SchemaTypeOK
      <3>3. CASE TableOf[r] = t0
        <4>1. rows[t0] \ Orphans \subseteq rows[CopyOf[t0]]
          <5>1. ~overtaken /\ Statement(p).op = "drop" /\ version = at[p][1]
            BY <1>1, <1>7, <2>1 DEF st
          <5> QED BY <1>2, <5>1 DEF Inv, CopiesAreComplete
        <4>2. r \in rows[CopyOf[t0]]
          BY <2>1, <3>1, <3>3, <4>1
        <4> QED BY <1>2, <1>d, <3>3, <4>2
      <3>4. CASE TableOf[r] # t0
        BY <1>b, <1>d, <3>1, <3>2, <3>4
      <3> QED BY <3>3, <3>4
    <2> QED BY <1>3, <2>1 DEF RowsStay
  <1>13. /\ \A q \in Openers, t \in Copied : Replaces(q, t)' => Replaces(q, t)
         /\ \A q \in Openers, t \in Copied :
              Replaces(q, t)' /\ Statement(q)'.op = "drop" =>
                IF q = p THEN Statement(p).op \in Copying
                ELSE Statement(q).op = "drop"
    BY <1>1, NobodyBegins DEF st
  <1>14. OneReplaces'
    <2>1. ASSUME NEW q \in Openers, NEW t \in Copied, Replaces(q, t)'
          PROVE  /\ Has(schema', CopyOf[t])
                 /\ \A r \in Openers : Replaces(r, t)' => r = q
      <3>1. Replaces(q, t) /\ \A r \in Openers : Replaces(r, t)' => Replaces(r, t)
        BY <1>13, <2>1
      <3>2. Has(schema, CopyOf[t]) /\ \A r \in Openers : Replaces(r, t)' => r = q
        BY <3>1 DEF Inv, OneReplaces
      <3> QED BY <1>d, <1>e, <3>2
    <2> QED BY <2>1 DEF OneReplaces
  <1>15. CopiesAreComplete'
    <2>1. ASSUME NEW q \in Openers, NEW t \in Copied, ~overtaken', Replaces(q, t)',
                 Statement(q)'.op = "drop", version' = at'[q][1]
          PROVE  rows'[t] \ Orphans \subseteq rows'[CopyOf[t]]
      <3>1. Replaces(q, t)
        BY <1>13, <2>1
      <3>2. q # p /\ Statement(q).op = "drop"
        <4>1. Statement(p).op \notin Copying
          BY <1>1 DEF st, Copying
        <4> QED BY <1>13, <2>1, <4>1
      <3>3. at'[q][1] = at[q][1]
        BY <1>1, Advances DEF st
      <3>4. ~overtaken /\ version = at[q][1]
        BY <1>3, <1>7, <2>1, <3>3
      <3>5. rows[t] \ Orphans \subseteq rows[CopyOf[t]]
        BY <3>1, <3>2, <3>4 DEF Inv, CopiesAreComplete
      <3> QED BY <1>c, <1>d, <3>5
    <2> QED BY <2>1 DEF CopiesAreComplete
  <1>16. OrphansGo'
    <2>1. ASSUME NEW t \in Copied \cup Copies, Gone(t)
          PROVE  Gone(t)'
      BY <1>c, <2>1 DEF Gone
    <2>2. ASSUME NEW t, st = Drop(t)
          PROVE  Gone(t)'
      <3>1. t0 = t
        BY <2>2 DEF Drop, t0
      <3>2. rows'[t] = {}
        BY <1>b, <3>1
      <3> QED BY <3>2 DEF Gone
    <2> QED BY <1>1, <1>3, <2>1, <2>2, OrphansStayGone DEF Inv, st
  <1> QED BY <1>7, <1>8, <1>9, <1>10, <1>11, <1>12, <1>14, <1>15, <1>16 DEF Inv

\* The schema after a table has taken the name of the one it replaces.
LEMMA Renamed ==
    ASSUME NEW s, \A o \in s : IsObject(o), NEW st, st.op = "rename", NEW v
    PROVE  /\ \A n \in After(st, s, v) : \E o \in s :
                /\ IsObject(n) /\ n.on = o.on
                /\ n.name = IF o.name = CopyOf[st.name] THEN st.name ELSE o.name
           /\ \A o \in s : \E n \in After(st, s, v) :
                n.name = IF o.name = CopyOf[st.name] THEN st.name ELSE o.name
  <1> DEFINE NameOf(o) == IF o.name = CopyOf[st.name] THEN st.name ELSE o.name
             Of(o) == [o EXCEPT !.name = IF @ = CopyOf[st.name] THEN st.name ELSE @]
  <1>1. After(st, s, v) = {Of(o) : o \in s}
    BY DEF After
  <1>2. ASSUME NEW o \in s
        PROVE  IsObject(Of(o)) /\ Of(o).on = o.on /\ Of(o).name = NameOf(o)
    <2>1. /\ o = [name |-> o.name, on |-> o.on, form |-> o.form]
          /\ o.form \in 0 .. (Newest - 1)
      BY DEF IsObject, New
    <2>2. Of(o) = [name |-> NameOf(o), on |-> o.on, form |-> o.form]
      BY <2>1
    <2> HIDE DEF NameOf, Of
    <2>3. Of(o).name = NameOf(o) /\ Of(o).on = o.on /\ Of(o).form = o.form
      BY <2>2
    <2>4. IsObject(Of(o))
      BY <2>1, <2>2, <2>3 DEF IsObject, New
    <2> QED BY <2>3, <2>4
  <1> HIDE DEF Of
  <1> QED BY <1>1, <1>2

LEMMA RenameKeeps ==
    ASSUME Inv, NEW p \in Openers, RenameTable(p)
    PROVE  Inv'
  <1> DEFINE st == Statement(p)
             t0 == st.name
             c0 == CopyOf[t0]
             NameOf(o) == IF o.name = c0 THEN t0 ELSE o.name
  <1>1. /\ SchemaTypeOK /\ IsMigrating(p) /\ Advance(p, 1)
        /\ st.op = "rename" /\ st.op \in Replacing /\ st.op # "set_version"
    BY DEF Inv, RenameTable, Replacing
  <1>2. t0 \in Copied /\ Replaces(p, t0) /\ c0 \in Copies /\ c0 \notin Copied
    <2>1. t0 \in Copied /\ Replaces(p, t0)
      BY <1>1, AboutTheTable
    <2> QED BY <2>1, TableNames
  <1>3. UNCHANGED <<version, written, halfway>> /\ Overtakes(p)
    BY DEF RenameTable
  <1>4. rows' = [rows EXCEPT ![t0] = rows[c0], ![c0] = {}]
    BY DEF RenameTable
  <1>5. Has(schema, c0) /\ ~Has(schema, t0)
    BY <1>1 DEF RenameTable, CanRun
  <1>6. /\ \A n \in schema' : \E o \in schema :
             IsObject(n) /\ n.on = o.on /\ n.name = NameOf(o)
        /\ \A o \in schema : \E n \in schema' : n.name = NameOf(o)
    <2>1. schema' = After(st, schema, at[p][1])
      BY DEF RenameTable
    <2>2. \A o \in schema : IsObject(o)
      BY <1>1 DEF SchemaTypeOK
    <2> HIDE DEF st
    <2>3. /\ \A n \in After(st, schema, at[p][1]) : \E o \in schema :
               IsObject(n) /\ n.on = o.on /\ n.name = NameOf(o)
          /\ \A o \in schema : \E n \in After(st, schema, at[p][1]) : n.name = NameOf(o)
      BY <1>1, <2>2, Renamed
    <2> QED BY <2>1, <2>3
  <1> HIDE DEF st, t0, c0
  <1>a. rows \in [Copied \cup Copies -> SUBSET Rows]
    BY <1>1 DEF SchemaTypeOK
  <1>b. /\ rows' \in [Copied \cup Copies -> SUBSET Rows]
        /\ rows'[t0] = rows[c0]
        /\ rows'[c0] = {}
        /\ \A t \in (Copied \cup Copies) \ {t0, c0} : rows'[t] = rows[t]
    BY <1>2, <1>4, <1>a
  <1>c. \A t \in Copied \ {t0} :
          rows'[t] = rows[t] /\ rows'[CopyOf[t]] = rows[CopyOf[t]]
    <2>1. ASSUME NEW t \in Copied \ {t0}
          PROVE  CopyOf[t] \in Copies /\ CopyOf[t] \notin {t0, c0} /\ t # c0
      BY <1>2, TableNames DEF c0
    <2> QED BY <1>b, <2>1
  <1>d. rows[t0] = {}
    BY <1>2, <1>5 DEF Inv, RowsHaveTables
  <1>e. /\ Has(schema', t0)
        /\ \A t : t # c0 /\ Has(schema, t) => Has(schema', t)
    <2>1. Has(schema', t0)
      <3>1. PICK o \in schema : o.name = c0
        BY <1>5 DEF Has
      <3>2. PICK n \in schema' : n.name = NameOf(o)
        BY <1>6
      <3> QED BY <3>1, <3>2 DEF Has
    <2>2. ASSUME NEW t, t # c0, Has(schema, t)
          PROVE  Has(schema', t)
      <3>1. PICK o \in schema : o.name = t
        BY <2>2 DEF Has
      <3>2. PICK n \in schema' : n.name = NameOf(o)
        BY <1>6
      <3> QED BY <2>2, <3>1, <3>2 DEF Has
    <2> QED BY <2>1, <2>2
  <1>7. /\ VersionsFollow'
        /\ ~overtaken' => ~overtaken /\ version = at[p][1]
        /\ version' \in 0 .. Newest
        /\ overtaken' \in BOOLEAN
        /\ at' \in [Openers -> Nat \X Nat]
        /\ \A q \in Openers : IsMigrating(q)' =>
             /\ at'[q][1] \in 0 .. (Newest - 1)
             /\ at'[q][2] \in 1 .. Len(ScriptOf(at'[q][1]))
    BY <1>1, <1>3, StatementTyped DEF Inv, st
  <1>8. SchemaTypeOK'
    <2>1. \A o \in schema' : IsObject(o)
      BY <1>6
    <2> QED BY <1>1, <1>3, <1>7, <1>b, <2>1 DEF SchemaTypeOK
  <1>9. NamesOfTables'
    <2>1. ASSUME NEW n \in schema', n.name \in Copied \cup Copies
          PROVE  n.on = "none"
      <3>1. PICK o \in schema : n.on = o.on /\ n.name = NameOf(o)
        BY <1>6
      <3>2. o.name \in Copied \cup Copies
        BY <1>2, <2>1, <3>1
      <3> QED BY <3>1, <3>2 DEF Inv, NamesOfTables
    <2> QED BY <2>1 DEF NamesOfTables
  <1>10. RowsHaveTables'
    <2>1. ASSUME NEW t \in Copied \cup Copies, rows'[t] # {}
          PROVE  Has(schema', t)
      <3>1. CASE t = t0
        BY <1>e, <3>1
      <3>2. CASE t # t0
        <4>1. t # c0 /\ rows[t] # {}
          BY <1>b, <2>1, <3>2
        <4> QED BY <1>e, <4>1 DEF Inv, RowsHaveTables
      <3> QED BY <3>1, <3>2
    <2> QED BY <2>1 DEF RowsHaveTables
  \* Table and copy together hold what they held.
  <1>f. \A t \in Copied : rows'[t] \cup rows'[CopyOf[t]] = rows[t] \cup rows[CopyOf[t]]
    <2>1. rows'[t0] \cup rows'[c0] = rows[t0] \cup rows[c0]
      BY <1>b, <1>d
    <2> QED BY <1>c, <2>1 DEF c0
  <1>11. RowsAreInPlace'
    BY <1>f DEF Inv, RowsAreInPlace
  <1>12. RowsStay'
    <2>1. ASSUME ~overtaken', NEW r \in written \ Orphans
          PROVE  r \in rows'[TableOf[r]] \cup rows'[CopyOf[TableOf[r]]]
      <3>1. r \in rows[TableOf[r]] \cup rows[CopyOf[TableOf[r]]]
        BY <1>7, <2>1 DEF Inv, RowsStay
      <3>2. TableOf[r] \in Copied
        BY <1>1, RowsAssumption DEF SchemaTypeOK
      <3> QED BY <1>f, <3>1, <3>2
    <2> QED BY <1>3, <2>1 DEF RowsStay
  <1>13. /\ \A q \in Openers, t \in Copied : Replaces(q, t)' => Replaces(q, t)
         /\ \A q \in Openers, t \in Copied :
              Replaces(q, t)' /\ Statement(q)'.op = "drop" =>
                IF q = p THEN Statement(p).op \in Copying
                ELSE Statement(q).op = "drop"
         /\ \A t \in Copied : ~Replaces(p, t)'
    BY <1>1, NobodyBegins DEF st
  <1>14. OneReplaces'
    <2>1. ASSUME NEW q \in Openers, NEW t \in Copied, Replaces(q, t)'
          PROVE  /\ Has(schema', CopyOf[t])
                 /\ \A r \in Openers : Replaces(r, t)' => r = q
      <3>1. Replaces(q, t) /\ q # p /\ \A r \in Openers : Replaces(r, t)' => Replaces(r, t)
        BY <1>13, <2>1
      <3>2. Has(schema, CopyOf[t]) /\ \A r \in Openers : Replaces(r, t) => r = q
        BY <3>1 DEF Inv, OneReplaces
      <3>3. t # t0
        BY <1>2, <3>1, <3>2
      <3>4. CopyOf[t] # c0
        BY <1>2, <3>3, TableNames DEF c0
      <3> QED BY <1>e, <3>1, <3>2, <3>4
    <2> QED BY <2>1 DEF OneReplaces
  <1>15. CopiesAreComplete'
    <2>1. ASSUME NEW q \in Openers, NEW t \in Copied, ~overtaken', Replaces(q, t)',
                 Statement(q)'.op = "drop", version' = at'[q][1]
          PROVE  rows'[t] \ Orphans \subseteq rows'[CopyOf[t]]
      <3>1. Replaces(q, t) /\ q # p /\ Statement(q).op = "drop"
        BY <1>13, <2>1
      <3>2. t # t0
        BY <1>2, <3>1 DEF Inv, OneReplaces
      <3>3. at'[q][1] = at[q][1]
        BY <1>1, Advances DEF st
      <3>4. ~overtaken /\ version = at[q][1]
        BY <1>3, <1>7, <2>1, <3>3
      <3>5. rows[t] \ Orphans \subseteq rows[CopyOf[t]]
        BY <3>1, <3>4 DEF Inv, CopiesAreComplete
      <3> QED BY <1>c, <3>2, <3>5
    <2> QED BY <2>1 DEF CopiesAreComplete
  <1>16. OrphansGo'
    <2>1. rows[c0] \cap Orphans = {}
      BY <1>2 DEF Inv, OrphansGo, Gone
    <2>2. ASSUME NEW t \in Copied \cup Copies, Gone(t)
          PROVE  Gone(t)'
      <3>1. rows'[t] \in {rows[t], rows[c0], {}}
        BY <1>b
      <3> QED BY <2>1, <2>2, <3>1 DEF Gone
    <2>3. st # Drop("agent_action_audit") /\ st # Drop("agent_action_workflows")
      <3>1. \A t : Drop(t).op = "drop"
        BY DEF Drop
      <3> QED BY <1>1, <3>1
    <2> QED BY <1>1, <1>3, <2>2, <2>3, OrphansStayGone DEF Inv, st
  <1> QED BY <1>7, <1>8, <1>9, <1>10, <1>11, <1>12, <1>14, <1>15, <1>16 DEF Inv

\* Whoever inserts has the newest version, and then nobody else migrates.
LEMMA WriteKeeps ==
    ASSUME Inv, NEW p \in Openers, NEW r0 \in Rows, Write(p, r0)
    PROVE  Inv'
  <1> DEFINE t0 == TableOf[r0]
  <1>1. SchemaTypeOK /\ UNCHANGED <<version, schema, at, overtaken, halfway>>
    BY DEF Inv, Write
  <1>2. t0 \in Copied /\ Has(schema, t0) /\ r0 \notin Orphans
    BY RowsAssumption DEF Write
  <1>3. rows' = [rows EXCEPT ![t0] = @ \cup {r0}] /\ written' = written \cup {r0}
    BY DEF Write
  <1> HIDE DEF t0
  <1>4. rows \in [Copied \cup Copies -> SUBSET Rows] /\ written \subseteq Rows
    BY <1>1 DEF SchemaTypeOK
  <1>5. /\ rows' \in [Copied \cup Copies -> SUBSET Rows]
        /\ rows'[t0] = rows[t0] \cup {r0}
        /\ \A t \in (Copied \cup Copies) \ {t0} : rows'[t] = rows[t]
    BY <1>2, <1>3, <1>4
  <1>6. \A t \in Copied : CopyOf[t] \in Copies /\ rows'[CopyOf[t]] = rows[CopyOf[t]]
    <2>1. \A t \in Copied : CopyOf[t] \in Copies /\ CopyOf[t] # t0
      BY <1>2, TableNames
    <2> QED BY <1>5, <2>1
  <1>7. /\ \A q \in Openers : Statement(q)' = Statement(q)
        /\ \A q \in Openers, t \in Copied : Replaces(q, t)' = Replaces(q, t)
    BY <1>1 DEF Replaces, IsMigrating, Statement
  <1>8. SchemaTypeOK'
    <2>1. written' \subseteq Rows
      BY <1>3, <1>4
    <2>2. \A q \in Openers : IsMigrating(q)' =>
            /\ at'[q][1] \in 0 .. (Newest - 1)
            /\ at'[q][2] \in 1 .. Len(ScriptOf(at'[q][1]))
      BY <1>1 DEF SchemaTypeOK, IsMigrating
    <2> QED BY <1>1, <1>5, <2>1, <2>2 DEF SchemaTypeOK
  <1>9. NamesOfTables'
    BY <1>1 DEF Inv, NamesOfTables
  <1>10. OneReplaces'
    BY <1>1, <1>7 DEF Inv, OneReplaces, Has
  <1>11. RowsHaveTables'
    <2>1. ASSUME NEW t \in Copied \cup Copies, rows'[t] # {}
          PROVE  Has(schema, t)
      <3>1. CASE t = t0
        BY <1>2, <3>1
      <3>2. CASE t # t0
        BY <1>5, <2>1, <3>2 DEF Inv, RowsHaveTables
      <3> QED BY <3>1, <3>2
    <2> QED BY <1>1, <2>1 DEF RowsHaveTables, Has
  <1>12. RowsAreInPlace'
    <2>1. ASSUME NEW t \in Copied, NEW r \in rows'[t] \cup rows'[CopyOf[t]]
          PROVE  TableOf[r] = t
      <3>1. r \in rows[t] \cup rows[CopyOf[t]] \/ (t = t0 /\ r = r0)
        BY <1>5, <1>6, <2>1
      <3> QED BY <3>1 DEF Inv, RowsAreInPlace, t0
    <2> QED BY <2>1 DEF RowsAreInPlace
  <1>13. VersionsFollow'
    BY <1>1 DEF Inv, VersionsFollow
  <1>14. CopiesAreComplete'
    <2>1. ASSUME NEW q \in Openers, NEW t \in Copied, ~overtaken, Replaces(q, t),
                 version = at[q][1]
          PROVE  FALSE
      <3>1. at[p] = <<8, 1>>
        BY DEF Write, Opened, Newest
      <3>2. at[p][1] <= version
        BY <2>1 DEF Inv, VersionsFollow
      <3>3. at[q][1] \in 0 .. 7
        BY <1>1, <2>1, AtStatement DEF Replaces
      <3> QED BY <2>1, <3>1, <3>2, <3>3
    <2> QED BY <1>1, <1>7, <2>1 DEF CopiesAreComplete
  <1>15. OrphansGo'
    <2>1. ASSUME NEW t \in Copied \cup Copies, Gone(t)
          PROVE  Gone(t)'
      <3>1. rows'[t] = rows[t] \/ rows'[t] = rows[t] \cup {r0}
        BY <1>5
      <3> QED BY <1>2, <2>1, <3>1 DEF Gone
    <2>2. "agent_action_audit" \in Copied /\ "agent_action_workflows" \in Copied
      BY TableNames
    <2> QED BY <1>1, <2>1, <2>2 DEF Inv, OrphansGo
  <1>16. RowsStay'
    <2>1. ASSUME ~overtaken, NEW r \in written' \ Orphans
          PROVE  r \in rows'[TableOf[r]] \cup rows'[CopyOf[TableOf[r]]]
      <3>1. CASE r = r0
        BY <1>5, <3>1 DEF t0
      <3>2. CASE r # r0
        <4>1. r \in written \ Orphans
          BY <1>3, <2>1, <3>2
        <4>2. r \in rows[TableOf[r]] \cup rows[CopyOf[TableOf[r]]]
          BY <2>1, <4>1 DEF Inv, RowsStay
        <4>3. TableOf[r] \in Copied
          BY <1>4, <4>1, RowsAssumption
        <4>4. rows[TableOf[r]] \subseteq rows'[TableOf[r]]
          BY <1>5, <4>3
        <4> QED BY <1>6, <4>2, <4>3, <4>4
      <3> QED BY <3>1, <3>2
    <2> QED BY <1>1, <2>1 DEF RowsStay
  <1> QED BY <1>8, <1>9, <1>10, <1>11, <1>12, <1>13, <1>14, <1>15, <1>16 DEF Inv

----------------------------------------------------------------------------
(* Least elements, inductions up to a bound and folds                      *)

\* A set of numbers has a least one.
LEMMA LeastNat ==
    ASSUME NEW T, T \subseteq Nat, T # {}
    PROVE  \E n \in T : \A m \in T : n <= m
  <1> DEFINE R == OpToRel(<, Nat)
  <1>1. IsWellFoundedOn(R, Nat)
    BY NatLessThanWellFounded
  <1>2. R = {ss \in Nat \X Nat : ss[1] < ss[2]}
    BY DEF OpToRel
  <1> HIDE DEF R
  <1>3. PICK n \in T : \A m \in T : ~ (<<m, n>> \in R)
    BY <1>1, WFMin
  <1>4. ASSUME NEW m \in T PROVE n <= m
    <2>1. <<m, n>> \in Nat \X Nat /\ <<m, n>>[1] = m /\ <<m, n>>[2] = n
      BY <1>3, <1>4
    <2>2. ~ (m < n)
      BY <1>2, <1>3, <1>4, <2>1
    <2> QED BY <1>3, <1>4, <2>2
  <1> QED BY <1>3, <1>4

\* Induction up to n, for a set of numbers.
LEMMA UpTo ==
    ASSUME NEW n \in Nat, NEW T, 0 \in T,
           \A k \in 1 .. n : k - 1 \in T => k \in T
    PROVE  \A k \in 0 .. n : k \in T
  <1> DEFINE Missing == {k \in 0 .. n : k \notin T}
  <1>1. SUFFICES ASSUME Missing # {} PROVE FALSE
    OBVIOUS
  <1>2. PICK k \in Missing : \A m \in Missing : k <= m
    <2>1. Missing \subseteq Nat
      OBVIOUS
    <2> HIDE DEF Missing
    <2> QED BY <1>1, <2>1, LeastNat
  <1>3. k \in 1 .. n /\ k - 1 \in 0 .. n
    BY <1>2
  <1>4. k - 1 \notin Missing
    BY <1>2, <1>3
  <1> QED BY <1>2, <1>3, <1>4

LEMMA MaxProperties ==
    ASSUME NEW n \in Nat, NEW S \in SUBSET (1 .. n), S # {}
    PROVE  Max(S) \in S /\ \A k \in S : k <= Max(S)
  <1> DEFINE T == {u \in 0 .. n : \A k \in S : k <= u}
  <1>1. n \in T
    OBVIOUS
  <1>2. PICK u \in T : \A m \in T : u <= m
    <2>1. T \subseteq Nat
      OBVIOUS
    <2> HIDE DEF T
    <2> QED BY <1>1, <2>1, LeastNat
  <1>3. u \in S
    <2>1. CASE u = 0
      <3>1. PICK k \in S : TRUE
        OBVIOUS
      <3>2. k <= 0 /\ k \in 1 .. n
        BY <1>2, <2>1
      <3> QED BY <3>2
    <2>2. CASE u # 0
      <3>1. u - 1 \in 0 .. n /\ u - 1 \notin T
        BY <1>2, <2>2
      <3>2. PICK k \in S : ~ (k <= u - 1)
        BY <3>1
      <3> QED BY <1>2, <3>1, <3>2
    <2> QED BY <2>1, <2>2
  <1>4. \A k \in S : u >= k
    BY <1>2
  <1>5. \A k \in S : (\A y \in S : k >= y) => k = u
    BY <1>3, <1>4
  <1>6. Max(S) \in S /\ \A y \in S : Max(S) >= y
    BY <1>3, <1>4 DEF Max
  <1> QED BY <1>6

LEMMA MaxOfTop ==
    ASSUME NEW n \in Nat \ {0}, NEW S \in SUBSET (1 .. n), n \in S
    PROVE  Max(S) = n
  <1>1. Max(S) \in S /\ \A k \in S : k <= Max(S)
    BY MaxProperties
  <1>2. Max(S) \in 1 .. n /\ n <= Max(S)
    BY <1>1
  <1> QED BY <1>2

\* f is the iteration of a FoldLeft, for every set of elements left to do.
Iterates(f, A, base, step, seq) ==
    /\ f \in [SUBSET (1 .. Len(seq)) -> A]
    /\ \A s \in SUBSET (1 .. Len(seq)) :
         f[s] = IF s = {} THEN base ELSE step[<<f[s \ {Max(s)}], seq[Max(s)]>>]

\* There is one.
LEMMA FoldExists ==
    ASSUME NEW A, NEW E, NEW base \in A, NEW step \in [A \X E -> A],
           NEW seq \in Seq(E)
    PROVE  \E f : Iterates(f, A, base, step, seq)
  <1> DEFINE Good(f, k) ==
               /\ f \in [SUBSET (1 .. k) -> A]
               /\ \A s \in SUBSET (1 .. k) :
                    f[s] = IF s = {} THEN base ELSE step[<<f[s \ {Max(s)}], seq[Max(s)]>>]
             n == Len(seq)
             T == {k \in 0 .. n : \E f : Good(f, k)}
  <1>1. n \in Nat
    OBVIOUS
  <1>2. 0 \in T
    <2> DEFINE f == [s \in SUBSET (1 .. 0) |-> base]
    <2>1. f \in [SUBSET (1 .. 0) -> A]
      OBVIOUS
    <2>2. \A s \in SUBSET (1 .. 0) : s = {} /\ f[s] = base
      OBVIOUS
    <2> HIDE DEF f
    <2>3. Good(f, 0)
      BY <2>1, <2>2
    <2> HIDE DEF Good
    <2> QED BY <1>1, <2>3
  <1>3. ASSUME NEW k \in 1 .. n, k - 1 \in T PROVE k \in T
    <2>1. PICK f : Good(f, k - 1)
      BY <1>3
    <2> DEFINE g == [s \in SUBSET (1 .. k) |->
                       IF k \in s THEN step[<<f[s \ {k}], seq[k]>>] ELSE f[s]]
    <2>2. k \in Nat \ {0} /\ seq[k] \in E
      BY <1>1, <1>3
    <2>3. \A s \in SUBSET (1 .. k) : k \notin s => s \in SUBSET (1 .. k - 1)
      BY <1>1, <1>3
    <2>4. \A s \in SUBSET (1 .. k) : s \ {k} \in SUBSET (1 .. k - 1)
      BY <1>1, <1>3
    <2>5. ASSUME NEW s \in SUBSET (1 .. k), k \notin s
          PROVE  /\ g[s] = f[s] /\ g[s] \in A
                 /\ g[s] = IF s = {} THEN base ELSE step[<<g[s \ {Max(s)}], seq[Max(s)]>>]
      <3>1. s \in SUBSET (1 .. k - 1) /\ g[s] = f[s]
        BY <2>3, <2>5
      <3>2. s \ {Max(s)} \in SUBSET (1 .. k) /\ k \notin s \ {Max(s)}
        BY <2>5
      <3>3. g[s \ {Max(s)}] = f[s \ {Max(s)}]
        BY <3>2
      <3> QED BY <2>1, <3>1, <3>3
    <2>6. ASSUME NEW s \in SUBSET (1 .. k), k \in s
          PROVE  /\ g[s] \in A /\ s # {}
                 /\ g[s] = step[<<g[s \ {Max(s)}], seq[Max(s)]>>]
      <3>1. Max(s) = k
        BY <2>2, <2>6, MaxOfTop
      <3>2. s \ {k} \in SUBSET (1 .. k - 1) /\ s \ {k} \in SUBSET (1 .. k)
        BY <2>4
      <3>3. f[s \ {k}] \in A
        BY <2>1, <3>2
      <3>4. g[s \ {k}] = f[s \ {k}]
        BY <3>2
      <3>5. g[s] = step[<<f[s \ {k}], seq[k]>>]
        BY <2>6
      <3>6. step[<<f[s \ {k}], seq[k]>>] \in A
        BY <2>2, <3>3
      <3> QED BY <2>6, <3>1, <3>4, <3>5, <3>6
    <2>7. g \in [SUBSET (1 .. k) -> A]
      <3>1. g = [s \in SUBSET (1 .. k) |-> g[s]]
        OBVIOUS
      <3> HIDE DEF g
      <3> QED BY <2>5, <2>6, <3>1
    <2>8. Good(g, k)
      <3> HIDE DEF g
      <3> QED BY <2>5, <2>6, <2>7
    <2> HIDE DEF Good
    <2> QED BY <1>3, <2>8
  <1> HIDE DEF Good
  <1>4. n \in T
    <2> HIDE DEF T
    <2>1. \A k \in 0 .. n : k \in T
      BY <1>1, <1>2, <1>3, UpTo
    <2> QED BY <1>1, <2>1
  <1>5. PICK f : Good(f, n)
    BY <1>4
  <1> QED BY <1>5 DEF Good, Iterates

\* The set a fold has still to do, from its last element.
LEMMA MaxOfInterval ==
    ASSUME NEW k \in Nat \ {0}
    PROVE  1 .. k # {} /\ Max(1 .. k) = k /\ (1 .. k) \ {k} = 1 .. k - 1
  <1>1. k \in 1 .. k /\ 1 .. k \in SUBSET (1 .. k)
    OBVIOUS
  <1>2. Max(1 .. k) = k
    BY <1>1, MaxOfTop
  <1> QED BY <1>1, <1>2

----------------------------------------------------------------------------
(* Schemas by their forms: the script that each table, index and column    *)
(* comes from.                                                             *)

FirstTables == {"sources", "sync_runs", "file_state", "documents",
                "change_events", "staged_files"}

Lexical == {"lexical_chunks", "lexical_chunks_source_idx", "lexical_chunks_type_idx"}

Names == FirstTables \cup Lexical \cup Copied \cup Copies \cup
         {"vector_chunks_source_idx", "paused", "agent_action_audit_operation_idx"}

\* The table an index or a column belongs to.
Carrier(n) ==
    CASE n = "lexical_chunks_source_idx" -> "lexical_chunks"
      [] n = "lexical_chunks_type_idx" -> "lexical_chunks"
      [] n = "vector_chunks_source_idx" -> "vector_chunks"
      [] n = "paused" -> "sources"
      [] n = "agent_action_audit_operation_idx" -> "agent_action_audit"
      [] OTHER -> "none"

Absent == Newest

Forms == [Names -> 0 .. Newest]

Object(g, n) == [name |-> n, on |-> Carrier(n), form |-> g[n]]

SchemaWith(g) == {Object(g, n) : n \in {m \in Names : g[m] # Absent}}

Put(g, n, v) == [g EXCEPT ![n] = v]

Dropped(g, t) ==
    [n \in Names |-> IF n = t \/ Carrier(n) = t THEN Absent ELSE g[n]]

InPlace(g, t) == [g EXCEPT ![t] = g[CopyOf[t]], ![CopyOf[t]] = Absent]

\* What CanRun and After are, in forms.
Allowed(g, st) ==
    CASE st.op = "create" ->
           g[st.name] = Absent /\ (st.on = "none" \/ g[st.on] # Absent)
      [] st.op \in Copying -> g[st.name] # Absent /\ g[CopyOf[st.name]] # Absent
      [] st.op = "drop" -> g[st.name] # Absent
      [] st.op = "rename" -> g[CopyOf[st.name]] # Absent /\ g[st.name] = Absent
      [] st.op = "add_column" -> g[st.on] # Absent /\ g[st.name] = Absent
      [] OTHER -> TRUE

Effect(g, st, v) ==
    CASE st.op \in {"create", "add_column"} -> Put(g, st.name, v)
      [] st.op = "create_if_missing" ->
           IF g[st.name] = Absent THEN Put(g, st.name, v) ELSE g
      [] st.op = "drop" -> Dropped(g, st.name)
      [] st.op = "rename" -> InPlace(g, st.name)
      [] OTHER -> g

\* Statements name what there is, indexes and columns with their table.
WellNamed(st) ==
    /\ st.op # "set_version" => st.name \in Names
    /\ st.op \in {"create", "create_if_missing", "add_column"} =>
         st.on = Carrier(st.name) /\ (st.on # "none" => st.on \in Names)
    /\ st.op = "add_column" => st.on # "none"
    /\ st.op \in Replacing => st.name \in Copied

LEMMA NamesAre ==
    /\ Names = {"sources", "sync_runs", "file_state", "documents", "change_events",
                "staged_files", "lexical_chunks", "lexical_chunks_source_idx",
                "lexical_chunks_type_idx", "vector_chunks", "vector_chunks_v4",
                "vector_chunks_source_idx", "paused", "agent_action_audit",
                "agent_action_audit_v8", "agent_action_audit_operation_idx",
                "agent_action_workflows", "agent_action_workflows_v8"}
    /\ Copied \subseteq Names /\ Copies \subseteq Names
    /\ \A t \in Copied : CopyOf[t] \in Names /\ CopyOf[t] # t
                         /\ Carrier(t) = "none" /\ Carrier(CopyOf[t]) = "none"
    /\ "none" \notin Names
  <1>1. Names = {"sources", "sync_runs", "file_state", "documents", "change_events",
                "staged_files", "lexical_chunks", "lexical_chunks_source_idx",
                "lexical_chunks_type_idx", "vector_chunks", "vector_chunks_v4",
                "vector_chunks_source_idx", "paused", "agent_action_audit",
                "agent_action_audit_v8", "agent_action_audit_operation_idx",
                "agent_action_workflows", "agent_action_workflows_v8"}
    BY TableNames DEF Names, FirstTables, Lexical
  <1>2. Copied \subseteq Names /\ Copies \subseteq Names
    BY DEF Names
  <1>3. ASSUME NEW t \in Copied
        PROVE  CopyOf[t] \in Names /\ CopyOf[t] # t
               /\ Carrier(t) = "none" /\ Carrier(CopyOf[t]) = "none"
    <2>1. CopyOf[t] \in Copies /\ CopyOf[t] \notin Copied
      BY TableNames
    <2>2. /\ t \in {"vector_chunks", "agent_action_audit", "agent_action_workflows"}
          /\ CopyOf[t] \in {"vector_chunks_v4", "agent_action_audit_v8",
                            "agent_action_workflows_v8"}
      BY <2>1, TableNames
    <2>3. Carrier(t) = "none"
      BY <2>2 DEF Carrier
    <2>4. Carrier(CopyOf[t]) = "none"
      BY <2>2 DEF Carrier
    <2> QED BY <1>2, <2>1, <2>3, <2>4
  <1> QED BY <1>1, <1>2, <1>3

LEMMA HasForm ==
    ASSUME NEW g \in Forms, NEW n \in Names
    PROVE  Has(SchemaWith(g), n) <=> g[n] # Absent
  <1>1. \A m : Object(g, m).name = m
    BY DEF Object
  <1> QED BY <1>1 DEF Has, SchemaWith

LEMMA CreateForm ==
    ASSUME NEW g \in Forms, NEW n \in Names, g[n] = Absent, NEW v \in 0 .. 7
    PROVE  /\ Put(g, n, v) \in Forms
           /\ SchemaWith(g) \cup {[name |-> n, on |-> Carrier(n), form |-> v]}
                = SchemaWith(Put(g, n, v))
  <1> DEFINE h == Put(g, n, v)
             S == {m \in Names : g[m] # Absent}
             T == {m \in Names : h[m] # Absent}
  <1>1. h \in Forms /\ h[n] = v /\ \A m \in Names \ {n} : h[m] = g[m]
    BY DEF Put, Forms, Newest
  <1>2. v # Absent
    BY DEF Absent, Newest
  <1> HIDE DEF h
  <1>3. T = S \cup {n} /\ n \notin S
    BY <1>1, <1>2
  <1>4. \A m \in S : Object(h, m) = Object(g, m)
    BY <1>1, <1>3 DEF Object
  <1>5. Object(h, n) = [name |-> n, on |-> Carrier(n), form |-> v]
    BY <1>1 DEF Object
  <1>6. SchemaWith(g) = {Object(g, m) : m \in S} /\ SchemaWith(h) = {Object(h, m) : m \in T}
    BY DEF SchemaWith
  <1> HIDE DEF S, T
  <1>7. SchemaWith(h) = {Object(g, m) : m \in S} \cup {Object(h, n)}
    BY <1>3, <1>4, <1>6
  <1> QED BY <1>1, <1>5, <1>6, <1>7 DEF h

LEMMA DropForm ==
    ASSUME NEW g \in Forms, NEW t \in Names
    PROVE  /\ Dropped(g, t) \in Forms
           /\ {o \in SchemaWith(g) : o.name # t /\ o.on # t} = SchemaWith(Dropped(g, t))
  <1> DEFINE h == Dropped(g, t)
             S == {m \in Names : g[m] # Absent}
             T == {m \in Names : h[m] # Absent}
  <1>1. h \in Forms /\ \A m \in Names : h[m] = IF m = t \/ Carrier(m) = t THEN Absent ELSE g[m]
    BY DEF Dropped, Forms, Absent, Newest
  <1> HIDE DEF h
  <1>2. T = {m \in S : m # t /\ Carrier(m) # t}
    BY <1>1
  <1>3. \A m \in T : Object(h, m) = Object(g, m)
    BY <1>1, <1>2 DEF Object
  <1>4. \A m : Object(g, m).name = m /\ Object(g, m).on = Carrier(m)
    BY DEF Object
  <1>5. SchemaWith(g) = {Object(g, m) : m \in S} /\ SchemaWith(h) = {Object(h, m) : m \in T}
    BY DEF SchemaWith
  <1> HIDE DEF S, T
  <1>6. SchemaWith(h) = {Object(g, m) : m \in T}
    BY <1>3, <1>5
  <1>7. {o \in SchemaWith(g) : o.name # t /\ o.on # t} = {Object(g, m) : m \in T}
    BY <1>2, <1>4, <1>5
  <1> QED BY <1>1, <1>6, <1>7 DEF h

LEMMA RenameForm ==
    ASSUME NEW g \in Forms, NEW t \in Copied, g[t] = Absent
    PROVE  /\ InPlace(g, t) \in Forms
           /\ {[o EXCEPT !.name = IF @ = CopyOf[t] THEN t ELSE @] : o \in SchemaWith(g)}
                = SchemaWith(InPlace(g, t))
  <1> DEFINE h == InPlace(g, t)
             c == CopyOf[t]
             new(o) == [o EXCEPT !.name = IF @ = c THEN t ELSE @]
             S == {m \in Names : g[m] # Absent}
             T == {m \in Names : h[m] # Absent}
  <1>0. t \in Names /\ c \in Names /\ c # t /\ Carrier(t) = "none" /\ Carrier(c) = "none"
    BY NamesAre
  <1>1. /\ h \in Forms /\ h[t] = g[c] /\ h[c] = Absent
        /\ \A m \in Names \ {t, c} : h[m] = g[m]
    BY <1>0 DEF InPlace, Forms, Absent, Newest
  <1>2. ASSUME NEW m \in Names, m # c PROVE new(Object(g, m)) = Object(g, m)
    BY <1>2 DEF Object
  <1>3. new(Object(g, c)) = [name |-> t, on |-> "none", form |-> g[c]]
    BY <1>0 DEF Object
  <1>4. Object(h, t) = [name |-> t, on |-> "none", form |-> g[c]]
    BY <1>0, <1>1 DEF Object
  <1>5. SchemaWith(g) = {Object(g, m) : m \in S} /\ SchemaWith(h) = {Object(h, m) : m \in T}
    BY DEF SchemaWith
  <1> HIDE DEF h
  <1>6. ASSUME NEW m \in T PROVE \E k \in S : new(Object(g, k)) = Object(h, m)
    <2>1. CASE m = t
      <3>1. c \in S
        BY <1>0, <1>1, <1>6, <2>1
      <3> QED BY <1>3, <1>4, <2>1, <3>1
    <2>2. CASE m # t
      <3>1. m \in S /\ m # c
        BY <1>1, <1>6, <2>2
      <3>2. Object(h, m) = Object(g, m)
        BY <1>1, <2>2, <3>1 DEF Object
      <3> QED BY <1>2, <3>1, <3>2
    <2> QED BY <2>1, <2>2
  <1>7. ASSUME NEW k \in S PROVE \E m \in T : new(Object(g, k)) = Object(h, m)
    <2>1. CASE k = c
      <3>1. t \in T
        BY <1>0, <1>1, <1>7, <2>1
      <3> QED BY <1>3, <1>4, <2>1, <3>1
    <2>2. CASE k # c
      <3>1. k \in T /\ k # t
        BY <1>1, <1>7, <2>2
      <3>2. Object(h, k) = Object(g, k)
        BY <1>1, <2>2, <3>1 DEF Object
      <3> QED BY <1>2, <2>2, <3>1, <3>2
    <2> QED BY <2>1, <2>2
  <1> HIDE DEF S, T, new
  <1>8. {new(o) : o \in SchemaWith(g)} = SchemaWith(h)
    <2>1. {new(o) : o \in SchemaWith(g)} = {new(Object(g, k)) : k \in S}
      BY <1>5
    <2>2. {new(Object(g, k)) : k \in S} = {Object(h, m) : m \in T}
      BY <1>6, <1>7
    <2> QED BY <1>5, <2>1, <2>2
  <1> QED BY <1>1, <1>8 DEF h, new, c

\* CanRun and After, by forms.
LEMMA AfterForm ==
    ASSUME NEW g \in Forms, NEW st, WellNamed(st), NEW v \in 0 .. 7
    PROVE  /\ CanRun(st, SchemaWith(g)) <=> Allowed(g, st)
           /\ Allowed(g, st) =>
                /\ Effect(g, st, v) \in Forms
                /\ After(st, SchemaWith(g), v) = SchemaWith(Effect(g, st, v))
  <1> DEFINE s == SchemaWith(g)
  <1>0. /\ \A n \in Names : Has(s, n) <=> g[n] # Absent
        /\ \A t \in Copied : t \in Names /\ CopyOf[t] \in Names
    BY HasForm, NamesAre
  <1> HIDE DEF s
  <1>1. CanRun(st, s) <=> Allowed(g, st)
    BY <1>0 DEF CanRun, Allowed, WellNamed, Copying, Replacing
  <1>2. ASSUME Allowed(g, st)
        PROVE  Effect(g, st, v) \in Forms /\ After(st, s, v) = SchemaWith(Effect(g, st, v))
    <2>1. CASE st.op \in {"create", "add_column"}
      <3>1. /\ st.name \in Names /\ g[st.name] = Absent
            /\ New(st, v) = [name |-> st.name, on |-> Carrier(st.name), form |-> v]
        <4>1. st.name \in Names /\ st.on = Carrier(st.name)
          BY <2>1 DEF WellNamed
        <4>2. g[st.name] = Absent
          BY <1>2, <2>1 DEF Allowed, Copying
        <4> QED BY <4>1, <4>2 DEF New
      <3>2. After(st, s, v) = s \cup {New(st, v)} /\ Effect(g, st, v) = Put(g, st.name, v)
        BY <2>1 DEF After, Effect
      <3> QED BY <3>1, <3>2, CreateForm DEF s
    <2>2. CASE st.op = "create_if_missing"
      <3>1. CASE g[st.name] = Absent
        <4>1. /\ st.name \in Names /\ ~Has(s, st.name)
              /\ New(st, v) = [name |-> st.name, on |-> Carrier(st.name), form |-> v]
          BY <1>0, <2>2, <3>1 DEF WellNamed, New
        <4>2. After(st, s, v) = s \cup {New(st, v)} /\ Effect(g, st, v) = Put(g, st.name, v)
          BY <2>2, <3>1, <4>1 DEF After, Effect
        <4> QED BY <3>1, <4>1, <4>2, CreateForm DEF s
      <3>2. CASE g[st.name] # Absent
        <4>1. Has(s, st.name)
          BY <1>0, <2>2, <3>2 DEF WellNamed
        <4>2. After(st, s, v) = s /\ Effect(g, st, v) = g
          BY <2>2, <3>2, <4>1 DEF After, Effect
        <4> QED BY <4>2 DEF s
      <3> QED BY <3>1, <3>2
    <2>3. CASE st.op = "drop"
      <3>1. st.name \in Names
        BY <2>3 DEF WellNamed
      <3>2. /\ After(st, s, v) = {o \in s : o.name # st.name /\ o.on # st.name}
            /\ Effect(g, st, v) = Dropped(g, st.name)
        BY <2>3 DEF After, Effect
      <3> QED BY <3>1, <3>2, DropForm DEF s
    <2>4. CASE st.op = "rename"
      <3>1. st.name \in Copied /\ g[st.name] = Absent
        BY <1>2, <2>4 DEF WellNamed, Allowed, Replacing, Copying
      <3>2. /\ After(st, s, v) =
                 {[o EXCEPT !.name = IF @ = CopyOf[st.name] THEN st.name ELSE @] : o \in s}
            /\ Effect(g, st, v) = InPlace(g, st.name)
        BY <2>4 DEF After, Effect
      <3> QED BY <3>1, <3>2, RenameForm DEF s
    <2>5. CASE st.op \notin {"create", "add_column", "create_if_missing", "drop", "rename"}
      <3>1. After(st, s, v) = s /\ Effect(g, st, v) = g
        BY <2>5 DEF After, Effect
      <3> QED BY <3>1 DEF s
    <2> QED BY <2>1, <2>2, <2>3, <2>4, <2>5
  <1> QED BY <1>1, <1>2 DEF s

----------------------------------------------------------------------------
(* Scripts that run alone                                                  *)

Words == Names \cup {"none", "user_version"}
Operations == {"create", "create_if_missing", "add_column", "look", "drop",
               "rename", "set_version"} \cup Copying
AnyObject == [name : Words, on : Words, form : Nat]
AnySchemas == SUBSET SUBSET AnyObject
AnyStatement == [op : Operations, name : Words, on : Words]

LEMMA StatementAloneType ==
    ASSUME NEW found \in AnySchemas, NEW st \in AnyStatement, NEW v \in Nat
    PROVE  StatementAlone(found, st, v) \in AnySchemas
  <1>1. ASSUME NEW t \in SUBSET AnyObject PROVE After(st, t, v) \in SUBSET AnyObject
    <2>1. New(st, v) \in AnyObject
      BY DEF New, AnyObject, AnyStatement
    <2>2. ASSUME NEW o \in t
          PROVE  [o EXCEPT !.name = IF @ = CopyOf[st.name] THEN st.name ELSE @] \in AnyObject
      BY DEF AnyObject, AnyStatement
    <2>3. CASE st.op \in {"create", "add_column"}
      <3>1. After(st, t, v) = t \cup {New(st, v)}
        BY <2>3 DEF After
      <3> QED BY <2>1, <3>1
    <2>4. CASE st.op = "create_if_missing"
      <3>1. After(st, t, v) = IF Has(t, st.name) THEN t ELSE t \cup {New(st, v)}
        BY <2>4 DEF After
      <3> QED BY <2>1, <3>1
    <2>5. CASE st.op = "drop"
      <3>1. After(st, t, v) = {o \in t : o.name # st.name /\ o.on # st.name}
        BY <2>5 DEF After
      <3> QED BY <3>1
    <2>6. CASE st.op = "rename"
      <3>1. After(st, t, v) =
              {[o EXCEPT !.name = IF @ = CopyOf[st.name] THEN st.name ELSE @] : o \in t}
        BY <2>6 DEF After
      <3> QED BY <2>2, <3>1
    <2>7. CASE st.op \notin {"create", "add_column", "create_if_missing", "drop", "rename"}
      <3>1. After(st, t, v) = t
        BY <2>7 DEF After
      <3> QED BY <3>1
    <2> QED BY <2>3, <2>4, <2>5, <2>6, <2>7
  <1>2. \A t \in found : t \in SUBSET AnyObject
    BY DEF AnySchemas
  <1> QED BY <1>1, <1>2 DEF StatementAlone, AnySchemas

LEMMA StatementsAre ==
    ASSUME NEW name \in Words, NEW on \in Words
    PROVE  /\ Create(name) \in AnyStatement
           /\ CreateIfMissing(name) \in AnyStatement
           /\ CreateIndex(name, on) \in AnyStatement
           /\ Copy(name) \in AnyStatement
           /\ CopyOwned(name) \in AnyStatement
           /\ Drop(name) \in AnyStatement
           /\ Rename(name) \in AnyStatement
           /\ LookFor(name, on) \in AnyStatement
           /\ AddColumn(name, on) \in AnyStatement
           /\ SetVersion \in AnyStatement
  <1>1. "none" \in Words /\ "user_version" \in Words
    BY DEF Words
  <1> QED BY <1>1 DEF Create, CreateIfMissing, CreateIndex, Copy, CopyOwned, Drop,
             Rename, LookFor, AddColumn, SetVersion, AnyStatement, Operations,
             Copying

LEMMA ScriptsAreStatements ==
    ASSUME NEW v \in 0 .. 7
    PROVE  ScriptOf(v) \in Seq(AnyStatement)
  <1>1. \A n \in Names : n \in Words
    BY DEF Words
  <1>2. \A t \in Copied : t \in Words /\ CopyOf[t] \in Words
    BY <1>1, NamesAre
  <1>3. ASSUME NEW t \in Copied
        PROVE  Replaced(t) \in Seq(AnyStatement) /\ ReplacedOwned(t) \in Seq(AnyStatement)
    <2>1. /\ Create(CopyOf[t]) \in AnyStatement /\ Copy(t) \in AnyStatement
          /\ CopyOwned(t) \in AnyStatement /\ Drop(t) \in AnyStatement
          /\ Rename(t) \in AnyStatement
      BY <1>2, StatementsAre
    <2> QED BY <2>1 DEF Replaced, ReplacedOwned, Replace
  <1>4. /\ Replaced("vector_chunks") \in Seq(AnyStatement)
        /\ ReplacedOwned("agent_action_audit") \in Seq(AnyStatement)
        /\ ReplacedOwned("agent_action_workflows") \in Seq(AnyStatement)
    BY <1>3, TableNames
  <1>5. CASE v = 0
    <2> DEFINE s == <<Create("sources"), Create("sync_runs"), Create("file_state"),
                   Create("documents"), Create("change_events"), Create("staged_files"),
                   SetVersion>>
    <2>1. ScriptOf(0) = s
      BY DEF ScriptOf, Scripts
    <2>2. /\ Create("sources") \in AnyStatement /\ Create("sync_runs") \in AnyStatement
          /\ Create("file_state") \in AnyStatement /\ Create("documents") \in AnyStatement
          /\ Create("change_events") \in AnyStatement
          /\ Create("staged_files") \in AnyStatement /\ SetVersion \in AnyStatement
      BY <1>1, NamesAre, StatementsAre
    <2>3. s \in Seq(AnyStatement)
      BY <2>2
    <2> HIDE DEF s
    <2> QED BY <1>5, <2>1, <2>3
  <1>6. CASE v = 1
    <2> DEFINE s == <<Create("lexical_chunks"),
                   CreateIndex("lexical_chunks_source_idx", "lexical_chunks"),
                   CreateIndex("lexical_chunks_type_idx", "lexical_chunks"), SetVersion>>
    <2>1. ScriptOf(1) = s
      BY DEF ScriptOf, Scripts
    <2>2. /\ Create("lexical_chunks") \in AnyStatement
          /\ CreateIndex("lexical_chunks_source_idx", "lexical_chunks") \in AnyStatement
          /\ CreateIndex("lexical_chunks_type_idx", "lexical_chunks") \in AnyStatement
          /\ SetVersion \in AnyStatement
      BY <1>1, NamesAre, StatementsAre
    <2>3. s \in Seq(AnyStatement)
      BY <2>2
    <2> HIDE DEF s
    <2> QED BY <1>6, <2>1, <2>3
  <1>7. CASE v = 2
    <2> DEFINE s == <<Create("vector_chunks"),
                   CreateIndex("vector_chunks_source_idx", "vector_chunks"), SetVersion>>
    <2>1. ScriptOf(2) = s
      BY DEF ScriptOf, Scripts
    <2>2. /\ Create("vector_chunks") \in AnyStatement
          /\ CreateIndex("vector_chunks_source_idx", "vector_chunks") \in AnyStatement
          /\ SetVersion \in AnyStatement
      BY <1>1, NamesAre, StatementsAre
    <2>3. s \in Seq(AnyStatement)
      BY <2>2
    <2> HIDE DEF s
    <2> QED BY <1>7, <2>1, <2>3
  <1>8. CASE v = 3
    <2> DEFINE rest == <<CreateIndex("vector_chunks_source_idx", "vector_chunks"), SetVersion>>
    <2>1. rest \in Seq(AnyStatement)
      <3>1. /\ CreateIndex("vector_chunks_source_idx", "vector_chunks") \in AnyStatement
            /\ SetVersion \in AnyStatement
        BY <1>1, NamesAre, StatementsAre
      <3> QED BY <3>1
    <2>2. ScriptOf(3) = Replaced("vector_chunks") \o rest
      BY DEF ScriptOf, Scripts
    <2> HIDE DEF rest
    <2>3. Replaced("vector_chunks") \o rest \in Seq(AnyStatement)
      BY <1>4, <2>1, ConcatProperties
    <2> QED BY <1>8, <2>2, <2>3
  <1>9. CASE v = 4
    <2> DEFINE s == <<LookFor("paused", "sources"), AddColumn("paused", "sources"),
                   SetVersion>>
    <2>1. ScriptOf(4) = s
      BY DEF ScriptOf, Scripts
    <2>2. /\ LookFor("paused", "sources") \in AnyStatement
          /\ AddColumn("paused", "sources") \in AnyStatement
          /\ SetVersion \in AnyStatement
      BY <1>1, NamesAre, StatementsAre
    <2>3. s \in Seq(AnyStatement)
      BY <2>2
    <2> HIDE DEF s
    <2> QED BY <1>9, <2>1, <2>3
  <1>10. CASE v = 5
    <2> DEFINE s == <<CreateIfMissing("agent_action_audit"), SetVersion>>
    <2>1. ScriptOf(5) = s
      BY DEF ScriptOf, Scripts, Added
    <2>2. /\ CreateIfMissing("agent_action_audit") \in AnyStatement
          /\ SetVersion \in AnyStatement
      BY <1>1, NamesAre, StatementsAre
    <2>3. s \in Seq(AnyStatement)
      BY <2>2
    <2> HIDE DEF s
    <2> QED BY <1>10, <2>1, <2>3
  <1>11. CASE v = 6
    <2> DEFINE s == <<CreateIfMissing("agent_action_workflows"), SetVersion>>
    <2>1. ScriptOf(6) = s
      BY DEF ScriptOf, Scripts, Added
    <2>2. /\ CreateIfMissing("agent_action_workflows") \in AnyStatement
          /\ SetVersion \in AnyStatement
      BY <1>1, NamesAre, StatementsAre
    <2>3. s \in Seq(AnyStatement)
      BY <2>2
    <2> HIDE DEF s
    <2> QED BY <1>11, <2>1, <2>3
  <1>12. CASE v = 7
    <2> DEFINE first == ReplacedOwned("agent_action_audit")
               index == <<CreateIndex("agent_action_audit_operation_idx", "agent_action_audit")>>
               second == ReplacedOwned("agent_action_workflows")
               rest == <<SetVersion>>
    <2>1. index \in Seq(AnyStatement) /\ rest \in Seq(AnyStatement)
      <3>1. /\ CreateIndex("agent_action_audit_operation_idx", "agent_action_audit") \in AnyStatement
            /\ SetVersion \in AnyStatement
        BY <1>1, NamesAre, StatementsAre
      <3> QED BY <3>1
    <2>2. ScriptOf(7) = first \o index \o second \o rest
      BY DEF ScriptOf, Scripts
    <2>3. first \in Seq(AnyStatement) /\ second \in Seq(AnyStatement)
      BY <1>4
    <2> HIDE DEF first, second, index, rest
    <2>4. first \o index \in Seq(AnyStatement)
      BY <2>1, <2>3, ConcatProperties
    <2>5. first \o index \o second \in Seq(AnyStatement)
      BY <2>3, <2>4, ConcatProperties
    <2>6. first \o index \o second \o rest \in Seq(AnyStatement)
      BY <2>1, <2>5, ConcatProperties
    <2> QED BY <1>12, <2>2, <2>6
  <1> QED BY <1>5, <1>6, <1>7, <1>8, <1>9, <1>10, <1>11, <1>12

\* The schemas after each statement of a script.
LEMMA ScriptRuns ==
    ASSUME NEW found \in AnySchemas, NEW v \in 0 .. 7
    PROVE  \E run \in [0 .. Len(ScriptOf(v)) -> AnySchemas] :
             /\ run[0] = found
             /\ \A k \in 1 .. Len(ScriptOf(v)) :
                  run[k] = StatementAlone(run[k - 1], ScriptOf(v)[k], v)
             /\ run[Len(ScriptOf(v))] = ScriptAlone(found, v)
  <1> DEFINE A == AnySchemas
             M == AnyStatement
             script == ScriptOf(v)
             step == [x \in A \X M |-> StatementAlone(x[1], x[2], v)]
             n == Len(script)
             IsIter(f) == f = [s \in SUBSET (DOMAIN script) |->
                IF s = {} THEN found
                ELSE StatementAlone(f[s \ {Max(s)}], script[Max(s)], v)]
  <1>1. script \in Seq(M) /\ DOMAIN script = 1 .. n /\ n \in Nat
    BY ScriptsAreStatements, LenProperties
  <1>2. step \in [A \X M -> A]
    BY StatementAloneType
  <1>3. \A w \in A, m \in M : step[<<w, m>>] = StatementAlone(w, m, v)
    OBVIOUS
  <1> HIDE DEF step, A, script, M
  <1>4. PICK f \in [SUBSET (1 .. n) -> A] :
          \A s \in SUBSET (1 .. n) :
            f[s] = IF s = {} THEN found ELSE step[<<f[s \ {Max(s)}], script[Max(s)]>>]
    <2>1. found \in A
      BY DEF A
    <2>2. PICK f : Iterates(f, A, found, step, script)
      BY <1>1, <1>2, <2>1, FoldExists
    <2> QED BY <2>2 DEF Iterates
  <1>5. IsIter(f)
    <2>1. ASSUME NEW s \in SUBSET (1 .. n), s # {}
          PROVE  step[<<f[s \ {Max(s)}], script[Max(s)]>>]
                   = StatementAlone(f[s \ {Max(s)}], script[Max(s)], v)
      <3>1. Max(s) \in 1 .. n
        BY <1>1, <2>1, MaxProperties
      <3>2. f[s \ {Max(s)}] \in A /\ script[Max(s)] \in M
        BY <1>1, <1>4, <3>1, ElementOfSeq
      <3> QED BY <1>3, <3>2
    <2> QED BY <1>1, <1>4, <2>1
  <1> DEFINE g == CHOOSE h : IsIter(h)
  <1>6. IsIter(g)
    <2> HIDE DEF IsIter
    <2> QED BY <1>5, Zenon
  <1>7. ScriptAlone(found, v) = g[1 .. n]
    <2>1. ScriptAlone(found, v) = g[DOMAIN script]
      BY DEF ScriptAlone, FoldLeft, MapThenFoldSet, script
    <2> QED BY <1>1, <2>1
  <1> HIDE DEF g
  <1>8. \A s \in SUBSET (1 .. n) :
          g[s] = IF s = {} THEN found
                 ELSE StatementAlone(g[s \ {Max(s)}], script[Max(s)], v)
    BY <1>1, <1>6
  <1> HIDE DEF IsIter
  <1> DEFINE run == [k \in 0 .. n |-> g[1 .. k]]
  <1>9. run[0] = found
    <2>1. 1 .. 0 = {} /\ 0 \in 0 .. n
      BY <1>1
    <2> QED BY <1>8, <2>1
  <1>10. ASSUME NEW k \in 1 .. n
         PROVE  run[k] = StatementAlone(run[k - 1], script[k], v)
    <2>1. k \in Nat \ {0} /\ k - 1 \in 0 .. n /\ k \in 0 .. n /\ 1 .. k \in SUBSET (1 .. n)
      BY <1>1
    <2>2. 1 .. k # {} /\ Max(1 .. k) = k /\ (1 .. k) \ {k} = 1 .. k - 1
      BY <2>1, MaxOfInterval
    <2>3. g[1 .. k] = StatementAlone(g[1 .. k - 1], script[k], v)
      BY <1>8, <2>1, <2>2
    <2> QED BY <2>1, <2>3
  <1>11. run[n] = ScriptAlone(found, v)
    BY <1>1, <1>7
  <1>12. run = [k \in 0 .. n |-> run[k]]
    OBVIOUS
  <1> HIDE DEF run
  <1>13. ASSUME NEW k \in 0 .. n PROVE run[k] \in A
    <2> DEFINE T == {j \in 0 .. n : run[j] \in A}
    <2>1. 0 \in T
      BY <1>1, <1>9 DEF A
    <2>2. ASSUME NEW j \in 1 .. n, j - 1 \in T PROVE j \in T
      <3>1. run[j - 1] \in A /\ script[j] \in M /\ j \in 0 .. n
        BY <1>1, <2>2, ElementOfSeq
      <3>2. StatementAlone(run[j - 1], script[j], v) \in A
        BY <3>1, StatementAloneType DEF A, M
      <3> QED BY <1>10, <3>1, <3>2
    <2> HIDE DEF T
    <2>3. \A j \in 0 .. n : j \in T
      BY <1>1, <2>1, <2>2, UpTo
    <2> QED BY <2>3 DEF T
  <1>14. run \in [0 .. n -> A]
    BY <1>12, <1>13
  <1> QED BY <1>9, <1>10, <1>11, <1>14 DEF A, script

LEMMA ScriptAloneType ==
    ASSUME NEW found \in AnySchemas, NEW v \in 0 .. 7
    PROVE  ScriptAlone(found, v) \in AnySchemas
  <1>1. PICK run \in [0 .. Len(ScriptOf(v)) -> AnySchemas] :
             run[Len(ScriptOf(v))] = ScriptAlone(found, v)
    BY ScriptRuns
  <1>2. Len(ScriptOf(v)) \in 0 .. Len(ScriptOf(v))
    BY ScriptsFit
  <1> QED BY <1>1, <1>2

\* The schemas after each script.
LEMMA AloneRuns ==
    ASSUME NEW s \in SUBSET AnyObject, NEW to \in 0 .. 8, NEW from \in 0 .. to
    PROVE  \E run \in [0 .. to - from -> AnySchemas] :
             /\ run[0] = {s}
             /\ \A k \in 1 .. to - from :
                  run[k] = ScriptAlone(run[k - 1], from + k - 1)
             /\ run[to - from] = RunAlone(s, from, to)
  <1> DEFINE A == AnySchemas
             M == 0 .. 7
             n == to - from
             versions == [i \in 1 .. n |-> from + i - 1]
             step == [x \in A \X M |-> ScriptAlone(x[1], x[2])]
             IsIter(f) == f = [u \in SUBSET (DOMAIN versions) |->
                IF u = {} THEN {s}
                ELSE ScriptAlone(f[u \ {Max(u)}], versions[Max(u)])]
  <1>0. n \in Nat
    OBVIOUS
  <1>1. versions \in Seq(M) /\ DOMAIN versions = 1 .. n /\ Len(versions) = n
    <2>1. \A i \in 1 .. n : from + i - 1 \in M
      OBVIOUS
    <2>2. versions \in [1 .. n -> M]
      BY <2>1
    <2> HIDE DEF versions, M, n
    <2>3. versions \in Seq(M)
      BY <1>0, <2>2, SeqDef
    <2> QED BY <1>0, <2>2, <2>3, LenProperties
  <1>2. step \in [A \X M -> A] /\ {s} \in A
    <2>1. {s} \in A
      BY DEF AnySchemas
    <2> HIDE DEF A
    <2> QED BY <2>1, ScriptAloneType DEF A
  <1>3. \A w \in A, m \in M : step[<<w, m>>] = ScriptAlone(w, m)
    OBVIOUS
  <1>a. \A k \in 1 .. n : versions[k] = from + k - 1
    OBVIOUS
  <1>b. ASSUME NEW w \in A, NEW m \in M PROVE ScriptAlone(w, m) \in A
    BY ScriptAloneType
  <1> HIDE DEF step, A, M
  <1>4. PICK f \in [SUBSET (1 .. n) -> A] :
          \A u \in SUBSET (1 .. n) :
            f[u] = IF u = {} THEN {s} ELSE step[<<f[u \ {Max(u)}], versions[Max(u)]>>]
    <2> HIDE DEF versions, n
    <2>1. PICK f : Iterates(f, A, {s}, step, versions)
      BY <1>1, <1>2, FoldExists
    <2> QED BY <1>1, <2>1 DEF Iterates
  <1>5. IsIter(f)
    <2> HIDE DEF versions, n
    <2>1. ASSUME NEW u \in SUBSET (1 .. n), u # {}
          PROVE  step[<<f[u \ {Max(u)}], versions[Max(u)]>>]
                   = ScriptAlone(f[u \ {Max(u)}], versions[Max(u)])
      <3>1. Max(u) \in 1 .. n
        BY <1>0, <2>1, MaxProperties
      <3>2. f[u \ {Max(u)}] \in A /\ versions[Max(u)] \in M
        BY <1>1, <1>4, <3>1, ElementOfSeq
      <3> QED BY <1>3, <3>2
    <2> QED BY <1>1, <1>4, <2>1
  <1> DEFINE g == CHOOSE h : IsIter(h)
  <1>6. IsIter(g)
    <2> HIDE DEF IsIter
    <2> QED BY <1>5, Zenon
  <1>7. RunAlone(s, from, to) = g[1 .. n]
    <2>1. RunAlone(s, from, to) = g[DOMAIN versions]
      BY DEF RunAlone, FoldLeft, MapThenFoldSet
    <2> QED BY <1>1, <2>1
  <1> HIDE DEF g
  <1>8. \A u \in SUBSET (1 .. n) :
          g[u] = IF u = {} THEN {s}
                 ELSE ScriptAlone(g[u \ {Max(u)}], versions[Max(u)])
    BY <1>1, <1>6
  <1> HIDE DEF IsIter, versions
  <1> DEFINE run == [k \in 0 .. n |-> g[1 .. k]]
  <1>9. run[0] = {s}
    <2>1. 1 .. 0 = {} /\ 0 \in 0 .. n
      BY <1>0
    <2> QED BY <1>8, <2>1
  <1>10. ASSUME NEW k \in 1 .. n
         PROVE  run[k] = ScriptAlone(run[k - 1], versions[k])
    <2> HIDE DEF n
    <2>1. k \in Nat \ {0} /\ k - 1 \in 0 .. n /\ k \in 0 .. n /\ 1 .. k \in SUBSET (1 .. n)
      BY <1>0
    <2>2. 1 .. k # {} /\ Max(1 .. k) = k /\ (1 .. k) \ {k} = 1 .. k - 1
      BY <2>1, MaxOfInterval
    <2>3. g[1 .. k] = ScriptAlone(g[1 .. k - 1], versions[k])
      BY <1>8, <2>1, <2>2
    <2> QED BY <2>1, <2>3
  <1>11. run[n] = RunAlone(s, from, to)
    BY <1>0, <1>7
  <1>12. run = [k \in 0 .. n |-> run[k]]
    OBVIOUS
  <1> HIDE DEF run
  <1>13. ASSUME NEW k \in 0 .. n PROVE run[k] \in A
    <2> DEFINE T == {j \in 0 .. n : run[j] \in A}
    <2> HIDE DEF n
    <2>1. 0 \in T
      <3>1. 0 \in 0 .. n
        BY <1>0
      <3>2. run[0] \in A
        BY <1>2, <1>9
      <3> QED BY <3>1, <3>2
    <2>2. ASSUME NEW j \in 1 .. n, j - 1 \in T PROVE j \in T
      <3>1. run[j - 1] \in A /\ versions[j] \in M /\ j \in 0 .. n
        BY <1>0, <1>1, <2>2, ElementOfSeq
      <3> QED BY <1>10, <1>b, <3>1
    <2> HIDE DEF T
    <2>3. \A j \in 0 .. n : j \in T
      BY <1>0, <2>1, <2>2, UpTo
    <2> QED BY <2>3 DEF T
  <1>14. run \in [0 .. n -> A]
    BY <1>12, <1>13
  <1>15. \A k \in 1 .. n : run[k] = ScriptAlone(run[k - 1], from + k - 1)
    BY <1>10, <1>a
  <1> QED BY <1>9, <1>11, <1>14, <1>15 DEF A

----------------------------------------------------------------------------
(* What statements do to forms                                             *)

LEMMA PutValues ==
    ASSUME NEW g \in Forms, NEW n \in Names, NEW v \in 0 .. 7
    PROVE  /\ Put(g, n, v) \in Forms
           /\ \A m \in Names : Put(g, n, v)[m] = IF m = n THEN v ELSE g[m]
  BY DEF Put, Forms, Newest

LEMMA DroppedValues ==
    ASSUME NEW g \in Forms, NEW t \in Names
    PROVE  /\ Dropped(g, t) \in Forms
           /\ \A m \in Names : Dropped(g, t)[m] =
                IF m = t \/ Carrier(m) = t THEN Absent ELSE g[m]
  BY DEF Dropped, Forms, Absent, Newest

LEMMA InPlaceValues ==
    ASSUME NEW g \in Forms, NEW t \in Copied
    PROVE  /\ InPlace(g, t) \in Forms
           /\ \A m \in Names : InPlace(g, t)[m] =
                IF m = CopyOf[t] THEN Absent ELSE IF m = t THEN g[CopyOf[t]] ELSE g[m]
  <1>1. t \in Names /\ CopyOf[t] \in Names /\ CopyOf[t] # t
    BY NamesAre
  <1> QED BY <1>1 DEF InPlace, Forms, Absent, Newest

LEMMA SchemaWithType ==
    ASSUME NEW g \in Forms
    PROVE  /\ SchemaWith(g) \in SUBSET AnyObject
           /\ {SchemaWith(g)} \in AnySchemas
  <1>1. ASSUME NEW n \in Names PROVE Object(g, n) \in AnyObject
    <2>1. Carrier(n) \in Words
      BY NamesAre DEF Carrier, Words
    <2>2. n \in Words /\ g[n] \in Nat
      BY DEF Words, Forms, Newest
    <2> QED BY <2>1, <2>2 DEF Object, AnyObject
  <1> QED BY <1>1 DEF SchemaWith, AnySchemas

\* What a statement that runs alone makes of one schema.
LEMMA AloneForm ==
    ASSUME NEW g \in Forms, NEW st, WellNamed(st), NEW v \in 0 .. 7, Allowed(g, st)
    PROVE  /\ Effect(g, st, v) \in Forms
           /\ StatementAlone({SchemaWith(g)}, st, v) = {SchemaWith(Effect(g, st, v))}
  <1> DEFINE s == SchemaWith(g)
  <1>1. /\ Effect(g, st, v) \in Forms /\ CanRun(st, s)
        /\ After(st, s, v) = SchemaWith(Effect(g, st, v))
    BY AfterForm
  <1>2. ~ (st.op = "add_column" /\ Has(s, st.name))
    <2>1. ASSUME st.op = "add_column" PROVE st.name \in Names /\ g[st.name] = Absent
      BY <2>1 DEF WellNamed, Allowed, Copying
    <2> QED BY <2>1, HasForm
  <1> HIDE DEF s
  <1>3. StatementAlone({s}, st, v) = {After(st, s, v)}
    BY <1>1, <1>2 DEF StatementAlone
  <1> QED BY <1>1, <1>3 DEF s

\* ALTER TABLE ADD COLUMN is only run where the column is missing.
LEMMA AloneSkips ==
    ASSUME NEW g \in Forms, NEW st, WellNamed(st), NEW v \in 0 .. 7,
           st.op = "add_column", g[st.name] # Absent
    PROVE  StatementAlone({SchemaWith(g)}, st, v) = {SchemaWith(g)}
  <1> DEFINE s == SchemaWith(g)
  <1>1. Has(s, st.name)
    BY HasForm DEF WellNamed
  <1> HIDE DEF s
  <1> QED BY <1>1 DEF StatementAlone, s

----------------------------------------------------------------------------
(* The statements of the scripts, by forms                                 *)

LEMMA Statements0 ==
    /\ \A i \in 1 .. 7 : WellNamed(ScriptOf(0)[i])
    /\ ScriptOf(0)[1].op = "create" /\ ScriptOf(0)[1].name = "sources"
    /\ ScriptOf(0)[2].op = "create" /\ ScriptOf(0)[2].name = "sync_runs"
    /\ ScriptOf(0)[3].op = "create" /\ ScriptOf(0)[3].name = "file_state"
    /\ ScriptOf(0)[4].op = "create" /\ ScriptOf(0)[4].name = "documents"
    /\ ScriptOf(0)[5].op = "create" /\ ScriptOf(0)[5].name = "change_events"
    /\ ScriptOf(0)[6].op = "create" /\ ScriptOf(0)[6].name = "staged_files"
    /\ ScriptOf(0)[7].op = "set_version"
    /\ \A g : /\ Allowed(g, ScriptOf(0)[7])
              /\ Effect(g, ScriptOf(0)[7], 0) = g
              /\ Allowed(g, ScriptOf(0)[1]) <=> g["sources"] = Absent
              /\ Effect(g, ScriptOf(0)[1], 0) = Put(g, "sources", 0)
              /\ Allowed(g, ScriptOf(0)[2]) <=> g["sync_runs"] = Absent
              /\ Effect(g, ScriptOf(0)[2], 0) = Put(g, "sync_runs", 0)
              /\ Allowed(g, ScriptOf(0)[3]) <=> g["file_state"] = Absent
              /\ Effect(g, ScriptOf(0)[3], 0) = Put(g, "file_state", 0)
              /\ Allowed(g, ScriptOf(0)[4]) <=> g["documents"] = Absent
              /\ Effect(g, ScriptOf(0)[4], 0) = Put(g, "documents", 0)
              /\ Allowed(g, ScriptOf(0)[5]) <=> g["change_events"] = Absent
              /\ Effect(g, ScriptOf(0)[5], 0) = Put(g, "change_events", 0)
              /\ Allowed(g, ScriptOf(0)[6]) <=> g["staged_files"] = Absent
              /\ Effect(g, ScriptOf(0)[6], 0) = Put(g, "staged_files", 0)
  <1>1. ScriptOf(0)[1] = [op |-> "create", name |-> "sources", on |-> "none"]
    BY Script0 DEF Create
  <1>2. ScriptOf(0)[2] = [op |-> "create", name |-> "sync_runs", on |-> "none"]
    BY Script0 DEF Create
  <1>3. ScriptOf(0)[3] = [op |-> "create", name |-> "file_state", on |-> "none"]
    BY Script0 DEF Create
  <1>4. ScriptOf(0)[4] = [op |-> "create", name |-> "documents", on |-> "none"]
    BY Script0 DEF Create
  <1>5. ScriptOf(0)[5] = [op |-> "create", name |-> "change_events", on |-> "none"]
    BY Script0 DEF Create
  <1>6. ScriptOf(0)[6] = [op |-> "create", name |-> "staged_files", on |-> "none"]
    BY Script0 DEF Create
  <1>7. ScriptOf(0)[7] = [op |-> "set_version", name |-> "user_version", on |-> "none"]
    BY Script0 DEF SetVersion
  <1>8. ASSUME NEW g
        PROVE  /\ WellNamed(ScriptOf(0)[1])
               /\ Allowed(g, ScriptOf(0)[1]) <=> g["sources"] = Absent
               /\ Effect(g, ScriptOf(0)[1], 0) = Put(g, "sources", 0)
    BY <1>1, NamesAre, TableNames DEF WellNamed, Allowed, Effect, Copying, Replacing, Carrier
  <1>9. ASSUME NEW g
        PROVE  /\ WellNamed(ScriptOf(0)[2])
               /\ Allowed(g, ScriptOf(0)[2]) <=> g["sync_runs"] = Absent
               /\ Effect(g, ScriptOf(0)[2], 0) = Put(g, "sync_runs", 0)
    BY <1>2, NamesAre, TableNames DEF WellNamed, Allowed, Effect, Copying, Replacing, Carrier
  <1>10. ASSUME NEW g
        PROVE  /\ WellNamed(ScriptOf(0)[3])
               /\ Allowed(g, ScriptOf(0)[3]) <=> g["file_state"] = Absent
               /\ Effect(g, ScriptOf(0)[3], 0) = Put(g, "file_state", 0)
    BY <1>3, NamesAre, TableNames DEF WellNamed, Allowed, Effect, Copying, Replacing, Carrier
  <1>11. ASSUME NEW g
        PROVE  /\ WellNamed(ScriptOf(0)[4])
               /\ Allowed(g, ScriptOf(0)[4]) <=> g["documents"] = Absent
               /\ Effect(g, ScriptOf(0)[4], 0) = Put(g, "documents", 0)
    BY <1>4, NamesAre, TableNames DEF WellNamed, Allowed, Effect, Copying, Replacing, Carrier
  <1>12. ASSUME NEW g
        PROVE  /\ WellNamed(ScriptOf(0)[5])
               /\ Allowed(g, ScriptOf(0)[5]) <=> g["change_events"] = Absent
               /\ Effect(g, ScriptOf(0)[5], 0) = Put(g, "change_events", 0)
    BY <1>5, NamesAre, TableNames DEF WellNamed, Allowed, Effect, Copying, Replacing, Carrier
  <1>13. ASSUME NEW g
        PROVE  /\ WellNamed(ScriptOf(0)[6])
               /\ Allowed(g, ScriptOf(0)[6]) <=> g["staged_files"] = Absent
               /\ Effect(g, ScriptOf(0)[6], 0) = Put(g, "staged_files", 0)
    BY <1>6, NamesAre, TableNames DEF WellNamed, Allowed, Effect, Copying, Replacing, Carrier
  <1>14. ASSUME NEW g
        PROVE  /\ WellNamed(ScriptOf(0)[7])
               /\ Allowed(g, ScriptOf(0)[7])
               /\ Effect(g, ScriptOf(0)[7], 0) = g
    BY <1>7, NamesAre, TableNames DEF WellNamed, Allowed, Effect, Copying, Replacing, Carrier
  <1>15. \A i \in 1 .. 7 : WellNamed(ScriptOf(0)[i])
    <2>1. \A i \in 1 .. 7 : i = 1 \/ i = 2 \/ i = 3 \/ i = 4 \/ i = 5 \/ i = 6 \/ i = 7
      OBVIOUS
    <2> QED BY <2>1, <1>8, <1>9, <1>10, <1>11, <1>12, <1>13, <1>14
  <1> QED BY <1>1, <1>2, <1>3, <1>4, <1>5, <1>6, <1>7, <1>8, <1>9, <1>10, <1>11, <1>12, <1>13, <1>14, <1>15

LEMMA Statements1 ==
    /\ \A i \in 1 .. 4 : WellNamed(ScriptOf(1)[i])
    /\ ScriptOf(1)[1].op = "create" /\ ScriptOf(1)[1].name = "lexical_chunks"
    /\ ScriptOf(1)[2].op = "create" /\ ScriptOf(1)[2].name = "lexical_chunks_source_idx"
    /\ ScriptOf(1)[3].op = "create" /\ ScriptOf(1)[3].name = "lexical_chunks_type_idx"
    /\ ScriptOf(1)[4].op = "set_version"
    /\ \A g : /\ Allowed(g, ScriptOf(1)[4])
              /\ Effect(g, ScriptOf(1)[4], 1) = g
              /\ Allowed(g, ScriptOf(1)[1]) <=> g["lexical_chunks"] = Absent
              /\ Effect(g, ScriptOf(1)[1], 1) = Put(g, "lexical_chunks", 1)
              /\ Allowed(g, ScriptOf(1)[2]) <=> g["lexical_chunks_source_idx"] = Absent /\ g["lexical_chunks"] # Absent
              /\ Effect(g, ScriptOf(1)[2], 1) = Put(g, "lexical_chunks_source_idx", 1)
              /\ Allowed(g, ScriptOf(1)[3]) <=> g["lexical_chunks_type_idx"] = Absent /\ g["lexical_chunks"] # Absent
              /\ Effect(g, ScriptOf(1)[3], 1) = Put(g, "lexical_chunks_type_idx", 1)
  <1>1. ScriptOf(1)[1] = [op |-> "create", name |-> "lexical_chunks", on |-> "none"]
    BY Script1 DEF Create
  <1>2. ScriptOf(1)[2] = [op |-> "create", name |-> "lexical_chunks_source_idx", on |-> "lexical_chunks"]
    BY Script1 DEF CreateIndex
  <1>3. ScriptOf(1)[3] = [op |-> "create", name |-> "lexical_chunks_type_idx", on |-> "lexical_chunks"]
    BY Script1 DEF CreateIndex
  <1>4. ScriptOf(1)[4] = [op |-> "set_version", name |-> "user_version", on |-> "none"]
    BY Script1 DEF SetVersion
  <1>5. ASSUME NEW g
        PROVE  /\ WellNamed(ScriptOf(1)[1])
               /\ Allowed(g, ScriptOf(1)[1]) <=> g["lexical_chunks"] = Absent
               /\ Effect(g, ScriptOf(1)[1], 1) = Put(g, "lexical_chunks", 1)
    BY <1>1, NamesAre, TableNames DEF WellNamed, Allowed, Effect, Copying, Replacing, Carrier
  <1>6. ASSUME NEW g
        PROVE  /\ WellNamed(ScriptOf(1)[2])
               /\ Allowed(g, ScriptOf(1)[2]) <=> g["lexical_chunks_source_idx"] = Absent /\ g["lexical_chunks"] # Absent
               /\ Effect(g, ScriptOf(1)[2], 1) = Put(g, "lexical_chunks_source_idx", 1)
    BY <1>2, NamesAre, TableNames DEF WellNamed, Allowed, Effect, Copying, Replacing, Carrier
  <1>7. ASSUME NEW g
        PROVE  /\ WellNamed(ScriptOf(1)[3])
               /\ Allowed(g, ScriptOf(1)[3]) <=> g["lexical_chunks_type_idx"] = Absent /\ g["lexical_chunks"] # Absent
               /\ Effect(g, ScriptOf(1)[3], 1) = Put(g, "lexical_chunks_type_idx", 1)
    BY <1>3, NamesAre, TableNames DEF WellNamed, Allowed, Effect, Copying, Replacing, Carrier
  <1>8. ASSUME NEW g
        PROVE  /\ WellNamed(ScriptOf(1)[4])
               /\ Allowed(g, ScriptOf(1)[4])
               /\ Effect(g, ScriptOf(1)[4], 1) = g
    BY <1>4, NamesAre, TableNames DEF WellNamed, Allowed, Effect, Copying, Replacing, Carrier
  <1>9. \A i \in 1 .. 4 : WellNamed(ScriptOf(1)[i])
    <2>1. \A i \in 1 .. 4 : i = 1 \/ i = 2 \/ i = 3 \/ i = 4
      OBVIOUS
    <2> QED BY <2>1, <1>5, <1>6, <1>7, <1>8
  <1> QED BY <1>1, <1>2, <1>3, <1>4, <1>5, <1>6, <1>7, <1>8, <1>9

LEMMA Statements2 ==
    /\ \A i \in 1 .. 3 : WellNamed(ScriptOf(2)[i])
    /\ ScriptOf(2)[1].op = "create" /\ ScriptOf(2)[1].name = "vector_chunks"
    /\ ScriptOf(2)[2].op = "create" /\ ScriptOf(2)[2].name = "vector_chunks_source_idx"
    /\ ScriptOf(2)[3].op = "set_version"
    /\ \A g : /\ Allowed(g, ScriptOf(2)[3])
              /\ Effect(g, ScriptOf(2)[3], 2) = g
              /\ Allowed(g, ScriptOf(2)[1]) <=> g["vector_chunks"] = Absent
              /\ Effect(g, ScriptOf(2)[1], 2) = Put(g, "vector_chunks", 2)
              /\ Allowed(g, ScriptOf(2)[2]) <=> g["vector_chunks_source_idx"] = Absent /\ g["vector_chunks"] # Absent
              /\ Effect(g, ScriptOf(2)[2], 2) = Put(g, "vector_chunks_source_idx", 2)
  <1>1. ScriptOf(2)[1] = [op |-> "create", name |-> "vector_chunks", on |-> "none"]
    BY Script2 DEF Create
  <1>2. ScriptOf(2)[2] = [op |-> "create", name |-> "vector_chunks_source_idx", on |-> "vector_chunks"]
    BY Script2 DEF CreateIndex
  <1>3. ScriptOf(2)[3] = [op |-> "set_version", name |-> "user_version", on |-> "none"]
    BY Script2 DEF SetVersion
  <1>4. ASSUME NEW g
        PROVE  /\ WellNamed(ScriptOf(2)[1])
               /\ Allowed(g, ScriptOf(2)[1]) <=> g["vector_chunks"] = Absent
               /\ Effect(g, ScriptOf(2)[1], 2) = Put(g, "vector_chunks", 2)
    BY <1>1, NamesAre, TableNames DEF WellNamed, Allowed, Effect, Copying, Replacing, Carrier
  <1>5. ASSUME NEW g
        PROVE  /\ WellNamed(ScriptOf(2)[2])
               /\ Allowed(g, ScriptOf(2)[2]) <=> g["vector_chunks_source_idx"] = Absent /\ g["vector_chunks"] # Absent
               /\ Effect(g, ScriptOf(2)[2], 2) = Put(g, "vector_chunks_source_idx", 2)
    BY <1>2, NamesAre, TableNames DEF WellNamed, Allowed, Effect, Copying, Replacing, Carrier
  <1>6. ASSUME NEW g
        PROVE  /\ WellNamed(ScriptOf(2)[3])
               /\ Allowed(g, ScriptOf(2)[3])
               /\ Effect(g, ScriptOf(2)[3], 2) = g
    BY <1>3, NamesAre, TableNames DEF WellNamed, Allowed, Effect, Copying, Replacing, Carrier
  <1>7. \A i \in 1 .. 3 : WellNamed(ScriptOf(2)[i])
    <2>1. \A i \in 1 .. 3 : i = 1 \/ i = 2 \/ i = 3
      OBVIOUS
    <2> QED BY <2>1, <1>4, <1>5, <1>6
  <1> QED BY <1>1, <1>2, <1>3, <1>4, <1>5, <1>6, <1>7

LEMMA Statements3 ==
    /\ \A i \in 1 .. 6 : WellNamed(ScriptOf(3)[i])
    /\ ScriptOf(3)[1].op = "create" /\ ScriptOf(3)[1].name = "vector_chunks_v4"
    /\ ScriptOf(3)[2].op = "copy" /\ ScriptOf(3)[2].name = "vector_chunks"
    /\ ScriptOf(3)[3].op = "drop" /\ ScriptOf(3)[3].name = "vector_chunks"
    /\ ScriptOf(3)[4].op = "rename" /\ ScriptOf(3)[4].name = "vector_chunks"
    /\ ScriptOf(3)[5].op = "create" /\ ScriptOf(3)[5].name = "vector_chunks_source_idx"
    /\ ScriptOf(3)[6].op = "set_version"
    /\ \A g : /\ Allowed(g, ScriptOf(3)[6])
              /\ Effect(g, ScriptOf(3)[6], 3) = g
              /\ Allowed(g, ScriptOf(3)[1]) <=> g["vector_chunks_v4"] = Absent
              /\ Effect(g, ScriptOf(3)[1], 3) = Put(g, "vector_chunks_v4", 3)
              /\ Allowed(g, ScriptOf(3)[2]) <=> g["vector_chunks"] # Absent /\ g["vector_chunks_v4"] # Absent
              /\ Effect(g, ScriptOf(3)[2], 3) = g
              /\ Allowed(g, ScriptOf(3)[3]) <=> g["vector_chunks"] # Absent
              /\ Effect(g, ScriptOf(3)[3], 3) = Dropped(g, "vector_chunks")
              /\ Allowed(g, ScriptOf(3)[4]) <=> g["vector_chunks_v4"] # Absent /\ g["vector_chunks"] = Absent
              /\ Effect(g, ScriptOf(3)[4], 3) = InPlace(g, "vector_chunks")
              /\ Allowed(g, ScriptOf(3)[5]) <=> g["vector_chunks_source_idx"] = Absent /\ g["vector_chunks"] # Absent
              /\ Effect(g, ScriptOf(3)[5], 3) = Put(g, "vector_chunks_source_idx", 3)
  <1>1. ScriptOf(3)[1] = [op |-> "create", name |-> "vector_chunks_v4", on |-> "none"]
    BY Script3, TableNames DEF Create
  <1>2. ScriptOf(3)[2] = [op |-> "copy", name |-> "vector_chunks", on |-> "none"]
    BY Script3 DEF Copy
  <1>3. ScriptOf(3)[3] = [op |-> "drop", name |-> "vector_chunks", on |-> "none"]
    BY Script3 DEF Drop
  <1>4. ScriptOf(3)[4] = [op |-> "rename", name |-> "vector_chunks", on |-> "none"]
    BY Script3 DEF Rename
  <1>5. ScriptOf(3)[5] = [op |-> "create", name |-> "vector_chunks_source_idx", on |-> "vector_chunks"]
    BY Script3 DEF CreateIndex
  <1>6. ScriptOf(3)[6] = [op |-> "set_version", name |-> "user_version", on |-> "none"]
    BY Script3 DEF SetVersion
  <1>7. ASSUME NEW g
        PROVE  /\ WellNamed(ScriptOf(3)[1])
               /\ Allowed(g, ScriptOf(3)[1]) <=> g["vector_chunks_v4"] = Absent
               /\ Effect(g, ScriptOf(3)[1], 3) = Put(g, "vector_chunks_v4", 3)
    BY <1>1, NamesAre, TableNames DEF WellNamed, Allowed, Effect, Copying, Replacing, Carrier
  <1>8. ASSUME NEW g
        PROVE  /\ WellNamed(ScriptOf(3)[2])
               /\ Allowed(g, ScriptOf(3)[2]) <=> g["vector_chunks"] # Absent /\ g["vector_chunks_v4"] # Absent
               /\ Effect(g, ScriptOf(3)[2], 3) = g
    BY <1>2, NamesAre, TableNames DEF WellNamed, Allowed, Effect, Copying, Replacing, Carrier
  <1>9. ASSUME NEW g
        PROVE  /\ WellNamed(ScriptOf(3)[3])
               /\ Allowed(g, ScriptOf(3)[3]) <=> g["vector_chunks"] # Absent
               /\ Effect(g, ScriptOf(3)[3], 3) = Dropped(g, "vector_chunks")
    BY <1>3, NamesAre, TableNames DEF WellNamed, Allowed, Effect, Copying, Replacing, Carrier
  <1>10. ASSUME NEW g
        PROVE  /\ WellNamed(ScriptOf(3)[4])
               /\ Allowed(g, ScriptOf(3)[4]) <=> g["vector_chunks_v4"] # Absent /\ g["vector_chunks"] = Absent
               /\ Effect(g, ScriptOf(3)[4], 3) = InPlace(g, "vector_chunks")
    BY <1>4, NamesAre, TableNames DEF WellNamed, Allowed, Effect, Copying, Replacing, Carrier
  <1>11. ASSUME NEW g
        PROVE  /\ WellNamed(ScriptOf(3)[5])
               /\ Allowed(g, ScriptOf(3)[5]) <=> g["vector_chunks_source_idx"] = Absent /\ g["vector_chunks"] # Absent
               /\ Effect(g, ScriptOf(3)[5], 3) = Put(g, "vector_chunks_source_idx", 3)
    BY <1>5, NamesAre, TableNames DEF WellNamed, Allowed, Effect, Copying, Replacing, Carrier
  <1>12. ASSUME NEW g
        PROVE  /\ WellNamed(ScriptOf(3)[6])
               /\ Allowed(g, ScriptOf(3)[6])
               /\ Effect(g, ScriptOf(3)[6], 3) = g
    BY <1>6, NamesAre, TableNames DEF WellNamed, Allowed, Effect, Copying, Replacing, Carrier
  <1>13. \A i \in 1 .. 6 : WellNamed(ScriptOf(3)[i])
    <2>1. \A i \in 1 .. 6 : i = 1 \/ i = 2 \/ i = 3 \/ i = 4 \/ i = 5 \/ i = 6
      OBVIOUS
    <2> QED BY <2>1, <1>7, <1>8, <1>9, <1>10, <1>11, <1>12
  <1> QED BY <1>1, <1>2, <1>3, <1>4, <1>5, <1>6, <1>7, <1>8, <1>9, <1>10, <1>11, <1>12, <1>13

LEMMA Statements4 ==
    /\ \A i \in 1 .. 3 : WellNamed(ScriptOf(4)[i])
    /\ ScriptOf(4)[1].op = "look" /\ ScriptOf(4)[1].name = "paused"
    /\ ScriptOf(4)[2].op = "add_column" /\ ScriptOf(4)[2].name = "paused"
    /\ ScriptOf(4)[3].op = "set_version"
    /\ \A g : /\ Allowed(g, ScriptOf(4)[3])
              /\ Effect(g, ScriptOf(4)[3], 4) = g
              /\ Allowed(g, ScriptOf(4)[1])
              /\ Effect(g, ScriptOf(4)[1], 4) = g
              /\ Allowed(g, ScriptOf(4)[2]) <=> g["sources"] # Absent /\ g["paused"] = Absent
              /\ Effect(g, ScriptOf(4)[2], 4) = Put(g, "paused", 4)
  <1>1. ScriptOf(4)[1] = [op |-> "look", name |-> "paused", on |-> "sources"]
    BY Script4 DEF LookFor
  <1>2. ScriptOf(4)[2] = [op |-> "add_column", name |-> "paused", on |-> "sources"]
    BY Script4 DEF AddColumn
  <1>3. ScriptOf(4)[3] = [op |-> "set_version", name |-> "user_version", on |-> "none"]
    BY Script4 DEF SetVersion
  <1>4. ASSUME NEW g
        PROVE  /\ WellNamed(ScriptOf(4)[1])
               /\ Allowed(g, ScriptOf(4)[1])
               /\ Effect(g, ScriptOf(4)[1], 4) = g
    BY <1>1, NamesAre, TableNames DEF WellNamed, Allowed, Effect, Copying, Replacing, Carrier
  <1>5. ASSUME NEW g
        PROVE  /\ WellNamed(ScriptOf(4)[2])
               /\ Allowed(g, ScriptOf(4)[2]) <=> g["sources"] # Absent /\ g["paused"] = Absent
               /\ Effect(g, ScriptOf(4)[2], 4) = Put(g, "paused", 4)
    BY <1>2, NamesAre, TableNames DEF WellNamed, Allowed, Effect, Copying, Replacing, Carrier
  <1>6. ASSUME NEW g
        PROVE  /\ WellNamed(ScriptOf(4)[3])
               /\ Allowed(g, ScriptOf(4)[3])
               /\ Effect(g, ScriptOf(4)[3], 4) = g
    BY <1>3, NamesAre, TableNames DEF WellNamed, Allowed, Effect, Copying, Replacing, Carrier
  <1>7. \A i \in 1 .. 3 : WellNamed(ScriptOf(4)[i])
    <2>1. \A i \in 1 .. 3 : i = 1 \/ i = 2 \/ i = 3
      OBVIOUS
    <2> QED BY <2>1, <1>4, <1>5, <1>6
  <1> QED BY <1>1, <1>2, <1>3, <1>4, <1>5, <1>6, <1>7

LEMMA Statements5 ==
    /\ \A i \in 1 .. 2 : WellNamed(ScriptOf(5)[i])
    /\ ScriptOf(5)[1].op = "create_if_missing" /\ ScriptOf(5)[1].name = "agent_action_audit"
    /\ ScriptOf(5)[2].op = "set_version"
    /\ \A g : /\ Allowed(g, ScriptOf(5)[2])
              /\ Effect(g, ScriptOf(5)[2], 5) = g
              /\ Allowed(g, ScriptOf(5)[1])
              /\ Effect(g, ScriptOf(5)[1], 5) =
                   IF g["agent_action_audit"] = Absent THEN Put(g, "agent_action_audit", 5) ELSE g
  <1>1. ScriptOf(5)[1] = [op |-> "create_if_missing", name |-> "agent_action_audit", on |-> "none"]
    BY Script5 DEF CreateIfMissing
  <1>2. ScriptOf(5)[2] = [op |-> "set_version", name |-> "user_version", on |-> "none"]
    BY Script5 DEF SetVersion
  <1>3. ASSUME NEW g
        PROVE  /\ WellNamed(ScriptOf(5)[1])
               /\ Allowed(g, ScriptOf(5)[1])
               /\ Effect(g, ScriptOf(5)[1], 5) =
                    IF g["agent_action_audit"] = Absent THEN Put(g, "agent_action_audit", 5) ELSE g
    BY <1>1, NamesAre, TableNames DEF WellNamed, Allowed, Effect, Copying, Replacing, Carrier
  <1>4. ASSUME NEW g
        PROVE  /\ WellNamed(ScriptOf(5)[2])
               /\ Allowed(g, ScriptOf(5)[2])
               /\ Effect(g, ScriptOf(5)[2], 5) = g
    BY <1>2, NamesAre, TableNames DEF WellNamed, Allowed, Effect, Copying, Replacing, Carrier
  <1>5. \A i \in 1 .. 2 : WellNamed(ScriptOf(5)[i])
    <2>1. \A i \in 1 .. 2 : i = 1 \/ i = 2
      OBVIOUS
    <2> QED BY <2>1, <1>3, <1>4
  <1> QED BY <1>1, <1>2, <1>3, <1>4, <1>5

LEMMA Statements6 ==
    /\ \A i \in 1 .. 2 : WellNamed(ScriptOf(6)[i])
    /\ ScriptOf(6)[1].op = "create_if_missing" /\ ScriptOf(6)[1].name = "agent_action_workflows"
    /\ ScriptOf(6)[2].op = "set_version"
    /\ \A g : /\ Allowed(g, ScriptOf(6)[2])
              /\ Effect(g, ScriptOf(6)[2], 6) = g
              /\ Allowed(g, ScriptOf(6)[1])
              /\ Effect(g, ScriptOf(6)[1], 6) =
                   IF g["agent_action_workflows"] = Absent THEN Put(g, "agent_action_workflows", 6) ELSE g
  <1>1. ScriptOf(6)[1] = [op |-> "create_if_missing", name |-> "agent_action_workflows", on |-> "none"]
    BY Script6 DEF CreateIfMissing
  <1>2. ScriptOf(6)[2] = [op |-> "set_version", name |-> "user_version", on |-> "none"]
    BY Script6 DEF SetVersion
  <1>3. ASSUME NEW g
        PROVE  /\ WellNamed(ScriptOf(6)[1])
               /\ Allowed(g, ScriptOf(6)[1])
               /\ Effect(g, ScriptOf(6)[1], 6) =
                    IF g["agent_action_workflows"] = Absent THEN Put(g, "agent_action_workflows", 6) ELSE g
    BY <1>1, NamesAre, TableNames DEF WellNamed, Allowed, Effect, Copying, Replacing, Carrier
  <1>4. ASSUME NEW g
        PROVE  /\ WellNamed(ScriptOf(6)[2])
               /\ Allowed(g, ScriptOf(6)[2])
               /\ Effect(g, ScriptOf(6)[2], 6) = g
    BY <1>2, NamesAre, TableNames DEF WellNamed, Allowed, Effect, Copying, Replacing, Carrier
  <1>5. \A i \in 1 .. 2 : WellNamed(ScriptOf(6)[i])
    <2>1. \A i \in 1 .. 2 : i = 1 \/ i = 2
      OBVIOUS
    <2> QED BY <2>1, <1>3, <1>4
  <1> QED BY <1>1, <1>2, <1>3, <1>4, <1>5

LEMMA Statements7 ==
    /\ \A i \in 1 .. 10 : WellNamed(ScriptOf(7)[i])
    /\ ScriptOf(7)[1].op = "create" /\ ScriptOf(7)[1].name = "agent_action_audit_v8"
    /\ ScriptOf(7)[2].op = "copy_owned" /\ ScriptOf(7)[2].name = "agent_action_audit"
    /\ ScriptOf(7)[3].op = "drop" /\ ScriptOf(7)[3].name = "agent_action_audit"
    /\ ScriptOf(7)[4].op = "rename" /\ ScriptOf(7)[4].name = "agent_action_audit"
    /\ ScriptOf(7)[5].op = "create" /\ ScriptOf(7)[5].name = "agent_action_audit_operation_idx"
    /\ ScriptOf(7)[6].op = "create" /\ ScriptOf(7)[6].name = "agent_action_workflows_v8"
    /\ ScriptOf(7)[7].op = "copy_owned" /\ ScriptOf(7)[7].name = "agent_action_workflows"
    /\ ScriptOf(7)[8].op = "drop" /\ ScriptOf(7)[8].name = "agent_action_workflows"
    /\ ScriptOf(7)[9].op = "rename" /\ ScriptOf(7)[9].name = "agent_action_workflows"
    /\ ScriptOf(7)[10].op = "set_version"
    /\ \A g : /\ Allowed(g, ScriptOf(7)[10])
              /\ Effect(g, ScriptOf(7)[10], 7) = g
              /\ Allowed(g, ScriptOf(7)[1]) <=> g["agent_action_audit_v8"] = Absent
              /\ Effect(g, ScriptOf(7)[1], 7) = Put(g, "agent_action_audit_v8", 7)
              /\ Allowed(g, ScriptOf(7)[2]) <=> g["agent_action_audit"] # Absent /\ g["agent_action_audit_v8"] # Absent
              /\ Effect(g, ScriptOf(7)[2], 7) = g
              /\ Allowed(g, ScriptOf(7)[3]) <=> g["agent_action_audit"] # Absent
              /\ Effect(g, ScriptOf(7)[3], 7) = Dropped(g, "agent_action_audit")
              /\ Allowed(g, ScriptOf(7)[4]) <=> g["agent_action_audit_v8"] # Absent /\ g["agent_action_audit"] = Absent
              /\ Effect(g, ScriptOf(7)[4], 7) = InPlace(g, "agent_action_audit")
              /\ Allowed(g, ScriptOf(7)[5]) <=> g["agent_action_audit_operation_idx"] = Absent /\ g["agent_action_audit"] # Absent
              /\ Effect(g, ScriptOf(7)[5], 7) = Put(g, "agent_action_audit_operation_idx", 7)
              /\ Allowed(g, ScriptOf(7)[6]) <=> g["agent_action_workflows_v8"] = Absent
              /\ Effect(g, ScriptOf(7)[6], 7) = Put(g, "agent_action_workflows_v8", 7)
              /\ Allowed(g, ScriptOf(7)[7]) <=> g["agent_action_workflows"] # Absent /\ g["agent_action_workflows_v8"] # Absent
              /\ Effect(g, ScriptOf(7)[7], 7) = g
              /\ Allowed(g, ScriptOf(7)[8]) <=> g["agent_action_workflows"] # Absent
              /\ Effect(g, ScriptOf(7)[8], 7) = Dropped(g, "agent_action_workflows")
              /\ Allowed(g, ScriptOf(7)[9]) <=> g["agent_action_workflows_v8"] # Absent /\ g["agent_action_workflows"] = Absent
              /\ Effect(g, ScriptOf(7)[9], 7) = InPlace(g, "agent_action_workflows")
  <1>1. ScriptOf(7)[1] = [op |-> "create", name |-> "agent_action_audit_v8", on |-> "none"]
    BY Script7, TableNames DEF Create
  <1>2. ScriptOf(7)[2] = [op |-> "copy_owned", name |-> "agent_action_audit", on |-> "none"]
    BY Script7 DEF CopyOwned
  <1>3. ScriptOf(7)[3] = [op |-> "drop", name |-> "agent_action_audit", on |-> "none"]
    BY Script7 DEF Drop
  <1>4. ScriptOf(7)[4] = [op |-> "rename", name |-> "agent_action_audit", on |-> "none"]
    BY Script7 DEF Rename
  <1>5. ScriptOf(7)[5] = [op |-> "create", name |-> "agent_action_audit_operation_idx", on |-> "agent_action_audit"]
    BY Script7 DEF CreateIndex
  <1>6. ScriptOf(7)[6] = [op |-> "create", name |-> "agent_action_workflows_v8", on |-> "none"]
    BY Script7, TableNames DEF Create
  <1>7. ScriptOf(7)[7] = [op |-> "copy_owned", name |-> "agent_action_workflows", on |-> "none"]
    BY Script7 DEF CopyOwned
  <1>8. ScriptOf(7)[8] = [op |-> "drop", name |-> "agent_action_workflows", on |-> "none"]
    BY Script7 DEF Drop
  <1>9. ScriptOf(7)[9] = [op |-> "rename", name |-> "agent_action_workflows", on |-> "none"]
    BY Script7 DEF Rename
  <1>10. ScriptOf(7)[10] = [op |-> "set_version", name |-> "user_version", on |-> "none"]
    BY Script7 DEF SetVersion
  <1>11. ASSUME NEW g
        PROVE  /\ WellNamed(ScriptOf(7)[1])
               /\ Allowed(g, ScriptOf(7)[1]) <=> g["agent_action_audit_v8"] = Absent
               /\ Effect(g, ScriptOf(7)[1], 7) = Put(g, "agent_action_audit_v8", 7)
    BY <1>1, NamesAre, TableNames DEF WellNamed, Allowed, Effect, Copying, Replacing, Carrier
  <1>12. ASSUME NEW g
        PROVE  /\ WellNamed(ScriptOf(7)[2])
               /\ Allowed(g, ScriptOf(7)[2]) <=> g["agent_action_audit"] # Absent /\ g["agent_action_audit_v8"] # Absent
               /\ Effect(g, ScriptOf(7)[2], 7) = g
    BY <1>2, NamesAre, TableNames DEF WellNamed, Allowed, Effect, Copying, Replacing, Carrier
  <1>13. ASSUME NEW g
        PROVE  /\ WellNamed(ScriptOf(7)[3])
               /\ Allowed(g, ScriptOf(7)[3]) <=> g["agent_action_audit"] # Absent
               /\ Effect(g, ScriptOf(7)[3], 7) = Dropped(g, "agent_action_audit")
    BY <1>3, NamesAre, TableNames DEF WellNamed, Allowed, Effect, Copying, Replacing, Carrier
  <1>14. ASSUME NEW g
        PROVE  /\ WellNamed(ScriptOf(7)[4])
               /\ Allowed(g, ScriptOf(7)[4]) <=> g["agent_action_audit_v8"] # Absent /\ g["agent_action_audit"] = Absent
               /\ Effect(g, ScriptOf(7)[4], 7) = InPlace(g, "agent_action_audit")
    BY <1>4, NamesAre, TableNames DEF WellNamed, Allowed, Effect, Copying, Replacing, Carrier
  <1>15. ASSUME NEW g
        PROVE  /\ WellNamed(ScriptOf(7)[5])
               /\ Allowed(g, ScriptOf(7)[5]) <=> g["agent_action_audit_operation_idx"] = Absent /\ g["agent_action_audit"] # Absent
               /\ Effect(g, ScriptOf(7)[5], 7) = Put(g, "agent_action_audit_operation_idx", 7)
    BY <1>5, NamesAre, TableNames DEF WellNamed, Allowed, Effect, Copying, Replacing, Carrier
  <1>16. ASSUME NEW g
        PROVE  /\ WellNamed(ScriptOf(7)[6])
               /\ Allowed(g, ScriptOf(7)[6]) <=> g["agent_action_workflows_v8"] = Absent
               /\ Effect(g, ScriptOf(7)[6], 7) = Put(g, "agent_action_workflows_v8", 7)
    BY <1>6, NamesAre, TableNames DEF WellNamed, Allowed, Effect, Copying, Replacing, Carrier
  <1>17. ASSUME NEW g
        PROVE  /\ WellNamed(ScriptOf(7)[7])
               /\ Allowed(g, ScriptOf(7)[7]) <=> g["agent_action_workflows"] # Absent /\ g["agent_action_workflows_v8"] # Absent
               /\ Effect(g, ScriptOf(7)[7], 7) = g
    BY <1>7, NamesAre, TableNames DEF WellNamed, Allowed, Effect, Copying, Replacing, Carrier
  <1>18. ASSUME NEW g
        PROVE  /\ WellNamed(ScriptOf(7)[8])
               /\ Allowed(g, ScriptOf(7)[8]) <=> g["agent_action_workflows"] # Absent
               /\ Effect(g, ScriptOf(7)[8], 7) = Dropped(g, "agent_action_workflows")
    BY <1>8, NamesAre, TableNames DEF WellNamed, Allowed, Effect, Copying, Replacing, Carrier
  <1>19. ASSUME NEW g
        PROVE  /\ WellNamed(ScriptOf(7)[9])
               /\ Allowed(g, ScriptOf(7)[9]) <=> g["agent_action_workflows_v8"] # Absent /\ g["agent_action_workflows"] = Absent
               /\ Effect(g, ScriptOf(7)[9], 7) = InPlace(g, "agent_action_workflows")
    BY <1>9, NamesAre, TableNames DEF WellNamed, Allowed, Effect, Copying, Replacing, Carrier
  <1>20. ASSUME NEW g
        PROVE  /\ WellNamed(ScriptOf(7)[10])
               /\ Allowed(g, ScriptOf(7)[10])
               /\ Effect(g, ScriptOf(7)[10], 7) = g
    BY <1>10, NamesAre, TableNames DEF WellNamed, Allowed, Effect, Copying, Replacing, Carrier
  <1>21. \A i \in 1 .. 10 : WellNamed(ScriptOf(7)[i])
    <2>1. \A i \in 1 .. 10 : i = 1 \/ i = 2 \/ i = 3 \/ i = 4 \/ i = 5 \/ i = 6 \/ i = 7 \/ i = 8 \/ i = 9 \/ i = 10
      OBVIOUS
    <2> QED BY <2>1, <1>11, <1>12, <1>13, <1>14, <1>15, <1>16, <1>17, <1>18, <1>19, <1>20
  <1> QED BY <1>1, <1>2, <1>3, <1>4, <1>5, <1>6, <1>7, <1>8, <1>9, <1>10, <1>11, <1>12, <1>13, <1>14, <1>15, <1>16, <1>17, <1>18, <1>19, <1>20, <1>21

----------------------------------------------------------------------------
(* The scripts that run alone, by forms                                    *)

Vectors == {"vector_chunks", "vector_chunks_source_idx"}

\* The names that are new or have a new form after the script of version v.
Made(v) ==
    CASE v = 0 -> FirstTables
      [] v = 1 -> Lexical
      [] v \in {2, 3} -> Vectors
      [] v = 4 -> {"paused"}
      [] v = 5 -> {"agent_action_audit"}
      [] v = 6 -> {"agent_action_workflows"}
      [] v = 7 -> {"agent_action_audit", "agent_action_audit_operation_idx",
                   "agent_action_workflows"}

Result(v, g) ==
    [n \in Names |->
       IF n \in Made(v) /\ (v \in Resumable => g[n] = Absent) THEN v ELSE g[n]]

\* A database of version v in these forms can be opened.
Reopens(v, g) ==
    /\ \A n \in Copies : g[n] = Absent
    /\ IF v > 0 THEN g["sources"] # Absent ELSE \A n \in FirstTables : g[n] = Absent
    /\ v <= 1 => \A n \in Lexical : g[n] = Absent
    /\ IF v > 2 THEN g["vector_chunks"] # Absent ELSE \A n \in Vectors : g[n] = Absent
    /\ v > 5 => g["agent_action_audit"] # Absent
    /\ v > 6 => g["agent_action_workflows"] # Absent

LEMMA TheNames ==
    /\ "sources" \in Names /\ "sync_runs" \in Names /\ "file_state" \in Names
    /\ "documents" \in Names /\ "change_events" \in Names /\ "staged_files" \in Names
    /\ "lexical_chunks" \in Names /\ "lexical_chunks_source_idx" \in Names
    /\ "lexical_chunks_type_idx" \in Names
    /\ "vector_chunks" \in Names /\ "vector_chunks_v4" \in Names
    /\ "vector_chunks_source_idx" \in Names /\ "paused" \in Names
    /\ "agent_action_audit" \in Names /\ "agent_action_audit_v8" \in Names
    /\ "agent_action_audit_operation_idx" \in Names
    /\ "agent_action_workflows" \in Names /\ "agent_action_workflows_v8" \in Names
  BY NamesAre

LEMMA WhereTheyBelong ==
    /\ "vector_chunks" \in Copied /\ CopyOf["vector_chunks"] = "vector_chunks_v4"
    /\ "agent_action_audit" \in Copied
    /\ CopyOf["agent_action_audit"] = "agent_action_audit_v8"
    /\ "agent_action_workflows" \in Copied
    /\ CopyOf["agent_action_workflows"] = "agent_action_workflows_v8"
    /\ \A m : /\ Carrier(m) = "vector_chunks" <=> m = "vector_chunks_source_idx"
              /\ Carrier(m) = "agent_action_audit"
                   <=> m = "agent_action_audit_operation_idx"
              /\ Carrier(m) # "agent_action_workflows"
  <1>1. ASSUME NEW m
        PROVE  /\ Carrier(m) = "vector_chunks" <=> m = "vector_chunks_source_idx"
               /\ Carrier(m) = "agent_action_audit"
                    <=> m = "agent_action_audit_operation_idx"
               /\ Carrier(m) # "agent_action_workflows"
    BY DEF Carrier
  <1> QED BY <1>1, TableNames

LEMMA WhatIsMade ==
    /\ Made(0) = FirstTables
    /\ Made(1) = Lexical
    /\ Made(2) = Vectors
    /\ Made(3) = Vectors
    /\ Made(4) = {"paused"}
    /\ Made(5) = {"agent_action_audit"}
    /\ Made(6) = {"agent_action_workflows"}
    /\ Made(7) = {"agent_action_audit", "agent_action_audit_operation_idx",
                  "agent_action_workflows"}
  BY DEF Made

LEMMA SameForms ==
    ASSUME NEW g \in Forms, NEW h \in Forms, \A n \in Names : g[n] = h[n]
    PROVE  g = h
  <1> QED BY DEF Forms

LEMMA ResultValues ==
    ASSUME NEW v \in 0 .. 7, NEW g \in Forms
    PROVE  /\ Result(v, g) \in Forms
           /\ \A n \in Names : Result(v, g)[n] =
                IF n \in Made(v) /\ (v \in Resumable => g[n] = Absent) THEN v ELSE g[n]
  BY DEF Result, Forms, Newest

\* Statement st may run and turns forms g into forms h.
Turns(st, g, h, v) == WellNamed(st) /\ Allowed(g, st) /\ Effect(g, st, v) = h

Becomes(st, g, h, v) == StatementAlone({SchemaWith(g)}, st, v) = {SchemaWith(h)}

LEMMA NextForms ==
    ASSUME NEW g \in Forms, NEW h, NEW st, NEW v \in 0 .. 7, Turns(st, g, h, v)
    PROVE  Becomes(st, g, h, v)
  BY AloneForm DEF Turns, Becomes

\* What the statements of a script make of one database, one after the other.
PathAlone(run, g, v, script, n) ==
    /\ run[0] = {SchemaWith(g)}
    /\ \A i \in 1 .. n : run[i] = StatementAlone(run[i - 1], script[i], v)
    /\ run[n] = ScriptAlone({SchemaWith(g)}, v)

\* ScriptRuns for a script and a length of our own choice.
LEMMA ScriptRunsFrom ==
    ASSUME NEW g \in Forms, NEW v \in 0 .. 7, NEW script, NEW n,
           script = ScriptOf(v), n = Len(ScriptOf(v))
    PROVE  \E run : PathAlone(run, g, v, script, n)
  <1>1. {SchemaWith(g)} \in AnySchemas
    BY SchemaWithType
  <1> QED BY <1>1, ScriptRuns DEF PathAlone

LEMMA ResultReopens ==
    ASSUME NEW v \in 0 .. 7, NEW g \in Forms, Reopens(v, g)
    PROVE  Reopens(v + 1, Result(v, g))
  <1> DEFINE h == Result(v, g)
  <1>1. \A n \in Names : h[n] =
          IF n \in Made(v) /\ (v \in Resumable => g[n] = Absent) THEN v ELSE g[n]
    BY ResultValues
  <1>2. v # Absent
    BY DEF Absent, Newest
  <1> HIDE DEF h

  <1>3. ASSUME v = 0 PROVE Reopens(v + 1, h)
    <2>1. \A n \in Names : h[n] =
            IF n \in Made(0) THEN 0 ELSE g[n]
      BY <1>1, <1>3 DEF Resumable
    <2>2. Reopens(0, g)
      BY <1>3
    <2>3. Reopens(0 + 1, h)
      BY <1>2, <1>3, <2>1, <2>2, WhatIsMade, TheNames, TableNames
         DEF Reopens, FirstTables, Lexical, Vectors
    <2> QED BY <1>3, <2>3
  <1>4. ASSUME v = 1 PROVE Reopens(v + 1, h)
    <2>1. \A n \in Names : h[n] =
            IF n \in Made(1) THEN 1 ELSE g[n]
      BY <1>1, <1>4 DEF Resumable
    <2>2. Reopens(1, g)
      BY <1>4
    <2>3. Reopens(1 + 1, h)
      BY <1>2, <1>4, <2>1, <2>2, WhatIsMade, TheNames, TableNames
         DEF Reopens, FirstTables, Lexical, Vectors
    <2> QED BY <1>4, <2>3
  <1>5. ASSUME v = 2 PROVE Reopens(v + 1, h)
    <2>1. \A n \in Names : h[n] =
            IF n \in Made(2) THEN 2 ELSE g[n]
      BY <1>1, <1>5 DEF Resumable
    <2>2. Reopens(2, g)
      BY <1>5
    <2>3. Reopens(2 + 1, h)
      BY <1>2, <1>5, <2>1, <2>2, WhatIsMade, TheNames, TableNames
         DEF Reopens, FirstTables, Lexical, Vectors
    <2> QED BY <1>5, <2>3
  <1>6. ASSUME v = 3 PROVE Reopens(v + 1, h)
    <2>1. \A n \in Names : h[n] =
            IF n \in Made(3) THEN 3 ELSE g[n]
      BY <1>1, <1>6 DEF Resumable
    <2>2. Reopens(3, g)
      BY <1>6
    <2>3. Reopens(3 + 1, h)
      BY <1>2, <1>6, <2>1, <2>2, WhatIsMade, TheNames, TableNames
         DEF Reopens, FirstTables, Lexical, Vectors
    <2> QED BY <1>6, <2>3
  <1>7. ASSUME v = 4 PROVE Reopens(v + 1, h)
    <2>1. \A n \in Names : h[n] =
            IF n \in Made(4) /\ g[n] = Absent THEN 4 ELSE g[n]
      BY <1>1, <1>7 DEF Resumable
    <2>2. Reopens(4, g)
      BY <1>7
    <2>3. Reopens(4 + 1, h)
      BY <1>2, <1>7, <2>1, <2>2, WhatIsMade, TheNames, TableNames
         DEF Reopens, FirstTables, Lexical, Vectors
    <2> QED BY <1>7, <2>3
  <1>8. ASSUME v = 5 PROVE Reopens(v + 1, h)
    <2>1. \A n \in Names : h[n] =
            IF n \in Made(5) /\ g[n] = Absent THEN 5 ELSE g[n]
      BY <1>1, <1>8 DEF Resumable
    <2>2. Reopens(5, g)
      BY <1>8
    <2>3. Reopens(5 + 1, h)
      BY <1>2, <1>8, <2>1, <2>2, WhatIsMade, TheNames, TableNames
         DEF Reopens, FirstTables, Lexical, Vectors
    <2> QED BY <1>8, <2>3
  <1>9. ASSUME v = 6 PROVE Reopens(v + 1, h)
    <2>1. \A n \in Names : h[n] =
            IF n \in Made(6) /\ g[n] = Absent THEN 6 ELSE g[n]
      BY <1>1, <1>9 DEF Resumable
    <2>2. Reopens(6, g)
      BY <1>9
    <2>3. Reopens(6 + 1, h)
      BY <1>2, <1>9, <2>1, <2>2, WhatIsMade, TheNames, TableNames
         DEF Reopens, FirstTables, Lexical, Vectors
    <2> QED BY <1>9, <2>3
  <1>10. ASSUME v = 7 PROVE Reopens(v + 1, h)
    <2>1. \A n \in Names : h[n] =
            IF n \in Made(7) THEN 7 ELSE g[n]
      BY <1>1, <1>10 DEF Resumable
    <2>2. Reopens(7, g)
      BY <1>10
    <2>3. Reopens(7 + 1, h)
      BY <1>2, <1>10, <2>1, <2>2, WhatIsMade, TheNames, TableNames
         DEF Reopens, FirstTables, Lexical, Vectors
    <2> QED BY <1>10, <2>3
  <1>11. v = 0 \/ v = 1 \/ v = 2 \/ v = 3 \/ v = 4 \/ v = 5 \/ v = 6 \/ v = 7
    OBVIOUS
  <1> QED BY <1>3, <1>4, <1>5, <1>6, <1>7, <1>8, <1>9, <1>10, <1>11 DEF h

LEMMA ScriptRuns0 ==
    ASSUME NEW g \in Forms, Reopens(0, g)
    PROVE  ScriptAlone({SchemaWith(g)}, 0) = {SchemaWith(Result(0, g))}
  <1> DEFINE h1 == Put(g, "sources", 0)
             h2 == Put(h1, "sync_runs", 0)
             h3 == Put(h2, "file_state", 0)
             h4 == Put(h3, "documents", 0)
             h5 == Put(h4, "change_events", 0)
             h6 == Put(h5, "staged_files", 0)
             script == ScriptOf(0)
  <1> HIDE DEF h1, h2, h3, h4, h5, h6, script
  <1>0. 0 \in 0 .. 7 /\ g \in Forms /\ script = ScriptOf(0) /\ 7 = Len(ScriptOf(0))
    BY Script0 DEF script
  <1>1. /\ h1 \in Forms
        /\ \A m \in Names : h1[m] =
                  IF m = "sources" THEN 0 ELSE g[m]
    BY PutValues, TheNames DEF h1
  <1>2. /\ h2 \in Forms
        /\ \A m \in Names : h2[m] =
                  IF m \in {"sources", "sync_runs"} THEN 0 ELSE g[m]
    <2>1. /\ h2 \in Forms
          /\ \A m \in Names : h2[m] =
                  IF m = "sync_runs" THEN 0 ELSE h1[m]
      <3>1. h1 \in Forms
        BY <1>1
      <3> QED BY <3>1, PutValues, TheNames DEF h2
    <2> QED BY <1>1, <2>1, TheNames
  <1>3. /\ h3 \in Forms
        /\ \A m \in Names : h3[m] =
                  IF m \in {"sources", "sync_runs", "file_state"} THEN 0 ELSE g[m]
    <2>1. /\ h3 \in Forms
          /\ \A m \in Names : h3[m] =
                  IF m = "file_state" THEN 0 ELSE h2[m]
      <3>1. h2 \in Forms
        BY <1>2
      <3> QED BY <3>1, PutValues, TheNames DEF h3
    <2> QED BY <1>2, <2>1, TheNames
  <1>4. /\ h4 \in Forms
        /\ \A m \in Names : h4[m] =
                  IF m \in {"sources", "sync_runs", "file_state", "documents"} THEN 0 ELSE g[m]
    <2>1. /\ h4 \in Forms
          /\ \A m \in Names : h4[m] =
                  IF m = "documents" THEN 0 ELSE h3[m]
      <3>1. h3 \in Forms
        BY <1>3
      <3> QED BY <3>1, PutValues, TheNames DEF h4
    <2> QED BY <1>3, <2>1, TheNames
  <1>5. /\ h5 \in Forms
        /\ \A m \in Names : h5[m] =
                  IF m \in {"sources", "sync_runs", "file_state", "documents", "change_events"} THEN 0 ELSE g[m]
    <2>1. /\ h5 \in Forms
          /\ \A m \in Names : h5[m] =
                  IF m = "change_events" THEN 0 ELSE h4[m]
      <3>1. h4 \in Forms
        BY <1>4
      <3> QED BY <3>1, PutValues, TheNames DEF h5
    <2> QED BY <1>4, <2>1, TheNames
  <1>6. /\ h6 \in Forms
        /\ \A m \in Names : h6[m] =
                  IF m \in {"sources", "sync_runs", "file_state", "documents", "change_events", "staged_files"} THEN 0 ELSE g[m]
    <2>1. /\ h6 \in Forms
          /\ \A m \in Names : h6[m] =
                  IF m = "staged_files" THEN 0 ELSE h5[m]
      <3>1. h5 \in Forms
        BY <1>5
      <3> QED BY <3>1, PutValues, TheNames DEF h6
    <2> QED BY <1>5, <2>1, TheNames
  <1>7. Becomes(script[1], g, h1, 0)
    <2>1. WellNamed(script[1]) /\ Effect(g, script[1], 0) = h1
      BY Statements0 DEF script, h1
    <2>2. Turns(script[1], g, h1, 0)
      BY <2>1, Statements0, TheNames, TableNames
         DEF Turns, script, Absent, Newest, Reopens, FirstTables, Lexical, Vectors
    <2> QED BY <1>0, <2>2, NextForms, Zenon
  <1>8. Becomes(script[2], h1, h2, 0)
    <2>1. WellNamed(script[2]) /\ Effect(h1, script[2], 0) = h2
      BY Statements0 DEF script, h2
    <2>2. Turns(script[2], h1, h2, 0)
      BY <2>1, <1>1, Statements0, TheNames, TableNames
         DEF Turns, script, Absent, Newest, Reopens, FirstTables, Lexical, Vectors
    <2> QED BY <1>0, <1>1, <2>2, NextForms, Zenon
  <1>9. Becomes(script[3], h2, h3, 0)
    <2>1. WellNamed(script[3]) /\ Effect(h2, script[3], 0) = h3
      BY Statements0 DEF script, h3
    <2>2. Turns(script[3], h2, h3, 0)
      BY <2>1, <1>2, Statements0, TheNames, TableNames
         DEF Turns, script, Absent, Newest, Reopens, FirstTables, Lexical, Vectors
    <2> QED BY <1>0, <1>2, <2>2, NextForms, Zenon
  <1>10. Becomes(script[4], h3, h4, 0)
    <2>1. WellNamed(script[4]) /\ Effect(h3, script[4], 0) = h4
      BY Statements0 DEF script, h4
    <2>2. Turns(script[4], h3, h4, 0)
      BY <2>1, <1>3, Statements0, TheNames, TableNames
         DEF Turns, script, Absent, Newest, Reopens, FirstTables, Lexical, Vectors
    <2> QED BY <1>0, <1>3, <2>2, NextForms, Zenon
  <1>11. Becomes(script[5], h4, h5, 0)
    <2>1. WellNamed(script[5]) /\ Effect(h4, script[5], 0) = h5
      BY Statements0 DEF script, h5
    <2>2. Turns(script[5], h4, h5, 0)
      BY <2>1, <1>4, Statements0, TheNames, TableNames
         DEF Turns, script, Absent, Newest, Reopens, FirstTables, Lexical, Vectors
    <2> QED BY <1>0, <1>4, <2>2, NextForms, Zenon
  <1>12. Becomes(script[6], h5, h6, 0)
    <2>1. WellNamed(script[6]) /\ Effect(h5, script[6], 0) = h6
      BY Statements0 DEF script, h6
    <2>2. Turns(script[6], h5, h6, 0)
      BY <2>1, <1>5, Statements0, TheNames, TableNames
         DEF Turns, script, Absent, Newest, Reopens, FirstTables, Lexical, Vectors
    <2> QED BY <1>0, <1>5, <2>2, NextForms, Zenon
  <1>13. Becomes(script[7], h6, h6, 0)
    <2>1. WellNamed(script[7]) /\ Effect(h6, script[7], 0) = h6
      BY Statements0 DEF script
    <2>2. Turns(script[7], h6, h6, 0)
      BY <2>1, <1>6, Statements0, TheNames, TableNames
         DEF Turns, script, Absent, Newest, Reopens, FirstTables, Lexical, Vectors
    <2> QED BY <1>0, <1>6, <2>2, NextForms, Zenon
  <1>14. PICK run : PathAlone(run, g, 0, script, 7)
    BY <1>0, ScriptRunsFrom, Zenon
  <1>15. /\ run[0] = {SchemaWith(g)}
        /\ run[7] = ScriptAlone({SchemaWith(g)}, 0)
        /\ run[1] = StatementAlone(run[0], script[1], 0)
        /\ run[2] = StatementAlone(run[1], script[2], 0)
        /\ run[3] = StatementAlone(run[2], script[3], 0)
        /\ run[4] = StatementAlone(run[3], script[4], 0)
        /\ run[5] = StatementAlone(run[4], script[5], 0)
        /\ run[6] = StatementAlone(run[5], script[6], 0)
        /\ run[7] = StatementAlone(run[6], script[7], 0)
    BY <1>14 DEF PathAlone
  <1>16. run[7] = {SchemaWith(h6)}
    BY <1>15, <1>7, <1>8, <1>9, <1>10, <1>11, <1>12, <1>13 DEF Becomes
  <1>17. h6 = Result(0, g)
    <2>1. \A m \in Names : h6[m] = Result(0, g)[m]
      BY <1>6, ResultValues, WhatIsMade, TheNames, TableNames
         DEF FirstTables, Lexical, Vectors, Resumable, Reopens, Absent, Newest
    <2>2. Result(0, g) \in Forms
      BY ResultValues
    <2> QED BY <1>6, <2>1, <2>2, SameForms
  <1> QED BY <1>15, <1>16, <1>17

LEMMA ScriptRuns1 ==
    ASSUME NEW g \in Forms, Reopens(1, g)
    PROVE  ScriptAlone({SchemaWith(g)}, 1) = {SchemaWith(Result(1, g))}
  <1> DEFINE h1 == Put(g, "lexical_chunks", 1)
             h2 == Put(h1, "lexical_chunks_source_idx", 1)
             h3 == Put(h2, "lexical_chunks_type_idx", 1)
             script == ScriptOf(1)
  <1> HIDE DEF h1, h2, h3, script
  <1>0. 1 \in 0 .. 7 /\ g \in Forms /\ script = ScriptOf(1) /\ 4 = Len(ScriptOf(1))
    BY Script1 DEF script
  <1>1. /\ h1 \in Forms
        /\ \A m \in Names : h1[m] =
                  IF m = "lexical_chunks" THEN 1 ELSE g[m]
    BY PutValues, TheNames DEF h1
  <1>2. /\ h2 \in Forms
        /\ \A m \in Names : h2[m] =
                  IF m \in {"lexical_chunks", "lexical_chunks_source_idx"} THEN 1 ELSE g[m]
    <2>1. /\ h2 \in Forms
          /\ \A m \in Names : h2[m] =
                  IF m = "lexical_chunks_source_idx" THEN 1 ELSE h1[m]
      <3>1. h1 \in Forms
        BY <1>1
      <3> QED BY <3>1, PutValues, TheNames DEF h2
    <2> QED BY <1>1, <2>1, TheNames
  <1>3. /\ h3 \in Forms
        /\ \A m \in Names : h3[m] =
                  IF m \in {"lexical_chunks", "lexical_chunks_source_idx", "lexical_chunks_type_idx"} THEN 1 ELSE g[m]
    <2>1. /\ h3 \in Forms
          /\ \A m \in Names : h3[m] =
                  IF m = "lexical_chunks_type_idx" THEN 1 ELSE h2[m]
      <3>1. h2 \in Forms
        BY <1>2
      <3> QED BY <3>1, PutValues, TheNames DEF h3
    <2> QED BY <1>2, <2>1, TheNames
  <1>4. Becomes(script[1], g, h1, 1)
    <2>1. WellNamed(script[1]) /\ Effect(g, script[1], 1) = h1
      BY Statements1 DEF script, h1
    <2>2. Turns(script[1], g, h1, 1)
      BY <2>1, Statements1, TheNames, TableNames
         DEF Turns, script, Absent, Newest, Reopens, FirstTables, Lexical, Vectors
    <2> QED BY <1>0, <2>2, NextForms, Zenon
  <1>5. Becomes(script[2], h1, h2, 1)
    <2>1. WellNamed(script[2]) /\ Effect(h1, script[2], 1) = h2
      BY Statements1 DEF script, h2
    <2>2. Turns(script[2], h1, h2, 1)
      BY <2>1, <1>1, Statements1, TheNames, TableNames
         DEF Turns, script, Absent, Newest, Reopens, FirstTables, Lexical, Vectors
    <2> QED BY <1>0, <1>1, <2>2, NextForms, Zenon
  <1>6. Becomes(script[3], h2, h3, 1)
    <2>1. WellNamed(script[3]) /\ Effect(h2, script[3], 1) = h3
      BY Statements1 DEF script, h3
    <2>2. Turns(script[3], h2, h3, 1)
      BY <2>1, <1>2, Statements1, TheNames, TableNames
         DEF Turns, script, Absent, Newest, Reopens, FirstTables, Lexical, Vectors
    <2> QED BY <1>0, <1>2, <2>2, NextForms, Zenon
  <1>7. Becomes(script[4], h3, h3, 1)
    <2>1. WellNamed(script[4]) /\ Effect(h3, script[4], 1) = h3
      BY Statements1 DEF script
    <2>2. Turns(script[4], h3, h3, 1)
      BY <2>1, <1>3, Statements1, TheNames, TableNames
         DEF Turns, script, Absent, Newest, Reopens, FirstTables, Lexical, Vectors
    <2> QED BY <1>0, <1>3, <2>2, NextForms, Zenon
  <1>8. PICK run : PathAlone(run, g, 1, script, 4)
    BY <1>0, ScriptRunsFrom, Zenon
  <1>9. /\ run[0] = {SchemaWith(g)}
        /\ run[4] = ScriptAlone({SchemaWith(g)}, 1)
        /\ run[1] = StatementAlone(run[0], script[1], 1)
        /\ run[2] = StatementAlone(run[1], script[2], 1)
        /\ run[3] = StatementAlone(run[2], script[3], 1)
        /\ run[4] = StatementAlone(run[3], script[4], 1)
    BY <1>8 DEF PathAlone
  <1>10. run[4] = {SchemaWith(h3)}
    BY <1>9, <1>4, <1>5, <1>6, <1>7 DEF Becomes
  <1>11. h3 = Result(1, g)
    <2>1. \A m \in Names : h3[m] = Result(1, g)[m]
      BY <1>3, ResultValues, WhatIsMade, TheNames, TableNames
         DEF FirstTables, Lexical, Vectors, Resumable, Reopens, Absent, Newest
    <2>2. Result(1, g) \in Forms
      BY ResultValues
    <2> QED BY <1>3, <2>1, <2>2, SameForms
  <1> QED BY <1>9, <1>10, <1>11

LEMMA ScriptRuns2 ==
    ASSUME NEW g \in Forms, Reopens(2, g)
    PROVE  ScriptAlone({SchemaWith(g)}, 2) = {SchemaWith(Result(2, g))}
  <1> DEFINE h1 == Put(g, "vector_chunks", 2)
             h2 == Put(h1, "vector_chunks_source_idx", 2)
             script == ScriptOf(2)
  <1> HIDE DEF h1, h2, script
  <1>0. 2 \in 0 .. 7 /\ g \in Forms /\ script = ScriptOf(2) /\ 3 = Len(ScriptOf(2))
    BY Script2 DEF script
  <1>1. /\ h1 \in Forms
        /\ \A m \in Names : h1[m] =
                  IF m = "vector_chunks" THEN 2 ELSE g[m]
    BY PutValues, TheNames DEF h1
  <1>2. /\ h2 \in Forms
        /\ \A m \in Names : h2[m] =
                  IF m \in {"vector_chunks", "vector_chunks_source_idx"} THEN 2 ELSE g[m]
    <2>1. /\ h2 \in Forms
          /\ \A m \in Names : h2[m] =
                  IF m = "vector_chunks_source_idx" THEN 2 ELSE h1[m]
      <3>1. h1 \in Forms
        BY <1>1
      <3> QED BY <3>1, PutValues, TheNames DEF h2
    <2> QED BY <1>1, <2>1, TheNames
  <1>3. Becomes(script[1], g, h1, 2)
    <2>1. WellNamed(script[1]) /\ Effect(g, script[1], 2) = h1
      BY Statements2 DEF script, h1
    <2>2. Turns(script[1], g, h1, 2)
      BY <2>1, Statements2, TheNames, TableNames
         DEF Turns, script, Absent, Newest, Reopens, FirstTables, Lexical, Vectors
    <2> QED BY <1>0, <2>2, NextForms, Zenon
  <1>4. Becomes(script[2], h1, h2, 2)
    <2>1. WellNamed(script[2]) /\ Effect(h1, script[2], 2) = h2
      BY Statements2 DEF script, h2
    <2>2. Turns(script[2], h1, h2, 2)
      BY <2>1, <1>1, Statements2, TheNames, TableNames
         DEF Turns, script, Absent, Newest, Reopens, FirstTables, Lexical, Vectors
    <2> QED BY <1>0, <1>1, <2>2, NextForms, Zenon
  <1>5. Becomes(script[3], h2, h2, 2)
    <2>1. WellNamed(script[3]) /\ Effect(h2, script[3], 2) = h2
      BY Statements2 DEF script
    <2>2. Turns(script[3], h2, h2, 2)
      BY <2>1, <1>2, Statements2, TheNames, TableNames
         DEF Turns, script, Absent, Newest, Reopens, FirstTables, Lexical, Vectors
    <2> QED BY <1>0, <1>2, <2>2, NextForms, Zenon
  <1>6. PICK run : PathAlone(run, g, 2, script, 3)
    BY <1>0, ScriptRunsFrom, Zenon
  <1>7. /\ run[0] = {SchemaWith(g)}
        /\ run[3] = ScriptAlone({SchemaWith(g)}, 2)
        /\ run[1] = StatementAlone(run[0], script[1], 2)
        /\ run[2] = StatementAlone(run[1], script[2], 2)
        /\ run[3] = StatementAlone(run[2], script[3], 2)
    BY <1>6 DEF PathAlone
  <1>8. run[3] = {SchemaWith(h2)}
    BY <1>7, <1>3, <1>4, <1>5 DEF Becomes
  <1>9. h2 = Result(2, g)
    <2>1. \A m \in Names : h2[m] = Result(2, g)[m]
      BY <1>2, ResultValues, WhatIsMade, TheNames, TableNames
         DEF FirstTables, Lexical, Vectors, Resumable, Reopens, Absent, Newest
    <2>2. Result(2, g) \in Forms
      BY ResultValues
    <2> QED BY <1>2, <2>1, <2>2, SameForms
  <1> QED BY <1>7, <1>8, <1>9

LEMMA ScriptRuns3 ==
    ASSUME NEW g \in Forms, Reopens(3, g)
    PROVE  ScriptAlone({SchemaWith(g)}, 3) = {SchemaWith(Result(3, g))}
  <1> DEFINE h1 == Put(g, "vector_chunks_v4", 3)
             h3 == Dropped(h1, "vector_chunks")
             h4 == InPlace(h3, "vector_chunks")
             h5 == Put(h4, "vector_chunks_source_idx", 3)
             script == ScriptOf(3)
  <1> HIDE DEF h1, h3, h4, h5, script
  <1>0. 3 \in 0 .. 7 /\ g \in Forms /\ script = ScriptOf(3) /\ 6 = Len(ScriptOf(3))
    BY Script3 DEF script
  <1>1. /\ h1 \in Forms
        /\ \A m \in Names : h1[m] =
                  IF m = "vector_chunks_v4" THEN 3 ELSE g[m]
    BY PutValues, TheNames DEF h1
  <1>2. /\ h3 \in Forms
        /\ \A m \in Names : h3[m] =
                  IF m = "vector_chunks_v4" THEN 3
                  ELSE IF m \in {"vector_chunks", "vector_chunks_source_idx"} THEN Absent ELSE g[m]
    <2>1. /\ h3 \in Forms
          /\ \A m \in Names : h3[m] =
                  IF m \in {"vector_chunks", "vector_chunks_source_idx"} THEN Absent ELSE h1[m]
      <3>1. h1 \in Forms
        BY <1>1
      <3>2. /\ h3 \in Forms
            /\ \A m \in Names : h3[m] =
                 IF m = "vector_chunks" \/ Carrier(m) = "vector_chunks" THEN Absent ELSE h1[m]
        BY <3>1, DroppedValues, TheNames DEF h3
      <3> QED BY <3>2, WhereTheyBelong
    <2> QED BY <1>1, <2>1, TheNames
  <1>3. /\ h4 \in Forms
        /\ \A m \in Names : h4[m] =
                  IF m \in {"vector_chunks_v4", "vector_chunks_source_idx"} THEN Absent
                  ELSE IF m = "vector_chunks" THEN 3 ELSE g[m]
    <2>1. /\ h4 \in Forms
          /\ \A m \in Names : h4[m] =
                  IF m = "vector_chunks_v4" THEN Absent
                  ELSE IF m = "vector_chunks" THEN h3["vector_chunks_v4"] ELSE h3[m]
      <3>1. h3 \in Forms
        BY <1>2
      <3> QED BY <3>1, InPlaceValues, TheNames, WhereTheyBelong DEF h4
    <2> QED BY <1>2, <2>1, TheNames
  <1>4. /\ h5 \in Forms
        /\ \A m \in Names : h5[m] =
                  IF m = "vector_chunks_v4" THEN Absent
                  ELSE IF m \in {"vector_chunks", "vector_chunks_source_idx"} THEN 3 ELSE g[m]
    <2>1. /\ h5 \in Forms
          /\ \A m \in Names : h5[m] =
                  IF m = "vector_chunks_source_idx" THEN 3 ELSE h4[m]
      <3>1. h4 \in Forms
        BY <1>3
      <3> QED BY <3>1, PutValues, TheNames DEF h5
    <2> QED BY <1>3, <2>1, TheNames
  <1>5. Becomes(script[1], g, h1, 3)
    <2>1. WellNamed(script[1]) /\ Effect(g, script[1], 3) = h1
      BY Statements3 DEF script, h1
    <2>2. Turns(script[1], g, h1, 3)
      BY <2>1, Statements3, TheNames, TableNames
         DEF Turns, script, Absent, Newest, Reopens, FirstTables, Lexical, Vectors
    <2> QED BY <1>0, <2>2, NextForms, Zenon
  <1>6. Becomes(script[2], h1, h1, 3)
    <2>1. WellNamed(script[2]) /\ Effect(h1, script[2], 3) = h1
      BY Statements3 DEF script
    <2>2. Turns(script[2], h1, h1, 3)
      BY <2>1, <1>1, Statements3, TheNames, TableNames
         DEF Turns, script, Absent, Newest, Reopens, FirstTables, Lexical, Vectors
    <2> QED BY <1>0, <1>1, <2>2, NextForms, Zenon
  <1>7. Becomes(script[3], h1, h3, 3)
    <2>1. WellNamed(script[3]) /\ Effect(h1, script[3], 3) = h3
      BY Statements3 DEF script, h3
    <2>2. Turns(script[3], h1, h3, 3)
      BY <2>1, <1>1, Statements3, TheNames, TableNames
         DEF Turns, script, Absent, Newest, Reopens, FirstTables, Lexical, Vectors
    <2> QED BY <1>0, <1>1, <2>2, NextForms, Zenon
  <1>8. Becomes(script[4], h3, h4, 3)
    <2>1. WellNamed(script[4]) /\ Effect(h3, script[4], 3) = h4
      BY Statements3 DEF script, h4
    <2>2. Turns(script[4], h3, h4, 3)
      BY <2>1, <1>2, Statements3, TheNames, TableNames
         DEF Turns, script, Absent, Newest, Reopens, FirstTables, Lexical, Vectors
    <2> QED BY <1>0, <1>2, <2>2, NextForms, Zenon
  <1>9. Becomes(script[5], h4, h5, 3)
    <2>1. WellNamed(script[5]) /\ Effect(h4, script[5], 3) = h5
      BY Statements3 DEF script, h5
    <2>2. Turns(script[5], h4, h5, 3)
      BY <2>1, <1>3, Statements3, TheNames, TableNames
         DEF Turns, script, Absent, Newest, Reopens, FirstTables, Lexical, Vectors
    <2> QED BY <1>0, <1>3, <2>2, NextForms, Zenon
  <1>10. Becomes(script[6], h5, h5, 3)
    <2>1. WellNamed(script[6]) /\ Effect(h5, script[6], 3) = h5
      BY Statements3 DEF script
    <2>2. Turns(script[6], h5, h5, 3)
      BY <2>1, <1>4, Statements3, TheNames, TableNames
         DEF Turns, script, Absent, Newest, Reopens, FirstTables, Lexical, Vectors
    <2> QED BY <1>0, <1>4, <2>2, NextForms, Zenon
  <1>11. PICK run : PathAlone(run, g, 3, script, 6)
    BY <1>0, ScriptRunsFrom, Zenon
  <1>12. /\ run[0] = {SchemaWith(g)}
        /\ run[6] = ScriptAlone({SchemaWith(g)}, 3)
        /\ run[1] = StatementAlone(run[0], script[1], 3)
        /\ run[2] = StatementAlone(run[1], script[2], 3)
        /\ run[3] = StatementAlone(run[2], script[3], 3)
        /\ run[4] = StatementAlone(run[3], script[4], 3)
        /\ run[5] = StatementAlone(run[4], script[5], 3)
        /\ run[6] = StatementAlone(run[5], script[6], 3)
    BY <1>11 DEF PathAlone
  <1>13. run[6] = {SchemaWith(h5)}
    BY <1>12, <1>5, <1>6, <1>7, <1>8, <1>9, <1>10 DEF Becomes
  <1>14. h5 = Result(3, g)
    <2>1. \A m \in Names : h5[m] = Result(3, g)[m]
      BY <1>4, ResultValues, WhatIsMade, TheNames, TableNames
         DEF FirstTables, Lexical, Vectors, Resumable, Reopens, Absent, Newest
    <2>2. Result(3, g) \in Forms
      BY ResultValues
    <2> QED BY <1>4, <2>1, <2>2, SameForms
  <1> QED BY <1>12, <1>13, <1>14

LEMMA ScriptRuns4Adding ==
    ASSUME NEW g \in Forms, Reopens(4, g), g["paused"] = Absent
    PROVE  ScriptAlone({SchemaWith(g)}, 4) = {SchemaWith(Result(4, g))}
  <1> DEFINE h2 == Put(g, "paused", 4)
             script == ScriptOf(4)
  <1> HIDE DEF h2, script
  <1>0. 4 \in 0 .. 7 /\ g \in Forms /\ script = ScriptOf(4) /\ 3 = Len(ScriptOf(4))
    BY Script4 DEF script
  <1>1. /\ h2 \in Forms
        /\ \A m \in Names : h2[m] =
                  IF m = "paused" THEN 4 ELSE g[m]
    BY PutValues, TheNames DEF h2
  <1>2. Becomes(script[1], g, g, 4)
    <2>1. WellNamed(script[1]) /\ Effect(g, script[1], 4) = g
      BY Statements4 DEF script
    <2>2. Turns(script[1], g, g, 4)
      BY <2>1, Statements4, TheNames, TableNames
         DEF Turns, script, Absent, Newest, Reopens, FirstTables, Lexical, Vectors
    <2> QED BY <1>0, <2>2, NextForms, Zenon
  <1>3. Becomes(script[2], g, h2, 4)
    <2>1. WellNamed(script[2]) /\ Effect(g, script[2], 4) = h2
      BY Statements4 DEF script, h2
    <2>2. Turns(script[2], g, h2, 4)
      BY <2>1, Statements4, TheNames, TableNames
         DEF Turns, script, Absent, Newest, Reopens, FirstTables, Lexical, Vectors
    <2> QED BY <1>0, <2>2, NextForms, Zenon
  <1>4. Becomes(script[3], h2, h2, 4)
    <2>1. WellNamed(script[3]) /\ Effect(h2, script[3], 4) = h2
      BY Statements4 DEF script
    <2>2. Turns(script[3], h2, h2, 4)
      BY <2>1, <1>1, Statements4, TheNames, TableNames
         DEF Turns, script, Absent, Newest, Reopens, FirstTables, Lexical, Vectors
    <2> QED BY <1>0, <1>1, <2>2, NextForms, Zenon
  <1>5. PICK run : PathAlone(run, g, 4, script, 3)
    BY <1>0, ScriptRunsFrom, Zenon
  <1>6. /\ run[0] = {SchemaWith(g)}
        /\ run[3] = ScriptAlone({SchemaWith(g)}, 4)
        /\ run[1] = StatementAlone(run[0], script[1], 4)
        /\ run[2] = StatementAlone(run[1], script[2], 4)
        /\ run[3] = StatementAlone(run[2], script[3], 4)
    BY <1>5 DEF PathAlone
  <1>7. run[3] = {SchemaWith(h2)}
    BY <1>6, <1>2, <1>3, <1>4 DEF Becomes
  <1>8. h2 = Result(4, g)
    <2>1. \A m \in Names : h2[m] = Result(4, g)[m]
      BY <1>1, ResultValues, WhatIsMade, TheNames, TableNames
         DEF FirstTables, Lexical, Vectors, Resumable, Reopens, Absent, Newest
    <2>2. Result(4, g) \in Forms
      BY ResultValues
    <2> QED BY <1>1, <2>1, <2>2, SameForms
  <1> QED BY <1>6, <1>7, <1>8

LEMMA ScriptRuns4Skipping ==
    ASSUME NEW g \in Forms, Reopens(4, g), g["paused"] # Absent
    PROVE  ScriptAlone({SchemaWith(g)}, 4) = {SchemaWith(Result(4, g))}
  <1> DEFINE script == ScriptOf(4)
  <1> HIDE DEF script
  <1>0. 4 \in 0 .. 7 /\ g \in Forms /\ script = ScriptOf(4) /\ 3 = Len(ScriptOf(4))
    BY Script4 DEF script
  <1>1. Becomes(script[1], g, g, 4)
    <2>1. WellNamed(script[1]) /\ Effect(g, script[1], 4) = g
      BY Statements4 DEF script
    <2>2. Turns(script[1], g, g, 4)
      BY <2>1, Statements4, TheNames, TableNames
         DEF Turns, script, Absent, Newest, Reopens, FirstTables, Lexical, Vectors
    <2> QED BY <1>0, <2>2, NextForms, Zenon
  <1>2. Becomes(script[2], g, g, 4)
    <2>1. WellNamed(script[2]) /\ script[2].op = "add_column" /\ script[2].name = "paused"
      BY Statements4 DEF script
    <2> QED BY <1>0, <2>1, AloneSkips DEF Becomes
  <1>3. Becomes(script[3], g, g, 4)
    <2>1. WellNamed(script[3]) /\ Effect(g, script[3], 4) = g
      BY Statements4 DEF script
    <2>2. Turns(script[3], g, g, 4)
      BY <2>1, Statements4, TheNames, TableNames
         DEF Turns, script, Absent, Newest, Reopens, FirstTables, Lexical, Vectors
    <2> QED BY <1>0, <2>2, NextForms, Zenon
  <1>4. PICK run : PathAlone(run, g, 4, script, 3)
    BY <1>0, ScriptRunsFrom, Zenon
  <1>5. /\ run[0] = {SchemaWith(g)}
        /\ run[3] = ScriptAlone({SchemaWith(g)}, 4)
        /\ run[1] = StatementAlone(run[0], script[1], 4)
        /\ run[2] = StatementAlone(run[1], script[2], 4)
        /\ run[3] = StatementAlone(run[2], script[3], 4)
    BY <1>4 DEF PathAlone
  <1>6. run[3] = {SchemaWith(g)}
    BY <1>5, <1>1, <1>2, <1>3 DEF Becomes
  <1>7. g = Result(4, g)
    <2>1. \A m \in Names : g[m] = Result(4, g)[m]
      BY ResultValues, WhatIsMade, TheNames, TableNames
         DEF FirstTables, Lexical, Vectors, Resumable, Reopens, Absent, Newest
    <2>2. Result(4, g) \in Forms
      BY ResultValues
    <2> QED BY <2>1, <2>2, SameForms
  <1> QED BY <1>5, <1>6, <1>7

LEMMA ScriptRuns5Creating ==
    ASSUME NEW g \in Forms, Reopens(5, g), g["agent_action_audit"] = Absent
    PROVE  ScriptAlone({SchemaWith(g)}, 5) = {SchemaWith(Result(5, g))}
  <1> DEFINE h1 == Put(g, "agent_action_audit", 5)
             script == ScriptOf(5)
  <1> HIDE DEF h1, script
  <1>0. 5 \in 0 .. 7 /\ g \in Forms /\ script = ScriptOf(5) /\ 2 = Len(ScriptOf(5))
    BY Script5 DEF script
  <1>1. /\ h1 \in Forms
        /\ \A m \in Names : h1[m] =
                  IF m = "agent_action_audit" THEN 5 ELSE g[m]
    BY PutValues, TheNames DEF h1
  <1>2. Becomes(script[1], g, h1, 5)
    <2>1. WellNamed(script[1]) /\ Effect(g, script[1], 5) = h1
      BY Statements5 DEF script, h1
    <2>2. Turns(script[1], g, h1, 5)
      BY <2>1, Statements5, TheNames, TableNames
         DEF Turns, script, Absent, Newest, Reopens, FirstTables, Lexical, Vectors
    <2> QED BY <1>0, <2>2, NextForms, Zenon
  <1>3. Becomes(script[2], h1, h1, 5)
    <2>1. WellNamed(script[2]) /\ Effect(h1, script[2], 5) = h1
      BY Statements5 DEF script
    <2>2. Turns(script[2], h1, h1, 5)
      BY <2>1, <1>1, Statements5, TheNames, TableNames
         DEF Turns, script, Absent, Newest, Reopens, FirstTables, Lexical, Vectors
    <2> QED BY <1>0, <1>1, <2>2, NextForms, Zenon
  <1>4. PICK run : PathAlone(run, g, 5, script, 2)
    BY <1>0, ScriptRunsFrom, Zenon
  <1>5. /\ run[0] = {SchemaWith(g)}
        /\ run[2] = ScriptAlone({SchemaWith(g)}, 5)
        /\ run[1] = StatementAlone(run[0], script[1], 5)
        /\ run[2] = StatementAlone(run[1], script[2], 5)
    BY <1>4 DEF PathAlone
  <1>6. run[2] = {SchemaWith(h1)}
    BY <1>5, <1>2, <1>3 DEF Becomes
  <1>7. h1 = Result(5, g)
    <2>1. \A m \in Names : h1[m] = Result(5, g)[m]
      BY <1>1, ResultValues, WhatIsMade, TheNames, TableNames
         DEF FirstTables, Lexical, Vectors, Resumable, Reopens, Absent, Newest
    <2>2. Result(5, g) \in Forms
      BY ResultValues
    <2> QED BY <1>1, <2>1, <2>2, SameForms
  <1> QED BY <1>5, <1>6, <1>7

LEMMA ScriptRuns5Passing ==
    ASSUME NEW g \in Forms, Reopens(5, g), g["agent_action_audit"] # Absent
    PROVE  ScriptAlone({SchemaWith(g)}, 5) = {SchemaWith(Result(5, g))}
  <1> DEFINE script == ScriptOf(5)
  <1> HIDE DEF script
  <1>0. 5 \in 0 .. 7 /\ g \in Forms /\ script = ScriptOf(5) /\ 2 = Len(ScriptOf(5))
    BY Script5 DEF script
  <1>1. Becomes(script[1], g, g, 5)
    <2>1. WellNamed(script[1]) /\ Effect(g, script[1], 5) = g
      BY Statements5 DEF script
    <2>2. Turns(script[1], g, g, 5)
      BY <2>1, Statements5, TheNames, TableNames
         DEF Turns, script, Absent, Newest, Reopens, FirstTables, Lexical, Vectors
    <2> QED BY <1>0, <2>2, NextForms, Zenon
  <1>2. Becomes(script[2], g, g, 5)
    <2>1. WellNamed(script[2]) /\ Effect(g, script[2], 5) = g
      BY Statements5 DEF script
    <2>2. Turns(script[2], g, g, 5)
      BY <2>1, Statements5, TheNames, TableNames
         DEF Turns, script, Absent, Newest, Reopens, FirstTables, Lexical, Vectors
    <2> QED BY <1>0, <2>2, NextForms, Zenon
  <1>3. PICK run : PathAlone(run, g, 5, script, 2)
    BY <1>0, ScriptRunsFrom, Zenon
  <1>4. /\ run[0] = {SchemaWith(g)}
        /\ run[2] = ScriptAlone({SchemaWith(g)}, 5)
        /\ run[1] = StatementAlone(run[0], script[1], 5)
        /\ run[2] = StatementAlone(run[1], script[2], 5)
    BY <1>3 DEF PathAlone
  <1>5. run[2] = {SchemaWith(g)}
    BY <1>4, <1>1, <1>2 DEF Becomes
  <1>6. g = Result(5, g)
    <2>1. \A m \in Names : g[m] = Result(5, g)[m]
      BY ResultValues, WhatIsMade, TheNames, TableNames
         DEF FirstTables, Lexical, Vectors, Resumable, Reopens, Absent, Newest
    <2>2. Result(5, g) \in Forms
      BY ResultValues
    <2> QED BY <2>1, <2>2, SameForms
  <1> QED BY <1>4, <1>5, <1>6

LEMMA ScriptRuns6Creating ==
    ASSUME NEW g \in Forms, Reopens(6, g), g["agent_action_workflows"] = Absent
    PROVE  ScriptAlone({SchemaWith(g)}, 6) = {SchemaWith(Result(6, g))}
  <1> DEFINE h1 == Put(g, "agent_action_workflows", 6)
             script == ScriptOf(6)
  <1> HIDE DEF h1, script
  <1>0. 6 \in 0 .. 7 /\ g \in Forms /\ script = ScriptOf(6) /\ 2 = Len(ScriptOf(6))
    BY Script6 DEF script
  <1>1. /\ h1 \in Forms
        /\ \A m \in Names : h1[m] =
                  IF m = "agent_action_workflows" THEN 6 ELSE g[m]
    BY PutValues, TheNames DEF h1
  <1>2. Becomes(script[1], g, h1, 6)
    <2>1. WellNamed(script[1]) /\ Effect(g, script[1], 6) = h1
      BY Statements6 DEF script, h1
    <2>2. Turns(script[1], g, h1, 6)
      BY <2>1, Statements6, TheNames, TableNames
         DEF Turns, script, Absent, Newest, Reopens, FirstTables, Lexical, Vectors
    <2> QED BY <1>0, <2>2, NextForms, Zenon
  <1>3. Becomes(script[2], h1, h1, 6)
    <2>1. WellNamed(script[2]) /\ Effect(h1, script[2], 6) = h1
      BY Statements6 DEF script
    <2>2. Turns(script[2], h1, h1, 6)
      BY <2>1, <1>1, Statements6, TheNames, TableNames
         DEF Turns, script, Absent, Newest, Reopens, FirstTables, Lexical, Vectors
    <2> QED BY <1>0, <1>1, <2>2, NextForms, Zenon
  <1>4. PICK run : PathAlone(run, g, 6, script, 2)
    BY <1>0, ScriptRunsFrom, Zenon
  <1>5. /\ run[0] = {SchemaWith(g)}
        /\ run[2] = ScriptAlone({SchemaWith(g)}, 6)
        /\ run[1] = StatementAlone(run[0], script[1], 6)
        /\ run[2] = StatementAlone(run[1], script[2], 6)
    BY <1>4 DEF PathAlone
  <1>6. run[2] = {SchemaWith(h1)}
    BY <1>5, <1>2, <1>3 DEF Becomes
  <1>7. h1 = Result(6, g)
    <2>1. \A m \in Names : h1[m] = Result(6, g)[m]
      BY <1>1, ResultValues, WhatIsMade, TheNames, TableNames
         DEF FirstTables, Lexical, Vectors, Resumable, Reopens, Absent, Newest
    <2>2. Result(6, g) \in Forms
      BY ResultValues
    <2> QED BY <1>1, <2>1, <2>2, SameForms
  <1> QED BY <1>5, <1>6, <1>7

LEMMA ScriptRuns6Passing ==
    ASSUME NEW g \in Forms, Reopens(6, g), g["agent_action_workflows"] # Absent
    PROVE  ScriptAlone({SchemaWith(g)}, 6) = {SchemaWith(Result(6, g))}
  <1> DEFINE script == ScriptOf(6)
  <1> HIDE DEF script
  <1>0. 6 \in 0 .. 7 /\ g \in Forms /\ script = ScriptOf(6) /\ 2 = Len(ScriptOf(6))
    BY Script6 DEF script
  <1>1. Becomes(script[1], g, g, 6)
    <2>1. WellNamed(script[1]) /\ Effect(g, script[1], 6) = g
      BY Statements6 DEF script
    <2>2. Turns(script[1], g, g, 6)
      BY <2>1, Statements6, TheNames, TableNames
         DEF Turns, script, Absent, Newest, Reopens, FirstTables, Lexical, Vectors
    <2> QED BY <1>0, <2>2, NextForms, Zenon
  <1>2. Becomes(script[2], g, g, 6)
    <2>1. WellNamed(script[2]) /\ Effect(g, script[2], 6) = g
      BY Statements6 DEF script
    <2>2. Turns(script[2], g, g, 6)
      BY <2>1, Statements6, TheNames, TableNames
         DEF Turns, script, Absent, Newest, Reopens, FirstTables, Lexical, Vectors
    <2> QED BY <1>0, <2>2, NextForms, Zenon
  <1>3. PICK run : PathAlone(run, g, 6, script, 2)
    BY <1>0, ScriptRunsFrom, Zenon
  <1>4. /\ run[0] = {SchemaWith(g)}
        /\ run[2] = ScriptAlone({SchemaWith(g)}, 6)
        /\ run[1] = StatementAlone(run[0], script[1], 6)
        /\ run[2] = StatementAlone(run[1], script[2], 6)
    BY <1>3 DEF PathAlone
  <1>5. run[2] = {SchemaWith(g)}
    BY <1>4, <1>1, <1>2 DEF Becomes
  <1>6. g = Result(6, g)
    <2>1. \A m \in Names : g[m] = Result(6, g)[m]
      BY ResultValues, WhatIsMade, TheNames, TableNames
         DEF FirstTables, Lexical, Vectors, Resumable, Reopens, Absent, Newest
    <2>2. Result(6, g) \in Forms
      BY ResultValues
    <2> QED BY <2>1, <2>2, SameForms
  <1> QED BY <1>4, <1>5, <1>6

LEMMA ScriptRuns7 ==
    ASSUME NEW g \in Forms, Reopens(7, g)
    PROVE  ScriptAlone({SchemaWith(g)}, 7) = {SchemaWith(Result(7, g))}
  <1> DEFINE h1 == Put(g, "agent_action_audit_v8", 7)
             h3 == Dropped(h1, "agent_action_audit")
             h4 == InPlace(h3, "agent_action_audit")
             h5 == Put(h4, "agent_action_audit_operation_idx", 7)
             h6 == Put(h5, "agent_action_workflows_v8", 7)
             h8 == Dropped(h6, "agent_action_workflows")
             h9 == InPlace(h8, "agent_action_workflows")
             script == ScriptOf(7)
  <1> HIDE DEF h1, h3, h4, h5, h6, h8, h9, script
  <1>0. 7 \in 0 .. 7 /\ g \in Forms /\ script = ScriptOf(7) /\ 10 = Len(ScriptOf(7))
    BY Script7 DEF script
  <1>1. /\ h1 \in Forms
        /\ \A m \in Names : h1[m] =
                  IF m = "agent_action_audit_v8" THEN 7 ELSE g[m]
    BY PutValues, TheNames DEF h1
  <1>2. /\ h3 \in Forms
        /\ \A m \in Names : h3[m] =
                  IF m = "agent_action_audit_v8" THEN 7
                  ELSE IF m \in {"agent_action_audit", "agent_action_audit_operation_idx"} THEN Absent ELSE g[m]
    <2>1. /\ h3 \in Forms
          /\ \A m \in Names : h3[m] =
                  IF m \in {"agent_action_audit", "agent_action_audit_operation_idx"} THEN Absent ELSE h1[m]
      <3>1. h1 \in Forms
        BY <1>1
      <3>2. /\ h3 \in Forms
            /\ \A m \in Names : h3[m] =
                 IF m = "agent_action_audit" \/ Carrier(m) = "agent_action_audit" THEN Absent ELSE h1[m]
        BY <3>1, DroppedValues, TheNames DEF h3
      <3> QED BY <3>2, WhereTheyBelong
    <2> QED BY <1>1, <2>1, TheNames
  <1>3. /\ h4 \in Forms
        /\ \A m \in Names : h4[m] =
                  IF m \in {"agent_action_audit_v8", "agent_action_audit_operation_idx"} THEN Absent
                  ELSE IF m = "agent_action_audit" THEN 7 ELSE g[m]
    <2>1. /\ h4 \in Forms
          /\ \A m \in Names : h4[m] =
                  IF m = "agent_action_audit_v8" THEN Absent
                  ELSE IF m = "agent_action_audit" THEN h3["agent_action_audit_v8"] ELSE h3[m]
      <3>1. h3 \in Forms
        BY <1>2
      <3> QED BY <3>1, InPlaceValues, TheNames, WhereTheyBelong DEF h4
    <2> QED BY <1>2, <2>1, TheNames
  <1>4. /\ h5 \in Forms
        /\ \A m \in Names : h5[m] =
                  IF m = "agent_action_audit_v8" THEN Absent
                  ELSE IF m \in {"agent_action_audit", "agent_action_audit_operation_idx"} THEN 7 ELSE g[m]
    <2>1. /\ h5 \in Forms
          /\ \A m \in Names : h5[m] =
                  IF m = "agent_action_audit_operation_idx" THEN 7 ELSE h4[m]
      <3>1. h4 \in Forms
        BY <1>3
      <3> QED BY <3>1, PutValues, TheNames DEF h5
    <2> QED BY <1>3, <2>1, TheNames
  <1>5. /\ h6 \in Forms
        /\ \A m \in Names : h6[m] =
                  IF m = "agent_action_audit_v8" THEN Absent
                  ELSE IF m \in {"agent_action_audit", "agent_action_audit_operation_idx", "agent_action_workflows_v8"} THEN 7 ELSE g[m]
    <2>1. /\ h6 \in Forms
          /\ \A m \in Names : h6[m] =
                  IF m = "agent_action_workflows_v8" THEN 7 ELSE h5[m]
      <3>1. h5 \in Forms
        BY <1>4
      <3> QED BY <3>1, PutValues, TheNames DEF h6
    <2> QED BY <1>4, <2>1, TheNames
  <1>6. /\ h8 \in Forms
        /\ \A m \in Names : h8[m] =
                  IF m \in {"agent_action_audit_v8", "agent_action_workflows"} THEN Absent
                  ELSE IF m \in {"agent_action_audit", "agent_action_audit_operation_idx", "agent_action_workflows_v8"} THEN 7 ELSE g[m]
    <2>1. /\ h8 \in Forms
          /\ \A m \in Names : h8[m] =
                  IF m = "agent_action_workflows" THEN Absent ELSE h6[m]
      <3>1. h6 \in Forms
        BY <1>5
      <3>2. /\ h8 \in Forms
            /\ \A m \in Names : h8[m] =
                 IF m = "agent_action_workflows" \/ Carrier(m) = "agent_action_workflows" THEN Absent ELSE h6[m]
        BY <3>1, DroppedValues, TheNames DEF h8
      <3> QED BY <3>2, WhereTheyBelong
    <2> QED BY <1>5, <2>1, TheNames
  <1>7. /\ h9 \in Forms
        /\ \A m \in Names : h9[m] =
                  IF m \in {"agent_action_audit_v8", "agent_action_workflows_v8"} THEN Absent
                  ELSE IF m \in {"agent_action_audit", "agent_action_audit_operation_idx", "agent_action_workflows"} THEN 7 ELSE g[m]
    <2>1. /\ h9 \in Forms
          /\ \A m \in Names : h9[m] =
                  IF m = "agent_action_workflows_v8" THEN Absent
                  ELSE IF m = "agent_action_workflows" THEN h8["agent_action_workflows_v8"] ELSE h8[m]
      <3>1. h8 \in Forms
        BY <1>6
      <3> QED BY <3>1, InPlaceValues, TheNames, WhereTheyBelong DEF h9
    <2> QED BY <1>6, <2>1, TheNames
  <1>8. Becomes(script[1], g, h1, 7)
    <2>1. WellNamed(script[1]) /\ Effect(g, script[1], 7) = h1
      BY Statements7 DEF script, h1
    <2>2. Turns(script[1], g, h1, 7)
      BY <2>1, Statements7, TheNames, TableNames
         DEF Turns, script, Absent, Newest, Reopens, FirstTables, Lexical, Vectors
    <2> QED BY <1>0, <2>2, NextForms, Zenon
  <1>9. Becomes(script[2], h1, h1, 7)
    <2>1. WellNamed(script[2]) /\ Effect(h1, script[2], 7) = h1
      BY Statements7 DEF script
    <2>2. Turns(script[2], h1, h1, 7)
      BY <2>1, <1>1, Statements7, TheNames, TableNames
         DEF Turns, script, Absent, Newest, Reopens, FirstTables, Lexical, Vectors
    <2> QED BY <1>0, <1>1, <2>2, NextForms, Zenon
  <1>10. Becomes(script[3], h1, h3, 7)
    <2>1. WellNamed(script[3]) /\ Effect(h1, script[3], 7) = h3
      BY Statements7 DEF script, h3
    <2>2. Turns(script[3], h1, h3, 7)
      BY <2>1, <1>1, Statements7, TheNames, TableNames
         DEF Turns, script, Absent, Newest, Reopens, FirstTables, Lexical, Vectors
    <2> QED BY <1>0, <1>1, <2>2, NextForms, Zenon
  <1>11. Becomes(script[4], h3, h4, 7)
    <2>1. WellNamed(script[4]) /\ Effect(h3, script[4], 7) = h4
      BY Statements7 DEF script, h4
    <2>2. Turns(script[4], h3, h4, 7)
      BY <2>1, <1>2, Statements7, TheNames, TableNames
         DEF Turns, script, Absent, Newest, Reopens, FirstTables, Lexical, Vectors
    <2> QED BY <1>0, <1>2, <2>2, NextForms, Zenon
  <1>12. Becomes(script[5], h4, h5, 7)
    <2>1. WellNamed(script[5]) /\ Effect(h4, script[5], 7) = h5
      BY Statements7 DEF script, h5
    <2>2. Turns(script[5], h4, h5, 7)
      BY <2>1, <1>3, Statements7, TheNames, TableNames
         DEF Turns, script, Absent, Newest, Reopens, FirstTables, Lexical, Vectors
    <2> QED BY <1>0, <1>3, <2>2, NextForms, Zenon
  <1>13. Becomes(script[6], h5, h6, 7)
    <2>1. WellNamed(script[6]) /\ Effect(h5, script[6], 7) = h6
      BY Statements7 DEF script, h6
    <2>2. Turns(script[6], h5, h6, 7)
      BY <2>1, <1>4, Statements7, TheNames, TableNames
         DEF Turns, script, Absent, Newest, Reopens, FirstTables, Lexical, Vectors
    <2> QED BY <1>0, <1>4, <2>2, NextForms, Zenon
  <1>14. Becomes(script[7], h6, h6, 7)
    <2>1. WellNamed(script[7]) /\ Effect(h6, script[7], 7) = h6
      BY Statements7 DEF script
    <2>2. Turns(script[7], h6, h6, 7)
      BY <2>1, <1>5, Statements7, TheNames, TableNames
         DEF Turns, script, Absent, Newest, Reopens, FirstTables, Lexical, Vectors
    <2> QED BY <1>0, <1>5, <2>2, NextForms, Zenon
  <1>15. Becomes(script[8], h6, h8, 7)
    <2>1. WellNamed(script[8]) /\ Effect(h6, script[8], 7) = h8
      BY Statements7 DEF script, h8
    <2>2. Turns(script[8], h6, h8, 7)
      BY <2>1, <1>5, Statements7, TheNames, TableNames
         DEF Turns, script, Absent, Newest, Reopens, FirstTables, Lexical, Vectors
    <2> QED BY <1>0, <1>5, <2>2, NextForms, Zenon
  <1>16. Becomes(script[9], h8, h9, 7)
    <2>1. WellNamed(script[9]) /\ Effect(h8, script[9], 7) = h9
      BY Statements7 DEF script, h9
    <2>2. Turns(script[9], h8, h9, 7)
      BY <2>1, <1>6, Statements7, TheNames, TableNames
         DEF Turns, script, Absent, Newest, Reopens, FirstTables, Lexical, Vectors
    <2> QED BY <1>0, <1>6, <2>2, NextForms, Zenon
  <1>17. Becomes(script[10], h9, h9, 7)
    <2>1. WellNamed(script[10]) /\ Effect(h9, script[10], 7) = h9
      BY Statements7 DEF script
    <2>2. Turns(script[10], h9, h9, 7)
      BY <2>1, <1>7, Statements7, TheNames, TableNames
         DEF Turns, script, Absent, Newest, Reopens, FirstTables, Lexical, Vectors
    <2> QED BY <1>0, <1>7, <2>2, NextForms, Zenon
  <1>18. PICK run : PathAlone(run, g, 7, script, 10)
    BY <1>0, ScriptRunsFrom, Zenon
  <1>19. /\ run[0] = {SchemaWith(g)}
        /\ run[10] = ScriptAlone({SchemaWith(g)}, 7)
        /\ run[1] = StatementAlone(run[0], script[1], 7)
        /\ run[2] = StatementAlone(run[1], script[2], 7)
        /\ run[3] = StatementAlone(run[2], script[3], 7)
        /\ run[4] = StatementAlone(run[3], script[4], 7)
        /\ run[5] = StatementAlone(run[4], script[5], 7)
        /\ run[6] = StatementAlone(run[5], script[6], 7)
        /\ run[7] = StatementAlone(run[6], script[7], 7)
        /\ run[8] = StatementAlone(run[7], script[8], 7)
        /\ run[9] = StatementAlone(run[8], script[9], 7)
        /\ run[10] = StatementAlone(run[9], script[10], 7)
    BY <1>18 DEF PathAlone
  <1>20. run[10] = {SchemaWith(h9)}
    BY <1>19, <1>8, <1>9, <1>10, <1>11, <1>12, <1>13, <1>14, <1>15, <1>16, <1>17 DEF Becomes
  <1>21. h9 = Result(7, g)
    <2>1. \A m \in Names : h9[m] = Result(7, g)[m]
      BY <1>7, ResultValues, WhatIsMade, TheNames, TableNames
         DEF FirstTables, Lexical, Vectors, Resumable, Reopens, Absent, Newest
    <2>2. Result(7, g) \in Forms
      BY ResultValues
    <2> QED BY <1>7, <2>1, <2>2, SameForms
  <1> QED BY <1>19, <1>20, <1>21

\* A database that can be opened goes through each script.
LEMMA ScriptLeadsOn ==
    ASSUME NEW v \in 0 .. 7, NEW g \in Forms, Reopens(v, g)
    PROVE  /\ ScriptAlone({SchemaWith(g)}, v) = {SchemaWith(Result(v, g))}
           /\ Result(v, g) \in Forms
           /\ Reopens(v + 1, Result(v, g))
  <1>1. Result(v, g) \in Forms /\ Reopens(v + 1, Result(v, g))
    BY ResultValues, ResultReopens

  <1>2. CASE v = 0
    BY <1>1, <1>2, ScriptRuns0
  <1>3. CASE v = 1
    BY <1>1, <1>3, ScriptRuns1
  <1>4. CASE v = 2
    BY <1>1, <1>4, ScriptRuns2
  <1>5. CASE v = 3
    BY <1>1, <1>5, ScriptRuns3
  <1>6. CASE v = 4
    BY <1>1, <1>6, ScriptRuns4Adding, ScriptRuns4Skipping
  <1>7. CASE v = 5
    BY <1>1, <1>7, ScriptRuns5Creating, ScriptRuns5Passing
  <1>8. CASE v = 6
    BY <1>1, <1>8, ScriptRuns6Creating, ScriptRuns6Passing
  <1>9. CASE v = 7
    BY <1>1, <1>9, ScriptRuns7
  <1>10. v = 0 \/ v = 1 \/ v = 2 \/ v = 3 \/ v = 4 \/ v = 5 \/ v = 6 \/ v = 7
    OBVIOUS
  <1> QED BY <1>2, <1>3, <1>4, <1>5, <1>6, <1>7, <1>8, <1>9, <1>10

----------------------------------------------------------------------------
(* What the scripts lead to                                                *)

\* The forms in a database of version v that nobody has touched.
FormAt(v) ==
    [n \in Names |->
       CASE n \in FirstTables /\ v > 0 -> 0
         [] n \in Lexical /\ v > 1 -> 1
         [] n \in Vectors /\ v > 2 -> IF v = 3 THEN 2 ELSE 3
         [] n = "paused" /\ v > 4 -> 4
         [] n = "agent_action_audit" /\ v > 5 -> IF v = 8 THEN 7 ELSE 5
         [] n = "agent_action_workflows" /\ v > 6 -> IF v = 8 THEN 7 ELSE 6
         [] n = "agent_action_audit_operation_idx" /\ v > 7 -> 7
         [] OTHER -> Absent]

\* The same, name by name.
LEMMA FormsAre ==
    ASSUME NEW v \in 0 .. 8
    PROVE  /\ FormAt(v) \in Forms
           /\ \A n \in FirstTables : FormAt(v)[n] = IF v > 0 THEN 0 ELSE Absent
           /\ \A n \in Lexical : FormAt(v)[n] = IF v > 1 THEN 1 ELSE Absent
           /\ \A n \in Vectors : FormAt(v)[n] =
                IF v <= 2 THEN Absent ELSE IF v = 3 THEN 2 ELSE 3
           /\ FormAt(v)["paused"] = IF v > 4 THEN 4 ELSE Absent
           /\ FormAt(v)["agent_action_audit"] =
                IF v <= 5 THEN Absent ELSE IF v = 8 THEN 7 ELSE 5
           /\ FormAt(v)["agent_action_workflows"] =
                IF v <= 6 THEN Absent ELSE IF v = 8 THEN 7 ELSE 6
           /\ FormAt(v)["agent_action_audit_operation_idx"] = IF v = 8 THEN 7 ELSE Absent
           /\ \A n \in Copies : FormAt(v)[n] = Absent
  <1>1. ASSUME NEW n \in Names PROVE FormAt(v)[n] \in 0 .. 8
    BY DEF FormAt, Absent, Newest
  <1>2. FormAt(v) \in Forms
    <2>1. FormAt(v) = [n \in Names |-> FormAt(v)[n]]
      BY DEF FormAt
    <2> QED BY <1>1, <2>1 DEF Forms, Newest
  <1>3. \A n \in FirstTables : FormAt(v)[n] = IF v > 0 THEN 0 ELSE Absent
    <2>1. ASSUME NEW n \in FirstTables
          PROVE  FormAt(v)[n] = IF v > 0 THEN 0 ELSE Absent
      <3>1. n \in Names
        BY DEF Names
      <3> QED BY <3>1 DEF FormAt, FirstTables, Lexical, Vectors
    <2> QED BY <2>1
  <1>4. \A n \in Lexical : FormAt(v)[n] = IF v > 1 THEN 1 ELSE Absent
    <2>1. ASSUME NEW n \in Lexical
          PROVE  FormAt(v)[n] = IF v > 1 THEN 1 ELSE Absent
      <3>1. n \in Names
        BY DEF Names
      <3> QED BY <3>1 DEF FormAt, FirstTables, Lexical, Vectors
    <2> QED BY <2>1
  <1>5. \A n \in Vectors : FormAt(v)[n] =
          IF v <= 2 THEN Absent ELSE IF v = 3 THEN 2 ELSE 3
    <2>1. ASSUME NEW n \in Vectors
          PROVE  FormAt(v)[n] = IF v <= 2 THEN Absent ELSE IF v = 3 THEN 2 ELSE 3
      <3>1. n \in Names
        BY TheNames DEF Vectors
      <3> QED BY <3>1 DEF FormAt, FirstTables, Lexical, Vectors
    <2> QED BY <2>1
  <1>6. /\ FormAt(v)["paused"] = IF v > 4 THEN 4 ELSE Absent
        /\ FormAt(v)["agent_action_audit"] =
             IF v <= 5 THEN Absent ELSE IF v = 8 THEN 7 ELSE 5
        /\ FormAt(v)["agent_action_workflows"] =
             IF v <= 6 THEN Absent ELSE IF v = 8 THEN 7 ELSE 6
        /\ FormAt(v)["agent_action_audit_operation_idx"] = IF v = 8 THEN 7 ELSE Absent
    BY TheNames DEF FormAt, FirstTables, Lexical, Vectors
  <1>7. \A n \in Copies : FormAt(v)[n] = Absent
    <2>1. ASSUME NEW n \in Copies PROVE FormAt(v)[n] = Absent
      BY TheNames, TableNames DEF FormAt, FirstTables, Lexical, Vectors
    <2> QED BY <2>1
  <1> QED BY <1>2, <1>3, <1>4, <1>5, <1>6, <1>7

LEMMA FormsReopen ==
    ASSUME NEW v \in 0 .. 8
    PROVE  Reopens(v, FormAt(v))
  <1> DEFINE f == FormAt(v)
  <1>1. /\ \A n \in FirstTables : f[n] = IF v > 0 THEN 0 ELSE Absent
        /\ \A n \in Lexical : f[n] = IF v > 1 THEN 1 ELSE Absent
        /\ \A n \in Vectors : f[n] = IF v <= 2 THEN Absent ELSE IF v = 3 THEN 2 ELSE 3
        /\ f["agent_action_audit"] = IF v <= 5 THEN Absent ELSE IF v = 8 THEN 7 ELSE 5
        /\ f["agent_action_workflows"] = IF v <= 6 THEN Absent ELSE IF v = 8 THEN 7 ELSE 6
        /\ \A n \in Copies : f[n] = Absent
    BY FormsAre
  <1> HIDE DEF f
  <1>2. "sources" \in FirstTables /\ "vector_chunks" \in Vectors
    BY DEF FirstTables, Vectors
  <1>3. Reopens(v, f)
    BY <1>1, <1>2 DEF Reopens, Absent, Newest
  <1> QED BY <1>3 DEF f

LEMMA FormsFollow ==
    ASSUME NEW v \in 0 .. 7
    PROVE  Result(v, FormAt(v)) = FormAt(v + 1)
  <1> DEFINE f == FormAt(v)
             h == FormAt(v + 1)
             r == Result(v, f)
  <1>1. /\ f \in Forms
        /\ \A n \in FirstTables : f[n] = IF v > 0 THEN 0 ELSE Absent
        /\ \A n \in Lexical : f[n] = IF v > 1 THEN 1 ELSE Absent
        /\ \A n \in Vectors : f[n] = IF v <= 2 THEN Absent ELSE IF v = 3 THEN 2 ELSE 3
        /\ f["paused"] = IF v > 4 THEN 4 ELSE Absent
        /\ f["agent_action_audit"] = IF v <= 5 THEN Absent ELSE 5
        /\ f["agent_action_workflows"] = IF v <= 6 THEN Absent ELSE 6
        /\ f["agent_action_audit_operation_idx"] = Absent
        /\ \A n \in Copies : f[n] = Absent
    BY FormsAre
  <1>2. /\ h \in Forms
        /\ \A n \in FirstTables : h[n] = 0
        /\ \A n \in Lexical : h[n] = IF v > 0 THEN 1 ELSE Absent
        /\ \A n \in Vectors : h[n] = IF v <= 1 THEN Absent ELSE IF v = 2 THEN 2 ELSE 3
        /\ h["paused"] = IF v > 3 THEN 4 ELSE Absent
        /\ h["agent_action_audit"] = IF v <= 4 THEN Absent ELSE IF v = 7 THEN 7 ELSE 5
        /\ h["agent_action_workflows"] = IF v <= 5 THEN Absent ELSE IF v = 7 THEN 7 ELSE 6
        /\ h["agent_action_audit_operation_idx"] = IF v = 7 THEN 7 ELSE Absent
        /\ \A n \in Copies : h[n] = Absent
    <2>1. v + 1 \in 0 .. 8
      OBVIOUS
    <2> QED BY <2>1, FormsAre
  <1>3. /\ r \in Forms
        /\ \A n \in Names : r[n] =
             IF n \in Made(v) /\ (v \in Resumable => f[n] = Absent) THEN v ELSE f[n]
    BY <1>1, ResultValues
  <1> HIDE DEF f, h, r
  <1>4. ASSUME NEW n \in Names PROVE r[n] = h[n]

    <2>1. CASE v = 0
      <3>1. r[n] = IF n \in Made(0) THEN 0 ELSE f[n]
        BY <1>3, <2>1 DEF Resumable
      <3> QED BY <1>1, <1>2, <2>1, <3>1, WhatIsMade, NamesAre, TableNames
              DEF FirstTables, Lexical, Vectors
    <2>2. CASE v = 1
      <3>1. r[n] = IF n \in Made(1) THEN 1 ELSE f[n]
        BY <1>3, <2>2 DEF Resumable
      <3> QED BY <1>1, <1>2, <2>2, <3>1, WhatIsMade, NamesAre, TableNames
              DEF FirstTables, Lexical, Vectors
    <2>3. CASE v = 2
      <3>1. r[n] = IF n \in Made(2) THEN 2 ELSE f[n]
        BY <1>3, <2>3 DEF Resumable
      <3> QED BY <1>1, <1>2, <2>3, <3>1, WhatIsMade, NamesAre, TableNames
              DEF FirstTables, Lexical, Vectors
    <2>4. CASE v = 3
      <3>1. r[n] = IF n \in Made(3) THEN 3 ELSE f[n]
        BY <1>3, <2>4 DEF Resumable
      <3> QED BY <1>1, <1>2, <2>4, <3>1, WhatIsMade, NamesAre, TableNames
              DEF FirstTables, Lexical, Vectors
    <2>5. CASE v = 4
      <3>1. r[n] = IF n \in Made(4) /\ f[n] = Absent THEN 4 ELSE f[n]
        BY <1>3, <2>5 DEF Resumable
      <3> QED BY <1>1, <1>2, <2>5, <3>1, WhatIsMade, NamesAre, TableNames
              DEF FirstTables, Lexical, Vectors
    <2>6. CASE v = 5
      <3>1. r[n] = IF n \in Made(5) /\ f[n] = Absent THEN 5 ELSE f[n]
        BY <1>3, <2>6 DEF Resumable
      <3> QED BY <1>1, <1>2, <2>6, <3>1, WhatIsMade, NamesAre, TableNames
              DEF FirstTables, Lexical, Vectors
    <2>7. CASE v = 6
      <3>1. r[n] = IF n \in Made(6) /\ f[n] = Absent THEN 6 ELSE f[n]
        BY <1>3, <2>7 DEF Resumable
      <3> QED BY <1>1, <1>2, <2>7, <3>1, WhatIsMade, NamesAre, TableNames
              DEF FirstTables, Lexical, Vectors
    <2>8. CASE v = 7
      <3>1. r[n] = IF n \in Made(7) THEN 7 ELSE f[n]
        BY <1>3, <2>8 DEF Resumable
      <3> QED BY <1>1, <1>2, <2>8, <3>1, WhatIsMade, NamesAre, TableNames
              DEF FirstTables, Lexical, Vectors
    <2> QED BY <2>1, <2>2, <2>3, <2>4, <2>5, <2>6, <2>7, <2>8
  <1>5. r = h
    BY <1>1, <1>2, <1>3, <1>4, SameForms
  <1> QED BY <1>5 DEF f, h, r

\* A database that can be opened becomes one of the newest version.
LEMMA RunLeadsOn ==
    ASSUME NEW v \in 0 .. 8, NEW g \in Forms, Reopens(v, g)
    PROVE  RunAlone(SchemaWith(g), v, Newest) # {}
  <1>1. SchemaWith(g) \in SUBSET AnyObject /\ 8 \in 0 .. 8
    <2>1. SchemaWith(g) \in SUBSET AnyObject
      BY SchemaWithType, Zenon
    <2> QED BY <2>1
  <1>2. PICK run \in [0 .. 8 - v -> AnySchemas] :
          /\ run[0] = {SchemaWith(g)}
          /\ \A k \in 1 .. 8 - v : run[k] = ScriptAlone(run[k - 1], v + k - 1)
          /\ run[8 - v] = RunAlone(SchemaWith(g), v, 8)
    <2>1. v \in 0 .. 8
      OBVIOUS
    <2> QED BY <1>1, <2>1, AloneRuns, Zenon
  <1> DEFINE T == {k \in 0 .. 8 - v :
                     \E h \in Forms : run[k] = {SchemaWith(h)} /\ Reopens(v + k, h)}
  <1>3. 0 \in T
    <2>1. v + 0 = v
      OBVIOUS
    <2> QED BY <1>2, <2>1
  <1>4. ASSUME NEW k \in 1 .. 8 - v, k - 1 \in T PROVE k \in T
    <2>1. PICK h \in Forms : run[k - 1] = {SchemaWith(h)} /\ Reopens(v + (k - 1), h)
      BY <1>4
    <2>2. v + (k - 1) = v + k - 1 /\ v + k - 1 \in 0 .. 7 /\ v + k - 1 + 1 = v + k
      OBVIOUS
    <2>3. /\ ScriptAlone({SchemaWith(h)}, v + k - 1) = {SchemaWith(Result(v + k - 1, h))}
          /\ Result(v + k - 1, h) \in Forms
          /\ Reopens(v + k - 1 + 1, Result(v + k - 1, h))
      BY <2>1, <2>2, ScriptLeadsOn
    <2>4. run[k] = {SchemaWith(Result(v + k - 1, h))}
      BY <1>2, <2>1, <2>3
    <2> QED BY <2>2, <2>3, <2>4
  <1>5. 8 - v \in Nat
    OBVIOUS
  <1> HIDE DEF T
  <1>6. 8 - v \in T
    BY <1>3, <1>4, <1>5, UpTo
  <1>7. run[8 - v] # {}
    BY <1>6 DEF T
  <1> QED BY <1>2, <1>7 DEF Newest

\* What the scripts make of nothing.
LEMMA SchemasInForm ==
    ASSUME NEW v \in 0 .. 8
    PROVE  SchemaOf(v) = SchemaWith(FormAt(v)) /\ FormAt(v) \in Forms
  <1>1. FormAt(v) \in Forms /\ FormAt(0) \in Forms
    BY FormsAre
  <1>2. SchemaWith(FormAt(0)) = {}
    <2>1. Reopens(0, FormAt(0))
      BY FormsReopen
    <2>2. ASSUME NEW n \in Names PROVE FormAt(0)[n] = Absent
      BY NamesAre, TableNames DEF FormAt, FirstTables, Lexical, Vectors
    <2> QED BY <2>2 DEF SchemaWith
  <1>3. PICK run \in [0 .. v -> AnySchemas] :
          /\ run[0] = {SchemaWith(FormAt(0))}
          /\ \A k \in 1 .. v : run[k] = ScriptAlone(run[k - 1], k - 1)
          /\ run[v] = RunAlone({}, 0, v)
    <2>1. {} \in SUBSET AnyObject /\ 0 \in 0 .. v /\ v - 0 = v
      OBVIOUS
    <2>2. \A k \in 1 .. v : 0 + k - 1 = k - 1
      OBVIOUS
    <2> DEFINE Runs(run) ==
          /\ run[0] = {{}}
          /\ \A k \in 1 .. v - 0 : run[k] = ScriptAlone(run[k - 1], 0 + k - 1)
          /\ run[v - 0] = RunAlone({}, 0, v)
    <2>3. PICK run \in [0 .. v - 0 -> AnySchemas] : Runs(run)
      BY <2>1, AloneRuns
    <2>4. \A k \in 1 .. v : run[k] = ScriptAlone(run[k - 1], k - 1)
      BY <2>1, <2>2, <2>3
    <2> QED BY <1>2, <2>1, <2>3, <2>4
  <1> DEFINE T == {k \in 0 .. v : run[k] = {SchemaWith(FormAt(k))}}
  <1>4. 0 \in T
    BY <1>3
  <1>5. ASSUME NEW k \in 1 .. v, k - 1 \in T PROVE k \in T
    <2>1. k - 1 \in 0 .. 7 /\ k - 1 \in 0 .. 8 /\ k - 1 + 1 = k
      OBVIOUS
    <2>2. FormAt(k - 1) \in Forms /\ Reopens(k - 1, FormAt(k - 1))
      BY <2>1, FormsAre, FormsReopen
    <2>3. ScriptAlone({SchemaWith(FormAt(k - 1))}, k - 1)
            = {SchemaWith(Result(k - 1, FormAt(k - 1)))}
      BY <2>1, <2>2, ScriptLeadsOn
    <2>4. Result(k - 1, FormAt(k - 1)) = FormAt(k)
      BY <2>1, FormsFollow
    <2>5. run[k - 1] = {SchemaWith(FormAt(k - 1))}
      BY <1>5
    <2>6. run[k] = {SchemaWith(FormAt(k))}
      BY <1>3, <2>3, <2>4, <2>5
    <2> QED BY <2>6
  <1> HIDE DEF T
  <1>6. v \in T
    BY <1>4, <1>5, UpTo
  <1>7. RunAlone({}, 0, v) = {SchemaWith(FormAt(v))}
    BY <1>3, <1>6 DEF T
  <1> QED BY <1>1, <1>7 DEF SchemaOf

----------------------------------------------------------------------------
(* The invariant of the rows and what it says                              *)

\* Of the scripts alone: what they lead to is made of tables, indexes and columns.
LEMMA SchemasAreSound ==
    ASSUME NEW v \in 0 .. Newest, NEW o \in SchemaOf(v)
    PROVE  IsObject(o) /\ (o.name \in Copied \cup Copies => o.on = "none")
  <1> DEFINE g == FormAt(v)
  <1>1. v \in 0 .. 8
    BY DEF Newest
  <1>2. SchemaOf(v) = SchemaWith(g) /\ g \in Forms
    BY <1>1, SchemasInForm
  <1> HIDE DEF g
  <1>3. PICK n \in Names : g[n] # Absent /\ o = Object(g, n)
    BY <1>2 DEF SchemaWith
  <1>4. o.name = n /\ o.on = Carrier(n) /\ o.form = g[n]
        /\ o = [name |-> o.name, on |-> o.on, form |-> o.form]
    BY <1>3 DEF Object
  <1>5. g[n] \in 0 .. 7
    BY <1>2, <1>3 DEF Forms, Absent, Newest
  <1>6. n \in Copied \cup Copies => Carrier(n) = "none"
    <2>1. n \in Copied => Carrier(n) = "none"
      BY NamesAre
    <2>2. n \in Copies => Carrier(n) = "none"
      BY TableNames DEF Carrier
    <2> QED BY <2>1, <2>2
  <1> QED BY <1>4, <1>5, <1>6 DEF IsObject, New, Newest

LEMMA InvInit == SchemaInit => Inv
  <1> SUFFICES ASSUME SchemaInit PROVE Inv
    OBVIOUS
  <1>1. /\ version \in 0 .. Newest
        /\ schema = SchemaOf(version)
        /\ at = [p \in Openers |-> Closed]
        /\ overtaken = FALSE
        /\ halfway = FALSE
    BY DEF SchemaInit
  <1>2. PICK there \in SUBSET {r \in Rows : /\ Has(schema, TableOf[r])
                                            /\ r \in Orphans => version < Newest} :
          /\ rows = [t \in Copied \cup Copies |-> {r \in there : TableOf[r] = t}]
          /\ written = there
    BY DEF SchemaInit
  <1>3. \A o \in schema : IsObject(o) /\ (o.name \in Copied \cup Copies => o.on = "none")
    BY <1>1, SchemasAreSound
  <1>4. /\ \A t \in Copied : rows[t] = {r \in there : TableOf[r] = t}
        /\ \A t \in Copies : rows[t] = {}
        /\ \A t \in Copied \cup Copies : rows[t] \subseteq Rows
    <2>1. \A t \in Copied \cup Copies : rows[t] = {r \in there : TableOf[r] = t}
      BY <1>2
    <2>2. \A t \in Copies : t \notin Copied
      BY TableNames
    <2>3. \A r \in there : TableOf[r] \in Copied
      BY <1>2, RowsAssumption
    <2> QED BY <1>2, <2>1, <2>2, <2>3
  <1>5. \A p \in Openers : at[p] = <<0, 0>> /\ ~IsMigrating(p)
    BY <1>1 DEF IsMigrating, Closed
  <1>6. SchemaTypeOK
    <2>1. rows \in [Copied \cup Copies -> SUBSET Rows] /\ written \subseteq Rows
      BY <1>2, <1>4
    <2>2. at \in [Openers -> Nat \X Nat]
      BY <1>1 DEF Closed
    <2> QED BY <1>1, <1>3, <1>5, <2>1, <2>2 DEF SchemaTypeOK
  <1>7. NamesOfTables
    BY <1>3 DEF NamesOfTables
  <1>8. OneReplaces /\ CopiesAreComplete
    BY <1>5 DEF OneReplaces, CopiesAreComplete, Replaces
  <1>9. RowsHaveTables
    BY <1>2, <1>4 DEF RowsHaveTables
  <1>10. RowsAreInPlace
    <2>1. \A t \in Copied : CopyOf[t] \in Copies
      BY TableNames
    <2> QED BY <1>4, <2>1 DEF RowsAreInPlace
  <1>11. VersionsFollow
    BY <1>1, <1>5 DEF VersionsFollow, Newest
  <1>12. OrphansGo
    <2>1. version = Newest => \A t \in Copied : Gone(t)
      <3>1. ~ (Newest < Newest)
        BY DEF Newest
      <3>2. version = Newest => \A r \in there : r \notin Orphans
        BY <1>2, <3>1
      <3> QED BY <1>4, <3>2 DEF Gone
    <2>2. \A t \in Copies : Gone(t)
      BY <1>4 DEF Gone
    <2>3. \A p \in Openers : at[p][1] # 7
      BY <1>5
    <2> QED BY <2>1, <2>2, <2>3 DEF OrphansGo
  <1>13. RowsStay
    <2>1. ASSUME NEW r \in written PROVE r \in rows[TableOf[r]]
      <3>1. r \in there /\ TableOf[r] \in Copied
        BY <1>2, <2>1, RowsAssumption
      <3> QED BY <1>4, <3>1
    <2> QED BY <2>1 DEF RowsStay
  <1> QED BY <1>6, <1>7, <1>8, <1>9, <1>10, <1>11, <1>12, <1>13 DEF Inv

LEMMA InvNext == Inv /\ [SchemaNext]_schemaVars => Inv'
  <1> SUFFICES ASSUME Inv, [SchemaNext]_schemaVars PROVE Inv'
    OBVIOUS
  <1>1. ASSUME NEW p \in Openers, Migrate(p) PROVE Inv'
    <2>1. CASE Look(p)
      BY <2>1, LookKeeps
    <2>2. CASE Define(p)
      BY <2>2, DefineKeeps
    <2>3. CASE CopyRows(p)
      BY <2>3, CopyKeeps
    <2>4. CASE DropTable(p)
      BY <2>4, DropKeeps
    <2>5. CASE RenameTable(p)
      BY <2>5, RenameKeeps
    <2>6. CASE FinishScript(p)
      BY <2>6, FinishKeeps
    <2>7. CASE Refused(p)
      BY <2>7, LeaveKeeps DEF Refused
    <2> QED BY <1>1, <2>1, <2>2, <2>3, <2>4, <2>5, <2>6, <2>7 DEF Migrate
  <1>2. ASSUME NEW p \in Openers, Open(p) PROVE Inv'
    BY <1>2, OpenKeeps
  <1>3. ASSUME NEW p \in Openers, Stop(p) PROVE Inv'
    BY <1>3, LeaveKeeps DEF Stop
  <1>4. ASSUME NEW p \in Openers, NEW r \in Rows, Write(p, r) PROVE Inv'
    BY <1>4, WriteKeeps
  <1>5. CASE UNCHANGED schemaVars
    BY <1>5 DEF schemaVars, histories, Inv, SchemaTypeOK, NamesOfTables, OneReplaces,
       RowsHaveTables, RowsAreInPlace, VersionsFollow, CopiesAreComplete, OrphansGo,
       RowsStay, Replaces, IsMigrating, Statement, Gone
  <1> QED BY <1>1, <1>2, <1>3, <1>4, <1>5 DEF SchemaNext

LEMMA InvHolds == SchemaSpec => []Inv
  <1> QED BY InvInit, InvNext, PTL DEF SchemaSpec

\* The types of the state, among them that a process that migrates is at a
\* statement of a script.
THEOREM SchemaTypeCorrect == SchemaSpec => []SchemaTypeOK
  <1>1. Inv => SchemaTypeOK
    BY DEF Inv
  <1> QED BY <1>1, InvHolds, PTL

\* For any number of processes, rows and statements that interleave or are cut
\* short: every row is in its table or in the copy about to replace it, unless a
\* process was overtaken, and no row of a revoked source is in a table of the
\* newest version.
THEOREM RowsAreKept == SchemaSpec => []RowsSurviveMigration
  <1>1. Inv => RowsSurviveMigration
    <2> SUFFICES ASSUME Inv PROVE RowsSurviveMigration
      OBVIOUS
    <2>1. ASSUME version = Newest, NEW r \in Orphans
          PROVE  r \notin rows[TableOf[r]]
      <3>1. TableOf[r] \in Copied
        BY RowsAssumption
      <3> QED BY <2>1, <3>1 DEF Inv, OrphansGo, Gone
    <2> QED BY <2>1 DEF Inv, RowsStay, RowsSurviveMigration
  <1> QED BY <1>1, InvHolds, PTL

\* Of all the processes that migrate one at most is between the copy of a table
\* and its RENAME: that CREATE TABLE is refused when the copy is there is all
\* the mutual exclusion there is.
THEOREM TablesAreReplacedByOne == SchemaSpec => []OneReplaces
  <1>1. Inv => OneReplaces
    BY DEF Inv
  <1> QED BY <1>1, InvHolds, PTL

----------------------------------------------------------------------------
(* What the forms say about where the processes are.  Everything here is   *)
(* about forms g, a version v and places a.                                *)

Places == [Openers -> Nat \X Nat]

\* p goes to statement i of script k.
Moves(a, b, p, k, i) ==
    /\ a \in Places /\ b \in Places
    /\ b[p][1] = k /\ b[p][2] = i
    /\ \A q \in Openers : q # p => b[q] = a[q]

AnyAt(a, k, I) == \E p \in Openers : a[p][1] = k /\ a[p][2] \in I

NotPast(a, k, i) ==
    \A p \in Openers : a[p][1] < k \/ (a[p][1] = k /\ a[p][2] <= i)

\* The statement of one of the first three scripts that creates n.
Place(n) ==
    CASE n = "sources" -> 1
      [] n = "sync_runs" -> 2
      [] n = "file_state" -> 3
      [] n = "documents" -> 4
      [] n = "change_events" -> 5
      [] n = "staged_files" -> 6
      [] n = "lexical_chunks" -> 1
      [] n = "lexical_chunks_source_idx" -> 2
      [] n = "lexical_chunks_type_idx" -> 3
      [] n = "vector_chunks" -> 1
      [] n = "vector_chunks_source_idx" -> 2
      [] OTHER -> 0

NoneAhead(v, a) == v <= 3 => \A p \in Openers : a[p][1] <= v

\* Whoever is in the middle of one of the first three scripts is alone there,
\* and has created what stands before its statement.
OneFills(g, v, a) ==
    \A k \in 0 .. 2, p \in Openers : a[p][1] = k /\ a[p][2] >= 2 =>
        /\ v = k
        /\ \A q \in Openers : a[q][1] = k /\ a[q][2] >= 2 => q = p
        /\ \A n \in Made(k) : g[n] = IF Place(n) < a[p][2] THEN k ELSE Absent

NotYet(g, v, a) ==
    \A k \in 0 .. 2 :
        v <= k /\ (\A p \in Openers : a[p][1] = k => a[p][2] < 2)
        => \A n \in Made(k) : g[n] = Absent

Filled(g, v) == \A k \in 0 .. 1 : v > k => \A n \in Made(k) : g[n] = k

FirstScripts(g, v, a) ==
    NoneAhead(v, a) /\ OneFills(g, v, a) /\ NotYet(g, v, a) /\ Filled(g, v)

\* The vectors, which the script of version 3 replaces.
VectorsFit(g, v, a) ==
    LET table == g["vector_chunks"]
        copy == g["vector_chunks_v4"]
        index == g["vector_chunks_source_idx"]
    IN  /\ copy # Absent <=> AnyAt(a, 3, 2 .. 4)
        /\ copy \in {3, Absent}
        /\ v >= 3 =>
             /\ table \in {2, 3, Absent}
             /\ table = Absent => AnyAt(a, 3, {4})
             /\ index = Absent => AnyAt(a, 3, {4, 5})
             /\ index # Absent => index = table
             /\ table = 2 => v = 3 /\ ~AnyAt(a, 3, 5 .. 6) /\ index = 2

PausedFits(g, v, a) ==
    /\ g["paused"] \in {4, Absent}
    /\ g["paused"] = Absent => v <= 4 /\ NotPast(a, 4, 2)

\* The audit table, which the script of version 7 replaces first.
AuditFits(g, v, a) ==
    LET table == g["agent_action_audit"]
        copy == g["agent_action_audit_v8"]
        index == g["agent_action_audit_operation_idx"]
    IN  /\ copy # Absent <=> AnyAt(a, 7, 2 .. 4)
        /\ copy \in {7, Absent}
        /\ table \in {5, 7, Absent}
        /\ table = Absent => AnyAt(a, 7, {4}) \/ (v <= 5 /\ NotPast(a, 5, 1))
        /\ table = 5 => v <= 7 /\ NotPast(a, 7, 4)
        /\ table = 7 /\ index = Absent => AnyAt(a, 7, {5})
        /\ index # Absent => index = 7 /\ table = 7

\* The table of the workflows, which it replaces then.
WorkflowsFit(g, v, a) ==
    LET table == g["agent_action_workflows"]
        copy == g["agent_action_workflows_v8"]
    IN  /\ copy # Absent <=> AnyAt(a, 7, 7 .. 9)
        /\ copy \in {7, Absent}
        /\ table \in {6, 7, Absent}
        /\ table = Absent => AnyAt(a, 7, {9}) \/ (v <= 6 /\ NotPast(a, 6, 1))
        /\ table = 6 => v <= 7 /\ NotPast(a, 7, 9)

\* Another process has created the table anew that one is about to put in its
\* place: RENAME will be refused.
Doomed(g, a) ==
    \/ g["vector_chunks"] # Absent /\ AnyAt(a, 3, {4})
    \/ g["agent_action_audit"] # Absent /\ AnyAt(a, 7, {4})
    \/ g["agent_action_workflows"] # Absent /\ AnyAt(a, 7, {9})

FormsFit(g, v, a) ==
    /\ FirstScripts(g, v, a)
    /\ VectorsFit(g, v, a)
    /\ PausedFits(g, v, a)
    /\ AuditFits(g, v, a)
    /\ WorkflowsFit(g, v, a)

\* OneReplaces, by places.
Sole(a, k, I) ==
    \A p, q \in Openers :
        a[p][1] = k /\ a[p][2] \in I /\ a[q][1] = k /\ a[q][2] \in I => p = q

AllSole(a) == Sole(a, 3, 2 .. 4) /\ Sole(a, 7, 2 .. 4) /\ Sole(a, 7, 7 .. 9)

LEMMA PlacesAre ==
    ASSUME NEW k \in 0 .. 2
    PROVE  /\ Made(k) \subseteq Names
           /\ \A n \in Made(k) : Place(n) \in 1 .. 6
           /\ \A m, n \in Made(k) : Place(m) = Place(n) => m = n
           /\ \A j \in 0 .. 2 : j # k => Made(j) \cap Made(k) = {}
           /\ k # Absent
  <1>1. /\ Made(0) = {"sources", "sync_runs", "file_state", "documents",
                      "change_events", "staged_files"}
        /\ Made(1) = {"lexical_chunks", "lexical_chunks_source_idx",
                      "lexical_chunks_type_idx"}
        /\ Made(2) = {"vector_chunks", "vector_chunks_source_idx"}
    BY WhatIsMade DEF FirstTables, Lexical, Vectors
  <1>2. Made(k) \subseteq Names
    BY <1>1, TheNames
  <1>3. ASSUME NEW n \in Made(k) PROVE Place(n) \in 1 .. 6
    BY <1>1 DEF Place
  <1>4. ASSUME NEW m \in Made(k), NEW n \in Made(k), Place(m) = Place(n) PROVE m = n
    <2>1. CASE k = 0
      <3>1. m \in Made(0) /\ n \in Made(0)
        BY <2>1
      <3> QED BY <1>1, <1>4, <3>1 DEF Place
    <2>2. CASE k = 1
      <3>1. m \in Made(1) /\ n \in Made(1)
        BY <2>2
      <3> QED BY <1>1, <1>4, <3>1 DEF Place
    <2>3. CASE k = 2
      <3>1. m \in Made(2) /\ n \in Made(2)
        BY <2>3
      <3> QED BY <1>1, <1>4, <3>1 DEF Place
    <2> QED BY <2>1, <2>2, <2>3
  <1>5. ASSUME NEW j \in 0 .. 2, j # k PROVE Made(j) \cap Made(k) = {}
    <2>1. Made(0) \cap Made(1) = {} /\ Made(0) \cap Made(2) = {} /\ Made(1) \cap Made(2) = {}
      BY <1>1
    <2>2. (j = 0 \/ j = 1 \/ j = 2) /\ (k = 0 \/ k = 1 \/ k = 2)
      OBVIOUS
    <2> QED BY <1>5, <2>1, <2>2
  <1>6. k # Absent
    BY DEF Absent, Newest
  <1> QED BY <1>2, <1>3, <1>4, <1>5, <1>6

\* At statement i of script k, p creates n.
Fills(g, h, a, p, k, i, n) ==
    /\ a[p][1] = k /\ a[p][2] = i
    /\ n \in Made(k) /\ Place(n) = i
    /\ g[n] = Absent
    /\ \A m \in Names : h[m] = IF m = n THEN k ELSE g[m]

\* A statement of one of the first three scripts.
LEMMA FillKeeps ==
    ASSUME NEW g \in Forms, NEW h \in Forms, NEW v \in 0 .. 8, NEW a, NEW b,
           NEW p \in Openers, NEW k \in 0 .. 2, NEW i \in Nat \ {0}, NEW n,
           FirstScripts(g, v, a), Moves(a, b, p, k, i + 1),
           Fills(g, h, a, p, k, i, n), v = k
    PROVE  FirstScripts(h, v, b)
  <1> USE DEF Fills
  <1> DEFINE Begun(q) == a[q][1] = k /\ a[q][2] >= 2
  <1>0. /\ Made(k) \subseteq Names
        /\ \A m \in Made(k) : Place(m) \in 1 .. 6
        /\ \A m \in Made(k) : Place(m) = i => m = n
        /\ k # Absent
    BY PlacesAre
  <1>1. /\ b[p][1] = k /\ b[p][2] = i + 1
        /\ \A q \in Openers : q # p => b[q] = a[q]
        /\ \A q \in Openers : a[q][2] \in Nat
    BY DEF Moves, Places
  <1>2. ASSUME NEW q \in Openers, Begun(q) PROVE q = p
    <2>1. CASE i >= 2
      BY <1>2, <2>1 DEF FirstScripts, OneFills
    <2>2. CASE i = 1
      <3>1. g[n] = k
        BY <1>1, <1>2, <2>2 DEF FirstScripts, OneFills
      <3> QED BY <1>0, <3>1
    <2> QED BY <2>1, <2>2
  <1>3. ASSUME NEW m \in Made(k)
        PROVE  h[m] = IF Place(m) < i + 1 THEN k ELSE Absent
    <2>1. CASE i >= 2
      <3>1. g[m] = IF Place(m) < i THEN k ELSE Absent
        BY <2>1 DEF FirstScripts, OneFills
      <3> QED BY <1>0, <3>1
    <2>2. CASE i = 1
      <3>1. \A q \in Openers : a[q][1] = k => a[q][2] < 2
        BY <1>1, <1>2, <2>2
      <3>2. g[m] = Absent
        BY <3>1 DEF FirstScripts, NotYet
      <3> QED BY <1>0, <2>2, <3>2
    <2> QED BY <2>1, <2>2
  <1>4. NoneAhead(v, b)
    BY <1>1 DEF FirstScripts, NoneAhead
  <1>5. OneFills(h, v, b)
    <2>1. ASSUME NEW j \in 0 .. 2, NEW q \in Openers, b[q][1] = j, b[q][2] >= 2
          PROVE  j = k /\ q = p
      <3>1. CASE q # p
        <4>1. a[q][1] = j /\ a[q][2] >= 2
          BY <1>1, <2>1, <3>1
        <4>2. j = k
          BY <4>1 DEF FirstScripts, OneFills
        <4> QED BY <1>2, <3>1, <4>1, <4>2
      <3> QED BY <1>1, <2>1, <3>1
    <2> QED BY <1>1, <1>3, <2>1 DEF OneFills
  <1>6. \A j \in 0 .. 2 : j # k => \A m \in Made(j) : h[m] = g[m]
    BY PlacesAre
  <1>7. NotYet(h, v, b)
    <2>1. ASSUME NEW j \in 0 .. 2, v <= j, \A q \in Openers : b[q][1] = j => b[q][2] < 2
          PROVE  \A m \in Made(j) : h[m] = Absent
      <3>1. j # k
        BY <1>1, <2>1
      <3>2. \A q \in Openers : a[q][1] = j => a[q][2] < 2
        BY <1>1, <2>1, <3>1
      <3>3. \A m \in Made(j) : g[m] = Absent
        BY <2>1, <3>2 DEF FirstScripts, NotYet
      <3> QED BY <1>6, <3>1, <3>3
    <2> QED BY <2>1 DEF NotYet
  <1>8. Filled(h, v)
    BY <1>6 DEF FirstScripts, Filled
  <1> QED BY <1>4, <1>5, <1>7, <1>8 DEF FirstScripts

\* Nothing that happens past the first three scripts matters to them.
LEMMA PastKeeps ==
    ASSUME NEW g \in Forms, NEW h \in Forms, NEW v \in 0 .. 8, NEW w \in 3 .. 8,
           NEW a, NEW b, NEW p \in Openers, NEW k \in 3 .. 8, NEW i \in Nat,
           FirstScripts(g, v, a), Moves(a, b, p, k, i), a[p][1] \in 3 .. 7,
           w = v \/ w > 3,
           k = a[p][1] \/ w > 3,
           \A n \in FirstTables \cup Lexical : h[n] = g[n]
    PROVE  FirstScripts(h, w, b) /\ v >= 3
  <1>1. /\ b[p][1] = k /\ \A q \in Openers : q # p => b[q] = a[q]
    BY DEF Moves
  <1>2. v >= 3
    BY DEF FirstScripts, NoneAhead
  <1>3. NoneAhead(w, b)
    BY <1>1 DEF FirstScripts, NoneAhead
  <1>4. ASSUME NEW j \in 0 .. 2, NEW q \in Openers, b[q][1] = j, b[q][2] >= 2
        PROVE  FALSE
    <2>1. q # p
      BY <1>1, <1>4
    <2>2. a[q][1] = j /\ a[q][2] >= 2
      BY <1>1, <1>4, <2>1
    <2>3. v = j
      BY <2>2 DEF FirstScripts, OneFills
    <2> QED BY <1>2, <2>3
  <1>5. OneFills(h, w, b)
    BY <1>4 DEF OneFills
  <1>6. NotYet(h, w, b)
    BY DEF NotYet
  <1>7. Filled(h, w)
    <2>1. \A j \in 0 .. 1 : \A n \in Made(j) : h[n] = j
      <3>1. ASSUME NEW j \in 0 .. 1, NEW n \in Made(j) PROVE h[n] = j
        <4>1. g[n] = j
          BY <1>2 DEF FirstScripts, Filled
        <4>2. n \in FirstTables \cup Lexical
          BY WhatIsMade
        <4> QED BY <4>1, <4>2
      <3> QED BY <3>1
    <2> QED BY <2>1 DEF Filled
  <1> QED BY <1>2, <1>3, <1>5, <1>6, <1>7 DEF FirstScripts

\* One of the first three scripts ends.
LEMMA FillEnds ==
    ASSUME NEW g \in Forms, NEW v \in 0 .. 8, NEW a, NEW b,
           NEW p \in Openers, NEW k \in 0 .. 2, NEW i \in Nat,
           FirstScripts(g, v, a), Moves(a, b, p, k + 1, 1),
           a[p][1] = k, a[p][2] = i, i >= 2, \A n \in Made(k) : Place(n) < i
    PROVE  /\ FirstScripts(g, k + 1, b)
           /\ v = k
           /\ \A n \in Made(k) : g[n] = k
  <1>1. /\ b[p][1] = k + 1 /\ b[p][2] = 1
        /\ \A q \in Openers : q # p => b[q] = a[q]
        /\ \A q \in Openers : a[q][1] \in Nat /\ a[q][2] \in Nat
    BY DEF Moves, Places
  <1>2. /\ v = k
        /\ \A q \in Openers : a[q][1] = k /\ a[q][2] >= 2 => q = p
        /\ \A n \in Made(k) : g[n] = k
    BY DEF FirstScripts, OneFills
  <1>3. \A q \in Openers : a[q][1] <= k
    BY <1>2 DEF FirstScripts, NoneAhead
  <1>4. NoneAhead(k + 1, b)
    BY <1>1, <1>3 DEF NoneAhead
  <1>5. ASSUME NEW j \in 0 .. 2, NEW q \in Openers, b[q][1] = j, b[q][2] >= 2
        PROVE  FALSE
    <2>1. q # p
      BY <1>1, <1>5
    <2>2. a[q][1] = j /\ a[q][2] >= 2
      BY <1>1, <1>5, <2>1
    <2>3. v = j
      BY <2>2 DEF FirstScripts, OneFills
    <2> QED BY <1>2, <2>1, <2>2, <2>3
  <1>6. OneFills(g, k + 1, b)
    BY <1>5 DEF OneFills
  <1>7. NotYet(g, k + 1, b)
    <2>1. ASSUME NEW j \in 0 .. 2, k + 1 <= j PROVE \A n \in Made(j) : g[n] = Absent
      <3>1. \A q \in Openers : a[q][1] # j
        BY <1>3, <2>1
      <3> QED BY <1>2, <2>1, <3>1 DEF FirstScripts, NotYet
    <2> QED BY <2>1 DEF NotYet
  <1>8. Filled(g, k + 1)
    <2>1. ASSUME NEW j \in 0 .. 1, k + 1 > j PROVE \A n \in Made(j) : g[n] = j
      <3>1. CASE j = k
        BY <1>2, <3>1
      <3>2. CASE j < k
        BY <1>2, <3>2 DEF FirstScripts, Filled
      <3> QED BY <2>1, <3>1, <3>2
    <2> QED BY <2>1 DEF Filled
  <1> QED BY <1>2, <1>4, <1>6, <1>7, <1>8 DEF FirstScripts

\* A process opens the database or leaves it: it has not begun a script, or
\* one that can be begun again.
LEMMA ComeAndGo ==
    ASSUME NEW g \in Forms, NEW v \in 0 .. 8, NEW a, NEW b,
           NEW p \in Openers, NEW k \in {0, v}, NEW i \in 0 .. 1,
           FormsFit(g, v, a), Moves(a, b, p, k, i),
           a[p][2] <= 1 \/ a[p][1] \in 4 .. 6
    PROVE  FormsFit(g, v, b)
  <1>1. /\ b[p][1] = k /\ b[p][2] = i
        /\ \A q \in Openers : q # p => b[q] = a[q]
        /\ \A q \in Openers : a[q][1] \in Nat /\ a[q][2] \in Nat
    BY DEF Moves, Places
  <1>2. \A j \in 0 .. 8, I \in SUBSET (2 .. 9) : j \notin 4 .. 6 =>
          (AnyAt(b, j, I) <=> AnyAt(a, j, I))
    <2>1. ASSUME NEW j \in 0 .. 8, NEW I \in SUBSET (2 .. 9), j \notin 4 .. 6
          PROVE  AnyAt(b, j, I) <=> AnyAt(a, j, I)
      <3>1. /\ ~ (a[p][1] = j /\ a[p][2] \in I)
            /\ ~ (b[p][1] = j /\ b[p][2] \in I)
        BY <1>1, <2>1
      <3> QED BY <1>1, <3>1 DEF AnyAt
    <2> QED BY <2>1
  <1>3. /\ AnyAt(b, 3, 2 .. 4) <=> AnyAt(a, 3, 2 .. 4)
        /\ AnyAt(b, 3, {4}) <=> AnyAt(a, 3, {4})
        /\ AnyAt(b, 3, {4, 5}) <=> AnyAt(a, 3, {4, 5})
        /\ AnyAt(b, 3, 5 .. 6) <=> AnyAt(a, 3, 5 .. 6)
        /\ AnyAt(b, 7, 2 .. 4) <=> AnyAt(a, 7, 2 .. 4)
        /\ AnyAt(b, 7, {4}) <=> AnyAt(a, 7, {4})
        /\ AnyAt(b, 7, {5}) <=> AnyAt(a, 7, {5})
        /\ AnyAt(b, 7, 7 .. 9) <=> AnyAt(a, 7, 7 .. 9)
        /\ AnyAt(b, 7, {9}) <=> AnyAt(a, 7, {9})
    <2>1. /\ 2 .. 4 \in SUBSET (2 .. 9) /\ {4} \in SUBSET (2 .. 9)
          /\ {4, 5} \in SUBSET (2 .. 9) /\ 5 .. 6 \in SUBSET (2 .. 9)
          /\ {5} \in SUBSET (2 .. 9) /\ 7 .. 9 \in SUBSET (2 .. 9)
          /\ {9} \in SUBSET (2 .. 9) /\ 3 \in 0 .. 8 /\ 7 \in 0 .. 8
          /\ 3 \notin 4 .. 6 /\ 7 \notin 4 .. 6
      OBVIOUS
    <2> QED BY <1>2, <2>1, Zenon
  <1>4. \A j \in 1 .. 8, m \in 1 .. 9 : v <= j /\ NotPast(a, j, m) => NotPast(b, j, m)
    BY <1>1 DEF NotPast
  <1>5. FirstScripts(g, v, b)
    <2>1. NoneAhead(v, b)
      BY <1>1 DEF FormsFit, FirstScripts, NoneAhead
    <2>2. OneFills(g, v, b)
      <3>1. ASSUME NEW j \in 0 .. 2, NEW q \in Openers, b[q][1] = j, b[q][2] >= 2
            PROVE  q # p /\ b[q] = a[q]
        BY <1>1, <3>1
      <3> QED BY <3>1 DEF FormsFit, FirstScripts, OneFills
    <2>3. NotYet(g, v, b)
      <3>1. ASSUME NEW j \in 0 .. 2, \A q \in Openers : b[q][1] = j => b[q][2] < 2
            PROVE  \A q \in Openers : a[q][1] = j => a[q][2] < 2
        BY <1>1, <3>1
      <3> QED BY <3>1 DEF FormsFit, FirstScripts, NotYet
    <2> QED BY <2>1, <2>2, <2>3 DEF FormsFit, FirstScripts
  <1>6. VectorsFit(g, v, b)
    BY <1>3 DEF FormsFit, VectorsFit
  <1>7. PausedFits(g, v, b)
    BY <1>4 DEF FormsFit, PausedFits
  <1>8. AuditFits(g, v, b)
    BY <1>3, <1>4 DEF FormsFit, AuditFits
  <1>9. WorkflowsFit(g, v, b)
    BY <1>3, <1>4 DEF FormsFit, WorkflowsFit
  <1> QED BY <1>5, <1>6, <1>7, <1>8, <1>9 DEF FormsFit

\* Steps of a process that leave the tables of one group as they are and do not
\* enter or leave the statements that its description is about.
VectorsUntouched(g, h, v, w, a, p, k, i) ==
    /\ a[p][1] # 3 /\ k # 3
    /\ v = w \/ (v > 3 /\ w > 3) \/ (v < 3 /\ w < 3)
    /\ \A n \in {"vector_chunks", "vector_chunks_v4", "vector_chunks_source_idx"} :
         h[n] = g[n]

LEMMA VectorsStay ==
    ASSUME NEW g, NEW h, NEW v \in 0 .. 8, NEW w \in 0 .. 8, NEW a, NEW b,
           NEW p \in Openers, NEW k \in Nat, NEW i \in Nat,
           VectorsFit(g, v, a), Moves(a, b, p, k, i),
           VectorsUntouched(g, h, v, w, a, p, k, i)
    PROVE  VectorsFit(h, w, b)
  <1>1. /\ AnyAt(b, 3, 2 .. 4) <=> AnyAt(a, 3, 2 .. 4)
        /\ AnyAt(b, 3, {4}) <=> AnyAt(a, 3, {4})
        /\ AnyAt(b, 3, {4, 5}) <=> AnyAt(a, 3, {4, 5})
        /\ AnyAt(b, 3, 5 .. 6) <=> AnyAt(a, 3, 5 .. 6)
    BY DEF VectorsUntouched, Moves, AnyAt
  <1>2. (w >= 3 => v >= 3) /\ (w >= 3 /\ v = 3 => w = 3)
    BY DEF VectorsUntouched
  <1>3. /\ h["vector_chunks"] = g["vector_chunks"]
        /\ h["vector_chunks_v4"] = g["vector_chunks_v4"]
        /\ h["vector_chunks_source_idx"] = g["vector_chunks_source_idx"]
    BY DEF VectorsUntouched
  <1> QED BY <1>1, <1>2, <1>3 DEF VectorsFit

PausedUntouched(g, h, v, w, a, p, k, i) ==
    /\ h["paused"] = g["paused"]
    /\ g["paused"] = Absent => w <= 4 /\ (k < 4 \/ (k = 4 /\ i <= 2))

LEMMA PausedStays ==
    ASSUME NEW g, NEW h, NEW v \in 0 .. 8, NEW w \in 0 .. 8, NEW a, NEW b,
           NEW p \in Openers, NEW k \in Nat, NEW i \in Nat,
           PausedFits(g, v, a), Moves(a, b, p, k, i),
           PausedUntouched(g, h, v, w, a, p, k, i)
    PROVE  PausedFits(h, w, b)
  <1>1. NotPast(a, 4, 2) /\ (k < 4 \/ (k = 4 /\ i <= 2)) => NotPast(b, 4, 2)
    BY DEF Moves, NotPast
  <1> QED BY <1>1 DEF PausedFits, PausedUntouched

AuditUntouched(g, h, v, w, a, p, k, i) ==
    /\ a[p][1] = 7 => a[p][2] \notin 2 .. 5
    /\ k = 7 => i \notin 2 .. 5
    /\ v <= 5 /\ (a[p][1] < 5 \/ (a[p][1] = 5 /\ a[p][2] <= 1)) =>
         w <= 5 /\ (k < 5 \/ (k = 5 /\ i <= 1))
    /\ v <= 7 /\ (a[p][1] < 7 \/ (a[p][1] = 7 /\ a[p][2] <= 4)) =>
         w <= 7 /\ (k < 7 \/ (k = 7 /\ i <= 4))
    /\ \A n \in {"agent_action_audit", "agent_action_audit_v8",
                 "agent_action_audit_operation_idx"} : h[n] = g[n]

LEMMA AuditStays ==
    ASSUME NEW g, NEW h, NEW v \in 0 .. 8, NEW w \in 0 .. 8, NEW a, NEW b,
           NEW p \in Openers, NEW k \in Nat, NEW i \in Nat,
           AuditFits(g, v, a), Moves(a, b, p, k, i),
           AuditUntouched(g, h, v, w, a, p, k, i)
    PROVE  AuditFits(h, w, b)
  <1>1. /\ AnyAt(b, 7, 2 .. 4) <=> AnyAt(a, 7, 2 .. 4)
        /\ AnyAt(b, 7, {4}) <=> AnyAt(a, 7, {4})
        /\ AnyAt(b, 7, {5}) <=> AnyAt(a, 7, {5})
    BY DEF AuditUntouched, Moves, AnyAt
  <1>2. /\ v <= 5 /\ NotPast(a, 5, 1) => w <= 5 /\ NotPast(b, 5, 1)
        /\ v <= 7 /\ NotPast(a, 7, 4) => w <= 7 /\ NotPast(b, 7, 4)
    BY DEF AuditUntouched, Moves, NotPast
  <1>3. /\ h["agent_action_audit"] = g["agent_action_audit"]
        /\ h["agent_action_audit_v8"] = g["agent_action_audit_v8"]
        /\ h["agent_action_audit_operation_idx"]
             = g["agent_action_audit_operation_idx"]
    BY DEF AuditUntouched
  <1> QED BY <1>1, <1>2, <1>3 DEF AuditFits

WorkflowsUntouched(g, h, v, w, a, p, k, i) ==
    /\ a[p][1] = 7 => a[p][2] \notin 7 .. 9
    /\ k = 7 => i \notin 7 .. 9
    /\ v <= 6 /\ (a[p][1] < 6 \/ (a[p][1] = 6 /\ a[p][2] <= 1)) =>
         w <= 6 /\ (k < 6 \/ (k = 6 /\ i <= 1))
    /\ v <= 7 /\ (a[p][1] < 7 \/ (a[p][1] = 7 /\ a[p][2] <= 9)) =>
         w <= 7 /\ (k < 7 \/ (k = 7 /\ i <= 9))
    /\ \A n \in {"agent_action_workflows", "agent_action_workflows_v8"} : h[n] = g[n]

LEMMA WorkflowsStay ==
    ASSUME NEW g, NEW h, NEW v \in 0 .. 8, NEW w \in 0 .. 8, NEW a, NEW b,
           NEW p \in Openers, NEW k \in Nat, NEW i \in Nat,
           WorkflowsFit(g, v, a), Moves(a, b, p, k, i),
           WorkflowsUntouched(g, h, v, w, a, p, k, i)
    PROVE  WorkflowsFit(h, w, b)
  <1>1. /\ AnyAt(b, 7, 7 .. 9) <=> AnyAt(a, 7, 7 .. 9)
        /\ AnyAt(b, 7, {9}) <=> AnyAt(a, 7, {9})
    BY DEF WorkflowsUntouched, Moves, AnyAt
  <1>2. /\ v <= 6 /\ NotPast(a, 6, 1) => w <= 6 /\ NotPast(b, 6, 1)
        /\ v <= 7 /\ NotPast(a, 7, 9) => w <= 7 /\ NotPast(b, 7, 9)
    BY DEF WorkflowsUntouched, Moves, NotPast
  <1>3. /\ h["agent_action_workflows"] = g["agent_action_workflows"]
        /\ h["agent_action_workflows_v8"] = g["agent_action_workflows_v8"]
    BY DEF WorkflowsUntouched
  <1> QED BY <1>1, <1>2, <1>3 DEF WorkflowsFit

\* A table or an index of one of the first three scripts is created.
LEMMA FillFits ==
    ASSUME NEW g \in Forms, NEW h \in Forms, NEW v \in 0 .. 8, NEW a, NEW b,
           NEW p \in Openers, NEW k \in 0 .. 2, NEW i \in 1 .. 6, NEW n,
           FormsFit(g, v, a), Moves(a, b, p, k, i + 1),
           Fills(g, h, a, p, k, i, n)
    PROVE  FormsFit(h, v, b) \/ Doomed(h, b)
  <1>0. /\ a[p][1] = k /\ a[p][2] = i
        /\ n \in Made(k) /\ Place(n) = i
        /\ g[n] = Absent
        /\ \A m \in Names : h[m] = IF m = n THEN k ELSE g[m]
    BY DEF Fills
  <1>1. v = k \/ Doomed(h, b)
    <2>1. CASE i >= 2
      BY <1>0, <2>1 DEF FormsFit, FirstScripts, OneFills
    <2>2. CASE i = 1 /\ v # k
      <3>1. v > k
        BY <1>0, <2>2 DEF FormsFit, FirstScripts, NoneAhead
      <3>2. k = 2
        <4>1. k # Absent
          BY <1>0, PlacesAre
        <4> QED BY <1>0, <3>1, <4>1 DEF FormsFit, FirstScripts, Filled
      <3>3. n = "vector_chunks"
        BY <1>0, <2>2, <3>2, WhatIsMade DEF Vectors, Place
      <3>4. AnyAt(a, 3, {4})
        BY <1>0, <3>1, <3>2, <3>3 DEF FormsFit, VectorsFit
      <3>5. AnyAt(b, 3, {4})
        BY <1>0, <3>2, <3>4 DEF AnyAt, Moves
      <3>6. h["vector_chunks"] # Absent
        BY <1>0, <3>2, <3>3, TheNames DEF Absent, Newest
      <3> QED BY <3>5, <3>6 DEF Doomed
    <2> QED BY <2>1, <2>2
  <1>2. ASSUME v = k PROVE FormsFit(h, v, b)
    <2>1. FirstScripts(h, v, b)
      <3>1. i \in Nat \ {0} /\ FirstScripts(g, v, a) /\ Moves(a, b, p, k, i + 1)
        BY DEF FormsFit
      <3> QED BY <1>2, <3>1, FillKeeps, Zenon
    <2>2. \A m \in {"vector_chunks_v4", "paused", "agent_action_audit",
                    "agent_action_audit_v8", "agent_action_audit_operation_idx",
                    "agent_action_workflows", "agent_action_workflows_v8"} : h[m] = g[m]
      <3>1. n \in FirstTables \cup Lexical \cup Vectors
        <4>1. k = 0 \/ k = 1 \/ k = 2
          OBVIOUS
        <4> QED BY <1>0, <4>1, WhatIsMade
      <3>2. \A m \in {"vector_chunks_v4", "paused", "agent_action_audit",
                    "agent_action_audit_v8", "agent_action_audit_operation_idx",
                    "agent_action_workflows", "agent_action_workflows_v8"} : m # n
        BY <1>0, <3>1 DEF FirstTables, Lexical, Vectors
      <3> QED BY <1>0, <3>2, TheNames
    <2>3. VectorsFit(h, v, b)
      <3>1. AnyAt(b, 3, 2 .. 4) <=> AnyAt(a, 3, 2 .. 4)
        BY <1>0 DEF AnyAt, Moves
      <3> QED BY <1>2, <2>2, <3>1 DEF FormsFit, VectorsFit
    <2> DEFINE j == i + 1
    <2>4. j \in Nat /\ k \in Nat
      OBVIOUS
    <2>5. Moves(a, b, p, k, j)
      OBVIOUS
    <2> HIDE DEF j
    <2>6. PausedFits(h, v, b)
      <3>1. PausedUntouched(g, h, v, v, a, p, k, j)
        BY <1>0, <1>2, <2>2 DEF PausedUntouched
      <3>2. PausedFits(g, v, a)
        BY DEF FormsFit
      <3> QED BY <2>4, <2>5, <3>1, <3>2, PausedStays, Zenon
    <2>7. AuditFits(h, v, b)
      <3>1. AuditUntouched(g, h, v, v, a, p, k, j)
        BY <1>0, <1>2, <2>2 DEF AuditUntouched
      <3>2. AuditFits(g, v, a)
        BY DEF FormsFit
      <3> QED BY <2>4, <2>5, <3>1, <3>2, AuditStays, Zenon
    <2>8. WorkflowsFit(h, v, b)
      <3>1. WorkflowsUntouched(g, h, v, v, a, p, k, j)
        BY <1>0, <1>2, <2>2 DEF WorkflowsUntouched
      <3>2. WorkflowsFit(g, v, a)
        BY DEF FormsFit
      <3> QED BY <2>4, <2>5, <3>1, <3>2, WorkflowsStay, Zenon
    <2> QED BY <2>1, <2>3, <2>6, <2>7, <2>8 DEF FormsFit
  <1> QED BY <1>1, <1>2

----------------------------------------------------------------------------
(* The effects of the statements, name by name                             *)

\* A process is never ahead of the version by one of the first scripts.
LEMMA NotAhead ==
    ASSUME NEW g, NEW v \in 0 .. 8, NEW a, NEW p \in Openers, NEW k \in 0 .. 8,
           FormsFit(g, v, a), a[p][1] = k
    PROVE  k <= v \/ v > 3
  BY DEF FormsFit, FirstScripts, NoneAhead

PastUntouched(g, h, v, w, a, p, k) ==
    /\ a[p][1] \in 3 .. 7
    /\ w = v \/ w > 3
    /\ k = a[p][1] \/ w > 3
    /\ \A n \in FirstTables \cup Lexical : h[n] = g[n]

LEMMA Effects0 ==
    ASSUME NEW g \in Forms, NEW h, NEW i \in 1 .. 6,
           Allowed(g, ScriptOf(0)[i]), h = Effect(g, ScriptOf(0)[i], 0)
    PROVE  /\ h \in Forms
           /\ i = 1 =>
                /\ g["sources"] = Absent
                /\ \A m \in Names : h[m] =
                     IF m = "sources" THEN 0 ELSE g[m]
           /\ i = 2 =>
                /\ g["sync_runs"] = Absent
                /\ \A m \in Names : h[m] =
                     IF m = "sync_runs" THEN 0 ELSE g[m]
           /\ i = 3 =>
                /\ g["file_state"] = Absent
                /\ \A m \in Names : h[m] =
                     IF m = "file_state" THEN 0 ELSE g[m]
           /\ i = 4 =>
                /\ g["documents"] = Absent
                /\ \A m \in Names : h[m] =
                     IF m = "documents" THEN 0 ELSE g[m]
           /\ i = 5 =>
                /\ g["change_events"] = Absent
                /\ \A m \in Names : h[m] =
                     IF m = "change_events" THEN 0 ELSE g[m]
           /\ i = 6 =>
                /\ g["staged_files"] = Absent
                /\ \A m \in Names : h[m] =
                     IF m = "staged_files" THEN 0 ELSE g[m]
  <1>1. ASSUME i = 1
        PROVE  /\ h \in Forms
               /\ g["sources"] = Absent
               /\ \A m \in Names : h[m] =
                     IF m = "sources" THEN 0 ELSE g[m]
    <2>1. h = Put(g, "sources", 0) /\ g["sources"] = Absent
      <3>1. Allowed(g, ScriptOf(0)[1]) /\ h = Effect(g, ScriptOf(0)[1], 0)
        BY <1>1
      <3> QED BY <3>1, Statements0
    <2>2. /\ Put(g, "sources", 0) \in Forms
          /\ \A m \in Names : Put(g, "sources", 0)[m] = IF m = "sources" THEN 0 ELSE g[m]
      BY PutValues, TheNames
    <2> QED BY <2>1, <2>2
  <1>2. ASSUME i = 2
        PROVE  /\ h \in Forms
               /\ g["sync_runs"] = Absent
               /\ \A m \in Names : h[m] =
                     IF m = "sync_runs" THEN 0 ELSE g[m]
    <2>1. h = Put(g, "sync_runs", 0) /\ g["sync_runs"] = Absent
      <3>1. Allowed(g, ScriptOf(0)[2]) /\ h = Effect(g, ScriptOf(0)[2], 0)
        BY <1>2
      <3> QED BY <3>1, Statements0
    <2>2. /\ Put(g, "sync_runs", 0) \in Forms
          /\ \A m \in Names : Put(g, "sync_runs", 0)[m] = IF m = "sync_runs" THEN 0 ELSE g[m]
      BY PutValues, TheNames
    <2> QED BY <2>1, <2>2
  <1>3. ASSUME i = 3
        PROVE  /\ h \in Forms
               /\ g["file_state"] = Absent
               /\ \A m \in Names : h[m] =
                     IF m = "file_state" THEN 0 ELSE g[m]
    <2>1. h = Put(g, "file_state", 0) /\ g["file_state"] = Absent
      <3>1. Allowed(g, ScriptOf(0)[3]) /\ h = Effect(g, ScriptOf(0)[3], 0)
        BY <1>3
      <3> QED BY <3>1, Statements0
    <2>2. /\ Put(g, "file_state", 0) \in Forms
          /\ \A m \in Names : Put(g, "file_state", 0)[m] = IF m = "file_state" THEN 0 ELSE g[m]
      BY PutValues, TheNames
    <2> QED BY <2>1, <2>2
  <1>4. ASSUME i = 4
        PROVE  /\ h \in Forms
               /\ g["documents"] = Absent
               /\ \A m \in Names : h[m] =
                     IF m = "documents" THEN 0 ELSE g[m]
    <2>1. h = Put(g, "documents", 0) /\ g["documents"] = Absent
      <3>1. Allowed(g, ScriptOf(0)[4]) /\ h = Effect(g, ScriptOf(0)[4], 0)
        BY <1>4
      <3> QED BY <3>1, Statements0
    <2>2. /\ Put(g, "documents", 0) \in Forms
          /\ \A m \in Names : Put(g, "documents", 0)[m] = IF m = "documents" THEN 0 ELSE g[m]
      BY PutValues, TheNames
    <2> QED BY <2>1, <2>2
  <1>5. ASSUME i = 5
        PROVE  /\ h \in Forms
               /\ g["change_events"] = Absent
               /\ \A m \in Names : h[m] =
                     IF m = "change_events" THEN 0 ELSE g[m]
    <2>1. h = Put(g, "change_events", 0) /\ g["change_events"] = Absent
      <3>1. Allowed(g, ScriptOf(0)[5]) /\ h = Effect(g, ScriptOf(0)[5], 0)
        BY <1>5
      <3> QED BY <3>1, Statements0
    <2>2. /\ Put(g, "change_events", 0) \in Forms
          /\ \A m \in Names : Put(g, "change_events", 0)[m] = IF m = "change_events" THEN 0 ELSE g[m]
      BY PutValues, TheNames
    <2> QED BY <2>1, <2>2
  <1>6. ASSUME i = 6
        PROVE  /\ h \in Forms
               /\ g["staged_files"] = Absent
               /\ \A m \in Names : h[m] =
                     IF m = "staged_files" THEN 0 ELSE g[m]
    <2>1. h = Put(g, "staged_files", 0) /\ g["staged_files"] = Absent
      <3>1. Allowed(g, ScriptOf(0)[6]) /\ h = Effect(g, ScriptOf(0)[6], 0)
        BY <1>6
      <3> QED BY <3>1, Statements0
    <2>2. /\ Put(g, "staged_files", 0) \in Forms
          /\ \A m \in Names : Put(g, "staged_files", 0)[m] = IF m = "staged_files" THEN 0 ELSE g[m]
      BY PutValues, TheNames
    <2> QED BY <2>1, <2>2
  <1>7. i = 1 \/ i = 2 \/ i = 3 \/ i = 4 \/ i = 5 \/ i = 6
    OBVIOUS
  <1> QED BY <1>1, <1>2, <1>3, <1>4, <1>5, <1>6, <1>7

LEMMA Effects1 ==
    ASSUME NEW g \in Forms, NEW h, NEW i \in 1 .. 3,
           Allowed(g, ScriptOf(1)[i]), h = Effect(g, ScriptOf(1)[i], 1)
    PROVE  /\ h \in Forms
           /\ i = 1 =>
                /\ g["lexical_chunks"] = Absent
                /\ \A m \in Names : h[m] =
                     IF m = "lexical_chunks" THEN 1 ELSE g[m]
           /\ i = 2 =>
                /\ g["lexical_chunks_source_idx"] = Absent /\ g["lexical_chunks"] # Absent
                /\ \A m \in Names : h[m] =
                     IF m = "lexical_chunks_source_idx" THEN 1 ELSE g[m]
           /\ i = 3 =>
                /\ g["lexical_chunks_type_idx"] = Absent /\ g["lexical_chunks"] # Absent
                /\ \A m \in Names : h[m] =
                     IF m = "lexical_chunks_type_idx" THEN 1 ELSE g[m]
  <1>1. ASSUME i = 1
        PROVE  /\ h \in Forms
               /\ g["lexical_chunks"] = Absent
               /\ \A m \in Names : h[m] =
                     IF m = "lexical_chunks" THEN 1 ELSE g[m]
    <2>1. h = Put(g, "lexical_chunks", 1) /\ g["lexical_chunks"] = Absent
      <3>1. Allowed(g, ScriptOf(1)[1]) /\ h = Effect(g, ScriptOf(1)[1], 1)
        BY <1>1
      <3> QED BY <3>1, Statements1
    <2>2. /\ Put(g, "lexical_chunks", 1) \in Forms
          /\ \A m \in Names : Put(g, "lexical_chunks", 1)[m] = IF m = "lexical_chunks" THEN 1 ELSE g[m]
      BY PutValues, TheNames
    <2> QED BY <2>1, <2>2
  <1>2. ASSUME i = 2
        PROVE  /\ h \in Forms
               /\ g["lexical_chunks_source_idx"] = Absent /\ g["lexical_chunks"] # Absent
               /\ \A m \in Names : h[m] =
                     IF m = "lexical_chunks_source_idx" THEN 1 ELSE g[m]
    <2>1. h = Put(g, "lexical_chunks_source_idx", 1) /\ g["lexical_chunks_source_idx"] = Absent /\ g["lexical_chunks"] # Absent
      <3>1. Allowed(g, ScriptOf(1)[2]) /\ h = Effect(g, ScriptOf(1)[2], 1)
        BY <1>2
      <3> QED BY <3>1, Statements1
    <2>2. /\ Put(g, "lexical_chunks_source_idx", 1) \in Forms
          /\ \A m \in Names : Put(g, "lexical_chunks_source_idx", 1)[m] = IF m = "lexical_chunks_source_idx" THEN 1 ELSE g[m]
      BY PutValues, TheNames
    <2> QED BY <2>1, <2>2
  <1>3. ASSUME i = 3
        PROVE  /\ h \in Forms
               /\ g["lexical_chunks_type_idx"] = Absent /\ g["lexical_chunks"] # Absent
               /\ \A m \in Names : h[m] =
                     IF m = "lexical_chunks_type_idx" THEN 1 ELSE g[m]
    <2>1. h = Put(g, "lexical_chunks_type_idx", 1) /\ g["lexical_chunks_type_idx"] = Absent /\ g["lexical_chunks"] # Absent
      <3>1. Allowed(g, ScriptOf(1)[3]) /\ h = Effect(g, ScriptOf(1)[3], 1)
        BY <1>3
      <3> QED BY <3>1, Statements1
    <2>2. /\ Put(g, "lexical_chunks_type_idx", 1) \in Forms
          /\ \A m \in Names : Put(g, "lexical_chunks_type_idx", 1)[m] = IF m = "lexical_chunks_type_idx" THEN 1 ELSE g[m]
      BY PutValues, TheNames
    <2> QED BY <2>1, <2>2
  <1>4. i = 1 \/ i = 2 \/ i = 3
    OBVIOUS
  <1> QED BY <1>1, <1>2, <1>3, <1>4

LEMMA Effects2 ==
    ASSUME NEW g \in Forms, NEW h, NEW i \in 1 .. 2,
           Allowed(g, ScriptOf(2)[i]), h = Effect(g, ScriptOf(2)[i], 2)
    PROVE  /\ h \in Forms
           /\ i = 1 =>
                /\ g["vector_chunks"] = Absent
                /\ \A m \in Names : h[m] =
                     IF m = "vector_chunks" THEN 2 ELSE g[m]
           /\ i = 2 =>
                /\ g["vector_chunks_source_idx"] = Absent /\ g["vector_chunks"] # Absent
                /\ \A m \in Names : h[m] =
                     IF m = "vector_chunks_source_idx" THEN 2 ELSE g[m]
  <1>1. ASSUME i = 1
        PROVE  /\ h \in Forms
               /\ g["vector_chunks"] = Absent
               /\ \A m \in Names : h[m] =
                     IF m = "vector_chunks" THEN 2 ELSE g[m]
    <2>1. h = Put(g, "vector_chunks", 2) /\ g["vector_chunks"] = Absent
      <3>1. Allowed(g, ScriptOf(2)[1]) /\ h = Effect(g, ScriptOf(2)[1], 2)
        BY <1>1
      <3> QED BY <3>1, Statements2
    <2>2. /\ Put(g, "vector_chunks", 2) \in Forms
          /\ \A m \in Names : Put(g, "vector_chunks", 2)[m] = IF m = "vector_chunks" THEN 2 ELSE g[m]
      BY PutValues, TheNames
    <2> QED BY <2>1, <2>2
  <1>2. ASSUME i = 2
        PROVE  /\ h \in Forms
               /\ g["vector_chunks_source_idx"] = Absent /\ g["vector_chunks"] # Absent
               /\ \A m \in Names : h[m] =
                     IF m = "vector_chunks_source_idx" THEN 2 ELSE g[m]
    <2>1. h = Put(g, "vector_chunks_source_idx", 2) /\ g["vector_chunks_source_idx"] = Absent /\ g["vector_chunks"] # Absent
      <3>1. Allowed(g, ScriptOf(2)[2]) /\ h = Effect(g, ScriptOf(2)[2], 2)
        BY <1>2
      <3> QED BY <3>1, Statements2
    <2>2. /\ Put(g, "vector_chunks_source_idx", 2) \in Forms
          /\ \A m \in Names : Put(g, "vector_chunks_source_idx", 2)[m] = IF m = "vector_chunks_source_idx" THEN 2 ELSE g[m]
      BY PutValues, TheNames
    <2> QED BY <2>1, <2>2
  <1>3. i = 1 \/ i = 2
    OBVIOUS
  <1> QED BY <1>1, <1>2, <1>3

LEMMA Effects3 ==
    ASSUME NEW g \in Forms, NEW h, NEW i \in 1 .. 5,
           Allowed(g, ScriptOf(3)[i]), h = Effect(g, ScriptOf(3)[i], 3)
    PROVE  /\ h \in Forms
           /\ i = 1 =>
                /\ g["vector_chunks_v4"] = Absent
                /\ \A m \in Names : h[m] =
                     IF m = "vector_chunks_v4" THEN 3 ELSE g[m]
           /\ i = 2 =>
                /\ g["vector_chunks"] # Absent /\ g["vector_chunks_v4"] # Absent
                /\ \A m \in Names : h[m] =
                     g[m]
           /\ i = 3 =>
                /\ g["vector_chunks"] # Absent
                /\ \A m \in Names : h[m] =
                     IF m \in {"vector_chunks", "vector_chunks_source_idx"} THEN Absent ELSE g[m]
           /\ i = 4 =>
                /\ g["vector_chunks_v4"] # Absent /\ g["vector_chunks"] = Absent
                /\ \A m \in Names : h[m] =
                     IF m = "vector_chunks_v4" THEN Absent
                     ELSE IF m = "vector_chunks" THEN g["vector_chunks_v4"] ELSE g[m]
           /\ i = 5 =>
                /\ g["vector_chunks_source_idx"] = Absent /\ g["vector_chunks"] # Absent
                /\ \A m \in Names : h[m] =
                     IF m = "vector_chunks_source_idx" THEN 3 ELSE g[m]
  <1>1. ASSUME i = 1
        PROVE  /\ h \in Forms
               /\ g["vector_chunks_v4"] = Absent
               /\ \A m \in Names : h[m] =
                     IF m = "vector_chunks_v4" THEN 3 ELSE g[m]
    <2>1. h = Put(g, "vector_chunks_v4", 3) /\ g["vector_chunks_v4"] = Absent
      <3>1. Allowed(g, ScriptOf(3)[1]) /\ h = Effect(g, ScriptOf(3)[1], 3)
        BY <1>1
      <3> QED BY <3>1, Statements3
    <2>2. /\ Put(g, "vector_chunks_v4", 3) \in Forms
          /\ \A m \in Names : Put(g, "vector_chunks_v4", 3)[m] = IF m = "vector_chunks_v4" THEN 3 ELSE g[m]
      BY PutValues, TheNames
    <2> QED BY <2>1, <2>2
  <1>2. ASSUME i = 2
        PROVE  /\ h \in Forms
               /\ g["vector_chunks"] # Absent /\ g["vector_chunks_v4"] # Absent
               /\ \A m \in Names : h[m] =
                     g[m]
    <2>1. h = g /\ g["vector_chunks"] # Absent /\ g["vector_chunks_v4"] # Absent
      <3>1. Allowed(g, ScriptOf(3)[2]) /\ h = Effect(g, ScriptOf(3)[2], 3)
        BY <1>2
      <3> QED BY <3>1, Statements3
    <2> QED BY <2>1
  <1>3. ASSUME i = 3
        PROVE  /\ h \in Forms
               /\ g["vector_chunks"] # Absent
               /\ \A m \in Names : h[m] =
                     IF m \in {"vector_chunks", "vector_chunks_source_idx"} THEN Absent ELSE g[m]
    <2>1. h = Dropped(g, "vector_chunks") /\ g["vector_chunks"] # Absent
      <3>1. Allowed(g, ScriptOf(3)[3]) /\ h = Effect(g, ScriptOf(3)[3], 3)
        BY <1>3
      <3> QED BY <3>1, Statements3
    <2>a. /\ Dropped(g, "vector_chunks") \in Forms
          /\ \A m \in Names : Dropped(g, "vector_chunks")[m] =
               IF m = "vector_chunks" \/ Carrier(m) = "vector_chunks" THEN Absent ELSE g[m]
      BY DroppedValues, TheNames
    <2>2. /\ h \in Forms
          /\ \A m \in Names : h[m] =
               IF m = "vector_chunks" \/ Carrier(m) = "vector_chunks" THEN Absent ELSE g[m]
      BY <2>1, <2>a
    <2> QED BY <2>1, <2>2, WhereTheyBelong
  <1>4. ASSUME i = 4
        PROVE  /\ h \in Forms
               /\ g["vector_chunks_v4"] # Absent /\ g["vector_chunks"] = Absent
               /\ \A m \in Names : h[m] =
                     IF m = "vector_chunks_v4" THEN Absent
                     ELSE IF m = "vector_chunks" THEN g["vector_chunks_v4"] ELSE g[m]
    <2>1. h = InPlace(g, "vector_chunks") /\ g["vector_chunks_v4"] # Absent /\ g["vector_chunks"] = Absent
      <3>1. Allowed(g, ScriptOf(3)[4]) /\ h = Effect(g, ScriptOf(3)[4], 3)
        BY <1>4
      <3> QED BY <3>1, Statements3
    <2>2. /\ InPlace(g, "vector_chunks") \in Forms
          /\ \A m \in Names : InPlace(g, "vector_chunks")[m] =
                     IF m = "vector_chunks_v4" THEN Absent
                     ELSE IF m = "vector_chunks" THEN g["vector_chunks_v4"] ELSE g[m]
      BY InPlaceValues, WhereTheyBelong
    <2> QED BY <2>1, <2>2
  <1>5. ASSUME i = 5
        PROVE  /\ h \in Forms
               /\ g["vector_chunks_source_idx"] = Absent /\ g["vector_chunks"] # Absent
               /\ \A m \in Names : h[m] =
                     IF m = "vector_chunks_source_idx" THEN 3 ELSE g[m]
    <2>1. h = Put(g, "vector_chunks_source_idx", 3) /\ g["vector_chunks_source_idx"] = Absent /\ g["vector_chunks"] # Absent
      <3>1. Allowed(g, ScriptOf(3)[5]) /\ h = Effect(g, ScriptOf(3)[5], 3)
        BY <1>5
      <3> QED BY <3>1, Statements3
    <2>2. /\ Put(g, "vector_chunks_source_idx", 3) \in Forms
          /\ \A m \in Names : Put(g, "vector_chunks_source_idx", 3)[m] = IF m = "vector_chunks_source_idx" THEN 3 ELSE g[m]
      BY PutValues, TheNames
    <2> QED BY <2>1, <2>2
  <1>6. i = 1 \/ i = 2 \/ i = 3 \/ i = 4 \/ i = 5
    OBVIOUS
  <1> QED BY <1>1, <1>2, <1>3, <1>4, <1>5, <1>6

LEMMA Effects4 ==
    ASSUME NEW g \in Forms, NEW h, NEW i \in 1 .. 2,
           Allowed(g, ScriptOf(4)[i]), h = Effect(g, ScriptOf(4)[i], 4)
    PROVE  /\ h \in Forms
           /\ i = 1 => \A m \in Names : h[m] =
                     g[m]
           /\ i = 2 =>
                /\ g["sources"] # Absent /\ g["paused"] = Absent
                /\ \A m \in Names : h[m] =
                     IF m = "paused" THEN 4 ELSE g[m]
  <1>1. ASSUME i = 1
        PROVE  /\ h \in Forms
               /\ \A m \in Names : h[m] =
                     g[m]
    <2>1. h = g
      <3>1. Allowed(g, ScriptOf(4)[1]) /\ h = Effect(g, ScriptOf(4)[1], 4)
        BY <1>1
      <3> QED BY <3>1, Statements4
    <2> QED BY <2>1
  <1>2. ASSUME i = 2
        PROVE  /\ h \in Forms
               /\ g["sources"] # Absent /\ g["paused"] = Absent
               /\ \A m \in Names : h[m] =
                     IF m = "paused" THEN 4 ELSE g[m]
    <2>1. h = Put(g, "paused", 4) /\ g["sources"] # Absent /\ g["paused"] = Absent
      <3>1. Allowed(g, ScriptOf(4)[2]) /\ h = Effect(g, ScriptOf(4)[2], 4)
        BY <1>2
      <3> QED BY <3>1, Statements4
    <2>2. /\ Put(g, "paused", 4) \in Forms
          /\ \A m \in Names : Put(g, "paused", 4)[m] = IF m = "paused" THEN 4 ELSE g[m]
      BY PutValues, TheNames
    <2> QED BY <2>1, <2>2
  <1>3. i = 1 \/ i = 2
    OBVIOUS
  <1> QED BY <1>1, <1>2, <1>3

LEMMA Effects5 ==
    ASSUME NEW g \in Forms, NEW h, NEW i \in 1 .. 1,
           Allowed(g, ScriptOf(5)[i]), h = Effect(g, ScriptOf(5)[i], 5)
    PROVE  /\ h \in Forms
           /\ i = 1 => \A m \in Names : h[m] =
                     IF m = "agent_action_audit" /\ g[m] = Absent THEN 5 ELSE g[m]
  <1>1. ASSUME i = 1
        PROVE  /\ h \in Forms
               /\ \A m \in Names : h[m] =
                     IF m = "agent_action_audit" /\ g[m] = Absent THEN 5 ELSE g[m]
    <2>1. h = IF g["agent_action_audit"] = Absent THEN Put(g, "agent_action_audit", 5) ELSE g
      <3>1. Allowed(g, ScriptOf(5)[1]) /\ h = Effect(g, ScriptOf(5)[1], 5)
        BY <1>1
      <3> QED BY <3>1, Statements5
    <2>2. CASE g["agent_action_audit"] = Absent
      <3>1. /\ Put(g, "agent_action_audit", 5) \in Forms
            /\ \A m \in Names : Put(g, "agent_action_audit", 5)[m] = IF m = "agent_action_audit" THEN 5 ELSE g[m]
        BY PutValues, TheNames
      <3> QED BY <2>1, <2>2, <3>1
    <2>3. CASE g["agent_action_audit"] # Absent
      BY <2>1, <2>3
    <2> QED BY <2>2, <2>3
  <1>2. i = 1
    OBVIOUS
  <1> QED BY <1>1, <1>2

LEMMA Effects6 ==
    ASSUME NEW g \in Forms, NEW h, NEW i \in 1 .. 1,
           Allowed(g, ScriptOf(6)[i]), h = Effect(g, ScriptOf(6)[i], 6)
    PROVE  /\ h \in Forms
           /\ i = 1 => \A m \in Names : h[m] =
                     IF m = "agent_action_workflows" /\ g[m] = Absent THEN 6 ELSE g[m]
  <1>1. ASSUME i = 1
        PROVE  /\ h \in Forms
               /\ \A m \in Names : h[m] =
                     IF m = "agent_action_workflows" /\ g[m] = Absent THEN 6 ELSE g[m]
    <2>1. h = IF g["agent_action_workflows"] = Absent THEN Put(g, "agent_action_workflows", 6) ELSE g
      <3>1. Allowed(g, ScriptOf(6)[1]) /\ h = Effect(g, ScriptOf(6)[1], 6)
        BY <1>1
      <3> QED BY <3>1, Statements6
    <2>2. CASE g["agent_action_workflows"] = Absent
      <3>1. /\ Put(g, "agent_action_workflows", 6) \in Forms
            /\ \A m \in Names : Put(g, "agent_action_workflows", 6)[m] = IF m = "agent_action_workflows" THEN 6 ELSE g[m]
        BY PutValues, TheNames
      <3> QED BY <2>1, <2>2, <3>1
    <2>3. CASE g["agent_action_workflows"] # Absent
      BY <2>1, <2>3
    <2> QED BY <2>2, <2>3
  <1>2. i = 1
    OBVIOUS
  <1> QED BY <1>1, <1>2

LEMMA Effects7 ==
    ASSUME NEW g \in Forms, NEW h, NEW i \in 1 .. 9,
           Allowed(g, ScriptOf(7)[i]), h = Effect(g, ScriptOf(7)[i], 7)
    PROVE  /\ h \in Forms
           /\ i = 1 =>
                /\ g["agent_action_audit_v8"] = Absent
                /\ \A m \in Names : h[m] =
                     IF m = "agent_action_audit_v8" THEN 7 ELSE g[m]
           /\ i = 2 =>
                /\ g["agent_action_audit"] # Absent /\ g["agent_action_audit_v8"] # Absent
                /\ \A m \in Names : h[m] =
                     g[m]
           /\ i = 3 =>
                /\ g["agent_action_audit"] # Absent
                /\ \A m \in Names : h[m] =
                     IF m \in {"agent_action_audit", "agent_action_audit_operation_idx"} THEN Absent ELSE g[m]
           /\ i = 4 =>
                /\ g["agent_action_audit_v8"] # Absent /\ g["agent_action_audit"] = Absent
                /\ \A m \in Names : h[m] =
                     IF m = "agent_action_audit_v8" THEN Absent
                     ELSE IF m = "agent_action_audit" THEN g["agent_action_audit_v8"] ELSE g[m]
           /\ i = 5 =>
                /\ g["agent_action_audit_operation_idx"] = Absent /\ g["agent_action_audit"] # Absent
                /\ \A m \in Names : h[m] =
                     IF m = "agent_action_audit_operation_idx" THEN 7 ELSE g[m]
           /\ i = 6 =>
                /\ g["agent_action_workflows_v8"] = Absent
                /\ \A m \in Names : h[m] =
                     IF m = "agent_action_workflows_v8" THEN 7 ELSE g[m]
           /\ i = 7 =>
                /\ g["agent_action_workflows"] # Absent /\ g["agent_action_workflows_v8"] # Absent
                /\ \A m \in Names : h[m] =
                     g[m]
           /\ i = 8 =>
                /\ g["agent_action_workflows"] # Absent
                /\ \A m \in Names : h[m] =
                     IF m = "agent_action_workflows" THEN Absent ELSE g[m]
           /\ i = 9 =>
                /\ g["agent_action_workflows_v8"] # Absent /\ g["agent_action_workflows"] = Absent
                /\ \A m \in Names : h[m] =
                     IF m = "agent_action_workflows_v8" THEN Absent
                     ELSE IF m = "agent_action_workflows" THEN g["agent_action_workflows_v8"] ELSE g[m]
  <1>1. ASSUME i = 1
        PROVE  /\ h \in Forms
               /\ g["agent_action_audit_v8"] = Absent
               /\ \A m \in Names : h[m] =
                     IF m = "agent_action_audit_v8" THEN 7 ELSE g[m]
    <2>1. h = Put(g, "agent_action_audit_v8", 7) /\ g["agent_action_audit_v8"] = Absent
      <3>1. Allowed(g, ScriptOf(7)[1]) /\ h = Effect(g, ScriptOf(7)[1], 7)
        BY <1>1
      <3> QED BY <3>1, Statements7
    <2>2. /\ Put(g, "agent_action_audit_v8", 7) \in Forms
          /\ \A m \in Names : Put(g, "agent_action_audit_v8", 7)[m] = IF m = "agent_action_audit_v8" THEN 7 ELSE g[m]
      BY PutValues, TheNames
    <2> QED BY <2>1, <2>2
  <1>2. ASSUME i = 2
        PROVE  /\ h \in Forms
               /\ g["agent_action_audit"] # Absent /\ g["agent_action_audit_v8"] # Absent
               /\ \A m \in Names : h[m] =
                     g[m]
    <2>1. h = g /\ g["agent_action_audit"] # Absent /\ g["agent_action_audit_v8"] # Absent
      <3>1. Allowed(g, ScriptOf(7)[2]) /\ h = Effect(g, ScriptOf(7)[2], 7)
        BY <1>2
      <3> QED BY <3>1, Statements7
    <2> QED BY <2>1
  <1>3. ASSUME i = 3
        PROVE  /\ h \in Forms
               /\ g["agent_action_audit"] # Absent
               /\ \A m \in Names : h[m] =
                     IF m \in {"agent_action_audit", "agent_action_audit_operation_idx"} THEN Absent ELSE g[m]
    <2>1. h = Dropped(g, "agent_action_audit") /\ g["agent_action_audit"] # Absent
      <3>1. Allowed(g, ScriptOf(7)[3]) /\ h = Effect(g, ScriptOf(7)[3], 7)
        BY <1>3
      <3> QED BY <3>1, Statements7
    <2>a. /\ Dropped(g, "agent_action_audit") \in Forms
          /\ \A m \in Names : Dropped(g, "agent_action_audit")[m] =
               IF m = "agent_action_audit" \/ Carrier(m) = "agent_action_audit" THEN Absent ELSE g[m]
      BY DroppedValues, TheNames
    <2>2. /\ h \in Forms
          /\ \A m \in Names : h[m] =
               IF m = "agent_action_audit" \/ Carrier(m) = "agent_action_audit" THEN Absent ELSE g[m]
      BY <2>1, <2>a
    <2> QED BY <2>1, <2>2, WhereTheyBelong
  <1>4. ASSUME i = 4
        PROVE  /\ h \in Forms
               /\ g["agent_action_audit_v8"] # Absent /\ g["agent_action_audit"] = Absent
               /\ \A m \in Names : h[m] =
                     IF m = "agent_action_audit_v8" THEN Absent
                     ELSE IF m = "agent_action_audit" THEN g["agent_action_audit_v8"] ELSE g[m]
    <2>1. h = InPlace(g, "agent_action_audit") /\ g["agent_action_audit_v8"] # Absent /\ g["agent_action_audit"] = Absent
      <3>1. Allowed(g, ScriptOf(7)[4]) /\ h = Effect(g, ScriptOf(7)[4], 7)
        BY <1>4
      <3> QED BY <3>1, Statements7
    <2>2. /\ InPlace(g, "agent_action_audit") \in Forms
          /\ \A m \in Names : InPlace(g, "agent_action_audit")[m] =
                     IF m = "agent_action_audit_v8" THEN Absent
                     ELSE IF m = "agent_action_audit" THEN g["agent_action_audit_v8"] ELSE g[m]
      BY InPlaceValues, WhereTheyBelong
    <2> QED BY <2>1, <2>2
  <1>5. ASSUME i = 5
        PROVE  /\ h \in Forms
               /\ g["agent_action_audit_operation_idx"] = Absent /\ g["agent_action_audit"] # Absent
               /\ \A m \in Names : h[m] =
                     IF m = "agent_action_audit_operation_idx" THEN 7 ELSE g[m]
    <2>1. h = Put(g, "agent_action_audit_operation_idx", 7) /\ g["agent_action_audit_operation_idx"] = Absent /\ g["agent_action_audit"] # Absent
      <3>1. Allowed(g, ScriptOf(7)[5]) /\ h = Effect(g, ScriptOf(7)[5], 7)
        BY <1>5
      <3> QED BY <3>1, Statements7
    <2>2. /\ Put(g, "agent_action_audit_operation_idx", 7) \in Forms
          /\ \A m \in Names : Put(g, "agent_action_audit_operation_idx", 7)[m] = IF m = "agent_action_audit_operation_idx" THEN 7 ELSE g[m]
      BY PutValues, TheNames
    <2> QED BY <2>1, <2>2
  <1>6. ASSUME i = 6
        PROVE  /\ h \in Forms
               /\ g["agent_action_workflows_v8"] = Absent
               /\ \A m \in Names : h[m] =
                     IF m = "agent_action_workflows_v8" THEN 7 ELSE g[m]
    <2>1. h = Put(g, "agent_action_workflows_v8", 7) /\ g["agent_action_workflows_v8"] = Absent
      <3>1. Allowed(g, ScriptOf(7)[6]) /\ h = Effect(g, ScriptOf(7)[6], 7)
        BY <1>6
      <3> QED BY <3>1, Statements7
    <2>2. /\ Put(g, "agent_action_workflows_v8", 7) \in Forms
          /\ \A m \in Names : Put(g, "agent_action_workflows_v8", 7)[m] = IF m = "agent_action_workflows_v8" THEN 7 ELSE g[m]
      BY PutValues, TheNames
    <2> QED BY <2>1, <2>2
  <1>7. ASSUME i = 7
        PROVE  /\ h \in Forms
               /\ g["agent_action_workflows"] # Absent /\ g["agent_action_workflows_v8"] # Absent
               /\ \A m \in Names : h[m] =
                     g[m]
    <2>1. h = g /\ g["agent_action_workflows"] # Absent /\ g["agent_action_workflows_v8"] # Absent
      <3>1. Allowed(g, ScriptOf(7)[7]) /\ h = Effect(g, ScriptOf(7)[7], 7)
        BY <1>7
      <3> QED BY <3>1, Statements7
    <2> QED BY <2>1
  <1>8. ASSUME i = 8
        PROVE  /\ h \in Forms
               /\ g["agent_action_workflows"] # Absent
               /\ \A m \in Names : h[m] =
                     IF m = "agent_action_workflows" THEN Absent ELSE g[m]
    <2>1. h = Dropped(g, "agent_action_workflows") /\ g["agent_action_workflows"] # Absent
      <3>1. Allowed(g, ScriptOf(7)[8]) /\ h = Effect(g, ScriptOf(7)[8], 7)
        BY <1>8
      <3> QED BY <3>1, Statements7
    <2>a. /\ Dropped(g, "agent_action_workflows") \in Forms
          /\ \A m \in Names : Dropped(g, "agent_action_workflows")[m] =
               IF m = "agent_action_workflows" \/ Carrier(m) = "agent_action_workflows" THEN Absent ELSE g[m]
      BY DroppedValues, TheNames
    <2>2. /\ h \in Forms
          /\ \A m \in Names : h[m] =
               IF m = "agent_action_workflows" \/ Carrier(m) = "agent_action_workflows" THEN Absent ELSE g[m]
      BY <2>1, <2>a
    <2> QED BY <2>1, <2>2, WhereTheyBelong
  <1>9. ASSUME i = 9
        PROVE  /\ h \in Forms
               /\ g["agent_action_workflows_v8"] # Absent /\ g["agent_action_workflows"] = Absent
               /\ \A m \in Names : h[m] =
                     IF m = "agent_action_workflows_v8" THEN Absent
                     ELSE IF m = "agent_action_workflows" THEN g["agent_action_workflows_v8"] ELSE g[m]
    <2>1. h = InPlace(g, "agent_action_workflows") /\ g["agent_action_workflows_v8"] # Absent /\ g["agent_action_workflows"] = Absent
      <3>1. Allowed(g, ScriptOf(7)[9]) /\ h = Effect(g, ScriptOf(7)[9], 7)
        BY <1>9
      <3> QED BY <3>1, Statements7
    <2>2. /\ InPlace(g, "agent_action_workflows") \in Forms
          /\ \A m \in Names : InPlace(g, "agent_action_workflows")[m] =
                     IF m = "agent_action_workflows_v8" THEN Absent
                     ELSE IF m = "agent_action_workflows" THEN g["agent_action_workflows_v8"] ELSE g[m]
      BY InPlaceValues, WhereTheyBelong
    <2> QED BY <2>1, <2>2
  <1>10. i = 1 \/ i = 2 \/ i = 3 \/ i = 4 \/ i = 5 \/ i = 6 \/ i = 7 \/ i = 8 \/ i = 9
    OBVIOUS
  <1> QED BY <1>1, <1>2, <1>3, <1>4, <1>5, <1>6, <1>7, <1>8, <1>9, <1>10

----------------------------------------------------------------------------
(* Every statement leaves forms that fit                                   *)

\* p runs statement i of script k.
Runs(g, h, a, b, p, k, i) ==
    /\ a[p][1] = k /\ a[p][2] = i
    /\ Moves(a, b, p, k, i + 1)
    /\ Allowed(g, ScriptOf(k)[i])
    /\ h = Effect(g, ScriptOf(k)[i], k)

LEMMA PastFits ==
    ASSUME NEW g \in Forms, NEW h \in Forms, NEW v \in 0 .. 8, NEW w \in 3 .. 8,
           NEW a, NEW b, NEW p \in Openers, NEW k \in 3 .. 8, NEW i \in Nat,
           FormsFit(g, v, a), Moves(a, b, p, k, i),
           PastUntouched(g, h, v, w, a, p, k)
    PROVE  FirstScripts(h, w, b)
  BY PastKeeps DEF PastUntouched, FormsFit

LEMMA FirstPlaces ==

    /\ "sources" \in Made(0) /\ Place("sources") = 1
    /\ "sync_runs" \in Made(0) /\ Place("sync_runs") = 2
    /\ "file_state" \in Made(0) /\ Place("file_state") = 3
    /\ "documents" \in Made(0) /\ Place("documents") = 4
    /\ "change_events" \in Made(0) /\ Place("change_events") = 5
    /\ "staged_files" \in Made(0) /\ Place("staged_files") = 6
    /\ "lexical_chunks" \in Made(1) /\ Place("lexical_chunks") = 1
    /\ "lexical_chunks_source_idx" \in Made(1) /\ Place("lexical_chunks_source_idx") = 2
    /\ "lexical_chunks_type_idx" \in Made(1) /\ Place("lexical_chunks_type_idx") = 3
    /\ "vector_chunks" \in Made(2) /\ Place("vector_chunks") = 1
    /\ "vector_chunks_source_idx" \in Made(2) /\ Place("vector_chunks_source_idx") = 2
  BY WhatIsMade DEF FirstTables, Lexical, Vectors, Place

LEMMA Script0Fits ==
    ASSUME NEW g \in Forms, NEW h, NEW v \in 0 .. 8, NEW a, NEW b,
           NEW p \in Openers, NEW i \in 1 .. 6,
           FormsFit(g, v, a), Runs(g, h, a, b, p, 0, i)
    PROVE  h \in Forms /\ (FormsFit(h, v, b) \/ Doomed(h, b))
  <1>0. /\ a[p][1] = 0 /\ a[p][2] = i
        /\ Moves(a, b, p, 0, i + 1)
        /\ Allowed(g, ScriptOf(0)[i])
        /\ h = Effect(g, ScriptOf(0)[i], 0)
    BY DEF Runs
  <1>a. h \in Forms
    BY <1>0, Effects0
  <1>1. ASSUME i = 1 PROVE \E n : Fills(g, h, a, p, 0, i, n)
    <2>1. /\ g["sources"] = Absent
          /\ \A m \in Names : h[m] = IF m = "sources" THEN 0 ELSE g[m]
      BY <1>0, <1>1, Effects0
    <2> QED BY <1>0, <1>1, <2>1, FirstPlaces DEF Fills
  <1>2. ASSUME i = 2 PROVE \E n : Fills(g, h, a, p, 0, i, n)
    <2>1. /\ g["sync_runs"] = Absent
          /\ \A m \in Names : h[m] = IF m = "sync_runs" THEN 0 ELSE g[m]
      BY <1>0, <1>2, Effects0
    <2> QED BY <1>0, <1>2, <2>1, FirstPlaces DEF Fills
  <1>3. ASSUME i = 3 PROVE \E n : Fills(g, h, a, p, 0, i, n)
    <2>1. /\ g["file_state"] = Absent
          /\ \A m \in Names : h[m] = IF m = "file_state" THEN 0 ELSE g[m]
      BY <1>0, <1>3, Effects0
    <2> QED BY <1>0, <1>3, <2>1, FirstPlaces DEF Fills
  <1>4. ASSUME i = 4 PROVE \E n : Fills(g, h, a, p, 0, i, n)
    <2>1. /\ g["documents"] = Absent
          /\ \A m \in Names : h[m] = IF m = "documents" THEN 0 ELSE g[m]
      BY <1>0, <1>4, Effects0
    <2> QED BY <1>0, <1>4, <2>1, FirstPlaces DEF Fills
  <1>5. ASSUME i = 5 PROVE \E n : Fills(g, h, a, p, 0, i, n)
    <2>1. /\ g["change_events"] = Absent
          /\ \A m \in Names : h[m] = IF m = "change_events" THEN 0 ELSE g[m]
      BY <1>0, <1>5, Effects0
    <2> QED BY <1>0, <1>5, <2>1, FirstPlaces DEF Fills
  <1>6. ASSUME i = 6 PROVE \E n : Fills(g, h, a, p, 0, i, n)
    <2>1. /\ g["staged_files"] = Absent
          /\ \A m \in Names : h[m] = IF m = "staged_files" THEN 0 ELSE g[m]
      BY <1>0, <1>6, Effects0
    <2> QED BY <1>0, <1>6, <2>1, FirstPlaces DEF Fills
  <1>7. PICK n : Fills(g, h, a, p, 0, i, n)
    <2>1. i = 1 \/ i = 2 \/ i = 3 \/ i = 4 \/ i = 5 \/ i = 6
      OBVIOUS
    <2> QED BY <2>1, <1>1, <1>2, <1>3, <1>4, <1>5, <1>6
  <1>8. 0 \in 0 .. 2 /\ i \in 1 .. 6
    OBVIOUS
  <1>m. Moves(a, b, p, 0, i + 1)
    BY <1>0
  <1>f. FormsFit(h, v, b) \/ Doomed(h, b)
    BY <1>a, <1>m, <1>7, <1>8, FillFits, Zenon
  <1> QED BY <1>a, <1>f

LEMMA Script1Fits ==
    ASSUME NEW g \in Forms, NEW h, NEW v \in 0 .. 8, NEW a, NEW b,
           NEW p \in Openers, NEW i \in 1 .. 3,
           FormsFit(g, v, a), Runs(g, h, a, b, p, 1, i)
    PROVE  h \in Forms /\ (FormsFit(h, v, b) \/ Doomed(h, b))
  <1>0. /\ a[p][1] = 1 /\ a[p][2] = i
        /\ Moves(a, b, p, 1, i + 1)
        /\ Allowed(g, ScriptOf(1)[i])
        /\ h = Effect(g, ScriptOf(1)[i], 1)
    BY DEF Runs
  <1>a. h \in Forms
    BY <1>0, Effects1
  <1>1. ASSUME i = 1 PROVE \E n : Fills(g, h, a, p, 1, i, n)
    <2>1. /\ g["lexical_chunks"] = Absent
          /\ \A m \in Names : h[m] = IF m = "lexical_chunks" THEN 1 ELSE g[m]
      BY <1>0, <1>1, Effects1
    <2> QED BY <1>0, <1>1, <2>1, FirstPlaces DEF Fills
  <1>2. ASSUME i = 2 PROVE \E n : Fills(g, h, a, p, 1, i, n)
    <2>1. /\ g["lexical_chunks_source_idx"] = Absent
          /\ \A m \in Names : h[m] = IF m = "lexical_chunks_source_idx" THEN 1 ELSE g[m]
      BY <1>0, <1>2, Effects1
    <2> QED BY <1>0, <1>2, <2>1, FirstPlaces DEF Fills
  <1>3. ASSUME i = 3 PROVE \E n : Fills(g, h, a, p, 1, i, n)
    <2>1. /\ g["lexical_chunks_type_idx"] = Absent
          /\ \A m \in Names : h[m] = IF m = "lexical_chunks_type_idx" THEN 1 ELSE g[m]
      BY <1>0, <1>3, Effects1
    <2> QED BY <1>0, <1>3, <2>1, FirstPlaces DEF Fills
  <1>4. PICK n : Fills(g, h, a, p, 1, i, n)
    <2>1. i = 1 \/ i = 2 \/ i = 3
      OBVIOUS
    <2> QED BY <2>1, <1>1, <1>2, <1>3
  <1>5. 1 \in 0 .. 2 /\ i \in 1 .. 6
    OBVIOUS
  <1>m. Moves(a, b, p, 1, i + 1)
    BY <1>0
  <1>f. FormsFit(h, v, b) \/ Doomed(h, b)
    BY <1>a, <1>m, <1>4, <1>5, FillFits, Zenon
  <1> QED BY <1>a, <1>f

LEMMA Script2Fits ==
    ASSUME NEW g \in Forms, NEW h, NEW v \in 0 .. 8, NEW a, NEW b,
           NEW p \in Openers, NEW i \in 1 .. 2,
           FormsFit(g, v, a), Runs(g, h, a, b, p, 2, i)
    PROVE  h \in Forms /\ (FormsFit(h, v, b) \/ Doomed(h, b))
  <1>0. /\ a[p][1] = 2 /\ a[p][2] = i
        /\ Moves(a, b, p, 2, i + 1)
        /\ Allowed(g, ScriptOf(2)[i])
        /\ h = Effect(g, ScriptOf(2)[i], 2)
    BY DEF Runs
  <1>a. h \in Forms
    BY <1>0, Effects2
  <1>1. ASSUME i = 1 PROVE \E n : Fills(g, h, a, p, 2, i, n)
    <2>1. /\ g["vector_chunks"] = Absent
          /\ \A m \in Names : h[m] = IF m = "vector_chunks" THEN 2 ELSE g[m]
      BY <1>0, <1>1, Effects2
    <2> QED BY <1>0, <1>1, <2>1, FirstPlaces DEF Fills
  <1>2. ASSUME i = 2 PROVE \E n : Fills(g, h, a, p, 2, i, n)
    <2>1. /\ g["vector_chunks_source_idx"] = Absent
          /\ \A m \in Names : h[m] = IF m = "vector_chunks_source_idx" THEN 2 ELSE g[m]
      BY <1>0, <1>2, Effects2
    <2> QED BY <1>0, <1>2, <2>1, FirstPlaces DEF Fills
  <1>3. PICK n : Fills(g, h, a, p, 2, i, n)
    <2>1. i = 1 \/ i = 2
      OBVIOUS
    <2> QED BY <2>1, <1>1, <1>2
  <1>4. 2 \in 0 .. 2 /\ i \in 1 .. 6
    OBVIOUS
  <1>m. Moves(a, b, p, 2, i + 1)
    BY <1>0
  <1>f. FormsFit(h, v, b) \/ Doomed(h, b)
    BY <1>a, <1>m, <1>3, <1>4, FillFits, Zenon
  <1> QED BY <1>a, <1>f

LEMMA Script3Fits ==
    ASSUME NEW g \in Forms, NEW h, NEW v \in 0 .. 8, NEW a, NEW b,
           NEW p \in Openers, NEW i \in 1 .. 5,
           FormsFit(g, v, a), AllSole(a), Runs(g, h, a, b, p, 3, i)
    PROVE  h \in Forms /\ FormsFit(h, v, b)
  <1>0. /\ a[p][1] = 3 /\ a[p][2] = i
        /\ Moves(a, b, p, 3, i + 1)
        /\ Allowed(g, ScriptOf(3)[i])
        /\ h = Effect(g, ScriptOf(3)[i], 3)
    BY DEF Runs
  <1>a. h \in Forms
    BY <1>0, Effects3
  <1>b. 3 <= v \/ v > 3
    BY <1>0, NotAhead
  <1> DEFINE here == 3
  <1> DEFINE next == i + 1
  <1>m. Moves(a, b, p, here, next)
    BY <1>0
  <1>c. v \in 3 .. 8 /\ here \in 3 .. 8 /\ next \in Nat /\ here \in Nat
    BY <1>b
  <1>g. VectorsFit(g, v, a) /\ PausedFits(g, v, a) /\ AuditFits(g, v, a) /\ WorkflowsFit(g, v, a)
    BY DEF FormsFit
  <1>h. here = 3 /\ next = i + 1
    OBVIOUS
  <1> HIDE DEF here, next
  <1>1. ASSUME i = 1 PROVE FormsFit(h, v, b)
    <2>1. /\ \A m \in Names : h[m] =
                     IF m = "vector_chunks_v4" THEN 3 ELSE g[m]
          /\ g["vector_chunks_v4"] = Absent
      BY <1>0, <1>1, Effects3
    <2>2. FirstScripts(h, v, b)
      <3>1. \A n \in FirstTables \cup Lexical : h[n] = g[n]
        BY <2>1, TheNames DEF FirstTables, Lexical
      <3>2. PastUntouched(g, h, v, v, a, p, here)
        BY <1>0, <1>h, <3>1 DEF PastUntouched
      <3> QED BY <1>a, <1>c, <1>m, <3>2, PastFits, Zenon
    <2>3. VectorsFit(h, v, b)
      BY <1>0, <1>1, <1>b, <2>1, TheNames
         DEF FormsFit, VectorsFit, AnyAt, NotPast, Moves, Places, Sole, AllSole, Absent, Newest
    <2>4. PausedFits(h, v, b)
      <3>1. PausedUntouched(g, h, v, v, a, p, here, next)
        BY <1>0, <1>1, <1>b, <1>h, <2>1, TheNames DEF PausedUntouched, FormsFit, PausedFits, NotPast
      <3> QED BY <1>c, <1>g, <1>m, <3>1, PausedStays, Zenon
    <2>5. AuditFits(h, v, b)
      <3>1. AuditUntouched(g, h, v, v, a, p, here, next)
        BY <1>0, <1>1, <1>b, <1>h, <2>1, TheNames DEF AuditUntouched
      <3> QED BY <1>c, <1>g, <1>m, <3>1, AuditStays, Zenon
    <2>6. WorkflowsFit(h, v, b)
      <3>1. WorkflowsUntouched(g, h, v, v, a, p, here, next)
        BY <1>0, <1>1, <1>b, <1>h, <2>1, TheNames DEF WorkflowsUntouched
      <3> QED BY <1>c, <1>g, <1>m, <3>1, WorkflowsStay, Zenon
    <2> QED BY <2>2, <2>3, <2>4, <2>5, <2>6 DEF FormsFit
  <1>2. ASSUME i = 2 PROVE FormsFit(h, v, b)
    <2>1. /\ \A m \in Names : h[m] =
                     g[m]
          /\ g["vector_chunks"] # Absent /\ g["vector_chunks_v4"] # Absent
      BY <1>0, <1>2, Effects3
    <2>2. FirstScripts(h, v, b)
      <3>1. \A n \in FirstTables \cup Lexical : h[n] = g[n]
        BY <2>1, TheNames DEF FirstTables, Lexical
      <3>2. PastUntouched(g, h, v, v, a, p, here)
        BY <1>0, <1>h, <3>1 DEF PastUntouched
      <3> QED BY <1>a, <1>c, <1>m, <3>2, PastFits, Zenon
    <2>3. VectorsFit(h, v, b)
      BY <1>0, <1>2, <1>b, <2>1, TheNames
         DEF FormsFit, VectorsFit, AnyAt, NotPast, Moves, Places, Sole, AllSole, Absent, Newest
    <2>4. PausedFits(h, v, b)
      <3>1. PausedUntouched(g, h, v, v, a, p, here, next)
        BY <1>0, <1>2, <1>b, <1>h, <2>1, TheNames DEF PausedUntouched, FormsFit, PausedFits, NotPast
      <3> QED BY <1>c, <1>g, <1>m, <3>1, PausedStays, Zenon
    <2>5. AuditFits(h, v, b)
      <3>1. AuditUntouched(g, h, v, v, a, p, here, next)
        BY <1>0, <1>2, <1>b, <1>h, <2>1, TheNames DEF AuditUntouched
      <3> QED BY <1>c, <1>g, <1>m, <3>1, AuditStays, Zenon
    <2>6. WorkflowsFit(h, v, b)
      <3>1. WorkflowsUntouched(g, h, v, v, a, p, here, next)
        BY <1>0, <1>2, <1>b, <1>h, <2>1, TheNames DEF WorkflowsUntouched
      <3> QED BY <1>c, <1>g, <1>m, <3>1, WorkflowsStay, Zenon
    <2> QED BY <2>2, <2>3, <2>4, <2>5, <2>6 DEF FormsFit
  <1>3. ASSUME i = 3 PROVE FormsFit(h, v, b)
    <2>1. /\ \A m \in Names : h[m] =
                     IF m \in {"vector_chunks", "vector_chunks_source_idx"} THEN Absent ELSE g[m]
          /\ g["vector_chunks"] # Absent
      BY <1>0, <1>3, Effects3
    <2>2. FirstScripts(h, v, b)
      <3>1. \A n \in FirstTables \cup Lexical : h[n] = g[n]
        BY <2>1, TheNames DEF FirstTables, Lexical
      <3>2. PastUntouched(g, h, v, v, a, p, here)
        BY <1>0, <1>h, <3>1 DEF PastUntouched
      <3> QED BY <1>a, <1>c, <1>m, <3>2, PastFits, Zenon
    <2>3. VectorsFit(h, v, b)
      BY <1>0, <1>3, <1>b, <2>1, TheNames
         DEF FormsFit, VectorsFit, AnyAt, NotPast, Moves, Places, Sole, AllSole, Absent, Newest
    <2>4. PausedFits(h, v, b)
      <3>1. PausedUntouched(g, h, v, v, a, p, here, next)
        BY <1>0, <1>3, <1>b, <1>h, <2>1, TheNames DEF PausedUntouched, FormsFit, PausedFits, NotPast
      <3> QED BY <1>c, <1>g, <1>m, <3>1, PausedStays, Zenon
    <2>5. AuditFits(h, v, b)
      <3>1. AuditUntouched(g, h, v, v, a, p, here, next)
        BY <1>0, <1>3, <1>b, <1>h, <2>1, TheNames DEF AuditUntouched
      <3> QED BY <1>c, <1>g, <1>m, <3>1, AuditStays, Zenon
    <2>6. WorkflowsFit(h, v, b)
      <3>1. WorkflowsUntouched(g, h, v, v, a, p, here, next)
        BY <1>0, <1>3, <1>b, <1>h, <2>1, TheNames DEF WorkflowsUntouched
      <3> QED BY <1>c, <1>g, <1>m, <3>1, WorkflowsStay, Zenon
    <2> QED BY <2>2, <2>3, <2>4, <2>5, <2>6 DEF FormsFit
  <1>4. ASSUME i = 4 PROVE FormsFit(h, v, b)
    <2>1. /\ \A m \in Names : h[m] =
                     IF m = "vector_chunks_v4" THEN Absent
                     ELSE IF m = "vector_chunks" THEN g["vector_chunks_v4"] ELSE g[m]
          /\ g["vector_chunks_v4"] # Absent /\ g["vector_chunks"] = Absent
      BY <1>0, <1>4, Effects3
    <2>2. FirstScripts(h, v, b)
      <3>1. \A n \in FirstTables \cup Lexical : h[n] = g[n]
        BY <2>1, TheNames DEF FirstTables, Lexical
      <3>2. PastUntouched(g, h, v, v, a, p, here)
        BY <1>0, <1>h, <3>1 DEF PastUntouched
      <3> QED BY <1>a, <1>c, <1>m, <3>2, PastFits, Zenon
    <2>3. VectorsFit(h, v, b)
      BY <1>0, <1>4, <1>b, <2>1, TheNames
         DEF FormsFit, VectorsFit, AnyAt, NotPast, Moves, Places, Sole, AllSole, Absent, Newest
    <2>4. PausedFits(h, v, b)
      <3>1. PausedUntouched(g, h, v, v, a, p, here, next)
        BY <1>0, <1>4, <1>b, <1>h, <2>1, TheNames DEF PausedUntouched, FormsFit, PausedFits, NotPast
      <3> QED BY <1>c, <1>g, <1>m, <3>1, PausedStays, Zenon
    <2>5. AuditFits(h, v, b)
      <3>1. AuditUntouched(g, h, v, v, a, p, here, next)
        BY <1>0, <1>4, <1>b, <1>h, <2>1, TheNames DEF AuditUntouched
      <3> QED BY <1>c, <1>g, <1>m, <3>1, AuditStays, Zenon
    <2>6. WorkflowsFit(h, v, b)
      <3>1. WorkflowsUntouched(g, h, v, v, a, p, here, next)
        BY <1>0, <1>4, <1>b, <1>h, <2>1, TheNames DEF WorkflowsUntouched
      <3> QED BY <1>c, <1>g, <1>m, <3>1, WorkflowsStay, Zenon
    <2> QED BY <2>2, <2>3, <2>4, <2>5, <2>6 DEF FormsFit
  <1>5. ASSUME i = 5 PROVE FormsFit(h, v, b)
    <2>1. /\ \A m \in Names : h[m] =
                     IF m = "vector_chunks_source_idx" THEN 3 ELSE g[m]
          /\ g["vector_chunks_source_idx"] = Absent /\ g["vector_chunks"] # Absent
      BY <1>0, <1>5, Effects3
    <2>2. FirstScripts(h, v, b)
      <3>1. \A n \in FirstTables \cup Lexical : h[n] = g[n]
        BY <2>1, TheNames DEF FirstTables, Lexical
      <3>2. PastUntouched(g, h, v, v, a, p, here)
        BY <1>0, <1>h, <3>1 DEF PastUntouched
      <3> QED BY <1>a, <1>c, <1>m, <3>2, PastFits, Zenon
    <2>3. VectorsFit(h, v, b)
      BY <1>0, <1>5, <1>b, <2>1, TheNames
         DEF FormsFit, VectorsFit, AnyAt, NotPast, Moves, Places, Sole, AllSole, Absent, Newest
    <2>4. PausedFits(h, v, b)
      <3>1. PausedUntouched(g, h, v, v, a, p, here, next)
        BY <1>0, <1>5, <1>b, <1>h, <2>1, TheNames DEF PausedUntouched, FormsFit, PausedFits, NotPast
      <3> QED BY <1>c, <1>g, <1>m, <3>1, PausedStays, Zenon
    <2>5. AuditFits(h, v, b)
      <3>1. AuditUntouched(g, h, v, v, a, p, here, next)
        BY <1>0, <1>5, <1>b, <1>h, <2>1, TheNames DEF AuditUntouched
      <3> QED BY <1>c, <1>g, <1>m, <3>1, AuditStays, Zenon
    <2>6. WorkflowsFit(h, v, b)
      <3>1. WorkflowsUntouched(g, h, v, v, a, p, here, next)
        BY <1>0, <1>5, <1>b, <1>h, <2>1, TheNames DEF WorkflowsUntouched
      <3> QED BY <1>c, <1>g, <1>m, <3>1, WorkflowsStay, Zenon
    <2> QED BY <2>2, <2>3, <2>4, <2>5, <2>6 DEF FormsFit
  <1>6. i = 1 \/ i = 2 \/ i = 3 \/ i = 4 \/ i = 5
    OBVIOUS
  <1> QED BY <1>a, <1>1, <1>2, <1>3, <1>4, <1>5, <1>6

LEMMA Script4Fits ==
    ASSUME NEW g \in Forms, NEW h, NEW v \in 0 .. 8, NEW a, NEW b,
           NEW p \in Openers, NEW i \in 1 .. 2,
           FormsFit(g, v, a), Runs(g, h, a, b, p, 4, i)
    PROVE  h \in Forms /\ FormsFit(h, v, b)
  <1>0. /\ a[p][1] = 4 /\ a[p][2] = i
        /\ Moves(a, b, p, 4, i + 1)
        /\ Allowed(g, ScriptOf(4)[i])
        /\ h = Effect(g, ScriptOf(4)[i], 4)
    BY DEF Runs
  <1>a. h \in Forms
    BY <1>0, Effects4
  <1>b. 4 <= v \/ v > 3
    BY <1>0, NotAhead
  <1> DEFINE here == 4
  <1> DEFINE next == i + 1
  <1>m. Moves(a, b, p, here, next)
    BY <1>0
  <1>c. v \in 3 .. 8 /\ here \in 3 .. 8 /\ next \in Nat /\ here \in Nat
    BY <1>b
  <1>g. VectorsFit(g, v, a) /\ PausedFits(g, v, a) /\ AuditFits(g, v, a) /\ WorkflowsFit(g, v, a)
    BY DEF FormsFit
  <1>h. here = 4 /\ next = i + 1
    OBVIOUS
  <1> HIDE DEF here, next
  <1>1. ASSUME i = 1 PROVE FormsFit(h, v, b)
    <2>1. /\ \A m \in Names : h[m] =
                     g[m]
      BY <1>0, <1>1, Effects4
    <2>2. FirstScripts(h, v, b)
      <3>1. \A n \in FirstTables \cup Lexical : h[n] = g[n]
        BY <2>1, TheNames DEF FirstTables, Lexical
      <3>2. PastUntouched(g, h, v, v, a, p, here)
        BY <1>0, <1>h, <3>1 DEF PastUntouched
      <3> QED BY <1>a, <1>c, <1>m, <3>2, PastFits, Zenon
    <2>3. VectorsFit(h, v, b)
      <3>1. VectorsUntouched(g, h, v, v, a, p, here, next)
        BY <1>0, <1>1, <1>b, <1>h, <2>1, TheNames DEF VectorsUntouched
      <3> QED BY <1>c, <1>g, <1>m, <3>1, VectorsStay, Zenon
    <2>4. PausedFits(h, v, b)
      <3>1. PausedUntouched(g, h, v, v, a, p, here, next)
        BY <1>0, <1>1, <1>b, <1>h, <2>1, TheNames DEF PausedUntouched, FormsFit, PausedFits, NotPast
      <3> QED BY <1>c, <1>g, <1>m, <3>1, PausedStays, Zenon
    <2>5. AuditFits(h, v, b)
      <3>1. AuditUntouched(g, h, v, v, a, p, here, next)
        BY <1>0, <1>1, <1>b, <1>h, <2>1, TheNames DEF AuditUntouched
      <3> QED BY <1>c, <1>g, <1>m, <3>1, AuditStays, Zenon
    <2>6. WorkflowsFit(h, v, b)
      <3>1. WorkflowsUntouched(g, h, v, v, a, p, here, next)
        BY <1>0, <1>1, <1>b, <1>h, <2>1, TheNames DEF WorkflowsUntouched
      <3> QED BY <1>c, <1>g, <1>m, <3>1, WorkflowsStay, Zenon
    <2> QED BY <2>2, <2>3, <2>4, <2>5, <2>6 DEF FormsFit
  <1>2. ASSUME i = 2 PROVE FormsFit(h, v, b)
    <2>1. /\ \A m \in Names : h[m] =
                     IF m = "paused" THEN 4 ELSE g[m]
          /\ g["sources"] # Absent /\ g["paused"] = Absent
      BY <1>0, <1>2, Effects4
    <2>2. FirstScripts(h, v, b)
      <3>1. \A n \in FirstTables \cup Lexical : h[n] = g[n]
        BY <2>1, TheNames DEF FirstTables, Lexical
      <3>2. PastUntouched(g, h, v, v, a, p, here)
        BY <1>0, <1>h, <3>1 DEF PastUntouched
      <3> QED BY <1>a, <1>c, <1>m, <3>2, PastFits, Zenon
    <2>3. VectorsFit(h, v, b)
      <3>1. VectorsUntouched(g, h, v, v, a, p, here, next)
        BY <1>0, <1>2, <1>b, <1>h, <2>1, TheNames DEF VectorsUntouched
      <3> QED BY <1>c, <1>g, <1>m, <3>1, VectorsStay, Zenon
    <2>4. PausedFits(h, v, b)
      BY <1>0, <1>2, <1>b, <2>1, TheNames
         DEF FormsFit, PausedFits, AnyAt, NotPast, Moves, Places, Sole, AllSole, Absent, Newest
    <2>5. AuditFits(h, v, b)
      <3>1. AuditUntouched(g, h, v, v, a, p, here, next)
        BY <1>0, <1>2, <1>b, <1>h, <2>1, TheNames DEF AuditUntouched
      <3> QED BY <1>c, <1>g, <1>m, <3>1, AuditStays, Zenon
    <2>6. WorkflowsFit(h, v, b)
      <3>1. WorkflowsUntouched(g, h, v, v, a, p, here, next)
        BY <1>0, <1>2, <1>b, <1>h, <2>1, TheNames DEF WorkflowsUntouched
      <3> QED BY <1>c, <1>g, <1>m, <3>1, WorkflowsStay, Zenon
    <2> QED BY <2>2, <2>3, <2>4, <2>5, <2>6 DEF FormsFit
  <1>3. i = 1 \/ i = 2
    OBVIOUS
  <1> QED BY <1>a, <1>1, <1>2, <1>3

LEMMA Script5Fits ==
    ASSUME NEW g \in Forms, NEW h, NEW v \in 0 .. 8, NEW a, NEW b,
           NEW p \in Openers, NEW i \in 1 .. 1,
           FormsFit(g, v, a), Runs(g, h, a, b, p, 5, i)
    PROVE  h \in Forms /\ (FormsFit(h, v, b) \/ Doomed(h, b))
  <1>0. /\ a[p][1] = 5 /\ a[p][2] = i
        /\ Moves(a, b, p, 5, i + 1)
        /\ Allowed(g, ScriptOf(5)[i])
        /\ h = Effect(g, ScriptOf(5)[i], 5)
    BY DEF Runs
  <1>a. h \in Forms
    BY <1>0, Effects5
  <1>b. 5 <= v \/ v > 3
    BY <1>0, NotAhead
  <1> DEFINE here == 5
  <1> DEFINE next == i + 1
  <1>m. Moves(a, b, p, here, next)
    BY <1>0
  <1>c. v \in 3 .. 8 /\ here \in 3 .. 8 /\ next \in Nat /\ here \in Nat
    BY <1>b
  <1>g. VectorsFit(g, v, a) /\ PausedFits(g, v, a) /\ AuditFits(g, v, a) /\ WorkflowsFit(g, v, a)
    BY DEF FormsFit
  <1>h. here = 5 /\ next = i + 1
    OBVIOUS
  <1> HIDE DEF here, next
  <1>1. ASSUME i = 1 PROVE (FormsFit(h, v, b) \/ Doomed(h, b))
    <2>1. /\ \A m \in Names : h[m] =
                     IF m = "agent_action_audit" /\ g[m] = Absent THEN 5 ELSE g[m]
      BY <1>0, <1>1, Effects5
    <2>2. FirstScripts(h, v, b)
      <3>1. \A n \in FirstTables \cup Lexical : h[n] = g[n]
        BY <2>1, TheNames DEF FirstTables, Lexical
      <3>2. PastUntouched(g, h, v, v, a, p, here)
        BY <1>0, <1>h, <3>1 DEF PastUntouched
      <3> QED BY <1>a, <1>c, <1>m, <3>2, PastFits, Zenon
    <2>3. VectorsFit(h, v, b)
      <3>1. VectorsUntouched(g, h, v, v, a, p, here, next)
        BY <1>0, <1>1, <1>b, <1>h, <2>1, TheNames DEF VectorsUntouched
      <3> QED BY <1>c, <1>g, <1>m, <3>1, VectorsStay, Zenon
    <2>4. PausedFits(h, v, b)
      <3>1. PausedUntouched(g, h, v, v, a, p, here, next)
        BY <1>0, <1>1, <1>b, <1>h, <2>1, TheNames DEF PausedUntouched, FormsFit, PausedFits, NotPast
      <3> QED BY <1>c, <1>g, <1>m, <3>1, PausedStays, Zenon
    <2>5. AuditFits(h, v, b) \/ Doomed(h, b)
      BY <1>0, <1>1, <1>b, <2>1, TheNames
         DEF FormsFit, AuditFits, AnyAt, NotPast, Moves, Places, Sole, AllSole, Absent, Newest, Doomed
    <2>6. WorkflowsFit(h, v, b)
      <3>1. WorkflowsUntouched(g, h, v, v, a, p, here, next)
        BY <1>0, <1>1, <1>b, <1>h, <2>1, TheNames DEF WorkflowsUntouched
      <3> QED BY <1>c, <1>g, <1>m, <3>1, WorkflowsStay, Zenon
    <2> QED BY <2>2, <2>3, <2>4, <2>5, <2>6 DEF FormsFit
  <1>2. i = 1
    OBVIOUS
  <1> QED BY <1>a, <1>1, <1>2

LEMMA Script6Fits ==
    ASSUME NEW g \in Forms, NEW h, NEW v \in 0 .. 8, NEW a, NEW b,
           NEW p \in Openers, NEW i \in 1 .. 1,
           FormsFit(g, v, a), Runs(g, h, a, b, p, 6, i)
    PROVE  h \in Forms /\ (FormsFit(h, v, b) \/ Doomed(h, b))
  <1>0. /\ a[p][1] = 6 /\ a[p][2] = i
        /\ Moves(a, b, p, 6, i + 1)
        /\ Allowed(g, ScriptOf(6)[i])
        /\ h = Effect(g, ScriptOf(6)[i], 6)
    BY DEF Runs
  <1>a. h \in Forms
    BY <1>0, Effects6
  <1>b. 6 <= v \/ v > 3
    BY <1>0, NotAhead
  <1> DEFINE here == 6
  <1> DEFINE next == i + 1
  <1>m. Moves(a, b, p, here, next)
    BY <1>0
  <1>c. v \in 3 .. 8 /\ here \in 3 .. 8 /\ next \in Nat /\ here \in Nat
    BY <1>b
  <1>g. VectorsFit(g, v, a) /\ PausedFits(g, v, a) /\ AuditFits(g, v, a) /\ WorkflowsFit(g, v, a)
    BY DEF FormsFit
  <1>h. here = 6 /\ next = i + 1
    OBVIOUS
  <1> HIDE DEF here, next
  <1>1. ASSUME i = 1 PROVE (FormsFit(h, v, b) \/ Doomed(h, b))
    <2>1. /\ \A m \in Names : h[m] =
                     IF m = "agent_action_workflows" /\ g[m] = Absent THEN 6 ELSE g[m]
      BY <1>0, <1>1, Effects6
    <2>2. FirstScripts(h, v, b)
      <3>1. \A n \in FirstTables \cup Lexical : h[n] = g[n]
        BY <2>1, TheNames DEF FirstTables, Lexical
      <3>2. PastUntouched(g, h, v, v, a, p, here)
        BY <1>0, <1>h, <3>1 DEF PastUntouched
      <3> QED BY <1>a, <1>c, <1>m, <3>2, PastFits, Zenon
    <2>3. VectorsFit(h, v, b)
      <3>1. VectorsUntouched(g, h, v, v, a, p, here, next)
        BY <1>0, <1>1, <1>b, <1>h, <2>1, TheNames DEF VectorsUntouched
      <3> QED BY <1>c, <1>g, <1>m, <3>1, VectorsStay, Zenon
    <2>4. PausedFits(h, v, b)
      <3>1. PausedUntouched(g, h, v, v, a, p, here, next)
        BY <1>0, <1>1, <1>b, <1>h, <2>1, TheNames DEF PausedUntouched, FormsFit, PausedFits, NotPast
      <3> QED BY <1>c, <1>g, <1>m, <3>1, PausedStays, Zenon
    <2>5. AuditFits(h, v, b)
      <3>1. AuditUntouched(g, h, v, v, a, p, here, next)
        BY <1>0, <1>1, <1>b, <1>h, <2>1, TheNames DEF AuditUntouched
      <3> QED BY <1>c, <1>g, <1>m, <3>1, AuditStays, Zenon
    <2>6. WorkflowsFit(h, v, b) \/ Doomed(h, b)
      BY <1>0, <1>1, <1>b, <2>1, TheNames
         DEF FormsFit, WorkflowsFit, AnyAt, NotPast, Moves, Places, Sole, AllSole, Absent, Newest, Doomed
    <2> QED BY <2>2, <2>3, <2>4, <2>5, <2>6 DEF FormsFit
  <1>2. i = 1
    OBVIOUS
  <1> QED BY <1>a, <1>1, <1>2

LEMMA Script7Fits ==
    ASSUME NEW g \in Forms, NEW h, NEW v \in 0 .. 8, NEW a, NEW b,
           NEW p \in Openers, NEW i \in 1 .. 9,
           FormsFit(g, v, a), AllSole(a), Runs(g, h, a, b, p, 7, i)
    PROVE  h \in Forms /\ FormsFit(h, v, b)
  <1>0. /\ a[p][1] = 7 /\ a[p][2] = i
        /\ Moves(a, b, p, 7, i + 1)
        /\ Allowed(g, ScriptOf(7)[i])
        /\ h = Effect(g, ScriptOf(7)[i], 7)
    BY DEF Runs
  <1>a. h \in Forms
    BY <1>0, Effects7
  <1>b. 7 <= v \/ v > 3
    BY <1>0, NotAhead
  <1> DEFINE here == 7
  <1> DEFINE next == i + 1
  <1>m. Moves(a, b, p, here, next)
    BY <1>0
  <1>c. v \in 3 .. 8 /\ here \in 3 .. 8 /\ next \in Nat /\ here \in Nat
    BY <1>b
  <1>g. VectorsFit(g, v, a) /\ PausedFits(g, v, a) /\ AuditFits(g, v, a) /\ WorkflowsFit(g, v, a)
    BY DEF FormsFit
  <1>h. here = 7 /\ next = i + 1
    OBVIOUS
  <1> HIDE DEF here, next
  <1>1. ASSUME i = 1 PROVE FormsFit(h, v, b)
    <2>1. /\ \A m \in Names : h[m] =
                     IF m = "agent_action_audit_v8" THEN 7 ELSE g[m]
          /\ g["agent_action_audit_v8"] = Absent
      BY <1>0, <1>1, Effects7
    <2>2. FirstScripts(h, v, b)
      <3>1. \A n \in FirstTables \cup Lexical : h[n] = g[n]
        BY <2>1, TheNames DEF FirstTables, Lexical
      <3>2. PastUntouched(g, h, v, v, a, p, here)
        BY <1>0, <1>h, <3>1 DEF PastUntouched
      <3> QED BY <1>a, <1>c, <1>m, <3>2, PastFits, Zenon
    <2>3. VectorsFit(h, v, b)
      <3>1. VectorsUntouched(g, h, v, v, a, p, here, next)
        BY <1>0, <1>1, <1>b, <1>h, <2>1, TheNames DEF VectorsUntouched
      <3> QED BY <1>c, <1>g, <1>m, <3>1, VectorsStay, Zenon
    <2>4. PausedFits(h, v, b)
      <3>1. PausedUntouched(g, h, v, v, a, p, here, next)
        BY <1>0, <1>1, <1>b, <1>h, <2>1, TheNames DEF PausedUntouched, FormsFit, PausedFits, NotPast
      <3> QED BY <1>c, <1>g, <1>m, <3>1, PausedStays, Zenon
    <2>5. AuditFits(h, v, b)
      BY <1>0, <1>1, <1>b, <2>1, TheNames
         DEF FormsFit, AuditFits, AnyAt, NotPast, Moves, Places, Sole, AllSole, Absent, Newest
    <2>6. WorkflowsFit(h, v, b)
      <3>1. WorkflowsUntouched(g, h, v, v, a, p, here, next)
        BY <1>0, <1>1, <1>b, <1>h, <2>1, TheNames DEF WorkflowsUntouched
      <3> QED BY <1>c, <1>g, <1>m, <3>1, WorkflowsStay, Zenon
    <2> QED BY <2>2, <2>3, <2>4, <2>5, <2>6 DEF FormsFit
  <1>2. ASSUME i = 2 PROVE FormsFit(h, v, b)
    <2>1. /\ \A m \in Names : h[m] =
                     g[m]
          /\ g["agent_action_audit"] # Absent /\ g["agent_action_audit_v8"] # Absent
      BY <1>0, <1>2, Effects7
    <2>2. FirstScripts(h, v, b)
      <3>1. \A n \in FirstTables \cup Lexical : h[n] = g[n]
        BY <2>1, TheNames DEF FirstTables, Lexical
      <3>2. PastUntouched(g, h, v, v, a, p, here)
        BY <1>0, <1>h, <3>1 DEF PastUntouched
      <3> QED BY <1>a, <1>c, <1>m, <3>2, PastFits, Zenon
    <2>3. VectorsFit(h, v, b)
      <3>1. VectorsUntouched(g, h, v, v, a, p, here, next)
        BY <1>0, <1>2, <1>b, <1>h, <2>1, TheNames DEF VectorsUntouched
      <3> QED BY <1>c, <1>g, <1>m, <3>1, VectorsStay, Zenon
    <2>4. PausedFits(h, v, b)
      <3>1. PausedUntouched(g, h, v, v, a, p, here, next)
        BY <1>0, <1>2, <1>b, <1>h, <2>1, TheNames DEF PausedUntouched, FormsFit, PausedFits, NotPast
      <3> QED BY <1>c, <1>g, <1>m, <3>1, PausedStays, Zenon
    <2>5. AuditFits(h, v, b)
      BY <1>0, <1>2, <1>b, <2>1, TheNames
         DEF FormsFit, AuditFits, AnyAt, NotPast, Moves, Places, Sole, AllSole, Absent, Newest
    <2>6. WorkflowsFit(h, v, b)
      <3>1. WorkflowsUntouched(g, h, v, v, a, p, here, next)
        BY <1>0, <1>2, <1>b, <1>h, <2>1, TheNames DEF WorkflowsUntouched
      <3> QED BY <1>c, <1>g, <1>m, <3>1, WorkflowsStay, Zenon
    <2> QED BY <2>2, <2>3, <2>4, <2>5, <2>6 DEF FormsFit
  <1>3. ASSUME i = 3 PROVE FormsFit(h, v, b)
    <2>1. /\ \A m \in Names : h[m] =
                     IF m \in {"agent_action_audit", "agent_action_audit_operation_idx"} THEN Absent ELSE g[m]
          /\ g["agent_action_audit"] # Absent
      BY <1>0, <1>3, Effects7
    <2>2. FirstScripts(h, v, b)
      <3>1. \A n \in FirstTables \cup Lexical : h[n] = g[n]
        BY <2>1, TheNames DEF FirstTables, Lexical
      <3>2. PastUntouched(g, h, v, v, a, p, here)
        BY <1>0, <1>h, <3>1 DEF PastUntouched
      <3> QED BY <1>a, <1>c, <1>m, <3>2, PastFits, Zenon
    <2>3. VectorsFit(h, v, b)
      <3>1. VectorsUntouched(g, h, v, v, a, p, here, next)
        BY <1>0, <1>3, <1>b, <1>h, <2>1, TheNames DEF VectorsUntouched
      <3> QED BY <1>c, <1>g, <1>m, <3>1, VectorsStay, Zenon
    <2>4. PausedFits(h, v, b)
      <3>1. PausedUntouched(g, h, v, v, a, p, here, next)
        BY <1>0, <1>3, <1>b, <1>h, <2>1, TheNames DEF PausedUntouched, FormsFit, PausedFits, NotPast
      <3> QED BY <1>c, <1>g, <1>m, <3>1, PausedStays, Zenon
    <2>5. AuditFits(h, v, b)
      BY <1>0, <1>3, <1>b, <2>1, TheNames
         DEF FormsFit, AuditFits, AnyAt, NotPast, Moves, Places, Sole, AllSole, Absent, Newest
    <2>6. WorkflowsFit(h, v, b)
      <3>1. WorkflowsUntouched(g, h, v, v, a, p, here, next)
        BY <1>0, <1>3, <1>b, <1>h, <2>1, TheNames DEF WorkflowsUntouched
      <3> QED BY <1>c, <1>g, <1>m, <3>1, WorkflowsStay, Zenon
    <2> QED BY <2>2, <2>3, <2>4, <2>5, <2>6 DEF FormsFit
  <1>4. ASSUME i = 4 PROVE FormsFit(h, v, b)
    <2>1. /\ \A m \in Names : h[m] =
                     IF m = "agent_action_audit_v8" THEN Absent
                     ELSE IF m = "agent_action_audit" THEN g["agent_action_audit_v8"] ELSE g[m]
          /\ g["agent_action_audit_v8"] # Absent /\ g["agent_action_audit"] = Absent
      BY <1>0, <1>4, Effects7
    <2>2. FirstScripts(h, v, b)
      <3>1. \A n \in FirstTables \cup Lexical : h[n] = g[n]
        BY <2>1, TheNames DEF FirstTables, Lexical
      <3>2. PastUntouched(g, h, v, v, a, p, here)
        BY <1>0, <1>h, <3>1 DEF PastUntouched
      <3> QED BY <1>a, <1>c, <1>m, <3>2, PastFits, Zenon
    <2>3. VectorsFit(h, v, b)
      <3>1. VectorsUntouched(g, h, v, v, a, p, here, next)
        BY <1>0, <1>4, <1>b, <1>h, <2>1, TheNames DEF VectorsUntouched
      <3> QED BY <1>c, <1>g, <1>m, <3>1, VectorsStay, Zenon
    <2>4. PausedFits(h, v, b)
      <3>1. PausedUntouched(g, h, v, v, a, p, here, next)
        BY <1>0, <1>4, <1>b, <1>h, <2>1, TheNames DEF PausedUntouched, FormsFit, PausedFits, NotPast
      <3> QED BY <1>c, <1>g, <1>m, <3>1, PausedStays, Zenon
    <2>5. AuditFits(h, v, b)
      BY <1>0, <1>4, <1>b, <2>1, TheNames
         DEF FormsFit, AuditFits, AnyAt, NotPast, Moves, Places, Sole, AllSole, Absent, Newest
    <2>6. WorkflowsFit(h, v, b)
      <3>1. WorkflowsUntouched(g, h, v, v, a, p, here, next)
        BY <1>0, <1>4, <1>b, <1>h, <2>1, TheNames DEF WorkflowsUntouched
      <3> QED BY <1>c, <1>g, <1>m, <3>1, WorkflowsStay, Zenon
    <2> QED BY <2>2, <2>3, <2>4, <2>5, <2>6 DEF FormsFit
  <1>5. ASSUME i = 5 PROVE FormsFit(h, v, b)
    <2>1. /\ \A m \in Names : h[m] =
                     IF m = "agent_action_audit_operation_idx" THEN 7 ELSE g[m]
          /\ g["agent_action_audit_operation_idx"] = Absent /\ g["agent_action_audit"] # Absent
      BY <1>0, <1>5, Effects7
    <2>2. FirstScripts(h, v, b)
      <3>1. \A n \in FirstTables \cup Lexical : h[n] = g[n]
        BY <2>1, TheNames DEF FirstTables, Lexical
      <3>2. PastUntouched(g, h, v, v, a, p, here)
        BY <1>0, <1>h, <3>1 DEF PastUntouched
      <3> QED BY <1>a, <1>c, <1>m, <3>2, PastFits, Zenon
    <2>3. VectorsFit(h, v, b)
      <3>1. VectorsUntouched(g, h, v, v, a, p, here, next)
        BY <1>0, <1>5, <1>b, <1>h, <2>1, TheNames DEF VectorsUntouched
      <3> QED BY <1>c, <1>g, <1>m, <3>1, VectorsStay, Zenon
    <2>4. PausedFits(h, v, b)
      <3>1. PausedUntouched(g, h, v, v, a, p, here, next)
        BY <1>0, <1>5, <1>b, <1>h, <2>1, TheNames DEF PausedUntouched, FormsFit, PausedFits, NotPast
      <3> QED BY <1>c, <1>g, <1>m, <3>1, PausedStays, Zenon
    <2>5. AuditFits(h, v, b)
      BY <1>0, <1>5, <1>b, <2>1, TheNames
         DEF FormsFit, AuditFits, AnyAt, NotPast, Moves, Places, Sole, AllSole, Absent, Newest
    <2>6. WorkflowsFit(h, v, b)
      <3>1. WorkflowsUntouched(g, h, v, v, a, p, here, next)
        BY <1>0, <1>5, <1>b, <1>h, <2>1, TheNames DEF WorkflowsUntouched
      <3> QED BY <1>c, <1>g, <1>m, <3>1, WorkflowsStay, Zenon
    <2> QED BY <2>2, <2>3, <2>4, <2>5, <2>6 DEF FormsFit
  <1>6. ASSUME i = 6 PROVE FormsFit(h, v, b)
    <2>1. /\ \A m \in Names : h[m] =
                     IF m = "agent_action_workflows_v8" THEN 7 ELSE g[m]
          /\ g["agent_action_workflows_v8"] = Absent
      BY <1>0, <1>6, Effects7
    <2>2. FirstScripts(h, v, b)
      <3>1. \A n \in FirstTables \cup Lexical : h[n] = g[n]
        BY <2>1, TheNames DEF FirstTables, Lexical
      <3>2. PastUntouched(g, h, v, v, a, p, here)
        BY <1>0, <1>h, <3>1 DEF PastUntouched
      <3> QED BY <1>a, <1>c, <1>m, <3>2, PastFits, Zenon
    <2>3. VectorsFit(h, v, b)
      <3>1. VectorsUntouched(g, h, v, v, a, p, here, next)
        BY <1>0, <1>6, <1>b, <1>h, <2>1, TheNames DEF VectorsUntouched
      <3> QED BY <1>c, <1>g, <1>m, <3>1, VectorsStay, Zenon
    <2>4. PausedFits(h, v, b)
      <3>1. PausedUntouched(g, h, v, v, a, p, here, next)
        BY <1>0, <1>6, <1>b, <1>h, <2>1, TheNames DEF PausedUntouched, FormsFit, PausedFits, NotPast
      <3> QED BY <1>c, <1>g, <1>m, <3>1, PausedStays, Zenon
    <2>5. AuditFits(h, v, b)
      <3>1. AuditUntouched(g, h, v, v, a, p, here, next)
        BY <1>0, <1>6, <1>b, <1>h, <2>1, TheNames DEF AuditUntouched
      <3> QED BY <1>c, <1>g, <1>m, <3>1, AuditStays, Zenon
    <2>6. WorkflowsFit(h, v, b)
      BY <1>0, <1>6, <1>b, <2>1, TheNames
         DEF FormsFit, WorkflowsFit, AnyAt, NotPast, Moves, Places, Sole, AllSole, Absent, Newest
    <2> QED BY <2>2, <2>3, <2>4, <2>5, <2>6 DEF FormsFit
  <1>7. ASSUME i = 7 PROVE FormsFit(h, v, b)
    <2>1. /\ \A m \in Names : h[m] =
                     g[m]
          /\ g["agent_action_workflows"] # Absent /\ g["agent_action_workflows_v8"] # Absent
      BY <1>0, <1>7, Effects7
    <2>2. FirstScripts(h, v, b)
      <3>1. \A n \in FirstTables \cup Lexical : h[n] = g[n]
        BY <2>1, TheNames DEF FirstTables, Lexical
      <3>2. PastUntouched(g, h, v, v, a, p, here)
        BY <1>0, <1>h, <3>1 DEF PastUntouched
      <3> QED BY <1>a, <1>c, <1>m, <3>2, PastFits, Zenon
    <2>3. VectorsFit(h, v, b)
      <3>1. VectorsUntouched(g, h, v, v, a, p, here, next)
        BY <1>0, <1>7, <1>b, <1>h, <2>1, TheNames DEF VectorsUntouched
      <3> QED BY <1>c, <1>g, <1>m, <3>1, VectorsStay, Zenon
    <2>4. PausedFits(h, v, b)
      <3>1. PausedUntouched(g, h, v, v, a, p, here, next)
        BY <1>0, <1>7, <1>b, <1>h, <2>1, TheNames DEF PausedUntouched, FormsFit, PausedFits, NotPast
      <3> QED BY <1>c, <1>g, <1>m, <3>1, PausedStays, Zenon
    <2>5. AuditFits(h, v, b)
      <3>1. AuditUntouched(g, h, v, v, a, p, here, next)
        BY <1>0, <1>7, <1>b, <1>h, <2>1, TheNames DEF AuditUntouched
      <3> QED BY <1>c, <1>g, <1>m, <3>1, AuditStays, Zenon
    <2>6. WorkflowsFit(h, v, b)
      BY <1>0, <1>7, <1>b, <2>1, TheNames
         DEF FormsFit, WorkflowsFit, AnyAt, NotPast, Moves, Places, Sole, AllSole, Absent, Newest
    <2> QED BY <2>2, <2>3, <2>4, <2>5, <2>6 DEF FormsFit
  <1>8. ASSUME i = 8 PROVE FormsFit(h, v, b)
    <2>1. /\ \A m \in Names : h[m] =
                     IF m = "agent_action_workflows" THEN Absent ELSE g[m]
          /\ g["agent_action_workflows"] # Absent
      BY <1>0, <1>8, Effects7
    <2>2. FirstScripts(h, v, b)
      <3>1. \A n \in FirstTables \cup Lexical : h[n] = g[n]
        BY <2>1, TheNames DEF FirstTables, Lexical
      <3>2. PastUntouched(g, h, v, v, a, p, here)
        BY <1>0, <1>h, <3>1 DEF PastUntouched
      <3> QED BY <1>a, <1>c, <1>m, <3>2, PastFits, Zenon
    <2>3. VectorsFit(h, v, b)
      <3>1. VectorsUntouched(g, h, v, v, a, p, here, next)
        BY <1>0, <1>8, <1>b, <1>h, <2>1, TheNames DEF VectorsUntouched
      <3> QED BY <1>c, <1>g, <1>m, <3>1, VectorsStay, Zenon
    <2>4. PausedFits(h, v, b)
      <3>1. PausedUntouched(g, h, v, v, a, p, here, next)
        BY <1>0, <1>8, <1>b, <1>h, <2>1, TheNames DEF PausedUntouched, FormsFit, PausedFits, NotPast
      <3> QED BY <1>c, <1>g, <1>m, <3>1, PausedStays, Zenon
    <2>5. AuditFits(h, v, b)
      <3>1. AuditUntouched(g, h, v, v, a, p, here, next)
        BY <1>0, <1>8, <1>b, <1>h, <2>1, TheNames DEF AuditUntouched
      <3> QED BY <1>c, <1>g, <1>m, <3>1, AuditStays, Zenon
    <2>6. WorkflowsFit(h, v, b)
      BY <1>0, <1>8, <1>b, <2>1, TheNames
         DEF FormsFit, WorkflowsFit, AnyAt, NotPast, Moves, Places, Sole, AllSole, Absent, Newest
    <2> QED BY <2>2, <2>3, <2>4, <2>5, <2>6 DEF FormsFit
  <1>9. ASSUME i = 9 PROVE FormsFit(h, v, b)
    <2>1. /\ \A m \in Names : h[m] =
                     IF m = "agent_action_workflows_v8" THEN Absent
                     ELSE IF m = "agent_action_workflows" THEN g["agent_action_workflows_v8"] ELSE g[m]
          /\ g["agent_action_workflows_v8"] # Absent /\ g["agent_action_workflows"] = Absent
      BY <1>0, <1>9, Effects7
    <2>2. FirstScripts(h, v, b)
      <3>1. \A n \in FirstTables \cup Lexical : h[n] = g[n]
        BY <2>1, TheNames DEF FirstTables, Lexical
      <3>2. PastUntouched(g, h, v, v, a, p, here)
        BY <1>0, <1>h, <3>1 DEF PastUntouched
      <3> QED BY <1>a, <1>c, <1>m, <3>2, PastFits, Zenon
    <2>3. VectorsFit(h, v, b)
      <3>1. VectorsUntouched(g, h, v, v, a, p, here, next)
        BY <1>0, <1>9, <1>b, <1>h, <2>1, TheNames DEF VectorsUntouched
      <3> QED BY <1>c, <1>g, <1>m, <3>1, VectorsStay, Zenon
    <2>4. PausedFits(h, v, b)
      <3>1. PausedUntouched(g, h, v, v, a, p, here, next)
        BY <1>0, <1>9, <1>b, <1>h, <2>1, TheNames DEF PausedUntouched, FormsFit, PausedFits, NotPast
      <3> QED BY <1>c, <1>g, <1>m, <3>1, PausedStays, Zenon
    <2>5. AuditFits(h, v, b)
      <3>1. AuditUntouched(g, h, v, v, a, p, here, next)
        BY <1>0, <1>9, <1>b, <1>h, <2>1, TheNames DEF AuditUntouched
      <3> QED BY <1>c, <1>g, <1>m, <3>1, AuditStays, Zenon
    <2>6. WorkflowsFit(h, v, b)
      BY <1>0, <1>9, <1>b, <2>1, TheNames
         DEF FormsFit, WorkflowsFit, AnyAt, NotPast, Moves, Places, Sole, AllSole, Absent, Newest
    <2> QED BY <2>2, <2>3, <2>4, <2>5, <2>6 DEF FormsFit
  <1>10. i = 1 \/ i = 2 \/ i = 3 \/ i = 4 \/ i = 5 \/ i = 6 \/ i = 7 \/ i = 8 \/ i = 9
    OBVIOUS
  <1> QED BY <1>a, <1>1, <1>2, <1>3, <1>4, <1>5, <1>6, <1>7, <1>8, <1>9, <1>10

----------------------------------------------------------------------------
(* A step of a process and the forms                                       *)

\* One statement of any script.
LEMMA StatementsKeep ==
    ASSUME NEW g \in Forms, NEW h, NEW v \in 0 .. 8, NEW a, NEW b,
           NEW p \in Openers, NEW k \in 0 .. 7, NEW i \in 1 .. Len(ScriptOf(k)),
           FormsFit(g, v, a), AllSole(a), Runs(g, h, a, b, p, k, i),
           ScriptOf(k)[i].op # "set_version"
    PROVE  h \in Forms /\ (FormsFit(h, v, b) \/ Doomed(h, b))
  <1>0. CASE k = 0
    <2>1. i \in 1 .. 6 /\ Runs(g, h, a, b, p, 0, i)
      <3>1. i \in 1 .. 7 /\ i # 7
        BY <1>0, Script0, Statements0
      <3> QED BY <1>0, <3>1
    <2> QED BY <2>1, Script0Fits
  <1>1. CASE k = 1
    <2>1. i \in 1 .. 3 /\ Runs(g, h, a, b, p, 1, i)
      <3>1. i \in 1 .. 4 /\ i # 4
        BY <1>1, Script1, Statements1
      <3> QED BY <1>1, <3>1
    <2> QED BY <2>1, Script1Fits
  <1>2. CASE k = 2
    <2>1. i \in 1 .. 2 /\ Runs(g, h, a, b, p, 2, i)
      <3>1. i \in 1 .. 3 /\ i # 3
        BY <1>2, Script2, Statements2
      <3> QED BY <1>2, <3>1
    <2> QED BY <2>1, Script2Fits
  <1>3. CASE k = 3
    <2>1. i \in 1 .. 5 /\ Runs(g, h, a, b, p, 3, i)
      <3>1. i \in 1 .. 6 /\ i # 6
        BY <1>3, Script3, Statements3
      <3> QED BY <1>3, <3>1
    <2> QED BY <2>1, Script3Fits
  <1>4. CASE k = 4
    <2>1. i \in 1 .. 2 /\ Runs(g, h, a, b, p, 4, i)
      <3>1. i \in 1 .. 3 /\ i # 3
        BY <1>4, Script4, Statements4
      <3> QED BY <1>4, <3>1
    <2> QED BY <2>1, Script4Fits
  <1>5. CASE k = 5
    <2>1. i \in 1 .. 1 /\ Runs(g, h, a, b, p, 5, i)
      <3>1. i \in 1 .. 2 /\ i # 2
        BY <1>5, Script5, Statements5
      <3> QED BY <1>5, <3>1
    <2> QED BY <2>1, Script5Fits
  <1>6. CASE k = 6
    <2>1. i \in 1 .. 1 /\ Runs(g, h, a, b, p, 6, i)
      <3>1. i \in 1 .. 2 /\ i # 2
        BY <1>6, Script6, Statements6
      <3> QED BY <1>6, <3>1
    <2> QED BY <2>1, Script6Fits
  <1>7. CASE k = 7
    <2>1. i \in 1 .. 9 /\ Runs(g, h, a, b, p, 7, i)
      <3>1. i \in 1 .. 10 /\ i # 10
        BY <1>7, Script7, Statements7
      <3> QED BY <1>7, <3>1
    <2> QED BY <2>1, Script7Fits
  <1> QED BY <1>0, <1>1, <1>2, <1>3, <1>4, <1>5, <1>6, <1>7

\* What the statements name.
LEMMA StatementsAreNamed ==
    ASSUME NEW k \in 0 .. 7, NEW i \in 1 .. Len(ScriptOf(k))
    PROVE  WellNamed(ScriptOf(k)[i])
  <1>0. CASE k = 0
    <2>1. i \in 1 .. 7
      BY <1>0, Script0
    <2> QED BY <1>0, <2>1, Statements0
  <1>1. CASE k = 1
    <2>1. i \in 1 .. 4
      BY <1>1, Script1
    <2> QED BY <1>1, <2>1, Statements1
  <1>2. CASE k = 2
    <2>1. i \in 1 .. 3
      BY <1>2, Script2
    <2> QED BY <1>2, <2>1, Statements2
  <1>3. CASE k = 3
    <2>1. i \in 1 .. 6
      BY <1>3, Script3
    <2> QED BY <1>3, <2>1, Statements3
  <1>4. CASE k = 4
    <2>1. i \in 1 .. 3
      BY <1>4, Script4
    <2> QED BY <1>4, <2>1, Statements4
  <1>5. CASE k = 5
    <2>1. i \in 1 .. 2
      BY <1>5, Script5
    <2> QED BY <1>5, <2>1, Statements5
  <1>6. CASE k = 6
    <2>1. i \in 1 .. 2
      BY <1>6, Script6
    <2> QED BY <1>6, <2>1, Statements6
  <1>7. CASE k = 7
    <2>1. i \in 1 .. 10
      BY <1>7, Script7
    <2> QED BY <1>7, <2>1, Statements7
  <1> QED BY <1>0, <1>1, <1>2, <1>3, <1>4, <1>5, <1>6, <1>7

\* A process does nothing but go on, to another statement or script.
Passes(g, v, w, a, b, p, k, i) ==
    /\ Moves(a, b, p, k, i)
    /\ PausedUntouched(g, g, v, w, a, p, k, i)
    /\ AuditUntouched(g, g, v, w, a, p, k, i)
    /\ WorkflowsUntouched(g, g, v, w, a, p, k, i)

LEMMA PassesFit ==
    ASSUME NEW g \in Forms, NEW v \in 0 .. 8, NEW w \in 0 .. 8, NEW a, NEW b,
           NEW p \in Openers, NEW k \in Nat, NEW i \in Nat,
           FormsFit(g, v, a), Passes(g, v, w, a, b, p, k, i),
           FirstScripts(g, w, b), VectorsFit(g, w, b)
    PROVE  FormsFit(g, w, b)
  <1>0. /\ Moves(a, b, p, k, i)
        /\ PausedUntouched(g, g, v, w, a, p, k, i)
        /\ AuditUntouched(g, g, v, w, a, p, k, i)
        /\ WorkflowsUntouched(g, g, v, w, a, p, k, i)
    BY DEF Passes
  <1>1. PausedFits(g, v, a) /\ AuditFits(g, v, a) /\ WorkflowsFit(g, v, a)
    BY DEF FormsFit
  <1>2. PausedFits(g, w, b)
    BY <1>0, <1>1, PausedStays, Zenon
  <1>3. AuditFits(g, w, b)
    BY <1>0, <1>1, AuditStays, Zenon
  <1>4. WorkflowsFit(g, w, b)
    BY <1>0, <1>1, WorkflowsStay, Zenon
  <1> QED BY <1>2, <1>3, <1>4 DEF FormsFit

\* The last statement of a script.
LEMMA EndsPass ==
    ASSUME NEW g \in Forms, NEW v \in 0 .. 8, NEW a, NEW b,
           NEW p \in Openers, NEW k \in 0 .. 7, NEW w, NEW n,
           FormsFit(g, v, a), a[p][1] = k, a[p][2] = n,
           w = k + 1, n \in Nat, n > 1, k \in {4, 7} => n > 2, k = 7 => n > 9,
           Moves(a, b, p, w, 1)
    PROVE  Passes(g, v, w, a, b, p, w, 1)
  <1>1. PausedUntouched(g, g, v, w, a, p, w, 1)
    <2>1. g["paused"] = Absent => k < 4 \/ (k = 4 /\ n <= 2)
      BY DEF FormsFit, PausedFits, NotPast
    <2> QED BY <2>1 DEF PausedUntouched
  <1>2. AuditUntouched(g, g, v, w, a, p, w, 1)
    BY DEF AuditUntouched
  <1>3. WorkflowsUntouched(g, g, v, w, a, p, w, 1)
    BY DEF WorkflowsUntouched
  <1> QED BY <1>1, <1>2, <1>3 DEF Passes

\* A script of the first three ends.
LEMMA FirstEnds ==
    ASSUME NEW g \in Forms, NEW v \in 0 .. 8, NEW a, NEW b,
           NEW p \in Openers, NEW k \in 0 .. 2, NEW w, NEW n,
           FormsFit(g, v, a), a[p][1] = k, a[p][2] = n,
           w = k + 1, n \in Nat, n > 1, \A m \in Made(k) : Place(m) < n,
           Moves(a, b, p, w, 1)
    PROVE  FormsFit(g, w, b)
  <1>1. /\ FirstScripts(g, w, b) /\ v = k
        /\ \A m \in Made(k) : g[m] = k
    BY FillEnds DEF FormsFit
  <1>2. Passes(g, v, w, a, b, p, w, 1)
    BY EndsPass
  <1>3. VectorsFit(g, w, b)
    <2>1. CASE k < 2
      <3>1. VectorsUntouched(g, g, v, w, a, p, w, 1)
        BY <1>1, <2>1 DEF VectorsUntouched
      <3>2. VectorsFit(g, v, a) /\ w \in Nat /\ 1 \in Nat /\ w \in 0 .. 8
        BY DEF FormsFit
      <3> QED BY <3>1, <3>2, VectorsStay
    <2>2. CASE k = 2
      <3>1. \A q \in Openers : b[q][1] \in Nat /\ a[q][1] \in Nat
                               /\ b[q][2] \in Nat /\ a[q][2] \in Nat
        BY DEF Moves, Places
      <3>2. \A q \in Openers : b[q][1] # 3 \/ (b[q][1] = 3 /\ b[q][2] = 1)
        <4>1. \A q \in Openers : a[q][1] <= 2
          BY <1>1, <2>2, <3>1 DEF FormsFit, FirstScripts, NoneAhead
        <4> QED BY <2>2, <3>1, <4>1 DEF Moves
      <3>3. \A I \in SUBSET (2 .. 9) : ~AnyAt(b, 3, I)
        BY <3>2 DEF AnyAt
      <3>4. /\ ~AnyAt(b, 3, 2 .. 4) /\ ~AnyAt(b, 3, 5 .. 6)
        BY <3>3
      <3>5. ~AnyAt(a, 3, 2 .. 4)
        <4>1. \A q \in Openers : a[q][1] <= 2
          BY <1>1, <2>2, <3>1 DEF FormsFit, FirstScripts, NoneAhead
        <4> QED BY <3>1, <4>1 DEF AnyAt
      <3>6. g["vector_chunks"] = 2 /\ g["vector_chunks_source_idx"] = 2
        BY <1>1, <2>2, WhatIsMade DEF Vectors
      <3>7. g["vector_chunks_v4"] = Absent
        BY <3>5 DEF FormsFit, VectorsFit
      <3> QED BY <2>2, <3>4, <3>6, <3>7 DEF VectorsFit, Absent, Newest
    <2> QED BY <2>1, <2>2
  <1>4. w \in 0 .. 8 /\ w \in Nat /\ 1 \in Nat
    OBVIOUS
  <1> QED BY <1>1, <1>2, <1>3, <1>4, PassesFit

\* A later one ends.
LEMMA LaterEnds ==
    ASSUME NEW g \in Forms, NEW v \in 0 .. 8, NEW a, NEW b,
           NEW p \in Openers, NEW k \in 3 .. 7, NEW w, NEW n,
           FormsFit(g, v, a), a[p][1] = k, a[p][2] = n,
           w = k + 1, n \in Nat, n > 1, k = 3 => n = 6,
           k \in {4, 7} => n > 2, k = 7 => n > 9,
           Moves(a, b, p, w, 1)
    PROVE  FormsFit(g, w, b)
  <1>1. v >= 3 /\ (k > 3 => v > 3)
    BY NotAhead
  <1>2. Passes(g, v, w, a, b, p, w, 1)
    BY EndsPass
  <1>3. w \in 0 .. 8 /\ w \in 3 .. 8 /\ w \in Nat /\ 1 \in Nat
    OBVIOUS
  <1>4. FirstScripts(g, w, b)
    <2>1. PastUntouched(g, g, v, w, a, p, w)
      BY DEF PastUntouched
    <2> QED BY <1>3, <2>1, PastFits
  <1>5. VectorsFit(g, w, b)
    <2>1. CASE k > 3
      <3>1. VectorsUntouched(g, g, v, w, a, p, w, 1)
        BY <1>1, <2>1 DEF VectorsUntouched
      <3>2. VectorsFit(g, v, a)
        BY DEF FormsFit
      <3> QED BY <1>3, <3>1, <3>2, VectorsStay
    <2>2. CASE k = 3
      <3>0. a[p][1] = 3 /\ a[p][2] = 6 /\ w = 4
        BY <2>2
      <3>1. /\ AnyAt(b, 3, 2 .. 4) <=> AnyAt(a, 3, 2 .. 4)
            /\ AnyAt(b, 3, {4}) <=> AnyAt(a, 3, {4})
            /\ AnyAt(b, 3, {4, 5}) <=> AnyAt(a, 3, {4, 5})
            /\ AnyAt(a, 3, 5 .. 6)
        BY <3>0 DEF Moves, AnyAt
      <3> QED BY <1>1, <3>0, <3>1 DEF FormsFit, VectorsFit
    <2> QED BY <2>1, <2>2
  <1> QED BY <1>2, <1>3, <1>4, <1>5, PassesFit

\* PRAGMA user_version, at the end of every script.
LEMMA EndsFit ==
    ASSUME NEW g \in Forms, NEW v \in 0 .. 8, NEW a, NEW b,
           NEW p \in Openers, NEW k \in 0 .. 7, NEW w,
           FormsFit(g, v, a), a[p][1] = k, a[p][2] = Len(ScriptOf(k)),
           w = k + 1, Moves(a, b, p, w, 1)
    PROVE  FormsFit(g, w, b)
  <1> DEFINE n == Len(ScriptOf(k))
  <1>1. n = CASE k = 0 -> 7 [] k = 1 -> 4 [] k = 2 -> 3 [] k = 3 -> 6 [] k = 4 -> 3
              [] k = 5 -> 2 [] k = 6 -> 2 [] k = 7 -> 10
    BY Script0, Script1, Script2, Script3, Script4, Script5, Script6, Script7
  <1>2. a[p][2] = n
    OBVIOUS
  <1> HIDE DEF n
  <1>3. CASE k \in 0 .. 2
    <2>1. \A m \in Made(k) : Place(m) < n
      <3>1. \A m \in FirstTables : Place(m) < 7
        BY DEF Place, FirstTables
      <3>2. \A m \in Lexical : Place(m) < 4
        BY DEF Place, Lexical
      <3>3. \A m \in Vectors : Place(m) < 3
        BY DEF Place, Vectors
      <3>4. CASE k = 0
        BY <1>1, <3>1, <3>4, WhatIsMade
      <3>5. CASE k = 1
        BY <1>1, <3>2, <3>5, WhatIsMade
      <3>6. CASE k = 2
        BY <1>1, <3>3, <3>6, WhatIsMade
      <3> QED BY <1>3, <3>4, <3>5, <3>6
    <2>2. n \in Nat /\ n > 1
      BY <1>1, <1>3
    <2> QED BY <1>2, <1>3, <2>1, <2>2, FirstEnds
  <1>4. CASE k \in 3 .. 7
    <2>1. /\ n \in Nat /\ n > 1 /\ (k = 3 => n = 6)
          /\ (k \in {4, 7} => n > 2) /\ (k = 7 => n > 9)
      BY <1>1, <1>4
    <2> QED BY <1>2, <1>4, <2>1, LaterEnds
  <1> QED BY <1>3, <1>4

\* PRAGMA table_info finds the column: the statement that adds it is passed over.
LEMMA LookFits ==
    ASSUME NEW g \in Forms, NEW v \in 0 .. 8, NEW a, NEW b, NEW p \in Openers,
           NEW k, NEW i, FormsFit(g, v, a), a[p][1] = k, a[p][2] = 1, k = 4,
           i \in {2, 3}, Moves(a, b, p, k, i), i = 3 => g["paused"] # Absent
    PROVE  FormsFit(g, v, b)
  <1>1. v > 3
    BY NotAhead
  <1>2. k \in Nat /\ i \in Nat /\ v \in 3 .. 8 /\ k \in 3 .. 8
    BY <1>1
  <1>3. Passes(g, v, v, a, b, p, k, i)
    <2>1. PausedUntouched(g, g, v, v, a, p, k, i)
      BY DEF FormsFit, PausedFits, NotPast, PausedUntouched
    <2>2. AuditUntouched(g, g, v, v, a, p, k, i)
      BY DEF AuditUntouched
    <2>3. WorkflowsUntouched(g, g, v, v, a, p, k, i)
      BY DEF WorkflowsUntouched
    <2> QED BY <2>1, <2>2, <2>3 DEF Passes
  <1>4. FirstScripts(g, v, b)
    <2>1. PastUntouched(g, g, v, v, a, p, k)
      BY DEF PastUntouched
    <2> QED BY <1>2, <2>1, PastFits
  <1>5. VectorsFit(g, v, b)
    <2>1. VectorsUntouched(g, g, v, v, a, p, k, i)
      BY DEF VectorsUntouched
    <2>2. VectorsFit(g, v, a)
      BY DEF FormsFit
    <2> QED BY <1>2, <2>1, <2>2, VectorsStay
  <1> QED BY <1>2, <1>3, <1>4, <1>5, PassesFit

\* A statement that may run removes a table only by dropping it.
LEMMA OnlyDropRemoves ==
    ASSUME NEW g \in Forms, NEW st, WellNamed(st), NEW k \in 0 .. 7,
           Allowed(g, st), NEW t \in Copied, g[t] # Absent,
           st.op = "drop" => st.name # t
    PROVE  Effect(g, st, k)[t] # Absent
  <1>1. t \in Names /\ Carrier(t) = "none" /\ "none" \notin Names /\ k # Absent
    BY NamesAre DEF Absent, Newest
  <1>2. CASE st.op \in {"create", "add_column", "create_if_missing"}
    <2>1. st.name \in Names
      BY <1>2 DEF WellNamed
    <2> DEFINE n == st.name
    <2>2. n \in Names
      BY <2>1
    <2>3. Effect(g, st, k) = Put(g, n, k) \/ Effect(g, st, k) = g
      BY <1>2 DEF Effect
    <2> HIDE DEF n
    <2>4. \A m \in Names : Put(g, n, k)[m] = IF m = n THEN k ELSE g[m]
      BY <2>2 DEF Put, Forms
    <2>5. Put(g, n, k)[t] = k \/ Put(g, n, k)[t] = g[t]
      BY <1>1, <2>4
    <2> QED BY <1>1, <2>3, <2>5
  <1>3. CASE st.op = "drop"
    <2>1. st.name \in Copied /\ st.name \in Names /\ st.name # t
      BY <1>3, NamesAre DEF WellNamed, Replacing
    <2>2. Dropped(g, st.name)[t] = g[t]
      BY <1>1, <2>1, DroppedValues
    <2> QED BY <1>3, <2>2 DEF Effect
  <1>4. CASE st.op = "rename"
    <2>1. st.name \in Copied /\ g[st.name] = Absent
      BY <1>4 DEF WellNamed, Replacing, Allowed, Copying
    <2>2. t # CopyOf[st.name]
      BY <2>1, TableNames
    <2>3. InPlace(g, st.name)[t] = g[t]
      BY <1>1, <2>1, <2>2, InPlaceValues
    <2> QED BY <1>4, <2>3 DEF Effect
  <1>5. CASE st.op \notin {"create", "add_column", "create_if_missing", "drop", "rename"}
    BY <1>5 DEF Effect
  <1> QED BY <1>2, <1>3, <1>4, <1>5

----------------------------------------------------------------------------
(* The forms hold at every step                                            *)

\* The schema has forms that fit, unless a script that cannot be resumed was
\* left halfway or is about to be.
FormsInv ==
    \E g \in Forms :
        /\ schema = SchemaWith(g)
        /\ halfway \/ Doomed(g, at) \/ FormsFit(g, version, at)

\* Who copies, drops or renames at the places that the forms speak of.
LEMMA ReplacersAre ==
    ASSUME NEW p \in Openers
    PROVE  /\ at[p][1] = 3 /\ at[p][2] \in 2 .. 4 => Replaces(p, "vector_chunks")
           /\ at[p][1] = 7 /\ at[p][2] \in 2 .. 4 => Replaces(p, "agent_action_audit")
           /\ at[p][1] = 7 /\ at[p][2] \in 7 .. 9 => Replaces(p, "agent_action_workflows")
           /\ at[p][1] = 3 /\ at[p][2] = 4 => Statement(p).op = "rename"
           /\ at[p][1] = 7 /\ at[p][2] \in {4, 9} => Statement(p).op = "rename"
  <1>1. at[p][1] \in {3, 7} => IsMigrating(p)
    BY DEF IsMigrating, Closed, Opened, Newest
  <1>2. ASSUME at[p][1] = 3
        PROVE  /\ at[p][2] \in 2 .. 4 => Replaces(p, "vector_chunks")
               /\ at[p][2] = 4 => Statement(p).op = "rename"
    <2>1. /\ at[p][2] = 2 => Statement(p) = Copy("vector_chunks")
          /\ at[p][2] = 3 => Statement(p) = Drop("vector_chunks")
          /\ at[p][2] = 4 => Statement(p) = Rename("vector_chunks")
      BY <1>2, Script3 DEF Statement
    <2>2. at[p][2] \in 2 .. 4 => at[p][2] = 2 \/ at[p][2] = 3 \/ at[p][2] = 4
      OBVIOUS
    <2> QED BY <1>1, <1>2, <2>1, <2>2
            DEF Replaces, Replacing, Copying, Copy, Drop, Rename
  <1>3. ASSUME at[p][1] = 7
        PROVE  /\ at[p][2] \in 2 .. 4 => Replaces(p, "agent_action_audit")
               /\ at[p][2] \in 7 .. 9 => Replaces(p, "agent_action_workflows")
               /\ at[p][2] \in {4, 9} => Statement(p).op = "rename"
    <2>1. /\ at[p][2] = 2 => Statement(p) = CopyOwned("agent_action_audit")
          /\ at[p][2] = 3 => Statement(p) = Drop("agent_action_audit")
          /\ at[p][2] = 4 => Statement(p) = Rename("agent_action_audit")
          /\ at[p][2] = 7 => Statement(p) = CopyOwned("agent_action_workflows")
          /\ at[p][2] = 8 => Statement(p) = Drop("agent_action_workflows")
          /\ at[p][2] = 9 => Statement(p) = Rename("agent_action_workflows")
      BY <1>3, Script7 DEF Statement
    <2>2. /\ at[p][2] \in 2 .. 4 => at[p][2] = 2 \/ at[p][2] = 3 \/ at[p][2] = 4
          /\ at[p][2] \in 7 .. 9 => at[p][2] = 7 \/ at[p][2] = 8 \/ at[p][2] = 9
      OBVIOUS
    <2> QED BY <1>1, <1>3, <2>1, <2>2
            DEF Replaces, Replacing, Copying, CopyOwned, Drop, Rename
  <1> QED BY <1>2, <1>3

LEMMA SoleAt ==
    ASSUME OneReplaces
    PROVE  AllSole(at)
  <1>1. /\ "vector_chunks" \in Copied /\ "agent_action_audit" \in Copied
        /\ "agent_action_workflows" \in Copied
    BY TableNames
  <1>2. \A p, q \in Openers, t \in Copied : Replaces(p, t) /\ Replaces(q, t) => p = q
    BY DEF OneReplaces
  <1>3. Sole(at, 3, 2 .. 4)
    BY <1>1, <1>2, ReplacersAre DEF Sole
  <1>4. Sole(at, 7, 2 .. 4)
    BY <1>1, <1>2, ReplacersAre DEF Sole
  <1>5. Sole(at, 7, 7 .. 9)
    BY <1>1, <1>2, ReplacersAre DEF Sole
  <1> QED BY <1>3, <1>4, <1>5 DEF AllSole

\* A step of p that is not itself the RENAME to be refused does not help.
LEMMA DoomedStays ==
    ASSUME OneReplaces, NEW g, NEW h, NEW p \in Openers, Doomed(g, at),
           \A q \in Openers \ {p} : at'[q] = at[q],
           \A t \in Copied : g[t] # Absent => h[t] # Absent \/ Replaces(p, t),
           \A t \in Copied : Replaces(p, t) /\ Statement(p).op = "rename" => g[t] = Absent
    PROVE  Doomed(h, at')
  <1>1. /\ "vector_chunks" \in Copied /\ "agent_action_audit" \in Copied
        /\ "agent_action_workflows" \in Copied
    BY TableNames
  <1>2. ASSUME NEW q \in Openers, NEW t \in Copied, Replaces(q, t),
               Statement(q).op = "rename", g[t] # Absent
        PROVE  at'[q] = at[q] /\ h[t] # Absent
    <2>1. q # p
      BY <1>2
    <2>2. ~Replaces(p, t)
      BY <1>2, <2>1 DEF OneReplaces
    <2> QED BY <1>2, <2>1, <2>2
  <1>3. CASE g["vector_chunks"] # Absent /\ AnyAt(at, 3, {4})
    <2>1. PICK q \in Openers : at[q][1] = 3 /\ at[q][2] = 4
      BY <1>3 DEF AnyAt
    <2>2. Replaces(q, "vector_chunks") /\ Statement(q).op = "rename"
      BY <2>1, ReplacersAre
    <2>3. at'[q] = at[q] /\ h["vector_chunks"] # Absent
      BY <1>1, <1>2, <1>3, <2>2
    <2> QED BY <2>1, <2>3 DEF Doomed, AnyAt
  <1>4. CASE g["agent_action_audit"] # Absent /\ AnyAt(at, 7, {4})
    <2>1. PICK q \in Openers : at[q][1] = 7 /\ at[q][2] = 4
      BY <1>4 DEF AnyAt
    <2>2. Replaces(q, "agent_action_audit") /\ Statement(q).op = "rename"
      BY <2>1, ReplacersAre
    <2>3. at'[q] = at[q] /\ h["agent_action_audit"] # Absent
      BY <1>1, <1>2, <1>4, <2>2
    <2> QED BY <2>1, <2>3 DEF Doomed, AnyAt
  <1>5. CASE g["agent_action_workflows"] # Absent /\ AnyAt(at, 7, {9})
    <2>1. PICK q \in Openers : at[q][1] = 7 /\ at[q][2] = 9
      BY <1>5 DEF AnyAt
    <2>2. Replaces(q, "agent_action_workflows") /\ Statement(q).op = "rename"
      BY <2>1, ReplacersAre
    <2>3. at'[q] = at[q] /\ h["agent_action_workflows"] # Absent
      BY <1>1, <1>2, <1>5, <2>2
    <2> QED BY <2>1, <2>3 DEF Doomed, AnyAt
  <1> QED BY <1>3, <1>4, <1>5 DEF Doomed

\* p goes somewhere.
LEMMA MovesAt ==
    ASSUME SchemaTypeOK, NEW p \in Openers, NEW k \in Nat, NEW i \in Nat,
           at' = [at EXCEPT ![p] = <<k, i>>]
    PROVE  /\ Moves(at, at', p, k, i)
           /\ \A q \in Openers \ {p} : at'[q] = at[q]
  <1>1. at \in [Openers -> Nat \X Nat] /\ <<k, i>> \in Nat \X Nat
    BY DEF SchemaTypeOK
  <1>2. /\ at' \in [Openers -> Nat \X Nat]
        /\ at'[p] = <<k, i>>
        /\ \A q \in Openers \ {p} : at'[q] = at[q]
    BY <1>1, OthersStay
  <1> QED BY <1>1, <1>2 DEF Moves, Places

\* CREATE, ALTER, INSERT ... SELECT, DROP and RENAME.
LEMMA StatementKeepsForms ==
    ASSUME Inv, FormsInv, NEW p \in Openers, IsMigrating(p),
           Statement(p).op \notin {"look", "set_version"},
           CanRun(Statement(p), schema),
           schema' = After(Statement(p), schema, at[p][1]),
           Advance(p, 1), version' = version, halfway' = halfway
    PROVE  FormsInv'
  <1> DEFINE k == at[p][1]
             i == at[p][2]
             st == ScriptOf(k)[i]
  <1>1. PICK g \in Forms :
          /\ schema = SchemaWith(g)
          /\ halfway \/ Doomed(g, at) \/ FormsFit(g, version, at)
    BY DEF FormsInv
  <1>2. SchemaTypeOK /\ OneReplaces /\ version \in 0 .. 8
    BY DEF Inv, SchemaTypeOK, Newest
  <1>3. /\ k \in 0 .. 7 /\ i \in 1 .. Len(ScriptOf(k)) /\ i \in Nat
        /\ st = Statement(p)
    BY <1>2, AtStatement DEF Statement
  <1>4. WellNamed(st)
    BY <1>3, StatementsAreNamed
  <1>5. /\ Allowed(g, st)
        /\ Effect(g, st, k) \in Forms
        /\ schema' = SchemaWith(Effect(g, st, k))
    BY <1>1, <1>3, <1>4, AfterForm
  <1>6. Moves(at, at', p, k, i + 1) /\ \A q \in Openers \ {p} : at'[q] = at[q]
    <2>1. at' = [at EXCEPT ![p] = <<k, i + 1>>]
      BY DEF Advance
    <2>2. k \in Nat /\ i + 1 \in Nat
      BY <1>3
    <2> QED BY <1>2, <2>1, <2>2, MovesAt
  <1> DEFINE h == Effect(g, st, k)
  <1>7. CASE halfway
    BY <1>5, <1>7 DEF FormsInv
  <1>8. CASE Doomed(g, at)
    <2>1. ASSUME NEW t \in Copied, g[t] # Absent
          PROVE  h[t] # Absent \/ Replaces(p, t)
      <3>1. CASE st.op = "drop" /\ st.name = t
        BY <1>3, <3>1 DEF Replaces, Replacing
      <3>2. CASE ~ (st.op = "drop" /\ st.name = t)
        BY <1>3, <1>4, <1>5, <2>1, <3>2, OnlyDropRemoves
      <3> QED BY <3>1, <3>2
    <2>2. \A t \in Copied : Replaces(p, t) /\ Statement(p).op = "rename" => g[t] = Absent
      BY <1>3, <1>5 DEF Replaces, Allowed, Copying
    <2>3. Doomed(h, at')
      BY <1>2, <1>6, <1>8, <2>1, <2>2, DoomedStays
    <2> QED BY <1>5, <2>3 DEF FormsInv
  <1>9. CASE FormsFit(g, version, at)
    <2>1. AllSole(at)
      BY <1>2, SoleAt
    <2>2. Runs(g, h, at, at', p, k, i)
      BY <1>5, <1>6 DEF Runs
    <2>3. FormsFit(h, version, at') \/ Doomed(h, at')
      <3> HIDE DEF h, k, i
      <3> QED BY <1>2, <1>3, <1>9, <2>1, <2>2, StatementsKeep
    <2> QED BY <1>5, <2>3 DEF FormsInv
  <1> QED BY <1>1, <1>7, <1>8, <1>9

\* Steps that leave the schema as it is, and keep what fits.
LEMMA SchemaSameForms ==
    ASSUME Inv, FormsInv, NEW p \in Openers,
           schema' = schema, halfway => halfway',
           \A q \in Openers \ {p} : at'[q] = at[q],
           halfway' \/ ~(IsMigrating(p) /\ Statement(p).op = "rename"),
           \A g \in Forms : schema = SchemaWith(g) /\ FormsFit(g, version, at) =>
               halfway' \/ FormsFit(g, version', at')
    PROVE  FormsInv'
  <1>1. PICK g \in Forms :
          /\ schema = SchemaWith(g)
          /\ halfway \/ Doomed(g, at) \/ FormsFit(g, version, at)
    BY DEF FormsInv
  <1>2. CASE halfway'
    BY <1>1, <1>2 DEF FormsInv
  <1>3. CASE Doomed(g, at) /\ ~halfway'
    <2>1. OneReplaces
      BY DEF Inv
    <2>2. \A t \in Copied : Replaces(p, t) => Statement(p).op # "rename"
      BY <1>3 DEF Replaces
    <2>3. Doomed(g, at')
      BY <1>3, <2>1, <2>2, DoomedStays
    <2> QED BY <1>1, <2>3 DEF FormsInv
  <1>4. CASE FormsFit(g, version, at)
    BY <1>1, <1>4 DEF FormsInv
  <1> QED BY <1>1, <1>2, <1>3, <1>4

LEMMA LookKeepsForms ==
    ASSUME Inv, FormsInv, NEW p \in Openers, Look(p)
    PROVE  FormsInv'
  <1>1. SchemaTypeOK /\ IsMigrating(p) /\ Statement(p).op = "look"
        /\ version \in 0 .. 8
    BY DEF Inv, Look, SchemaTypeOK, Newest
  <1>2. at[p][1] = 4 /\ at[p][2] = 1
    <2>1. StatementFits(ScriptOf(at[p][1]), at[p][1], at[p][2])
      BY <1>1, AtStatement
    <2> QED BY <1>1, <2>1 DEF StatementFits, Statement
  <1>3. UNCHANGED <<version, schema, halfway>>
    BY DEF Look, histories
  <1>4. Statement(p).name = "paused"
    BY <1>2, Script4 DEF Statement, LookFor
  <1>5. PICK i \in {2, 3} : /\ at' = [at EXCEPT ![p] = <<4, i>>]
                            /\ i = 3 => Has(schema, "paused")
    <2>1. CASE Has(schema, "paused")
      <3>1. at' = [at EXCEPT ![p] = <<at[p][1], at[p][2] + 2>>]
        BY <1>4, <2>1 DEF Look, Advance
      <3>2. at' = [at EXCEPT ![p] = <<4, 3>>]
        BY <1>2, <3>1
      <3> QED BY <2>1, <3>2
    <2>2. CASE ~Has(schema, "paused")
      <3>1. at' = [at EXCEPT ![p] = <<at[p][1], at[p][2] + 1>>]
        BY <1>4, <2>2 DEF Look, Advance
      <3>2. at' = [at EXCEPT ![p] = <<4, 2>>]
        BY <1>2, <3>1
      <3> QED BY <3>2
    <2> QED BY <2>1, <2>2
  <1>6. Moves(at, at', p, 4, i) /\ \A q \in Openers \ {p} : at'[q] = at[q]
    <2>1. 4 \in Nat /\ i \in Nat
      OBVIOUS
    <2> QED BY <1>1, <1>5, <2>1, MovesAt
  <1>7. ASSUME NEW g \in Forms, schema = SchemaWith(g), FormsFit(g, version, at)
        PROVE  FormsFit(g, version', at')
    <2>1. i = 3 => g["paused"] # Absent
      BY <1>5, <1>7, HasForm, TheNames
    <2> QED BY <1>1, <1>2, <1>3, <1>6, <1>7, <2>1, LookFits
  <1> QED BY <1>1, <1>3, <1>6, <1>7, SchemaSameForms

\* PRAGMA user_version is the last statement of a script.
LEMMA SetsVersionLast ==
    ASSUME NEW k \in 0 .. 7, NEW i \in 1 .. Len(ScriptOf(k)),
           ScriptOf(k)[i].op = "set_version"
    PROVE  i = Len(ScriptOf(k))
  <1>1. Len(ScriptOf(k)) \in Nat /\ StatementFits(ScriptOf(k), k, i)
    BY ScriptsFit
  <1>2. ASSUME i # Len(ScriptOf(k)) PROVE ScriptOf(k)[i].op # "set_version"
    <2>0. CASE k = 0
      <3>1. Len(ScriptOf(k)) = 7
        BY <2>0, Script0
      <3>2. i = 1 \/ i = 2 \/ i = 3 \/ i = 4 \/ i = 5 \/ i = 6
        BY <1>2, <3>1
      <3> QED BY <2>0, <3>2, Statements0
    <2>1. CASE k = 1
      <3>1. Len(ScriptOf(k)) = 4
        BY <2>1, Script1
      <3>2. i = 1 \/ i = 2 \/ i = 3
        BY <1>2, <3>1
      <3> QED BY <2>1, <3>2, Statements1
    <2>2. CASE k = 2
      <3>1. Len(ScriptOf(k)) = 3
        BY <2>2, Script2
      <3>2. i = 1 \/ i = 2
        BY <1>2, <3>1
      <3> QED BY <2>2, <3>2, Statements2
    <2>3. CASE k = 3
      <3>1. Len(ScriptOf(k)) = 6
        BY <2>3, Script3
      <3>2. i = 1 \/ i = 2 \/ i = 3 \/ i = 4 \/ i = 5
        BY <1>2, <3>1
      <3> QED BY <2>3, <3>2, Statements3
    <2>4. CASE k = 4
      <3>1. Len(ScriptOf(k)) = 3
        BY <2>4, Script4
      <3>2. i = 1 \/ i = 2
        BY <1>2, <3>1
      <3> QED BY <2>4, <3>2, Statements4
    <2>5. CASE k = 5
      <3>1. Len(ScriptOf(k)) = 2
        BY <2>5, Script5
      <3>2. i = 1
        BY <1>2, <3>1
      <3> QED BY <2>5, <3>2, Statements5
    <2>6. CASE k = 6
      <3>1. Len(ScriptOf(k)) = 2
        BY <2>6, Script6
      <3>2. i = 1
        BY <1>2, <3>1
      <3> QED BY <2>6, <3>2, Statements6
    <2>7. CASE k = 7
      <3>1. Len(ScriptOf(k)) = 10
        BY <2>7, Script7
      <3>2. i = 1 \/ i = 2 \/ i = 3 \/ i = 4 \/ i = 5 \/ i = 6 \/ i = 7 \/ i = 8 \/ i = 9
        BY <1>2, <3>1
      <3> QED BY <2>7, <3>2, Statements7
    <2> QED BY <2>0, <2>1, <2>2, <2>3, <2>4, <2>5, <2>6, <2>7
  <1> QED BY <1>2

LEMMA FinishKeepsForms ==
    ASSUME Inv, FormsInv, NEW p \in Openers, FinishScript(p)
    PROVE  FormsInv'
  <1> DEFINE k == at[p][1]
             w == k + 1
  <1>1. SchemaTypeOK /\ IsMigrating(p) /\ Statement(p).op = "set_version"
        /\ version \in 0 .. 8
    BY DEF Inv, FinishScript, SchemaTypeOK, Newest
  <1>2. k \in 0 .. 7 /\ at[p][2] \in 1 .. Len(ScriptOf(k))
    BY <1>1, AtStatement
  <1>3. at[p][2] = Len(ScriptOf(k))
    <2>1. ScriptOf(k)[at[p][2]].op = "set_version"
      BY <1>1 DEF Statement
    <2> HIDE DEF k
    <2> QED BY <1>2, <2>1, SetsVersionLast
  <1>4. version' = w /\ UNCHANGED <<schema, halfway>>
    BY DEF FinishScript, NextVersion
  <1>5. Moves(at, at', p, w, 1) /\ \A q \in Openers \ {p} : at'[q] = at[q]
    <2>1. at' = [at EXCEPT ![p] = <<w, 1>>]
      BY DEF FinishScript
    <2>2. w \in Nat /\ 1 \in Nat
      BY <1>2
    <2> QED BY <1>1, <2>1, <2>2, MovesAt
  <1>6. ASSUME NEW g \in Forms, FormsFit(g, version, at)
        PROVE  FormsFit(g, version', at')
    <2>1. k = at[p][1] /\ w = k + 1
      OBVIOUS
    <2> HIDE DEF k, w
    <2>2. FormsFit(g, w, at')
      BY <1>1, <1>2, <1>3, <1>5, <1>6, <2>1, EndsFit
    <2> QED BY <1>4, <2>2
  <1> QED BY <1>1, <1>4, <1>5, <1>6, SchemaSameForms

LEMMA LeaveKeepsForms ==
    ASSUME Inv, FormsInv, NEW p \in Openers, Leave(p)
    PROVE  FormsInv'
  <1>1. SchemaTypeOK /\ version \in 0 .. 8 /\ at[p] \in Nat \X Nat
    BY DEF Inv, SchemaTypeOK, Newest
  <1>2. UNCHANGED <<version, schema>> /\ (halfway => halfway')
    BY DEF Leave
  <1>3. Moves(at, at', p, 0, 0) /\ \A q \in Openers \ {p} : at'[q] = at[q]
    <2>1. at' = [at EXCEPT ![p] = <<0, 0>>]
      BY DEF Leave, Closed
    <2>2. 0 \in Nat
      OBVIOUS
    <2> QED BY <1>1, <2>1, <2>2, MovesAt
  <1>4. halfway' \/ at[p][2] <= 1 \/ at[p][1] \in 4 .. 6
    <2>1. CASE IsMigrating(p)
      <3>1. halfway' \/ at[p][1] \in Resumable \/ ~(at[p][2] > 1)
        BY <2>1 DEF Leave
      <3>2. at[p][1] \in Nat /\ at[p][2] \in Nat
        BY <1>1
      <3> QED BY <3>1, <3>2 DEF Resumable
    <2>2. CASE ~IsMigrating(p)
      BY <1>1, <2>2 DEF IsMigrating, Closed, Opened
    <2> QED BY <2>1, <2>2
  <1>5. halfway' \/ ~(IsMigrating(p) /\ Statement(p).op = "rename")
    <2> SUFFICES ASSUME IsMigrating(p), Statement(p).op = "rename", ~halfway'
                 PROVE  FALSE
      OBVIOUS
    <2>1. /\ at[p][1] \in 0 .. 7 /\ at[p][2] \in 1 .. Len(ScriptOf(at[p][1]))
          /\ StatementFits(ScriptOf(at[p][1]), at[p][1], at[p][2])
      BY <1>1, AtStatement
    <2>2. at[p][2] > 1
      BY <2>1 DEF StatementFits, Statement, Replacing
    <2>3. at[p][1] \in 4 .. 6
      BY <1>1, <1>4, <2>2
    <2>4. ScriptOf(at[p][1])[at[p][2]].op # "rename"
      <3> DEFINE v == at[p][1]
                 i == at[p][2]
      <3>1. v \in 4 .. 6 /\ i \in 1 .. Len(ScriptOf(v))
        BY <2>1, <2>3
      <3> HIDE DEF v, i
      <3>2. ScriptOf(v)[i].op # "rename"
        <4>1. CASE v = 4
          BY <3>1, <4>1, Script4 DEF LookFor, AddColumn, SetVersion
        <4>2. CASE v = 5
          BY <3>1, <4>2, Script5 DEF CreateIfMissing, SetVersion
        <4>3. CASE v = 6
          BY <3>1, <4>3, Script6 DEF CreateIfMissing, SetVersion
        <4> QED BY <3>1, <4>1, <4>2, <4>3
      <3> QED BY <3>2 DEF v, i
    <2> QED BY <2>4 DEF Statement
  <1>6. ASSUME NEW g \in Forms, FormsFit(g, version, at)
        PROVE  halfway' \/ FormsFit(g, version', at')
    <2>1. 0 \in {0, version} /\ 0 \in 0 .. 1
      OBVIOUS
    <2> QED BY <1>1, <1>2, <1>3, <1>4, <1>6, <2>1, ComeAndGo
  <1> QED BY <1>2, <1>3, <1>5, <1>6, SchemaSameForms

LEMMA OpenKeepsForms ==
    ASSUME Inv, FormsInv, NEW p \in Openers, Open(p)
    PROVE  FormsInv'
  <1>1. SchemaTypeOK /\ version \in 0 .. 8 /\ at[p] = <<0, 0>>
    BY DEF Inv, SchemaTypeOK, Newest, Open, Closed
  <1>2. UNCHANGED <<version, schema, halfway>>
    BY DEF Open, histories
  <1>3. Moves(at, at', p, version, 1) /\ \A q \in Openers \ {p} : at'[q] = at[q]
    <2>1. at' = [at EXCEPT ![p] = <<version, 1>>]
      BY DEF Open, FirstScript
    <2>2. version \in Nat /\ 1 \in Nat
      BY <1>1
    <2> QED BY <1>1, <2>1, <2>2, MovesAt
  <1>4. ~IsMigrating(p)
    BY <1>1 DEF IsMigrating, Closed
  <1>5. ASSUME NEW g \in Forms, FormsFit(g, version, at)
        PROVE  FormsFit(g, version', at')
    <2>1. version \in {0, version} /\ 1 \in 0 .. 1 /\ at[p][2] <= 1
      BY <1>1
    <2> QED BY <1>1, <1>2, <1>3, <1>5, <2>1, ComeAndGo
  <1> QED BY <1>2, <1>3, <1>4, <1>5, SchemaSameForms

----------------------------------------------------------------------------
(* The promises about databases at rest                                    *)

LEMMA FormsInit == SchemaInit => FormsInv
  <1> SUFFICES ASSUME SchemaInit PROVE FormsInv
    OBVIOUS
  <1> DEFINE g == FormAt(version)
  <1>1. /\ version \in 0 .. 8 /\ schema = SchemaOf(version)
        /\ \A p \in Openers : at[p][1] = 0 /\ at[p][2] = 0
    BY DEF SchemaInit, Newest, Closed
  <1>2. schema = SchemaWith(g) /\ g \in Forms
    BY <1>1, SchemasInForm
  <1>3. /\ \A n \in FirstTables : g[n] = IF version > 0 THEN 0 ELSE Absent
        /\ \A n \in Lexical : g[n] = IF version > 1 THEN 1 ELSE Absent
        /\ \A n \in Vectors : g[n] =
             IF version <= 2 THEN Absent ELSE IF version = 3 THEN 2 ELSE 3
        /\ g["paused"] = IF version > 4 THEN 4 ELSE Absent
        /\ g["agent_action_audit"] =
             IF version <= 5 THEN Absent ELSE IF version = 8 THEN 7 ELSE 5
        /\ g["agent_action_workflows"] =
             IF version <= 6 THEN Absent ELSE IF version = 8 THEN 7 ELSE 6
        /\ g["agent_action_audit_operation_idx"] = IF version = 8 THEN 7 ELSE Absent
        /\ \A n \in Copies : g[n] = Absent
    BY <1>1, FormsAre
  <1> HIDE DEF g
  <1>4. \A k \in 3 .. 8, I \in SUBSET (2 .. 9) : ~AnyAt(at, k, I)
    BY <1>1 DEF AnyAt
  <1>5. /\ ~AnyAt(at, 3, 2 .. 4) /\ ~AnyAt(at, 3, 5 .. 6)
        /\ ~AnyAt(at, 7, 2 .. 4) /\ ~AnyAt(at, 7, 7 .. 9)
    BY <1>4
  <1>6. \A k \in 1 .. 8, i \in Nat : NotPast(at, k, i)
    BY <1>1 DEF NotPast
  <1>7. FirstScripts(g, version, at)
    <2>1. NoneAhead(version, at) /\ OneFills(g, version, at)
      BY <1>1 DEF NoneAhead, OneFills
    <2>2. NotYet(g, version, at)
      <3>1. ASSUME NEW k \in 0 .. 2, version <= k, NEW n \in Made(k) PROVE g[n] = Absent
        <4>1. CASE k = 0
          BY <1>1, <1>3, <3>1, <4>1, WhatIsMade
        <4>2. CASE k = 1
          BY <1>1, <1>3, <3>1, <4>2, WhatIsMade
        <4>3. CASE k = 2
          BY <1>1, <1>3, <3>1, <4>3, WhatIsMade
        <4> QED BY <4>1, <4>2, <4>3
      <3> QED BY <3>1 DEF NotYet
    <2>3. Filled(g, version)
      <3>1. ASSUME NEW k \in 0 .. 1, version > k, NEW n \in Made(k) PROVE g[n] = k
        <4>1. CASE k = 0
          BY <1>1, <1>3, <3>1, <4>1, WhatIsMade
        <4>2. CASE k = 1
          BY <1>1, <1>3, <3>1, <4>2, WhatIsMade
        <4> QED BY <4>1, <4>2
      <3> QED BY <3>1 DEF Filled
    <2> QED BY <2>1, <2>2, <2>3 DEF FirstScripts
  <1>8. /\ g["vector_chunks_v4"] = Absent
        /\ g["agent_action_audit_v8"] = Absent
        /\ g["agent_action_workflows_v8"] = Absent
    BY <1>3, TableNames
  <1>9. VectorsFit(g, version, at)
    <2>1. version >= 3 =>
            /\ g["vector_chunks"] = IF version = 3 THEN 2 ELSE 3
            /\ g["vector_chunks_source_idx"] = IF version = 3 THEN 2 ELSE 3
      BY <1>1, <1>3 DEF Vectors
    <2> QED BY <1>1, <1>5, <1>8, <2>1 DEF VectorsFit, Absent, Newest
  <1>10. PausedFits(g, version, at)
    <2>1. NotPast(at, 4, 2)
      BY <1>6
    <2> QED BY <1>1, <1>3, <2>1 DEF PausedFits, Absent, Newest
  <1>11. AuditFits(g, version, at)
    <2>1. NotPast(at, 5, 1) /\ NotPast(at, 7, 4)
      BY <1>6
    <2> QED BY <1>1, <1>3, <1>5, <1>8, <2>1 DEF AuditFits, Absent, Newest
  <1>12. WorkflowsFit(g, version, at)
    <2>1. NotPast(at, 6, 1) /\ NotPast(at, 7, 9)
      BY <1>6
    <2> QED BY <1>1, <1>3, <1>5, <1>8, <2>1 DEF WorkflowsFit, Absent, Newest
  <1> QED BY <1>2, <1>7, <1>9, <1>10, <1>11, <1>12 DEF FormsInv, FormsFit

LEMMA FormsNext == Inv /\ FormsInv /\ [SchemaNext]_schemaVars => FormsInv'
  <1> SUFFICES ASSUME Inv, FormsInv, [SchemaNext]_schemaVars PROVE FormsInv'
    OBVIOUS
  <1>1. ASSUME NEW p \in Openers, Migrate(p) PROVE FormsInv'
    <2>1. CASE Look(p)
      BY <2>1, LookKeepsForms
    <2>2. CASE Define(p)
      <3>1. /\ IsMigrating(p) /\ Statement(p).op \notin {"look", "set_version"}
            /\ CanRun(Statement(p), schema)
            /\ schema' = After(Statement(p), schema, at[p][1])
            /\ Advance(p, 1) /\ version' = version /\ halfway' = halfway
        BY <2>2 DEF Define
      <3> QED BY <3>1, StatementKeepsForms
    <2>3. CASE CopyRows(p)
      <3>1. /\ IsMigrating(p) /\ Statement(p).op \in {"copy", "copy_owned"}
            /\ CanRun(Statement(p), schema) /\ schema' = schema
            /\ Advance(p, 1) /\ version' = version /\ halfway' = halfway
        BY <2>3 DEF CopyRows
      <3>2. schema' = After(Statement(p), schema, at[p][1])
        BY <3>1 DEF After
      <3> QED BY <3>1, <3>2, StatementKeepsForms
    <2>4. CASE DropTable(p)
      <3>1. /\ IsMigrating(p) /\ Statement(p).op \notin {"look", "set_version"}
            /\ CanRun(Statement(p), schema)
            /\ schema' = After(Statement(p), schema, at[p][1])
            /\ Advance(p, 1) /\ version' = version /\ halfway' = halfway
        BY <2>4 DEF DropTable
      <3> QED BY <3>1, StatementKeepsForms
    <2>5. CASE RenameTable(p)
      <3>1. /\ IsMigrating(p) /\ Statement(p).op \notin {"look", "set_version"}
            /\ CanRun(Statement(p), schema)
            /\ schema' = After(Statement(p), schema, at[p][1])
            /\ Advance(p, 1) /\ version' = version /\ halfway' = halfway
        BY <2>5 DEF RenameTable
      <3> QED BY <3>1, StatementKeepsForms
    <2>6. CASE FinishScript(p)
      BY <2>6, FinishKeepsForms
    <2>7. CASE Refused(p)
      BY <2>7, LeaveKeepsForms DEF Refused
    <2> QED BY <1>1, <2>1, <2>2, <2>3, <2>4, <2>5, <2>6, <2>7 DEF Migrate
  <1>2. ASSUME NEW p \in Openers, Open(p) PROVE FormsInv'
    BY <1>2, OpenKeepsForms
  <1>3. ASSUME NEW p \in Openers, Stop(p) PROVE FormsInv'
    BY <1>3, LeaveKeepsForms DEF Stop
  <1>4. ASSUME NEW p \in Openers, NEW r \in Rows, Write(p, r) PROVE FormsInv'
    BY <1>4 DEF Write, FormsInv
  <1>5. CASE UNCHANGED schemaVars
    BY <1>5 DEF schemaVars, histories, FormsInv
  <1> QED BY <1>1, <1>2, <1>3, <1>4, <1>5 DEF SchemaNext

LEMMA FormsHold == SchemaSpec => []FormsInv
  <1> QED BY FormsInit, FormsNext, InvHolds, PTL DEF SchemaSpec

\* What the forms say when no process migrates.
LEMMA FormsAtRest ==
    ASSUME Inv, FormsInv, AtRest, ~halfway
    PROVE  \E g \in Forms :
             /\ schema = SchemaWith(g)
             /\ FormsFit(g, version, at)
             /\ \A k \in 1 .. 7, I \in SUBSET (2 .. 9) : ~AnyAt(at, k, I)
             /\ \A p \in Openers : (at[p][1] = 0 \/ at[p][1] = 8) /\ at[p][2] \in 0 .. 1
  <1>1. PICK g \in Forms :
          /\ schema = SchemaWith(g)
          /\ halfway \/ Doomed(g, at) \/ FormsFit(g, version, at)
    BY DEF FormsInv
  <1>2. \A p \in Openers : (at[p][1] = 0 \/ at[p][1] = 8) /\ at[p][2] \in 0 .. 1
    BY DEF AtRest, IsMigrating, Closed, Opened, Newest
  <1>3. \A k \in 1 .. 7, I \in SUBSET (2 .. 9) : ~AnyAt(at, k, I)
    BY <1>2 DEF AnyAt
  <1>4. ~Doomed(g, at)
    <2>1. ~AnyAt(at, 3, {4}) /\ ~AnyAt(at, 7, {4}) /\ ~AnyAt(at, 7, {9})
      BY <1>3
    <2> QED BY <2>1 DEF Doomed
  <1> QED BY <1>1, <1>2, <1>3, <1>4

\* The indexes of vectors go with their table.
LEMMA RestReopens ==
    ASSUME NEW g \in Forms, NEW v \in 0 .. 8, NEW a, FormsFit(g, v, a),
           \A k \in 1 .. 7, I \in SUBSET (2 .. 9) : ~AnyAt(a, k, I),
           \A p \in Openers : (a[p][1] = 0 \/ a[p][1] = 8) /\ a[p][2] \in 0 .. 1
    PROVE  Reopens(v, g)
  <1>1. /\ ~AnyAt(a, 3, 2 .. 4) /\ ~AnyAt(a, 3, {4})
        /\ ~AnyAt(a, 7, 2 .. 4) /\ ~AnyAt(a, 7, {4})
        /\ ~AnyAt(a, 7, 7 .. 9) /\ ~AnyAt(a, 7, {9})
    OBVIOUS
  <1>2. \A n \in Copies : g[n] = Absent
    <2>1. /\ g["vector_chunks_v4"] = Absent
          /\ g["agent_action_audit_v8"] = Absent
          /\ g["agent_action_workflows_v8"] = Absent
      BY <1>1 DEF FormsFit, VectorsFit, AuditFits, WorkflowsFit
    <2> QED BY <2>1, TableNames
  <1>3. ASSUME NEW k \in 0 .. 2, v <= k PROVE \A n \in Made(k) : g[n] = Absent
    <2>1. \A p \in Openers : a[p][1] = k => a[p][2] < 2
      OBVIOUS
    <2> QED BY <1>3, <2>1 DEF FormsFit, FirstScripts, NotYet
  <1>4. ASSUME NEW k \in 0 .. 1, v > k PROVE \A n \in Made(k) : g[n] = k
    BY <1>4 DEF FormsFit, FirstScripts, Filled
  <1>5. v > 0 => g["sources"] # Absent
    <2>1. "sources" \in Made(0) /\ 0 # Absent
      BY WhatIsMade DEF FirstTables, Absent, Newest
    <2> QED BY <1>4, <2>1
  <1>6. ~ (v > 0) => \A n \in FirstTables : g[n] = Absent
    BY <1>3, WhatIsMade
  <1>7. v <= 1 => \A n \in Lexical : g[n] = Absent
    BY <1>3, WhatIsMade
  <1>8. v <= 2 => \A n \in Vectors : g[n] = Absent
    BY <1>3, WhatIsMade
  <1>9. v > 2 => g["vector_chunks"] # Absent
    BY <1>1 DEF FormsFit, VectorsFit
  <1>10. v > 5 => g["agent_action_audit"] # Absent
    BY <1>1 DEF FormsFit, AuditFits
  <1>11. v > 6 => g["agent_action_workflows"] # Absent
    BY <1>1 DEF FormsFit, WorkflowsFit
  <1> QED BY <1>2, <1>5, <1>6, <1>7, <1>8, <1>9, <1>10, <1>11 DEF Reopens

\* A process that has got through stands for all the scripts.
LEMMA RestIsNewest ==
    ASSUME NEW g \in Forms, NEW v \in 0 .. 8, NEW a, FormsFit(g, v, a),
           \A k \in 1 .. 7, I \in SUBSET (2 .. 9) : ~AnyAt(a, k, I),
           \A p \in Openers : (a[p][1] = 0 \/ a[p][1] = 8) /\ a[p][2] \in 0 .. 1,
           NEW q \in Openers, a[q][1] = 8
    PROVE  SchemaWith(g) = Current
  <1>1. /\ ~AnyAt(a, 3, 2 .. 4) /\ ~AnyAt(a, 3, {4}) /\ ~AnyAt(a, 3, {4, 5})
        /\ ~AnyAt(a, 7, 2 .. 4) /\ ~AnyAt(a, 7, {4}) /\ ~AnyAt(a, 7, {5})
        /\ ~AnyAt(a, 7, 7 .. 9) /\ ~AnyAt(a, 7, {9})
    OBVIOUS
  <1>2. v > 3
    BY DEF FormsFit, FirstScripts, NoneAhead
  <1>3. \A k \in 1 .. 7, i \in Nat : ~NotPast(a, k, i)
    BY DEF NotPast
  <1>4. /\ ~NotPast(a, 4, 2) /\ ~NotPast(a, 5, 1) /\ ~NotPast(a, 7, 4)
        /\ ~NotPast(a, 6, 1) /\ ~NotPast(a, 7, 9)
    BY <1>3
  <1>5. /\ g["vector_chunks"] = 3 /\ g["vector_chunks_source_idx"] = 3
        /\ g["vector_chunks_v4"] = Absent
    BY <1>1, <1>2 DEF FormsFit, VectorsFit, Absent, Newest
  <1>6. g["paused"] = 4
    BY <1>4 DEF FormsFit, PausedFits
  <1>7. /\ g["agent_action_audit"] = 7 /\ g["agent_action_audit_v8"] = Absent
        /\ g["agent_action_audit_operation_idx"] = 7
    BY <1>1, <1>4 DEF FormsFit, AuditFits
  <1>8. g["agent_action_workflows"] = 7 /\ g["agent_action_workflows_v8"] = Absent
    BY <1>1, <1>4 DEF FormsFit, WorkflowsFit
  <1>9. /\ \A n \in FirstTables : g[n] = 0
        /\ \A n \in Lexical : g[n] = 1
    <2>1. \A k \in 0 .. 1 : \A n \in Made(k) : g[n] = k
      BY <1>2 DEF FormsFit, FirstScripts, Filled
    <2> QED BY <2>1, WhatIsMade
  <1> DEFINE f == FormAt(8)
  <1>10. /\ f \in Forms
         /\ \A n \in FirstTables : f[n] = 0
         /\ \A n \in Lexical : f[n] = 1
         /\ \A n \in Vectors : f[n] = 3
         /\ f["paused"] = 4
         /\ f["agent_action_audit"] = 7
         /\ f["agent_action_workflows"] = 7
         /\ f["agent_action_audit_operation_idx"] = 7
         /\ \A n \in Copies : f[n] = Absent
    BY FormsAre
  <1>11. SchemaOf(8) = SchemaWith(f)
    BY SchemasInForm
  <1> HIDE DEF f
  <1>12. ASSUME NEW n \in Names PROVE g[n] = f[n]
    <2>1. n \in FirstTables \/ n \in Lexical
          \/ n \in {"vector_chunks", "vector_chunks_source_idx", "paused",
                    "agent_action_audit", "agent_action_workflows",
                    "agent_action_audit_operation_idx", "vector_chunks_v4",
                    "agent_action_audit_v8", "agent_action_workflows_v8"}
      BY TableNames DEF Names
    <2>2. CASE n \in FirstTables \/ n \in Lexical
      BY <1>9, <1>10, <2>2
    <2>3. CASE n \in {"vector_chunks", "vector_chunks_source_idx"}
      BY <1>5, <1>10, <2>3 DEF Vectors
    <2>4. CASE n \in {"vector_chunks_v4", "agent_action_audit_v8",
                      "agent_action_workflows_v8"}
      BY <1>5, <1>7, <1>8, <1>10, <2>4, TableNames
    <2>5. CASE n \in {"paused", "agent_action_audit", "agent_action_workflows",
                      "agent_action_audit_operation_idx"}
      BY <1>6, <1>7, <1>8, <1>10, <2>5
    <2> QED BY <2>1, <2>2, <2>3, <2>4, <2>5
  <1>13. g = f
    BY <1>10, <1>12, SameForms
  <1> QED BY <1>11, <1>13 DEF Current, Newest

\* Whatever competed for a database or died with it, unless a script that cannot
\* be resumed was left halfway: when no process migrates, the scripts that are
\* left lead one that opens it to the newest version.
THEOREM DatabasesReopen == SchemaSpec => []ReopensAtRest
  <1>1. Inv /\ FormsInv => ReopensAtRest
    <2> SUFFICES ASSUME Inv, FormsInv, AtRest, ~halfway
                 PROVE  RunAlone(schema, version, Newest) # {}
      BY DEF ReopensAtRest
    <2>1. PICK g \in Forms :
            /\ schema = SchemaWith(g)
            /\ FormsFit(g, version, at)
            /\ \A k \in 1 .. 7, I \in SUBSET (2 .. 9) : ~AnyAt(at, k, I)
            /\ \A p \in Openers : (at[p][1] = 0 \/ at[p][1] = 8) /\ at[p][2] \in 0 .. 1
      BY FormsAtRest
    <2>2. version \in 0 .. 8
      BY DEF Inv, SchemaTypeOK, Newest
    <2>3. Reopens(version, g)
      BY <2>1, <2>2, RestReopens
    <2>4. RunAlone(SchemaWith(g), version, Newest) # {}
      BY <2>2, <2>3, RunLeadsOn
    <2> QED BY <2>1, <2>4
  <1> QED BY <1>1, InvHolds, FormsHold, PTL

\* A process that has opened the database finds every table, index and column
\* of the newest application and nothing else, however it got there and whatever
\* others did after it, once no process migrates.
THEOREM OpenedIsCurrent == SchemaSpec => []OpenFindsItsTables
  <1>1. Inv /\ FormsInv => OpenFindsItsTables
    <2> SUFFICES ASSUME Inv, FormsInv, AtRest, ~halfway,
                        NEW q \in Openers, at[q] = Opened
                 PROVE  schema = Current
      BY DEF OpenFindsItsTables
    <2>1. PICK g \in Forms :
            /\ schema = SchemaWith(g)
            /\ FormsFit(g, version, at)
            /\ \A k \in 1 .. 7, I \in SUBSET (2 .. 9) : ~AnyAt(at, k, I)
            /\ \A p \in Openers : (at[p][1] = 0 \/ at[p][1] = 8) /\ at[p][2] \in 0 .. 1
      BY FormsAtRest
    <2>2. version \in 0 .. 8 /\ at[q][1] = 8
      BY DEF Inv, SchemaTypeOK, Newest, Opened
    <2>3. SchemaWith(g) = Current
      BY <2>1, <2>2, RestIsNewest
    <2> QED BY <2>1, <2>3
  <1> QED BY <1>1, InvHolds, FormsHold, PTL
=============================================================================
