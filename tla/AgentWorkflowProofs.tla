------------------------ MODULE AgentWorkflowProofs ------------------------
(***************************************************************************)
(* AgentWorkflow: WorkflowInvariant is inductive, its promises follow, and *)
(* every step is one of ActionLedger or none.                              *)
(***************************************************************************)
EXTENDS AgentWorkflow, TLAPS

USE DEF rowVars, procVars

LEMMA InitInvariant == Init => WorkflowInvariant
<1> SUFFICES ASSUME Init
             PROVE  WorkflowInvariant
  OBVIOUS
<1>1. TypeOK
  BY DEF Init, TypeOK, States, Calls, Stages, Job, NoJob
<1>2. /\ \A w \in Workflows : WinsFitState(w)
      /\ \A p \in Procs : JobFitsItsStage(p)
      /\ UndrawnAreNew /\ RowsNameOperations
  BY DEF Init, WinsFitState, JobFitsItsStage, UndrawnAreNew, RowsNameOperations
<1>3. /\ OneWorkflowPerOperation /\ CallsWinOnce
      /\ DestructiveRunsOnlyConfirmed /\ NothingOutlivesItsSource
  BY DEF Init, OneWorkflowPerOperation, CallsWinOnce, DestructiveRunsOnlyConfirmed,
         NothingOutlivesItsSource
<1> QED
  BY <1>1, <1>2, <1>3 DEF WorkflowInvariant

\* A call that won is counted once more, nothing else is.
LEMMA WonTyped ==
  ASSUME TypeOK, NEW w \in Workflows, NEW call \in Calls, Won(call, w)
  PROVE  /\ wins' \in [Workflows -> [Calls -> Nat]]
         /\ wins'[w][call] = wins[w][call] + 1
         /\ \A v \in Workflows, c \in Calls :
              v # w \/ c # call => wins'[v][c] = wins[v][c]
  BY DEF Won, TypeOK

LEMMA TypeStep ==
  ASSUME WorkflowInvariant, [Next]_vars
  PROVE  TypeOK'
<1>0. TypeOK /\ \A p \in Procs : JobFitsItsStage(p)
  BY DEF WorkflowInvariant
<1> USE <1>0 DEF TypeOK, JobFitsItsStage, States, Stages, NoJob, GoTo, Return
<1>1. CASE UNCHANGED vars
  BY <1>1 DEF vars
<1>2. ASSUME NEW p \in Procs, Open(p)
      PROVE  TypeOK'
  BY <1>2 DEF Open, Interrupted
<1>3. ASSUME NEW p \in Procs, Call(p)
      PROVE  TypeOK'
  <2>1. ASSUME NEW op \in Operations, PrepareLookup(p, op)
        PROVE  TypeOK'
    <3> PICK w \in Workflows \ drawn :
               /\ drawn' = drawn \cup {w}
               /\ job' = [job EXCEPT ![p] =
                    [op |-> op, workflow |-> w,
                     expiry |-> IF op \in Destructive THEN now + Ttl ELSE None]]
      BY <2>1 DEF PrepareLookup
    <3>1. now + Ttl \in Nat
      BY ClockAssumption
    <3> QED
      BY <2>1, <3>1 DEF PrepareLookup, Job
  <2>2. ASSUME NEW w \in Workflows, ConfirmCheck(p, w)
        PROVE  TypeOK'
    BY <2>2 DEF ConfirmCheck, WorkOn, Job
  <2>3. ASSUME NEW w \in Workflows, StartSimulation(p, w)
        PROVE  TypeOK'
    <3>1. wins' \in [Workflows -> [Calls -> Nat]]
      BY <2>3, WonTyped DEF StartSimulation, Calls
    <3> QED
      BY <2>3, <3>1 DEF StartSimulation
  <2>4. ASSUME NEW w \in Workflows, Compensate(p, w)
        PROVE  TypeOK'
    <3>1. wins' \in [Workflows -> [Calls -> Nat]]
      BY <2>4, WonTyped DEF Compensate, Calls
    <3> QED
      BY <2>4, <3>1 DEF Compensate
  <2>5. ASSUME NEW w \in Workflows, NEW outcome \in {"succeeded", "failed"},
               FinishSimulation(p, w, outcome)
        PROVE  TypeOK'
    <3>1. wins' \in [Workflows -> [Calls -> Nat]]
      BY <2>5, WonTyped DEF FinishSimulation, Calls
    <3> QED
      BY <2>5, <3>1 DEF FinishSimulation
  <2> QED
    BY <1>3, <2>1, <2>2, <2>3, <2>4, <2>5 DEF Call
<1>4. ASSUME NEW p \in Procs, Continue(p)
      PROVE  TypeOK'
  <2>1. CASE PrepareInsert(p)
    <3>1. CASE Insertable(job[p].op)
      <4>1. job[p] \in Job /\ job[p].op \in Operations
        BY <2>1 DEF PrepareInsert
      <4>2. job[p].expiry \in Nat \cup {None}
        BY <4>1 DEF Job
      <4>3. state' \in [Workflows -> States] /\ pc' \in [Procs -> Stages]
        BY <2>1, <3>1 DEF PrepareInsert
      <4>4. opOf' \in [Workflows -> Operations \cup {None}]
        BY <2>1, <3>1, <4>1 DEF PrepareInsert
      <4>5. expiry' \in [Workflows -> Nat \cup {None}]
        BY <2>1, <3>1, <4>2 DEF PrepareInsert
      <4> QED
        BY <2>1, <3>1, <4>3, <4>4, <4>5 DEF PrepareInsert
    <3>2. CASE ~Insertable(job[p].op)
      <4>1. Return(p) /\ UNCHANGED <<state, opOf, expiry>>
        BY <2>1, <3>2 DEF PrepareInsert
      <4> QED
        BY <2>1, <4>1 DEF PrepareInsert, Job
    <3> QED
      BY <3>1, <3>2
  <2>2. CASE PrepareReturn(p)
    BY <2>2 DEF PrepareReturn, Job
  <2>3. CASE ConfirmWrite(p)
    <3>1. job[p].workflow \in Workflows
      BY <2>3 DEF ConfirmWrite
    <3>2. wins' \in [Workflows -> [Calls -> Nat]]
      BY <2>3, <3>1, WonTyped DEF ConfirmWrite, Calls
    <3> QED
      BY <2>3, <3>2 DEF ConfirmWrite, Job
  <2> QED
    BY <1>4, <2>1, <2>2, <2>3 DEF Continue
<1>5. ASSUME NEW p \in Procs, Stop(p)
      PROVE  TypeOK'
  BY <1>5 DEF Stop, Job
<1>6. ASSUME NEW s \in Sources, RevokeSource(s)
      PROVE  TypeOK'
  BY <1>6 DEF RevokeSource
<1>7. CASE Tick
  BY <1>7 DEF Tick
<1> QED
  BY <1>1, <1>2, <1>3, <1>4, <1>5, <1>6, <1>7 DEF Next

----------------------------------------------------------------------------
(* The rows: everything WorkflowInvariant says but for the jobs            *)

Rows ==
    /\ \A w \in Workflows : WinsFitState(w)
    /\ UndrawnAreNew
    /\ RowsNameOperations
    /\ OneWorkflowPerOperation
    /\ CallsWinOnce
    /\ DestructiveRunsOnlyConfirmed
    /\ NothingOutlivesItsSource

\* Drawing a uuid and returning a ticket leave the rows as they should be.
LEMMA RowsUntouched ==
  ASSUME TypeOK, Rows, UNCHANGED <<live, state, opOf, wins>>,
         drawn \subseteq drawn', tickets \subseteq tickets'
  PROVE  Rows'
<1>1. /\ \A w \in Workflows : WinsFitState(w)'
      /\ UndrawnAreNew' /\ RowsNameOperations'
  BY DEF Rows, WinsFitState, UndrawnAreNew, RowsNameOperations
<1>2. OneWorkflowPerOperation' /\ CallsWinOnce'
  BY DEF Rows, OneWorkflowPerOperation, CallsWinOnce
<1>3. DestructiveRunsOnlyConfirmed' /\ NothingOutlivesItsSource'
  BY DEF Rows, DestructiveRunsOnlyConfirmed, NothingOutlivesItsSource
<1> QED
  BY <1>1, <1>2, <1>3 DEF Rows

\* A row moves from one state to another and a call is told that it won.
LEMMA RowMoves ==
  ASSUME TypeOK, Rows,
         NEW w \in Workflows, NEW to \in States \ {"absent", "awaiting_confirmation"},
         NEW call \in Calls,
         state[w] # "absent",
         \/ call = "confirm" /\ state[w] = "awaiting_confirmation"
              /\ to = "ready" /\ w \in tickets
         \/ call = "start" /\ state[w] = "ready" /\ to = "simulating"
         \/ call = "finish" /\ state[w] = "simulating" /\ to \in {"succeeded", "failed"}
         \/ call = "compensate" /\ state[w] = "failed" /\ to = "compensated",
         state' = [state EXCEPT ![w] = to],
         Won(call, w),
         UNCHANGED <<live, opOf, drawn, tickets>>
  PROVE  Rows'
<1>1. /\ state'[w] = to
      /\ \A v \in Workflows \ {w} : state'[v] = state[v]
      /\ \A v \in Workflows : state[v] # "absent" <=> state'[v] # "absent"
      /\ state[w] # "absent"
  BY DEF TypeOK
<1>2. /\ wins'[w][call] = wins[w][call] + 1
      /\ \A v \in Workflows, c \in Calls :
           v # w \/ c # call => wins'[v][c] = wins[v][c]
      /\ \A v \in Workflows, c \in Calls : wins[v][c] \in Nat
  BY WonTyped DEF TypeOK
<1>3. wins[w][call] = 0
  BY DEF Rows, WinsFitState
<1>4. w \in drawn
  BY <1>1 DEF Rows, UndrawnAreNew
<1>5. ASSUME NEW v \in Workflows
      PROVE  WinsFitState(v)'
  <2>1. WinsFitState(v)
    BY DEF Rows
  <2>2. CASE v = w
    BY <2>1, <2>2, <1>1, <1>2 DEF WinsFitState, Calls
  <2>3. CASE v # w
    BY <2>1, <2>3, <1>1, <1>2 DEF WinsFitState, Calls
  <2> QED
    BY <2>2, <2>3
<1>6. UndrawnAreNew' /\ RowsNameOperations' /\ NothingOutlivesItsSource'
  BY <1>1, <1>2, <1>4 DEF Rows, UndrawnAreNew, RowsNameOperations, NothingOutlivesItsSource
<1>7. OneWorkflowPerOperation'
  BY <1>1 DEF Rows, OneWorkflowPerOperation
<1>8. CallsWinOnce'
  BY <1>2, <1>3 DEF Rows, CallsWinOnce
<1>9. DestructiveRunsOnlyConfirmed'
  <2> SUFFICES ASSUME NEW v \in Workflows,
                      state'[v] \notin {"absent", "awaiting_confirmation"},
                      opOf[v] \in Destructive
               PROVE  wins'[v]["confirm"] = 1 /\ v \in tickets
    BY DEF DestructiveRunsOnlyConfirmed
  <2>1. CASE v = w /\ call = "confirm"
    BY <2>1, <1>2, <1>3
  <2>2. CASE v = w /\ call # "confirm"
    BY <2>2, <1>1, <1>2 DEF Rows, DestructiveRunsOnlyConfirmed, Calls
  <2>3. CASE v # w
    BY <2>3, <1>1, <1>2 DEF Rows, DestructiveRunsOnlyConfirmed, Calls
  <2> QED
    BY <2>1, <2>2, <2>3
<1> QED
  BY <1>5, <1>6, <1>7, <1>8, <1>9 DEF Rows

\* An inserted row is a first one of its operation, of a source not revoked.
LEMMA RowInserted ==
  ASSUME TypeOK, Rows,
         NEW w \in drawn, NEW op \in Operations,
         state[w] = "absent", \A c \in Calls : wins[w][c] = 0,
         SourceOf[op] \in live, IsNew(op),
         state' = [state EXCEPT ![w] =
             IF op \in Destructive THEN "awaiting_confirmation" ELSE "ready"],
         opOf' = [opOf EXCEPT ![w] = op],
         UNCHANGED <<live, drawn, tickets, wins>>
  PROVE  Rows'
<1>1. w \in Workflows
  BY DEF TypeOK
<1>2. /\ opOf'[w] = op
      /\ state'[w] = IF op \in Destructive THEN "awaiting_confirmation" ELSE "ready"
      /\ \A v \in Workflows \ {w} : state'[v] = state[v] /\ opOf'[v] = opOf[v]
  BY <1>1 DEF TypeOK
<1>3. \A v \in Workflows : WinsFitState(v)'
  BY <1>2 DEF Rows, WinsFitState, Calls
<1>4. UndrawnAreNew'
  BY <1>2 DEF Rows, UndrawnAreNew
<1>5. RowsNameOperations' /\ NothingOutlivesItsSource'
  BY <1>2 DEF Rows, RowsNameOperations, NothingOutlivesItsSource
<1>6. OneWorkflowPerOperation'
  BY <1>2 DEF Rows, OneWorkflowPerOperation, IsNew
<1>7. CallsWinOnce'
  BY DEF Rows, CallsWinOnce
<1>8. DestructiveRunsOnlyConfirmed'
  BY <1>2 DEF Rows, DestructiveRunsOnlyConfirmed
<1> QED
  BY <1>3, <1>4, <1>5, <1>6, <1>7, <1>8 DEF Rows

\* A restart fails what was simulating.
LEMMA RowsInterrupted ==
  ASSUME TypeOK, Rows, state' = Interrupted,
         UNCHANGED <<live, opOf, drawn, tickets, wins>>
  PROVE  Rows'
<1>1. \A w \in Workflows :
        state'[w] = IF state[w] = "simulating" THEN "failed" ELSE state[w]
  BY DEF Interrupted
<1>2. \A w \in Workflows : WinsFitState(w)'
  BY <1>1 DEF Rows, WinsFitState
<1>3. UndrawnAreNew' /\ RowsNameOperations' /\ NothingOutlivesItsSource'
  BY <1>1 DEF Rows, UndrawnAreNew, RowsNameOperations, NothingOutlivesItsSource
<1>4. OneWorkflowPerOperation' /\ CallsWinOnce' /\ DestructiveRunsOnlyConfirmed'
  BY <1>1 DEF Rows, OneWorkflowPerOperation, CallsWinOnce, DestructiveRunsOnlyConfirmed
<1> QED
  BY <1>2, <1>3, <1>4 DEF Rows

\* The rows of a revoked source are gone, the others stay.
LEMMA RowsRevoked ==
  ASSUME TypeOK, Rows, NEW s \in Sources, RevokeSource(s)
  PROVE  Rows'
<1> DEFINE gone == {w \in Workflows : opOf[w] # None /\ SourceOf[opOf[w]] = s}
<1>1. \A w \in Workflows :
        /\ w \in gone => state'[w] = "absent"
        /\ w \notin gone => state'[w] = state[w] /\ opOf'[w] = opOf[w]
  BY DEF RevokeSource
<1>2. live' = live \ {s} /\ UNCHANGED <<drawn, tickets, wins>>
  BY DEF RevokeSource
<1>3. \A w \in Workflows : WinsFitState(w)'
  BY <1>1, <1>2 DEF Rows, WinsFitState
<1>4. UndrawnAreNew' /\ RowsNameOperations'
  BY <1>1, <1>2 DEF Rows, UndrawnAreNew, RowsNameOperations
<1>5. OneWorkflowPerOperation' /\ CallsWinOnce'
  BY <1>1, <1>2 DEF Rows, OneWorkflowPerOperation, CallsWinOnce
<1>6. DestructiveRunsOnlyConfirmed'
  BY <1>1, <1>2 DEF Rows, DestructiveRunsOnlyConfirmed
<1>7. NothingOutlivesItsSource'
  BY <1>1, <1>2, NoneAssumption DEF Rows, NothingOutlivesItsSource, RowsNameOperations
<1> QED
  BY <1>3, <1>4, <1>5, <1>6, <1>7 DEF Rows

----------------------------------------------------------------------------
(* The jobs                                                                *)

Jobs == \A p \in Procs : JobFitsItsStage(p)

\* What one process does leaves the jobs of the others as they should be,
\* as long as it touches no row that is still to be inserted.
LEMMA OtherJobs ==
  ASSUME TypeOK, Jobs, NEW p \in Procs,
         \A q \in Procs \ {p} : pc'[q] = pc[q] /\ job'[q] = job[q],
         pc'[p] = "inserting" => \/ job'[p].workflow \notin drawn
                                 \/ pc[p] = "inserting" /\ job'[p] = job[p],
         drawn \subseteq drawn', tickets \subseteq tickets',
         \A w \in Workflows :
             state[w] = "absent" /\ (pc[p] = "inserting" => w # job[p].workflow)
               => state'[w] = "absent" /\ wins'[w] = wins[w]
  PROVE  \A q \in Procs \ {p} : JobFitsItsStage(q)'
<1> SUFFICES ASSUME NEW q \in Procs \ {p}
             PROVE  JobFitsItsStage(q)'
  OBVIOUS
<1>1. JobFitsItsStage(q) /\ JobFitsItsStage(p)
  BY DEF Jobs
<1>2. pc'[q] = pc[q] /\ job'[q] = job[q]
  OBVIOUS
<1>3. CASE pc[q] = "inserting"
  <2>1. /\ job[q].op \in Operations /\ job[q].workflow \in drawn
        /\ job[q].workflow \in Workflows
        /\ state[job[q].workflow] = "absent"
        /\ \A c \in Calls : wins[job[q].workflow][c] = 0
        /\ \A r \in Procs \ {q} :
             pc[r] = "inserting" => job[r].workflow # job[q].workflow
    BY <1>1, <1>3 DEF JobFitsItsStage, TypeOK
  <2>2. state'[job[q].workflow] = "absent" /\ wins'[job[q].workflow] = wins[job[q].workflow]
    BY <2>1
  <2>3. ASSUME NEW r \in Procs \ {q}, pc'[r] = "inserting"
        PROVE  job'[r].workflow # job[q].workflow
    BY <2>1, <2>3
  <2> QED
    BY <1>2, <1>3, <2>1, <2>2, <2>3 DEF JobFitsItsStage
<1>4. CASE pc[q] # "inserting"
  BY <1>1, <1>2, <1>4 DEF JobFitsItsStage
<1> QED
  BY <1>3, <1>4

LEMMA JobsStep ==
  ASSUME TypeOK, Jobs, UndrawnAreNew, [Next]_vars
  PROVE  Jobs'
<1> USE DEF TypeOK
<1>1. CASE UNCHANGED vars
  BY <1>1 DEF vars, Jobs, JobFitsItsStage
<1>2. ASSUME NEW p \in Procs, Open(p)
      PROVE  Jobs'
  <2>1. \A q \in Procs \ {p} : JobFitsItsStage(q)'
    BY <1>2, OtherJobs DEF Open, Interrupted, GoTo
  <2>2. JobFitsItsStage(p)'
    BY <1>2 DEF Open, GoTo, JobFitsItsStage
  <2> QED
    BY <2>1, <2>2 DEF Jobs
<1>3. ASSUME NEW p \in Procs, NEW op \in Operations, PrepareLookup(p, op)
      PROVE  Jobs'
  <2> PICK w \in Workflows \ drawn :
             /\ drawn' = drawn \cup {w}
             /\ job' = [job EXCEPT ![p] =
                  [op |-> op, workflow |-> w,
                   expiry |-> IF op \in Destructive THEN now + Ttl ELSE None]]
    BY <1>3 DEF PrepareLookup
  <2>1. /\ job'[p].op = op /\ job'[p].workflow = w
        /\ pc'[p] = "inserting"
        /\ \A q \in Procs \ {p} : pc'[q] = pc[q] /\ job'[q] = job[q]
    BY <1>3 DEF PrepareLookup, GoTo
  <2>2. \A q \in Procs \ {p} : JobFitsItsStage(q)'
    BY <1>3, <2>1, OtherJobs DEF PrepareLookup
  <2>3. state'[w] = "absent" /\ \A c \in Calls : wins'[w][c] = 0
    BY <1>3 DEF PrepareLookup, UndrawnAreNew
  <2>4. ASSUME NEW q \in Procs \ {p}, pc'[q] = "inserting"
        PROVE  job'[q].workflow # w
    BY <2>1, <2>4 DEF Jobs, JobFitsItsStage
  <2>5. JobFitsItsStage(p)'
    BY <2>1, <2>3, <2>4 DEF JobFitsItsStage
  <2> QED
    BY <2>2, <2>5 DEF Jobs
<1>4. ASSUME NEW p \in Procs, NEW w \in Workflows,
             NEW outcome \in {"succeeded", "failed"},
             \/ ConfirmCheck(p, w) \/ StartSimulation(p, w)
             \/ FinishSimulation(p, w, outcome) \/ Compensate(p, w)
      PROVE  Jobs'
  <2>1. /\ pc'[p] # "inserting"
        /\ \A q \in Procs \ {p} : pc'[q] = pc[q] /\ job'[q] = job[q]
        /\ UNCHANGED <<drawn, tickets>>
    BY <1>4 DEF ConfirmCheck, StartSimulation, FinishSimulation, Compensate, GoTo, WorkOn
  <2>2. ASSUME NEW v \in Workflows, state[v] = "absent"
        PROVE  state'[v] = "absent" /\ wins'[v] = wins[v]
    BY <1>4, <2>2 DEF ConfirmCheck, StartSimulation, FinishSimulation, Compensate,
                      MayStart, MayFinish, MayCompensate, Won
  <2>3. \A q \in Procs \ {p} : JobFitsItsStage(q)'
    BY <2>1, <2>2, OtherJobs
  <2>4. JobFitsItsStage(p)'
    BY <1>4 DEF ConfirmCheck, StartSimulation, FinishSimulation, Compensate, GoTo,
                WorkOn, JobFitsItsStage
  <2> QED
    BY <2>3, <2>4 DEF Jobs
<1>5. ASSUME NEW p \in Procs, PrepareInsert(p)
      PROVE  Jobs'
  <2>1. /\ pc'[p] # "inserting"
        /\ \A q \in Procs \ {p} : pc'[q] = pc[q] /\ job'[q] = job[q]
        /\ UNCHANGED <<drawn, tickets, wins>>
        /\ pc[p] = "inserting"
    BY <1>5 DEF PrepareInsert, GoTo, Return
  <2>2. \A v \in Workflows \ {job[p].workflow} : state'[v] = state[v]
    BY <1>5 DEF PrepareInsert
  <2>3. \A q \in Procs \ {p} : JobFitsItsStage(q)'
    BY <2>1, <2>2, OtherJobs
  <2>4. job[p].workflow \in Workflows
    BY <2>1 DEF Jobs, JobFitsItsStage
  <2>5. \/ pc'[p] = "returning" /\ job'[p] = job[p]
        \/ pc'[p] = "open"
    BY <1>5 DEF PrepareInsert, GoTo, Return
  <2>6. JobFitsItsStage(p)'
    BY <2>4, <2>5 DEF JobFitsItsStage
  <2> QED
    BY <2>3, <2>6 DEF Jobs
<1>6. ASSUME NEW p \in Procs, PrepareReturn(p) \/ ConfirmWrite(p)
      PROVE  Jobs'
  <2>1. /\ pc'[p] = "open" /\ pc[p] # "inserting"
        /\ \A q \in Procs \ {p} : pc'[q] = pc[q] /\ job'[q] = job[q]
        /\ drawn' = drawn /\ tickets \subseteq tickets'
    BY <1>6 DEF PrepareReturn, ConfirmWrite, GoTo, Return
  <2>2. ASSUME NEW v \in Workflows, state[v] = "absent"
        PROVE  state'[v] = "absent" /\ wins'[v] = wins[v]
    BY <1>6, <2>2 DEF PrepareReturn, ConfirmWrite, MayConfirm, Won
  <2>3. \A q \in Procs \ {p} : JobFitsItsStage(q)'
    BY <2>1, <2>2, OtherJobs
  <2>4. JobFitsItsStage(p)'
    BY <2>1 DEF JobFitsItsStage
  <2> QED
    BY <2>3, <2>4 DEF Jobs
<1>7. ASSUME NEW p \in Procs, Stop(p)
      PROVE  Jobs'
  <2>1. /\ pc'[p] = "idle"
        /\ \A q \in Procs \ {p} : pc'[q] = pc[q] /\ job'[q] = job[q]
        /\ UNCHANGED <<state, drawn, tickets, wins>>
    BY <1>7 DEF Stop, GoTo
  <2>2. \A q \in Procs \ {p} : JobFitsItsStage(q)'
    BY <2>1, OtherJobs
  <2>3. JobFitsItsStage(p)'
    BY <2>1 DEF JobFitsItsStage
  <2> QED
    BY <2>2, <2>3 DEF Jobs
<1>8. ASSUME NEW s \in Sources, RevokeSource(s)
      PROVE  Jobs'
  <2>1. /\ UNCHANGED <<pc, job, drawn, tickets, wins>>
        /\ \A w \in Workflows : state[w] = "absent" => state'[w] = "absent"
    BY <1>8 DEF RevokeSource
  <2>2. ASSUME NEW p \in Procs, pc[p] = "inserting"
        PROVE  state'[job[p].workflow] = "absent"
    BY <2>1, <2>2 DEF Jobs, JobFitsItsStage
  <2>3. ASSUME NEW p \in Procs
        PROVE  JobFitsItsStage(p)'
    BY <2>1, <2>2 DEF Jobs, JobFitsItsStage
  <2> QED
    BY <2>3 DEF Jobs
<1>9. CASE Tick
  BY <1>9 DEF Tick, Jobs, JobFitsItsStage
<1> QED
  BY <1>1, <1>2, <1>3, <1>4, <1>5, <1>6, <1>7, <1>8, <1>9 DEF Next, Call, Continue

----------------------------------------------------------------------------
(* The invariant                                                           *)

LEMMA InvariantParts == WorkflowInvariant <=> TypeOK /\ Rows /\ Jobs
  BY DEF WorkflowInvariant, Rows, Jobs

LEMMA RowsStep ==
  ASSUME TypeOK, Rows, Jobs, [Next]_vars
  PROVE  Rows'
<1>1. CASE UNCHANGED vars
  BY <1>1, RowsUntouched DEF vars
<1>2. ASSUME NEW p \in Procs, Open(p)
      PROVE  Rows'
  BY <1>2, RowsInterrupted DEF Open
<1>3. ASSUME NEW p \in Procs, NEW op \in Operations, PrepareLookup(p, op)
      PROVE  Rows'
  BY <1>3, RowsUntouched DEF PrepareLookup
<1>4. ASSUME NEW p \in Procs, NEW w \in Workflows, ConfirmCheck(p, w)
      PROVE  Rows'
  BY <1>4, RowsUntouched DEF ConfirmCheck
<1>5. ASSUME NEW p \in Procs, NEW w \in Workflows, StartSimulation(p, w)
      PROVE  Rows'
  <2>1. "start" \in Calls /\ "simulating" \in States \ {"absent", "awaiting_confirmation"}
    BY DEF Calls, States
  <2> QED
    BY <1>5, <2>1, RowMoves DEF StartSimulation, MayStart
<1>6. ASSUME NEW p \in Procs, NEW w \in Workflows, Compensate(p, w)
      PROVE  Rows'
  <2>1. "compensate" \in Calls /\ "compensated" \in States \ {"absent", "awaiting_confirmation"}
    BY DEF Calls, States
  <2> QED
    BY <1>6, <2>1, RowMoves DEF Compensate, MayCompensate
<1>7. ASSUME NEW p \in Procs, PrepareInsert(p)
      PROVE  Rows'
  <2>1. CASE Insertable(job[p].op)
    <3>1. /\ job[p].op \in Operations /\ job[p].workflow \in drawn
          /\ state[job[p].workflow] = "absent"
          /\ \A c \in Calls : wins[job[p].workflow][c] = 0
      BY <1>7 DEF PrepareInsert, Jobs, JobFitsItsStage
    <3>2. SourceOf[job[p].op] \in live /\ IsNew(job[p].op)
      BY <2>1 DEF Insertable
    <3>3. /\ state' = [state EXCEPT ![job[p].workflow] =
                IF job[p].op \in Destructive THEN "awaiting_confirmation" ELSE "ready"]
          /\ opOf' = [opOf EXCEPT ![job[p].workflow] = job[p].op]
          /\ UNCHANGED <<live, drawn, tickets, wins>>
      BY <1>7, <2>1 DEF PrepareInsert
    <3> QED
      BY <3>1, <3>2, <3>3, RowInserted
  <2>2. CASE ~Insertable(job[p].op)
    BY <1>7, <2>2, RowsUntouched DEF PrepareInsert
  <2> QED
    BY <2>1, <2>2
<1>8. ASSUME NEW p \in Procs, PrepareReturn(p)
      PROVE  Rows'
  BY <1>8, RowsUntouched DEF PrepareReturn
<1>9. ASSUME NEW p \in Procs, ConfirmWrite(p)
      PROVE  Rows'
  <2>1. CASE MayConfirm(job[p].workflow)
    <3>1. job[p].workflow \in tickets /\ job[p].workflow \in Workflows
      BY <1>9 DEF ConfirmWrite, Jobs, JobFitsItsStage, TypeOK
    <3>2. "confirm" \in Calls /\ "ready" \in States \ {"absent", "awaiting_confirmation"}
      BY DEF Calls, States
    <3> QED
      BY <1>9, <2>1, <3>1, <3>2, RowMoves DEF ConfirmWrite, MayConfirm
  <2>2. CASE ~MayConfirm(job[p].workflow)
    BY <1>9, <2>2, RowsUntouched DEF ConfirmWrite
  <2> QED
    BY <2>1, <2>2
<1>10. ASSUME NEW p \in Procs, NEW w \in Workflows,
              NEW outcome \in {"succeeded", "failed"}, FinishSimulation(p, w, outcome)
       PROVE  Rows'
  <2>1. "finish" \in Calls /\ outcome \in States \ {"absent", "awaiting_confirmation"}
    BY DEF Calls, States
  <2> QED
    BY <1>10, <2>1, RowMoves DEF FinishSimulation, MayFinish
<1>11. ASSUME NEW p \in Procs, Stop(p)
       PROVE  Rows'
  BY <1>11, RowsUntouched DEF Stop
<1>12. ASSUME NEW s \in Sources, RevokeSource(s)
       PROVE  Rows'
  BY <1>12, RowsRevoked
<1>13. CASE Tick
  BY <1>13, RowsUntouched DEF Tick
<1> QED
  BY <1>1, <1>2, <1>3, <1>4, <1>5, <1>6, <1>7, <1>8, <1>9, <1>10, <1>11, <1>12, <1>13
  DEF Next, Call, Continue

THEOREM InvariantHolds == Spec => []WorkflowInvariant
<1>1. WorkflowInvariant /\ [Next]_vars => WorkflowInvariant'
  <2> SUFFICES ASSUME WorkflowInvariant, [Next]_vars
               PROVE  WorkflowInvariant'
    OBVIOUS
  <2>1. TypeOK /\ Rows /\ Jobs
    BY InvariantParts
  <2>2. TypeOK'
    BY TypeStep
  <2>3. Rows'
    BY <2>1, RowsStep
  <2>4. Jobs'
    BY <2>1, JobsStep DEF Rows
  <2> QED
    BY <2>2, <2>3, <2>4 DEF WorkflowInvariant, Rows, Jobs
<1> QED
  BY InitInvariant, <1>1, PTL DEF Spec

\* Every variable has its type (agent_action_workflows, workflow.py).
THEOREM TypeCorrect == Spec => []TypeOK
<1>1. WorkflowInvariant => TypeOK
  BY DEF WorkflowInvariant
<1> QED
  BY <1>1, InvariantHolds, PTL

\* Racing preparations of an operation leave it one workflow
\* (ActionWorkflow.prepare).
THEOREM OneWorkflowEach == Spec => []OneWorkflowPerOperation
<1>1. WorkflowInvariant => OneWorkflowPerOperation
  BY DEF WorkflowInvariant
<1> QED
  BY <1>1, InvariantHolds, PTL

\* One alone of the processes that race for a transition is told that it
\* won (ActionWorkflow._transition and confirm).
THEOREM TransitionsAreWonOnce == Spec => []CallsWinOnce
<1>1. WorkflowInvariant => CallsWinOnce
  BY DEF WorkflowInvariant
<1> QED
  BY <1>1, InvariantHolds, PTL

\* Nothing destructive is simulated without its ticket (confirm and
\* start_simulation).
THEOREM DestructionIsConfirmed == Spec => []DestructiveRunsOnlyConfirmed
<1>1. WorkflowInvariant => DestructiveRunsOnlyConfirmed
  BY DEF WorkflowInvariant
<1> QED
  BY <1>1, InvariantHolds, PTL

\* A preparation in flight does not bring back a revoked source (prepare and
\* the cascade of revoke_source).
THEOREM WorkflowsFollowTheirSource == Spec => []NothingOutlivesItsSource
<1>1. WorkflowInvariant => NothingOutlivesItsSource
  BY DEF WorkflowInvariant
<1> QED
  BY <1>1, InvariantHolds, PTL

----------------------------------------------------------------------------
(* The workflow implements ActionLedger                                    *)

Stage == [op \in Operations |-> StageOf(op)]

LEMMA StageOfRow ==
  ASSUME OneWorkflowPerOperation, NEW w \in Workflows, state[w] # "absent"
  PROVE  StageOf(opOf[w]) = state[w]
<1>1. RowsOf(opOf[w]) = {w}
  BY DEF RowsOf, OneWorkflowPerOperation
<1> QED
  BY <1>1 DEF StageOf

LEMMA StageOfNoRow ==
  ASSUME NEW op, IsNew(op)
  PROVE  StageOf(op) = "absent"
  BY DEF StageOf, RowsOf, IsNew

\* Rows that stay what they are leave the stage of their operation alone.
LEMMA StageKept ==
  ASSUME NEW op,
         \A w \in Workflows : (w \in RowsOf(op)) <=> (w \in RowsOf(op)'),
         \A w \in RowsOf(op) : state'[w] = state[w]
  PROVE  StageOf(op)' = StageOf(op)
<1>1. RowsOf(op)' = RowsOf(op)
  BY DEF RowsOf
<1>2. CASE RowsOf(op) = {}
  BY <1>1, <1>2 DEF StageOf
<1>3. CASE RowsOf(op) # {}
  <2>1. (CHOOSE w \in RowsOf(op) : TRUE) \in RowsOf(op)
    BY <1>3
  <2> QED
    BY <1>1, <1>3, <2>1 DEF StageOf
<1> QED
  BY <1>2, <1>3

LEMMA StageUntouched ==
  ASSUME UNCHANGED <<state, opOf>>
  PROVE  Stage' = Stage
  BY DEF Stage, StageOf, RowsOf

LEMMA StageMoves ==
  ASSUME WorkflowInvariant, WorkflowInvariant',
         NEW w \in Workflows, NEW to \in States \ {"absent"},
         state[w] # "absent",
         state' = [state EXCEPT ![w] = to], opOf' = opOf
  PROVE  /\ opOf[w] \in Operations
         /\ Stage[opOf[w]] = state[w]
         /\ Stage' = [Stage EXCEPT ![opOf[w]] = to]
<1> USE DEF WorkflowInvariant, TypeOK
<1>1. opOf[w] \in Operations /\ opOf'[w] = opOf[w]
  BY DEF RowsNameOperations
<1>2. state'[w] = to /\ \A v \in Workflows \ {w} : state'[v] = state[v]
  OBVIOUS
<1>3. StageOf(opOf[w]) = state[w]
  BY StageOfRow
<1>4. StageOf(opOf[w])' = to
  <2>1. RowsOf(opOf[w])' = {w}
    BY <1>1, <1>2 DEF RowsOf, OneWorkflowPerOperation
  <2> QED
    BY <1>2, <2>1 DEF StageOf
<1>5. ASSUME NEW op \in Operations, op # opOf[w]
      PROVE  StageOf(op)' = StageOf(op)
  <2>1. \A v \in Workflows : (v \in RowsOf(op)) <=> (v \in RowsOf(op)')
    BY <1>2, <1>5 DEF RowsOf
  <2>2. \A v \in RowsOf(op) : state'[v] = state[v]
    BY <1>2, <1>5 DEF RowsOf
  <2> QED
    BY <2>1, <2>2, StageKept
<1>6. Stage[opOf[w]] = state[w]
  BY <1>1, <1>3 DEF Stage
<1>7. \A op \in Operations : Stage'[op] = [Stage EXCEPT ![opOf[w]] = to][op]
  BY <1>1, <1>4, <1>5 DEF Stage
<1>8. Stage' = [Stage EXCEPT ![opOf[w]] = to]
  BY <1>7 DEF Stage
<1> QED
  BY <1>1, <1>6, <1>8

LEMMA InsertIsPrepare ==
  ASSUME WorkflowInvariant, WorkflowInvariant',
         NEW p \in Procs, PrepareInsert(p), Insertable(job[p].op)
  PROVE  Ledger!Next
<1> USE DEF WorkflowInvariant
<1>1. PICK w \in Workflows, op \in Operations : w = job[p].workflow /\ op = job[p].op
  BY DEF PrepareInsert, JobFitsItsStage, TypeOK
<1> DEFINE first == IF op \in Destructive THEN "awaiting_confirmation" ELSE "ready"
<1>2. /\ state[w] = "absent" /\ IsNew(op)
      /\ state' = [state EXCEPT ![w] = first]
      /\ opOf' = [opOf EXCEPT ![w] = op]
  BY <1>1 DEF PrepareInsert, JobFitsItsStage, Insertable
<1>3. /\ state'[w] = first /\ opOf'[w] = op
      /\ \A v \in Workflows \ {w} : state'[v] = state[v] /\ opOf'[v] = opOf[v]
  BY <1>2 DEF TypeOK
<1>4. Stage[op] = "absent"
  BY <1>2, StageOfNoRow DEF Stage
<1>5. StageOf(op)' = first
  <2>1. RowsOf(op)' = {w}
    BY <1>1, <1>3 DEF RowsOf, OneWorkflowPerOperation
  <2> QED
    BY <1>3, <2>1 DEF StageOf
<1>6. ASSUME NEW o \in Operations, o # op
      PROVE  StageOf(o)' = StageOf(o)
  <2>1. \A v \in Workflows : (v \in RowsOf(o)) <=> (v \in RowsOf(o)')
    BY <1>2, <1>3, <1>6 DEF RowsOf
  <2>2. \A v \in RowsOf(o) : state'[v] = state[v]
    BY <1>2, <1>3, <1>6 DEF RowsOf
  <2> QED
    BY <2>1, <2>2, StageKept
<1>7. Stage' = [Stage EXCEPT ![op] = first]
  BY <1>5, <1>6 DEF Stage
<1>8. Ledger!Prepare(op)
  BY <1>1, <1>4, <1>7 DEF Ledger!Prepare, Ledger!Move, Stage, PrepareInsert, Insertable
<1> QED
  BY <1>8 DEF Ledger!Next

LEMMA RestartIsInterrupt ==
  ASSUME WorkflowInvariant, NEW p \in Procs, Open(p)
  PROVE  Ledger!Next
<1> DEFINE ops == {op \in Operations : Stage[op] = "simulating"}
<1>1. /\ \A w \in Workflows :
           state'[w] = IF state[w] = "simulating" THEN "failed" ELSE state[w]
      /\ opOf' = opOf
  BY DEF Open, Interrupted
<1>2. ASSUME NEW op \in Operations
      PROVE  StageOf(op)' = IF op \in ops THEN "failed" ELSE StageOf(op)
  <2>1. RowsOf(op)' = RowsOf(op)
    BY <1>1 DEF RowsOf
  <2>2. CASE RowsOf(op) = {}
    BY <2>1, <2>2 DEF StageOf, Stage
  <2>3. CASE RowsOf(op) # {}
    <3>1. (CHOOSE w \in RowsOf(op) : TRUE) \in RowsOf(op)
      BY <2>3
    <3>2. (CHOOSE w \in RowsOf(op) : TRUE) \in Workflows
      BY <3>1 DEF RowsOf
    <3> QED
      BY <1>1, <2>1, <2>3, <3>2 DEF StageOf, Stage
  <2> QED
    BY <2>2, <2>3
<1>3. Stage' = [op \in Operations |-> IF op \in ops THEN "failed" ELSE Stage[op]]
  BY <1>2 DEF Stage
<1>4. Ledger!Interrupt(ops)
  BY <1>3 DEF Ledger!Interrupt, Stage, Open
<1>5. ops \in SUBSET Operations
  OBVIOUS
<1> QED
  BY <1>4, <1>5 DEF Ledger!Next

LEMMA RevocationIsRevoke ==
  ASSUME WorkflowInvariant, NEW s \in Sources, RevokeSource(s)
  PROVE  Ledger!Next
<1> DEFINE ops == {op \in Operations : SourceOf[op] = s}
<1>1. \A w \in Workflows :
        LET gone == opOf[w] # None /\ SourceOf[opOf[w]] = s
        IN  /\ gone => state'[w] = "absent"
            /\ ~gone => state'[w] = state[w] /\ opOf'[w] = opOf[w]
  BY DEF RevokeSource
<1>2. ASSUME NEW op \in Operations, op \in ops
      PROVE  StageOf(op)' = "absent"
  <2>1. op # None /\ SourceOf[op] = s
    BY <1>2, NoneAssumption
  <2>2. \A w \in Workflows : state'[w] # "absent" => opOf'[w] # op
    BY <1>1, <2>1
  <2> QED
    BY <2>2 DEF StageOf, RowsOf
<1>3. ASSUME NEW op \in Operations, op \notin ops
      PROVE  StageOf(op)' = StageOf(op)
  <2>1. \A w \in Workflows : state[w] # "absent" /\ opOf[w] = op =>
          state'[w] = state[w] /\ opOf'[w] = op
    BY <1>1, <1>3
  <2>2. \A w \in Workflows : state'[w] # "absent" =>
          opOf'[w] = opOf[w] /\ state[w] = state'[w]
    BY <1>1
  <2>3. \A w \in Workflows : (w \in RowsOf(op)) <=> (w \in RowsOf(op)')
    BY <2>1, <2>2 DEF RowsOf
  <2>4. \A w \in RowsOf(op) : state'[w] = state[w]
    BY <2>1 DEF RowsOf
  <2> QED
    BY <2>3, <2>4, StageKept
<1>4. Stage' = [op \in Operations |->
                  IF SourceOf[op] = s THEN "absent" ELSE Stage[op]]
  BY <1>2, <1>3 DEF Stage
<1>5. Ledger!Revoke(s)
  BY <1>4 DEF Ledger!Revoke, Stage, RevokeSource
<1> QED
  BY <1>5 DEF Ledger!Next

\* confirm, start_simulation, complete_simulation, fail_simulation and
\* compensate_simulation move one stage of the ledger.
LEMMA TransitionIsMove ==
  ASSUME WorkflowInvariant, WorkflowInvariant',
         NEW w \in Workflows, NEW to \in States,
         state' = [state EXCEPT ![w] = to], UNCHANGED <<opOf, live>>,
         \/ state[w] = "awaiting_confirmation" /\ to = "ready"
         \/ state[w] = "ready" /\ to = "simulating"
         \/ state[w] = "simulating" /\ to \in {"succeeded", "failed"}
         \/ state[w] = "failed" /\ to = "compensated"
  PROVE  Ledger!Next
<1>1. /\ opOf[w] \in Operations
      /\ Stage[opOf[w]] = state[w]
      /\ Stage' = [Stage EXCEPT ![opOf[w]] = to]
  BY StageMoves
<1>2. Stage' = [op \in Operations |-> IF op \in {opOf[w]} THEN to ELSE Stage[op]]
  BY <1>1 DEF Stage
<1> USE DEF Ledger!Next, Ledger!Move, Stage
<1>3. CASE state[w] = "awaiting_confirmation" /\ to = "ready"
  <2>1. Ledger!Confirm(opOf[w])
    BY <1>1, <1>3 DEF Ledger!Confirm
  <2> QED
    BY <1>1, <2>1
<1>4. CASE state[w] = "ready" /\ to = "simulating"
  <2>1. Ledger!Start(opOf[w])
    BY <1>1, <1>4 DEF Ledger!Start
  <2> QED
    BY <1>1, <2>1
<1>5. CASE state[w] = "simulating" /\ to = "succeeded"
  <2>1. Ledger!Complete(opOf[w])
    BY <1>1, <1>5 DEF Ledger!Complete
  <2> QED
    BY <1>1, <2>1
<1>6. CASE state[w] = "simulating" /\ to = "failed"
  <2>1. Ledger!Interrupt({opOf[w]})
    BY <1>1, <1>2, <1>6 DEF Ledger!Interrupt
  <2>2. {opOf[w]} \in SUBSET Operations
    BY <1>1
  <2> QED
    BY <2>1, <2>2
<1>7. CASE state[w] = "failed" /\ to = "compensated"
  <2>1. Ledger!Compensate(opOf[w])
    BY <1>1, <1>7 DEF Ledger!Compensate
  <2> QED
    BY <1>1, <2>1
<1> QED
  BY <1>3, <1>4, <1>5, <1>6, <1>7

LEMMA StepImplementsLedger ==
  ASSUME WorkflowInvariant, WorkflowInvariant', [Next]_vars
  PROVE  Ledger!Next \/ (Stage' = Stage /\ live' = live)
<1>1. CASE UNCHANGED vars
  BY <1>1, StageUntouched DEF vars
<1>2. ASSUME NEW p \in Procs, Open(p)
      PROVE  Ledger!Next
  BY <1>2, RestartIsInterrupt
<1>3. ASSUME NEW p \in Procs, NEW op \in Operations, PrepareLookup(p, op)
      PROVE  Stage' = Stage /\ live' = live
  BY <1>3, StageUntouched DEF PrepareLookup
<1>4. ASSUME NEW p \in Procs, NEW w \in Workflows, ConfirmCheck(p, w)
      PROVE  Stage' = Stage /\ live' = live
  BY <1>4, StageUntouched DEF ConfirmCheck
<1>5. ASSUME NEW p \in Procs, NEW w \in Workflows,
             NEW outcome \in {"succeeded", "failed"},
             \/ StartSimulation(p, w) \/ FinishSimulation(p, w, outcome)
             \/ Compensate(p, w)
      PROVE  Ledger!Next
  <2>1. {"simulating", "succeeded", "failed", "compensated"} \subseteq States
    BY DEF States
  <2> QED
    BY <1>5, <2>1, TransitionIsMove
    DEF StartSimulation, MayStart, FinishSimulation, MayFinish, Compensate, MayCompensate
<1>6. ASSUME NEW p \in Procs, PrepareInsert(p)
      PROVE  Ledger!Next \/ (Stage' = Stage /\ live' = live)
  <2>1. CASE Insertable(job[p].op)
    BY <1>6, <2>1, InsertIsPrepare
  <2>2. CASE ~Insertable(job[p].op)
    BY <1>6, <2>2, StageUntouched DEF PrepareInsert
  <2> QED
    BY <2>1, <2>2
<1>7. ASSUME NEW p \in Procs, PrepareReturn(p)
      PROVE  Stage' = Stage /\ live' = live
  BY <1>7, StageUntouched DEF PrepareReturn
<1>8. ASSUME NEW p \in Procs, ConfirmWrite(p)
      PROVE  Ledger!Next \/ (Stage' = Stage /\ live' = live)
  <2>1. CASE MayConfirm(job[p].workflow)
    <3>1. job[p].workflow \in Workflows /\ "ready" \in States
      BY <1>8 DEF ConfirmWrite, WorkflowInvariant, JobFitsItsStage, TypeOK, States
    <3> QED
      BY <1>8, <2>1, <3>1, TransitionIsMove DEF ConfirmWrite, MayConfirm
  <2>2. CASE ~MayConfirm(job[p].workflow)
    BY <1>8, <2>2, StageUntouched DEF ConfirmWrite
  <2> QED
    BY <2>1, <2>2
<1>9. ASSUME NEW p \in Procs, Stop(p)
       PROVE  Stage' = Stage /\ live' = live
  BY <1>9, StageUntouched DEF Stop
<1>10. ASSUME NEW s \in Sources, RevokeSource(s)
       PROVE  Ledger!Next
  BY <1>10, RevocationIsRevoke
<1>11. CASE Tick
  BY <1>11, StageUntouched DEF Tick
<1> QED
  BY <1>1, <1>2, <1>3, <1>4, <1>5, <1>6, <1>7, <1>8, <1>9, <1>10, <1>11
  DEF Next, Call, Continue

\* The table, its races and its restarts implement the ledger
\* (ActionWorkflow).
THEOREM WorkflowImplementsLedger == Spec => LedgerSpec
<1>1. Init => Ledger!Init
  BY DEF Init, Ledger!Init, StageOf, RowsOf
<1>2. WorkflowInvariant /\ WorkflowInvariant' /\ [Next]_vars =>
        [Ledger!Next]_<<live, Stage>>
  BY StepImplementsLedger
<1> QED
  BY <1>1, <1>2, InvariantHolds, PTL DEF Spec, LedgerSpec, Ledger!Spec, Stage
=============================================================================
