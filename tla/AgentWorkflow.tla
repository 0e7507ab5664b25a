--------------------------- MODULE AgentWorkflow ---------------------------
(***************************************************************************)
(* The metadata-only action workflow, agent/workflow.py, over the table    *)
(* agent_action_workflows, shared by processes that each hold an           *)
(* ActionWorkflow.  A SELECT and the write that follows it are steps of    *)
(* their own; an UPDATE ... WHERE state=? is one step.                     *)
(*                                                                         *)
(* A decision reaches prepare from the process's own PolicyEngine, whose   *)
(* signature it carries.  A ticket is 256 random bits, so it is known only *)
(* to those it was returned to and is identified with its workflow.        *)
(***************************************************************************)
EXTENDS Naturals

CONSTANTS
    Procs,        \* processes that hold an ActionWorkflow
    Workflows,    \* uuids prepare may draw (bounds preparations)
    Sources,      \* sources registered at the start
    Operations,   \* idempotency key, action and source of a decision
    SourceOf,     \* the source of each operation
    Destructive,  \* operations that need a confirmation, RISK_BY_ACTION
    Ttl,          \* ttl_seconds
    MaxTime,      \* bound on the clock
    None

ASSUME OperationsAssumption ==
    /\ SourceOf \in [Operations -> Sources]
    /\ Destructive \subseteq Operations

ASSUME ClockAssumption == Ttl \in Nat \ {0} /\ MaxTime \in Nat

ASSUME NoneAssumption ==
    None \notin Operations /\ None \notin Workflows /\ None \notin Nat

VARIABLES
    live,     \* the registered sources
    state,    \* column state of each workflow, "absent" when there is no row
    opOf,     \* columns idempotency_key, action and source_id
    expiry,   \* columns confirmation_hash and confirmation_expires_at
    drawn,    \* uuids drawn so far
    tickets,  \* workflows whose ticket was returned to a caller
    now,      \* the clock
    pc, job,  \* where each process is, and its local variables
    wins      \* history: how many calls reported success, per workflow

rowVars == <<state, opOf, expiry, drawn>>
procVars == <<pc, job>>
vars == <<live, rowVars, tickets, now, procVars, wins>>

States == {"absent", "awaiting_confirmation", "ready", "simulating",
           "succeeded", "failed", "compensated"}

Calls == {"confirm", "start", "finish", "compensate"}

Stages == {"idle", "open", "inserting", "returning", "confirming"}

Job == [op : Operations \cup {None}, workflow : Workflows \cup {None},
        expiry : Nat \cup {None}]

NoJob == [op |-> None, workflow |-> None, expiry |-> None]

TypeOK ==
    /\ live \subseteq Sources
    /\ state \in [Workflows -> States]
    /\ opOf \in [Workflows -> Operations \cup {None}]
    /\ expiry \in [Workflows -> Nat \cup {None}]
    /\ drawn \subseteq Workflows
    /\ tickets \subseteq Workflows
    /\ now \in Nat
    /\ pc \in [Procs -> Stages]
    /\ job \in [Procs -> Job]
    /\ wins \in [Workflows -> [Calls -> Nat]]

Init ==
    /\ live = Sources
    /\ state = [w \in Workflows |-> "absent"]
    /\ opOf = [w \in Workflows |-> None]
    /\ expiry = [w \in Workflows |-> None]
    /\ drawn = {}
    /\ tickets = {}
    /\ now = 0
    /\ pc = [p \in Procs |-> "idle"]
    /\ job = [p \in Procs |-> NoJob]
    /\ wins = [w \in Workflows |-> [c \in Calls |-> 0]]

GoTo(p, stage) == pc' = [pc EXCEPT ![p] = stage]

\* The call returns or raises; the process keeps its ActionWorkflow.
Return(p) ==
    /\ GoTo(p, "open")
    /\ job' = [job EXCEPT ![p] = NoJob]

\* The call goes on with a workflow it has read.
WorkOn(p, w) ==
    job' = [job EXCEPT ![p] = [op |-> None, workflow |-> w, expiry |-> None]]

Won(call, w) == wins' = [wins EXCEPT ![w][call] = @ + 1]

----------------------------------------------------------------------------
\* Mutant of Interrupted: no recovery.
InterruptedNever == state

\* ActionWorkflow.__init__ fails every simulation there is.
Interrupted == [w \in Workflows |->
    IF state[w] = "simulating" THEN "failed" ELSE state[w]]

Open(p) ==
    /\ pc[p] = "idle"
    /\ state' = Interrupted
    /\ GoTo(p, "open")
    /\ UNCHANGED <<live, opOf, expiry, drawn, tickets, now, job, wins>>

IsNew(op) == \A w \in Workflows : state[w] # "absent" => opOf[w] # op

\* prepare up to its SELECT.  An operation that has a workflow gets it back
\* without a ticket, which changes nothing.
PrepareLookup(p, op) ==
    /\ pc[p] = "open"
    /\ SourceOf[op] \in live
    /\ IsNew(op)
    /\ \E w \in Workflows \ drawn :
         /\ drawn' = drawn \cup {w}
         /\ job' = [job EXCEPT ![p] =
              [op |-> op, workflow |-> w,
               expiry |-> IF op \in Destructive THEN now + Ttl ELSE None]]
    /\ GoTo(p, "inserting")
    /\ UNCHANGED <<live, state, opOf, expiry, tickets, now, wins>>

\* Mutant of Insertable: no UNIQUE key.
InsertableTwice(op) == SourceOf[op] \in live

\* The INSERT: the foreign key refuses a source that was revoked and UNIQUE
\* an operation that another process prepared meanwhile.
Insertable(op) == SourceOf[op] \in live /\ IsNew(op)

PrepareInsert(p) ==
    LET w == job[p].workflow
        op == job[p].op
    IN  /\ pc[p] = "inserting"
        /\ IF Insertable(op)
             THEN /\ state' = [state EXCEPT ![w] =
                        IF op \in Destructive THEN "awaiting_confirmation"
                                              ELSE "ready"]
                  /\ opOf' = [opOf EXCEPT ![w] = op]
                  /\ expiry' = [expiry EXCEPT ![w] = job[p].expiry]
                  /\ GoTo(p, "returning")
                  /\ UNCHANGED job
             ELSE /\ Return(p)
                  /\ UNCHANGED <<state, opOf, expiry>>
        /\ UNCHANGED <<live, drawn, tickets, now, wins>>

\* The caller gets the ticket, if the process lives to return it.
PrepareReturn(p) ==
    /\ pc[p] = "returning"
    /\ tickets' = IF job[p].op \in Destructive
                    THEN tickets \cup {job[p].workflow} ELSE tickets
    /\ Return(p)
    /\ UNCHANGED <<live, rowVars, now, wins>>

\* The checks of confirm, on the row as it was read.
ConfirmCheck(p, w) ==
    /\ pc[p] = "open"
    /\ w \in tickets
    /\ state[w] = "awaiting_confirmation"
    /\ now < expiry[w]
    /\ WorkOn(p, w)
    /\ GoTo(p, "confirming")
    /\ UNCHANGED <<live, rowVars, tickets, now, wins>>

\* Mutant of MayConfirm: the UPDATE without AND state=?.
MayConfirmAgain(w) == state[w] # "absent"

\* The UPDATE of confirm, which looks at the state again and at nothing else.
MayConfirm(w) == state[w] = "awaiting_confirmation"

ConfirmWrite(p) ==
    LET w == job[p].workflow
    IN  /\ pc[p] = "confirming"
        /\ IF MayConfirm(w)
             THEN /\ state' = [state EXCEPT ![w] = "ready"]
                  /\ expiry' = [expiry EXCEPT ![w] = None]
                  /\ Won("confirm", w)
             ELSE UNCHANGED <<state, expiry, wins>>
        /\ Return(p)
        /\ UNCHANGED <<live, opOf, drawn, tickets, now>>

\* Mutant of MayStart: an unconfirmed workflow starts.
MayStartUnconfirmed(w) == state[w] \in {"awaiting_confirmation", "ready"}

MayStart(w) == state[w] = "ready"

StartSimulation(p, w) ==
    /\ pc[p] = "open"
    /\ MayStart(w)
    /\ state' = [state EXCEPT ![w] = "simulating"]
    /\ Won("start", w)
    /\ UNCHANGED <<live, opOf, expiry, drawn, tickets, now, procVars>>

\* Mutant of MayFinish: the UPDATE without AND state=?.
MayFinishAgain(w) == state[w] \in {"simulating", "succeeded", "failed"}

MayFinish(w) == state[w] = "simulating"

\* complete_simulation and fail_simulation, which anyone may call who knows
\* the workflow, whoever started it.
FinishSimulation(p, w, outcome) ==
    /\ pc[p] = "open"
    /\ MayFinish(w)
    /\ state' = [state EXCEPT ![w] = outcome]
    /\ Won("finish", w)
    /\ UNCHANGED <<live, opOf, expiry, drawn, tickets, now, procVars>>

\* Mutant of MayCompensate: a success is compensated.
MayCompensateSuccess(w) == state[w] \in {"failed", "succeeded"}

MayCompensate(w) == state[w] = "failed"

Compensate(p, w) ==
    /\ pc[p] = "open"
    /\ MayCompensate(w)
    /\ state' = [state EXCEPT ![w] = "compensated"]
    /\ Won("compensate", w)
    /\ UNCHANGED <<live, opOf, expiry, drawn, tickets, now, procVars>>

----------------------------------------------------------------------------
\* revoke_source deletes the workflows of the source by cascade.
RevokeSource(s) ==
    /\ s \in live
    /\ live' = live \ {s}
    /\ LET gone == {w \in Workflows : opOf[w] # None /\ SourceOf[opOf[w]] = s}
       IN  /\ state' = [w \in Workflows |->
                          IF w \in gone THEN "absent" ELSE state[w]]
           /\ opOf' = [w \in Workflows |-> IF w \in gone THEN None ELSE opOf[w]]
           /\ expiry' = [w \in Workflows |->
                          IF w \in gone THEN None ELSE expiry[w]]
    /\ UNCHANGED <<drawn, tickets, now, procVars, wins>>

\* The process ends or dies, with whatever it was doing.
Stop(p) ==
    /\ pc[p] # "idle"
    /\ GoTo(p, "idle")
    /\ job' = [job EXCEPT ![p] = NoJob]
    /\ UNCHANGED <<live, rowVars, tickets, now, wins>>

Tick ==
    /\ now < MaxTime
    /\ now' = now + 1
    /\ UNCHANGED <<live, rowVars, tickets, procVars, wins>>

Continue(p) ==
    \/ PrepareInsert(p)
    \/ PrepareReturn(p)
    \/ ConfirmWrite(p)

Call(p) ==
    \/ \E op \in Operations : PrepareLookup(p, op)
    \/ \E w \in Workflows :
         \/ ConfirmCheck(p, w)
         \/ StartSimulation(p, w)
         \/ \E outcome \in {"succeeded", "failed"} : FinishSimulation(p, w, outcome)
         \/ Compensate(p, w)

Next ==
    \/ \E p \in Procs : Open(p) \/ Call(p) \/ Continue(p) \/ Stop(p)
    \/ \E s \in Sources : RevokeSource(s)
    \/ Tick

Spec == Init /\ [][Next]_vars

\* A process that stopped is some day started again.  Nothing else is
\* promised: who carries out an action is no part of this program, and may
\* never call back.
Fairness == \A p \in Procs : WF_vars(Open(p))

FairSpec == Spec /\ Fairness

----------------------------------------------------------------------------
(* What the workflow promises                                              *)

\* However many processes prepare an operation, it has one workflow.
OneWorkflowPerOperation ==
    \A v, w \in Workflows :
        state[v] # "absent" /\ state[w] # "absent" /\ opOf[v] = opOf[w] => v = w

\* A ticket confirms once, and of the processes that race to start a
\* workflow, to finish it (one may say that it succeeded, another that it
\* failed) or to compensate it, one alone is told that it did.
CallsWinOnce ==
    \A w \in Workflows, c \in Calls : wins[w][c] <= 1

\* A destructive workflow goes on from its confirmation only: by someone
\* the ticket was returned to.
DestructiveRunsOnlyConfirmed ==
    \A w \in Workflows :
        /\ state[w] \notin {"absent", "awaiting_confirmation"}
        /\ opOf[w] \in Destructive
        => wins[w]["confirm"] = 1 /\ w \in tickets

\* A workflow prepared while its source is being revoked does not outlive it.
NothingOutlivesItsSource ==
    \A w \in Workflows : state[w] # "absent" => SourceOf[opOf[w]] \in live

RowsOf(op) == {w \in Workflows : state[w] # "absent" /\ opOf[w] = op}

StageOf(op) == IF RowsOf(op) = {} THEN "absent"
               ELSE state[CHOOSE w \in RowsOf(op) : TRUE]

Ledger == INSTANCE ActionLedger WITH
    live <- live, stage <- [op \in Operations |-> StageOf(op)]

\* The workflow implements the ledger: every operation takes the legal
\* transitions of the agent plan and is carried out at most once, although
\* any process may prepare, confirm, start and finish it; what a revoked
\* source takes away cannot be prepared again.
LedgerSpec == Ledger!Spec

\* No simulation outlives the restart of a process: one that was running
\* while a process was down, maybe the one that should have finished it, does
\* not stay simulating (ActionWorkflow.__init__).
SimulationsSettle ==
    \A p \in Procs, w \in Workflows :
        pc[p] = "idle" /\ state[w] = "simulating" ~> state[w] # "simulating"

----------------------------------------------------------------------------
(* What the promises rest on: WorkflowInvariant is inductive.              *)

\* The calls that won so far are those the state allows.
WinsFitState(w) ==
    /\ state[w] = "awaiting_confirmation" => wins[w]["confirm"] = 0
    /\ state[w] \in {"awaiting_confirmation", "ready"} => wins[w]["start"] = 0
    /\ state[w] \in {"awaiting_confirmation", "ready", "simulating"} =>
         wins[w]["finish"] = 0
    /\ state[w] \notin {"absent", "compensated"} => wins[w]["compensate"] = 0

\* A workflow that is being inserted is known to its process alone.
JobFitsItsStage(p) ==
    /\ pc[p] = "inserting" =>
         /\ job[p].op \in Operations
         /\ job[p].workflow \in drawn
         /\ state[job[p].workflow] = "absent"
         /\ \A c \in Calls : wins[job[p].workflow][c] = 0
         /\ \A q \in Procs \ {p} :
              pc[q] = "inserting" => job[q].workflow # job[p].workflow
    /\ pc[p] = "returning" => job[p].workflow \in Workflows
    /\ pc[p] = "confirming" => job[p].workflow \in tickets

\* A uuid not drawn yet has no row and no history.
UndrawnAreNew ==
    \A w \in Workflows \ drawn :
        state[w] = "absent" /\ \A c \in Calls : wins[w][c] = 0

RowsNameOperations ==
    \A w \in Workflows : state[w] # "absent" => opOf[w] \in Operations

WorkflowInvariant ==
    /\ TypeOK
    /\ \A w \in Workflows : WinsFitState(w)
    /\ \A p \in Procs : JobFitsItsStage(p)
    /\ UndrawnAreNew
    /\ RowsNameOperations
    /\ OneWorkflowPerOperation
    /\ CallsWinOnce
    /\ DestructiveRunsOnlyConfirmed
    /\ NothingOutlivesItsSource
=============================================================================
