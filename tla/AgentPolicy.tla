---------------------------- MODULE AgentPolicy ----------------------------
(***************************************************************************)
(* The policy of agent actions, agent/policy.py: decisions are evaluated   *)
(* and signed, recorded as audit evidence (record_agent_decision), and     *)
(* presented later, to the web console's own reads (_authorize_read) or to *)
(* ActionWorkflow.prepare.  AgentWorkflow starts where this module ends,   *)
(* with an operation whose workflow is prepared.                           *)
(*                                                                         *)
(* A hash and a signature stand for what they are computed from: an event  *)
(* id is the payload, a tag the payload and the engine whose random key    *)
(* made it.  Both are fields of a decision like the others, and a copy of  *)
(* one may have any of its fields replaced.                                *)
(***************************************************************************)
EXTENDS Naturals, FiniteSets

CONSTANTS
    Procs,         \* threads and processes, each with its PolicyEngine
    Sources,       \* sources registered at the start
    Actions,       \* members of Action
    RiskOf,        \* RISK_BY_ACTION
    Keys,          \* idempotency keys that are UUIDs
    NoKey,         \* no key, or one that is no UUID
    Operations,    \* what requests ask for: a key, an action and a source
    Authorities,   \* user, agent, tool and policy
    Claims,        \* what altered copies of a decision say
    MaxRestarts,   \* bound on how often engines are made anew
    MaxEvidence,   \* bound on the rows that callers record
    None

Risks == {"read_only", "reversible", "destructive"}

ASSUME RiskAssumption == RiskOf \in [Actions -> Risks]

ASSUME NoKeyAssumption == NoKey \notin Keys

ASSUME OperationsAssumption ==
    Operations \subseteq [key : Keys \cup {NoKey}, action : Actions, source : Sources]

ASSUME BoundAssumption == MaxRestarts \in Nat /\ MaxEvidence \in Nat

VARIABLES
    live,       \* ids of the rows of table sources
    audit,      \* rows of table agent_action_audit
    workflows,  \* rows of table agent_action_workflows
    engine,     \* the engine of each process
    engines,    \* how many engines there were
    pc, hand,   \* where each process is, and the decision it has
    served,     \* history: reads that returned something
    spoiled     \* history: event ids under which something else was recorded

tables == <<audit, workflows>>
engineVars == <<engine, engines>>
vars == <<live, tables, engineVars, pc, hand, served, spoiled>>

----------------------------------------------------------------------------
Statuses == {"allow", "require_confirmation", "deny"}

Reasons == {"permission_intersection", "idempotency_key_required",
            "human_confirmation_required", "authorized"}

Operation == [key : Keys \cup {NoKey}, action : Actions, source : Sources]

Payload == [op : Operation, status : Statuses, risk : Risks, reason : Reasons]

ASSUME ClaimsAssumption == Claims \subseteq Payload

\* granted is history: whether all authorities permitted what was asked.
Tag == [engine : Nat, payload : Payload, granted : BOOLEAN]

\* event is what the event id was computed from.
Decision == [event : Payload, payload : Payload, tag : Tag]

Evidence == [event : Payload, payload : Payload]

ASSUME NoneAssumption == None \notin Decision

\* granted is history, as in the tag of the decision it was prepared from.
Workflow == [op : Operation, state : {"awaiting_confirmation", "ready"},
             granted : BOOLEAN]

Stages == {"idle", "recording", "preparing", "evidencing", "reading"}

TypeOK ==
    /\ live \subseteq Sources
    /\ audit \subseteq Evidence
    /\ workflows \subseteq Workflow
    /\ engine \in [Procs -> Nat]
    /\ engines \in Nat
    /\ pc \in [Procs -> Stages]
    /\ hand \in [Procs -> Decision \cup {None}]
    /\ served \subseteq Actions \X Sources
    /\ spoiled \subseteq Payload

Init ==
    /\ live = Sources
    /\ audit = {}
    /\ workflows = {}
    /\ engine = [p \in Procs |-> 0]
    /\ engines = 0
    /\ pc = [p \in Procs |-> "idle"]
    /\ hand = [p \in Procs |-> None]
    /\ served = {}
    /\ spoiled = {}

GoTo(p, stage) == pc' = [pc EXCEPT ![p] = stage]

----------------------------------------------------------------------------
(* Evaluation                                                              *)

ReadOnly(op) == RiskOf[op.action] = "read_only"

Judged(op, status, reason) ==
    [op |-> op, status |-> status, risk |-> RiskOf[op.action], reason |-> reason]

\* Mutant of Permitted: any authority is enough.
PermittedByAny(action, permissions) ==
    \E a \in Authorities : action \in permissions[a]

\* The intersection of the permissions of all authorities.
Permitted(action, permissions) ==
    \A a \in Authorities : action \in permissions[a]

\* evaluate, which fails closed.
Verdict(op, permissions) ==
    IF ~Permitted(op.action, permissions)
      THEN Judged(op, "deny", "permission_intersection")
    ELSE IF ~ReadOnly(op) /\ op.key \notin Keys
      THEN Judged(op, "deny", "idempotency_key_required")
    ELSE IF RiskOf[op.action] = "destructive"
      THEN Judged(op, "require_confirmation", "human_confirmation_required")
    ELSE Judged(op, "allow", "authorized")

\* _decision signs the verdict.
Signed(p, payload, granted) ==
    [event |-> payload, payload |-> payload,
     tag |-> [engine |-> engine[p], payload |-> payload, granted |-> granted]]

\* Mutant of Verified: the event id fits, and the tag is one of this engine.
VerifiedByEvent(p, decision) ==
    decision.event = decision.payload /\ decision.tag.engine = engine[p]

\* verify computes event id and tag again.
Verified(p, decision) ==
    /\ decision.event = decision.payload
    /\ decision.tag.engine = engine[p]
    /\ decision.tag.payload = decision.payload

\* A request brings its permissions with it.
Evaluate(p, op) ==
    /\ pc[p] = "idle"
    /\ \E permissions \in [Authorities -> SUBSET {op.action}] :
         hand' = [hand EXCEPT ![p] =
                    Signed(p, Verdict(op, permissions),
                           \A a \in Authorities : op.action \in permissions[a])]
    /\ UNCHANGED <<live, tables, engineVars, pc, served, spoiled>>

\* A decision is handed to another process, or a copy of it that says
\* something else, under its event id or under the one that fits.
PassOn(p, q) ==
    /\ pc[q] = "idle"
    /\ hand[p] # None
    /\ \E claim \in Claims \cup {hand[p].payload} :
         \E event \in {hand[p].event, claim} :
           hand' = [hand EXCEPT ![q] =
                      [event |-> event, payload |-> claim, tag |-> hand[p].tag]]
    /\ UNCHANGED <<live, tables, engineVars, pc, served, spoiled>>

----------------------------------------------------------------------------
(* Evidence                                                                *)

SourceAt(p) == hand[p].payload.op.source

\* record_agent_decision looks for the source, and at nothing else, ...
RecordCheck(p) ==
    /\ pc[p] = "idle"
    /\ hand[p] # None
    /\ Cardinality(audit) < MaxEvidence
    /\ SourceAt(p) \in live
    /\ GoTo(p, "recording")
    /\ UNCHANGED <<live, tables, engineVars, hand, served, spoiled>>

\* Mutant of ForeignKey: PRAGMA foreign_keys is off.
ForeignKeyOff(s) == TRUE

ForeignKey(s) == s \in live

RowOf(decision) == [event |-> decision.event, payload |-> decision.payload]

\* ... then inserts.  The key of the table is the event id: if there is a row
\* of that event, whatever it says, nothing happens; else the row has to
\* fulfil the foreign key, which OR IGNORE does not ignore.
Insert(p) ==
    LET row == RowOf(hand[p])
    IN  IF \E e \in audit : e.event = row.event
          THEN UNCHANGED <<audit, spoiled>>
          ELSE /\ ForeignKey(SourceAt(p))
               /\ audit' = audit \cup {row}
               /\ spoiled' = IF row.payload = row.event
                               THEN spoiled ELSE spoiled \cup {row.event}

Record(p) ==
    /\ pc[p] = "recording"
    /\ Insert(p)
    /\ GoTo(p, "idle")
    /\ UNCHANGED <<live, workflows, engineVars, hand, served>>

----------------------------------------------------------------------------
(* Reads of the web console                                                *)

\* The permissions of a read are made by the server, and suffice.
ReadVerdict(action, s) ==
    Judged([key |-> NoKey, action |-> action, source |-> s], "allow", "authorized")

ReadCheck(p, action, s) ==
    /\ pc[p] = "idle"
    /\ RiskOf[action] = "read_only"
    /\ s \in live
    /\ hand' = [hand EXCEPT ![p] = Signed(p, ReadVerdict(action, s), TRUE)]
    /\ GoTo(p, "evidencing")
    /\ UNCHANGED <<live, tables, engineVars, served, spoiled>>

\* Mutant of ReadRecord: the evidence is written after the read, with what
\* else is to be logged.
ReadUnrecorded(p) ==
    /\ pc[p] = "evidencing"
    /\ SourceAt(p) \in live
    /\ GoTo(p, "reading")
    /\ UNCHANGED <<live, tables, engineVars, hand, served, spoiled>>

ReadRecord(p) ==
    /\ pc[p] = "evidencing"
    /\ Insert(p)
    /\ GoTo(p, "reading")
    /\ UNCHANGED <<live, workflows, engineVars, hand, served>>

\* search, ask or source_preview: of a source that is gone there is nothing.
Read(p) ==
    /\ pc[p] = "reading"
    /\ served' = IF SourceAt(p) \in live
                   THEN served \cup {<<hand[p].payload.op.action, SourceAt(p)>>}
                   ELSE served
    /\ hand' = [hand EXCEPT ![p] = None]
    /\ GoTo(p, "idle")
    /\ UNCHANGED <<live, tables, engineVars, spoiled>>

----------------------------------------------------------------------------
(* Preparation of a workflow                                               *)

\* The checks of prepare, and its SELECT.
PrepareCheck(p) ==
    LET payload == hand[p].payload
    IN  /\ pc[p] = "idle"
        /\ hand[p] # None
        /\ payload.status # "deny"
        /\ Verified(p, hand[p])
        /\ payload.risk = RiskOf[payload.op.action]
        /\ SourceAt(p) \in live
        /\ payload.risk # "read_only"
        /\ \A w \in workflows : w.op # payload.op
        /\ GoTo(p, "preparing")
        /\ UNCHANGED <<live, tables, engineVars, hand, served, spoiled>>

\* The INSERT, with the foreign key and UNIQUE.
Prepare(p) ==
    LET payload == hand[p].payload
        state   == IF payload.status = "require_confirmation"
                     THEN "awaiting_confirmation" ELSE "ready"
    IN  /\ pc[p] = "preparing"
        /\ ForeignKey(SourceAt(p))
        /\ \A w \in workflows : w.op # payload.op
        /\ workflows' = workflows \cup
             {[op |-> payload.op, state |-> state,
               granted |-> hand[p].tag.granted /\ hand[p].tag.payload.op = payload.op]}
        /\ GoTo(p, "idle")
        /\ UNCHANGED <<live, audit, engineVars, hand, served, spoiled>>

----------------------------------------------------------------------------
\* A statement raises.
Fail(p) ==
    /\ pc[p] # "idle"
    /\ GoTo(p, "idle")
    /\ UNCHANGED <<live, tables, engineVars, hand, served, spoiled>>

\* The process starts again, with a new random key; a decision that was
\* passed on may come back to it.
Restart(p) ==
    /\ engines < MaxRestarts
    /\ engines' = engines + 1
    /\ engine' = [engine EXCEPT ![p] = engines + 1]
    /\ GoTo(p, "idle")
    /\ UNCHANGED <<live, tables, hand, served, spoiled>>

\* revoke_source: evidence and workflows go with the source, by cascade.
Revoke(s) ==
    /\ s \in live
    /\ live' = live \ {s}
    /\ audit' = {e \in audit : e.payload.op.source # s}
    /\ workflows' = {w \in workflows : w.op.source # s}
    /\ UNCHANGED <<engineVars, pc, hand, served, spoiled>>

Act(p) ==
    \/ \E op \in Operations : Evaluate(p, op)
    \/ RecordCheck(p) \/ Record(p)
    \/ \E action \in Actions, s \in Sources : ReadCheck(p, action, s)
    \/ ReadRecord(p) \/ Read(p)
    \/ PrepareCheck(p) \/ Prepare(p)
    \/ Fail(p) \/ Restart(p)

Next ==
    \/ \E p \in Procs : Act(p)
    \/ \E p, q \in Procs : PassOn(p, q)
    \/ \E s \in Sources : Revoke(s)

Spec == Init /\ [][Next]_vars

----------------------------------------------------------------------------
(* What the policy promises                                                *)

\* Whatever is decided, passed on, altered, kept over a restart and presented
\* again: a workflow is for an operation that this policy decided on with the
\* permission of all four authorities, that has a key, and that waits for a
\* confirmation if and only if it is destructive.
WorkflowsWereGranted ==
    \A w \in workflows :
        /\ w.granted
        /\ w.op.key \in Keys
        /\ RiskOf[w.op.action] =
             IF w.state = "awaiting_confirmation" THEN "destructive" ELSE "reversible"

EvidenceOf(payload) == [event |-> payload, payload |-> payload]

\* What a read returned while its source is there, there is evidence of, also
\* when the revocation of the source races the read: the row of its event
\* says what was read.  The exception is an event under which somebody had
\* recorded something else before, which record_agent_decision does not
\* refuse and which makes OR IGNORE swallow the evidence.
ReadsLeaveEvidence ==
    \A read \in served :
        LET verdict == ReadVerdict(read[1], read[2])
        IN  read[2] \in live => EvidenceOf(verdict) \in audit \/ verdict \in spoiled

\* Evidence and workflows do not outlive their source, also those that were
\* about to be inserted when it was revoked.
NothingOutlivesItsSource ==
    /\ \A e \in audit : e.payload.op.source \in live
    /\ \A w \in workflows : w.op.source \in live

----------------------------------------------------------------------------
(* What the promises rest on: PolicyInvariant is inductive.                *)

\* A decision whose signature says that it was not denied was granted, and
\* its payload is a verdict.
SignedSoundly(decision) ==
    LET signed == decision.tag.payload
    IN  signed.status # "deny" =>
          /\ decision.tag.granted
          /\ ~ReadOnly(signed.op) => signed.op.key \in Keys
          /\ signed.status = "require_confirmation" <=>
               RiskOf[signed.op.action] = "destructive"

SignaturesAreGranted == \A p \in Procs : hand[p] # None => SignedSoundly(hand[p])

\* A process about to insert has a decision that was checked.
HandFitsItsStage(p) ==
    /\ pc[p] # "idle" => hand[p] # None
    /\ pc[p] = "preparing" =>
         /\ hand[p].tag.payload = hand[p].payload
         /\ hand[p].payload.status # "deny"
         /\ ~ReadOnly(hand[p].payload.op)
    /\ pc[p] \in {"evidencing", "reading"} =>
         /\ hand[p].payload = ReadVerdict(hand[p].payload.op.action, SourceAt(p))
         /\ hand[p].event = hand[p].payload
    /\ pc[p] = "reading" /\ SourceAt(p) \in live =>
         EvidenceOf(hand[p].payload) \in audit \/ hand[p].payload \in spoiled

\* A row that says something else than its event has spoiled the event.
SpoiledAreKnown == \A e \in audit : e.payload = e.event \/ e.event \in spoiled

PolicyInvariant ==
    /\ TypeOK
    /\ SignaturesAreGranted
    /\ \A p \in Procs : HandFitsItsStage(p)
    /\ SpoiledAreKnown
    /\ WorkflowsWereGranted
    /\ ReadsLeaveEvidence
    /\ NothingOutlivesItsSource
=============================================================================
