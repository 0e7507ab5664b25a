------------------------- MODULE AgentPolicyProofs -------------------------
(***************************************************************************)
(* AgentPolicy: PolicyInvariant is inductive, and its promises follow,     *)
(* for any number of engines, operations and authorities.                  *)
(***************************************************************************)
EXTENDS AgentPolicy, TLAPS

USE DEF tables, engineVars

LEMMA InitInvariant == Init => PolicyInvariant
<1> SUFFICES ASSUME Init
             PROVE  PolicyInvariant
  OBVIOUS
<1>1. TypeOK
  BY DEF Init, TypeOK, Stages
<1> QED
  BY <1>1 DEF Init, PolicyInvariant, SignaturesAreGranted, HandFitsItsStage,
         SpoiledAreKnown, WorkflowsWereGranted, ReadsLeaveEvidence,
         NothingOutlivesItsSource

\* What evaluate decides is a verdict on the operation, and one that is not a
\* denial is permitted, has a key unless it reads, and asks for a confirmation
\* exactly of what is destructive.
LEMMA VerdictIsSound ==
  ASSUME NEW op \in Operation, NEW permissions
  PROVE  /\ Verdict(op, permissions) \in Payload
         /\ Verdict(op, permissions).op = op
         /\ Verdict(op, permissions).status # "deny" =>
              /\ Permitted(op.action, permissions)
              /\ ~ReadOnly(op) => op.key \in Keys
              /\ Verdict(op, permissions).status = "require_confirmation" <=>
                   RiskOf[op.action] = "destructive"
<1>1. op.action \in Actions /\ RiskOf[op.action] \in Risks
  BY RiskAssumption DEF Operation
<1>2. CASE ~Permitted(op.action, permissions)
  <2>1. Verdict(op, permissions) = Judged(op, "deny", "permission_intersection")
    BY <1>2 DEF Verdict
  <2> QED
    BY <1>1, <2>1 DEF Judged, Payload, Statuses, Reasons
<1>3. CASE Permitted(op.action, permissions) /\ ~ReadOnly(op) /\ op.key \notin Keys
  <2>1. Verdict(op, permissions) = Judged(op, "deny", "idempotency_key_required")
    BY <1>3 DEF Verdict
  <2> QED
    BY <1>1, <2>1 DEF Judged, Payload, Statuses, Reasons
<1>4. CASE /\ Permitted(op.action, permissions)
           /\ ReadOnly(op) \/ op.key \in Keys
           /\ RiskOf[op.action] = "destructive"
  <2>1. Verdict(op, permissions) =
          Judged(op, "require_confirmation", "human_confirmation_required")
    BY <1>4 DEF Verdict
  <2> QED
    BY <1>1, <1>4, <2>1 DEF Judged, Payload, Statuses, Reasons
<1>5. CASE /\ Permitted(op.action, permissions)
           /\ ReadOnly(op) \/ op.key \in Keys
           /\ RiskOf[op.action] # "destructive"
  <2>1. Verdict(op, permissions) = Judged(op, "allow", "authorized")
    BY <1>5 DEF Verdict
  <2> QED
    BY <1>1, <1>5, <2>1 DEF Judged, Payload, Statuses, Reasons
<1> QED
  BY <1>2, <1>3, <1>4, <1>5

\* A decision that is signed now is sound.
LEMMA SignedDecision ==
  ASSUME TypeOK, NEW p \in Procs, NEW payload \in Payload, NEW granted \in BOOLEAN,
         payload.status # "deny" =>
           /\ granted
           /\ ~ReadOnly(payload.op) => payload.op.key \in Keys
           /\ payload.status = "require_confirmation" <=>
                RiskOf[payload.op.action] = "destructive"
  PROVE  /\ Signed(p, payload, granted) \in Decision
         /\ SignedSoundly(Signed(p, payload, granted))
<1>1. engine[p] \in Nat
  BY DEF TypeOK
<1> QED
  BY <1>1 DEF Signed, Decision, Tag, SignedSoundly

LEMMA ReadIsSound ==
  ASSUME TypeOK, NEW p \in Procs, NEW action \in Actions, NEW s \in Sources,
         RiskOf[action] = "read_only"
  PROVE  /\ ReadVerdict(action, s) \in Payload
         /\ Signed(p, ReadVerdict(action, s), TRUE) \in Decision
         /\ SignedSoundly(Signed(p, ReadVerdict(action, s), TRUE))
<1>1. ReadVerdict(action, s) \in Payload
  BY RiskAssumption DEF ReadVerdict, Judged, Payload, Operation, Statuses, Reasons
<1> QED
  BY <1>1, SignedDecision DEF ReadVerdict, Judged, ReadOnly

----------------------------------------------------------------------------
(* Steps                                                                   *)

\* Where a process gets a decision from.
LEMMA HandStep ==
  ASSUME PolicyInvariant, [Next]_vars
  PROVE  /\ hand' \in [Procs -> Decision \cup {None}]
         /\ SignaturesAreGranted'
<1> USE DEF SignaturesAreGranted
<1>0. TypeOK /\ SignaturesAreGranted /\ hand \in [Procs -> Decision \cup {None}]
  BY DEF PolicyInvariant, TypeOK
<1>1. ASSUME NEW p \in Procs, NEW d \in Decision, SignedSoundly(d),
             hand' = [hand EXCEPT ![p] = d]
      PROVE  /\ hand' \in [Procs -> Decision \cup {None}]
             /\ SignaturesAreGranted'
  BY <1>0, <1>1 DEF SignedSoundly
<1>2. ASSUME NEW p \in Procs, NEW op \in Operations, Evaluate(p, op)
      PROVE  /\ hand' \in [Procs -> Decision \cup {None}]
             /\ SignaturesAreGranted'
  <2> PICK permissions \in [Authorities -> SUBSET {op.action}] :
         hand' = [hand EXCEPT ![p] =
                    Signed(p, Verdict(op, permissions),
                           \A a \in Authorities : op.action \in permissions[a])]
    BY <1>2 DEF Evaluate
  <2> DEFINE granted == \A a \in Authorities : op.action \in permissions[a]
             payload == Verdict(op, permissions)
  <2>1. op \in Operation
    BY OperationsAssumption DEF Operation
  <2>2. /\ payload \in Payload
        /\ payload.status # "deny" =>
             /\ granted
             /\ ~ReadOnly(payload.op) => payload.op.key \in Keys
             /\ payload.status = "require_confirmation" <=>
                  RiskOf[payload.op.action] = "destructive"
    BY <2>1, VerdictIsSound DEF Permitted
  <2>3. granted \in BOOLEAN
    OBVIOUS
  <2>4. Signed(p, payload, granted) \in Decision /\ SignedSoundly(Signed(p, payload, granted))
    <3> HIDE DEF granted, payload
    <3> QED
      BY <1>0, <2>2, <2>3, SignedDecision
  <2> QED
    BY <1>1, <2>4
<1>3. ASSUME NEW p \in Procs, NEW q \in Procs, PassOn(p, q)
      PROVE  /\ hand' \in [Procs -> Decision \cup {None}]
             /\ SignaturesAreGranted'
  <2> PICK claim \in Claims \cup {hand[p].payload} :
         \E event \in {hand[p].event, claim} :
           hand' = [hand EXCEPT ![q] =
                      [event |-> event, payload |-> claim, tag |-> hand[p].tag]]
    BY <1>3 DEF PassOn
  <2> PICK event \in {hand[p].event, claim} :
         hand' = [hand EXCEPT ![q] =
                    [event |-> event, payload |-> claim, tag |-> hand[p].tag]]
    OBVIOUS
  <2> DEFINE copy == [event |-> event, payload |-> claim, tag |-> hand[p].tag]
  <2>1. hand[p] \in Decision /\ SignedSoundly(hand[p])
    BY <1>0, <1>3 DEF PassOn
  <2>2. claim \in Payload
    BY <2>1, ClaimsAssumption DEF Decision
  <2>3. copy \in Decision
    BY <2>1, <2>2 DEF Decision
  <2>4. SignedSoundly(copy)
    BY <2>1 DEF SignedSoundly
  <2> QED
    BY <1>1, <2>3, <2>4
<1>4. ASSUME NEW p \in Procs, NEW action \in Actions, NEW s \in Sources,
             ReadCheck(p, action, s)
      PROVE  /\ hand' \in [Procs -> Decision \cup {None}]
             /\ SignaturesAreGranted'
  BY <1>0, <1>1, <1>4, ReadIsSound DEF ReadCheck
<1>5. ASSUME NEW p \in Procs, Read(p)
      PROVE  /\ hand' \in [Procs -> Decision \cup {None}]
             /\ SignaturesAreGranted'
  BY <1>0, <1>5 DEF Read, SignedSoundly
<1>6. CASE UNCHANGED hand
  BY <1>0, <1>6 DEF SignedSoundly
<1>7. ASSUME NEW p \in Procs,
             \/ RecordCheck(p) \/ Record(p) \/ ReadRecord(p)
             \/ PrepareCheck(p) \/ Prepare(p) \/ Fail(p) \/ Restart(p)
      PROVE  UNCHANGED hand
  BY <1>7 DEF RecordCheck, Record, ReadRecord, PrepareCheck, Prepare, Fail, Restart
<1>8. ASSUME NEW s \in Sources, Revoke(s)
      PROVE  UNCHANGED hand
  BY <1>8 DEF Revoke
<1>9. CASE UNCHANGED vars
  BY <1>6, <1>9 DEF vars
<1> QED
  BY <1>2, <1>3, <1>4, <1>5, <1>6, <1>7, <1>8, <1>9 DEF Next, Act

\* What a step does to the tables: nothing, or one row, or a revocation.
LEMMA TablesStep ==
  ASSUME PolicyInvariant, [Next]_vars
  PROVE  \/ UNCHANGED <<live, tables, spoiled>>
         \/ \E p \in Procs :
              /\ pc[p] \in {"recording", "evidencing"}
              /\ Insert(p)
              /\ UNCHANGED <<live, workflows>>
         \/ \E p \in Procs : Prepare(p)
         \/ \E s \in Sources : Revoke(s)
<1>1. ASSUME NEW p \in Procs,
             \/ RecordCheck(p) \/ Read(p) \/ PrepareCheck(p) \/ Fail(p) \/ Restart(p)
      PROVE  UNCHANGED <<live, tables, spoiled>>
  BY <1>1 DEF RecordCheck, Read, PrepareCheck, Fail, Restart
<1>2. ASSUME NEW p \in Procs, NEW op \in Operations, Evaluate(p, op)
      PROVE  UNCHANGED <<live, tables, spoiled>>
  BY <1>2 DEF Evaluate
<1>3. ASSUME NEW p \in Procs, NEW action \in Actions, NEW s \in Sources,
             ReadCheck(p, action, s)
      PROVE  UNCHANGED <<live, tables, spoiled>>
  BY <1>3 DEF ReadCheck
<1>4. ASSUME NEW p \in Procs, NEW q \in Procs, PassOn(p, q)
      PROVE  UNCHANGED <<live, tables, spoiled>>
  BY <1>4 DEF PassOn
<1>5. ASSUME NEW p \in Procs, Record(p) \/ ReadRecord(p)
      PROVE  /\ pc[p] \in {"recording", "evidencing"}
             /\ Insert(p)
             /\ UNCHANGED <<live, workflows>>
  BY <1>5 DEF Record, ReadRecord
<1>6. CASE UNCHANGED vars
  BY <1>6 DEF vars
<1> QED
  BY <1>1, <1>2, <1>3, <1>4, <1>5, <1>6 DEF Next, Act

\* What an insert does: nothing when the event is known, else it adds a row,
\* of a source that is there.
LEMMA InsertStep ==
  ASSUME TypeOK, NEW p \in Procs, hand[p] \in Decision, Insert(p)
  PROVE  /\ audit \subseteq audit' /\ spoiled \subseteq spoiled'
         /\ audit' \subseteq Evidence /\ spoiled' \subseteq Payload
         /\ \A e \in audit' \ audit :
              /\ e.payload.op.source \in live
              /\ e.payload = e.event \/ e.event \in spoiled'
         /\ \E e \in audit' : e.event = hand[p].event
<1> DEFINE row == RowOf(hand[p])
<1>1. /\ row \in Evidence
      /\ row.event = hand[p].event /\ row.payload = hand[p].payload
      /\ row.event \in Payload
  BY DEF RowOf, Evidence, Decision
<1>2. SourceAt(p) = row.payload.op.source
  BY <1>1 DEF SourceAt
<1>3. CASE \E e \in audit : e.event = row.event
  <2>1. UNCHANGED <<audit, spoiled>>
    BY <1>3 DEF Insert
  <2> QED
    BY <1>1, <1>3, <2>1 DEF TypeOK
<1>4. CASE ~\E e \in audit : e.event = row.event
  <2>1. /\ SourceAt(p) \in live
        /\ audit' = audit \cup {row}
        /\ spoiled' = IF row.payload = row.event THEN spoiled
                      ELSE spoiled \cup {row.event}
    BY <1>4 DEF Insert, ForeignKey
  <2> HIDE DEF row
  <2> QED
    BY <1>1, <1>2, <2>1 DEF TypeOK
<1> QED
  BY <1>3, <1>4

LEMMA EvidenceStep ==
  ASSUME PolicyInvariant, [Next]_vars
  PROVE  /\ audit' \subseteq Evidence /\ spoiled' \subseteq Payload
         /\ \A e \in audit' : e.payload.op.source \in live'
         /\ SpoiledAreKnown'
<1>0. /\ TypeOK /\ SpoiledAreKnown
      /\ \A e \in audit : e.payload.op.source \in live
      /\ \A p \in Procs : pc[p] # "idle" => hand[p] \in Decision
  BY DEF PolicyInvariant, HandFitsItsStage, TypeOK, NothingOutlivesItsSource
<1> USE DEF SpoiledAreKnown
<1>1. CASE UNCHANGED <<live, audit, spoiled>>
  BY <1>0, <1>1 DEF TypeOK
<1>2. ASSUME NEW p \in Procs, pc[p] \in {"recording", "evidencing"}, Insert(p),
             UNCHANGED <<live, workflows>>
      PROVE  /\ audit' \subseteq Evidence /\ spoiled' \subseteq Payload
             /\ \A e \in audit' : e.payload.op.source \in live'
             /\ SpoiledAreKnown'
  <2>1. hand[p] \in Decision
    BY <1>0, <1>2
  <2>2. /\ audit' \subseteq Evidence /\ spoiled' \subseteq Payload
        /\ spoiled \subseteq spoiled'
        /\ \A e \in audit' \ audit :
             /\ e.payload.op.source \in live
             /\ e.payload = e.event \/ e.event \in spoiled'
    BY <1>0, <1>2, <2>1, InsertStep
  <2> QED
    BY <1>0, <1>2, <2>2
<1>3. ASSUME NEW p \in Procs, Prepare(p)
      PROVE  UNCHANGED <<live, audit, spoiled>>
  BY <1>3 DEF Prepare
<1>4. ASSUME NEW s \in Sources, Revoke(s)
      PROVE  /\ audit' \subseteq Evidence /\ spoiled' \subseteq Payload
             /\ \A e \in audit' : e.payload.op.source \in live'
             /\ SpoiledAreKnown'
  BY <1>0, <1>4 DEF Revoke, TypeOK
<1> QED
  BY <1>1, <1>2, <1>3, <1>4, TablesStep

LEMMA WorkflowStep ==
  ASSUME PolicyInvariant, [Next]_vars
  PROVE  /\ workflows' \subseteq Workflow
         /\ WorkflowsWereGranted'
         /\ \A w \in workflows' : w.op.source \in live'
<1>0. /\ TypeOK /\ WorkflowsWereGranted /\ SignaturesAreGranted
      /\ \A w \in workflows : w.op.source \in live
      /\ \A p \in Procs : HandFitsItsStage(p)
  BY DEF PolicyInvariant, NothingOutlivesItsSource
<1> USE DEF WorkflowsWereGranted
<1>1. CASE UNCHANGED <<live, workflows>>
  BY <1>0, <1>1 DEF TypeOK
<1>2. ASSUME NEW p \in Procs, Prepare(p)
      PROVE  /\ workflows' \subseteq Workflow
             /\ WorkflowsWereGranted'
             /\ \A w \in workflows' : w.op.source \in live'
  <2> DEFINE decision == hand[p]
             payload == hand[p].payload
             state == IF payload.status = "require_confirmation"
                        THEN "awaiting_confirmation" ELSE "ready"
             granted == decision.tag.granted /\ decision.tag.payload.op = payload.op
             row == [op |-> payload.op, state |-> state, granted |-> granted]
  <2>1. /\ decision # None
        /\ decision.tag.payload = payload
        /\ payload.status # "deny"
        /\ ~ReadOnly(payload.op)
    BY <1>0, <1>2 DEF Prepare, HandFitsItsStage
  <2>2. decision \in Decision /\ SignedSoundly(decision)
    BY <1>0, <2>1 DEF TypeOK, SignaturesAreGranted
  <2>3. payload \in Payload /\ payload.op \in Operation /\ payload.op.action \in Actions
    BY <2>2 DEF Decision, Payload, Operation
  <2>4. /\ granted
        /\ payload.op.key \in Keys
        /\ payload.status = "require_confirmation" <=>
             RiskOf[payload.op.action] = "destructive"
    BY <2>1, <2>2 DEF SignedSoundly
  <2>5. RiskOf[payload.op.action] \in Risks /\ RiskOf[payload.op.action] # "read_only"
    BY <2>1, <2>3, RiskAssumption DEF ReadOnly
  <2>6. row \in Workflow
    BY <2>3, <2>4 DEF Workflow
  <2>7. RiskOf[payload.op.action] =
          IF state = "awaiting_confirmation" THEN "destructive" ELSE "reversible"
    BY <2>4, <2>5 DEF Risks
  <2>8. workflows' = workflows \cup {row} /\ live' = live
    BY <1>2 DEF Prepare
  <2>9. payload.op.source \in live
    BY <1>2 DEF Prepare, ForeignKey, SourceAt
  <2>10. /\ row.op = payload.op
         /\ row.state = state
         /\ row.granted = granted
    OBVIOUS
  <2> HIDE DEF row, state, granted, payload
  <2> QED
    BY <1>0, <2>4, <2>6, <2>7, <2>8, <2>9, <2>10 DEF TypeOK
<1>3. ASSUME NEW s \in Sources, Revoke(s)
      PROVE  /\ workflows' \subseteq Workflow
             /\ WorkflowsWereGranted'
             /\ \A w \in workflows' : w.op.source \in live'
  BY <1>0, <1>3 DEF Revoke, TypeOK
<1> QED
  BY <1>1, <1>2, <1>3, TablesStep

\* Evidence once recorded is there until its source is gone.
LEMMA EvidenceStays ==
  ASSUME PolicyInvariant, [Next]_vars
  PROVE  /\ live' \subseteq live /\ spoiled \subseteq spoiled'
         /\ \A e \in audit : e.payload.op.source \in live' => e \in audit'
<1>1. ASSUME NEW p \in Procs, pc[p] \in {"recording", "evidencing"}, Insert(p)
      PROVE  audit \subseteq audit' /\ spoiled \subseteq spoiled'
  BY <1>1, InsertStep DEF PolicyInvariant, HandFitsItsStage, TypeOK
<1>2. live' \subseteq live
  BY TablesStep DEF Prepare, Revoke
<1>3. spoiled \subseteq spoiled'
  BY <1>1, TablesStep DEF Prepare, Revoke
<1>4. \A e \in audit : e.payload.op.source \in live' => e \in audit'
  BY <1>1, TablesStep DEF Prepare, Revoke
<1> QED
  BY <1>2, <1>3, <1>4

\* So it is there when what was read is returned.
LEMMA ReadStep ==
  ASSUME PolicyInvariant, [Next]_vars
  PROVE  /\ served' \subseteq Actions \X Sources
         /\ ReadsLeaveEvidence'
<1>0. /\ TypeOK /\ ReadsLeaveEvidence
      /\ \A p \in Procs : HandFitsItsStage(p)
  BY DEF PolicyInvariant
<1> USE DEF ReadsLeaveEvidence
<1>1. live' \subseteq live
  BY EvidenceStays
<1>2. /\ spoiled \subseteq spoiled'
      /\ \A e \in audit : e.payload.op.source \in live' => e \in audit'
  BY EvidenceStays
<1>3. ASSUME NEW read \in served, read[2] \in live'
      PROVE  \/ EvidenceOf(ReadVerdict(read[1], read[2])) \in audit'
             \/ ReadVerdict(read[1], read[2]) \in spoiled'
  <2>1. \/ EvidenceOf(ReadVerdict(read[1], read[2])) \in audit
        \/ ReadVerdict(read[1], read[2]) \in spoiled
    BY <1>0, <1>1, <1>3
  <2>2. EvidenceOf(ReadVerdict(read[1], read[2])).payload.op.source = read[2]
    BY DEF EvidenceOf, ReadVerdict, Judged
  <2> QED
    BY <1>2, <1>3, <2>1, <2>2
<1>4. CASE UNCHANGED served
  BY <1>0, <1>3, <1>4 DEF TypeOK
<1>5. ASSUME NEW p \in Procs, Read(p)
      PROVE  /\ served' \subseteq Actions \X Sources
             /\ ReadsLeaveEvidence'
  <2> DEFINE action == hand[p].payload.op.action
             s == hand[p].payload.op.source
  <2>1. hand[p] \in Decision /\ hand[p].payload = ReadVerdict(action, s)
    BY <1>0, <1>5 DEF Read, HandFitsItsStage, TypeOK, SourceAt
  <2>2. <<action, s>> \in Actions \X Sources
    BY <2>1 DEF Decision, Payload, Operation
  <2>3. s \in live =>
          EvidenceOf(ReadVerdict(action, s)) \in audit \/ ReadVerdict(action, s) \in spoiled
    BY <1>0, <1>5, <2>1 DEF Read, HandFitsItsStage, SourceAt
  <2>4. audit' = audit /\ live' = live /\ spoiled' = spoiled
    BY <1>5 DEF Read
  <2>5. served' = IF s \in live THEN served \cup {<<action, s>>} ELSE served
    BY <1>5 DEF Read, SourceAt
  <2> HIDE DEF action, s
  <2>6. <<action, s>>[1] = action /\ <<action, s>>[2] = s
    OBVIOUS
  <2> QED
    BY <1>0, <2>2, <2>3, <2>4, <2>5, <2>6 DEF TypeOK
<1>6. ASSUME NEW p \in Procs,
             \/ RecordCheck(p) \/ Record(p) \/ ReadRecord(p)
             \/ PrepareCheck(p) \/ Prepare(p) \/ Fail(p) \/ Restart(p)
      PROVE  UNCHANGED served
  BY <1>6 DEF RecordCheck, Record, ReadRecord, PrepareCheck, Prepare, Fail, Restart
<1>7. ASSUME NEW p \in Procs, NEW q \in Procs, PassOn(p, q)
      PROVE  UNCHANGED served
  BY <1>7 DEF PassOn
<1>8. ASSUME NEW p \in Procs, NEW op \in Operations, Evaluate(p, op)
      PROVE  UNCHANGED served
  BY <1>8 DEF Evaluate
<1>9. ASSUME NEW p \in Procs, NEW action \in Actions, NEW s \in Sources,
             ReadCheck(p, action, s)
      PROVE  UNCHANGED served
  BY <1>9 DEF ReadCheck
<1>10. ASSUME NEW s \in Sources, Revoke(s)
       PROVE  UNCHANGED served
  BY <1>10 DEF Revoke
<1>11. CASE UNCHANGED vars
  BY <1>4, <1>11 DEF vars
<1> QED
  BY <1>4, <1>5, <1>6, <1>7, <1>8, <1>9, <1>10, <1>11 DEF Next, Act

\* A process goes on to insert only with a decision it checked, and what it
\* checked of its decision stays true.
LEMMA StageStep ==
  ASSUME PolicyInvariant, [Next]_vars, NEW q \in Procs
  PROVE  HandFitsItsStage(q)'
<1>0. /\ TypeOK
      /\ HandFitsItsStage(q)
      /\ hand[q] # None => hand[q] \in Decision
      /\ live' \subseteq live
      /\ spoiled \subseteq spoiled'
      /\ \A e \in audit : e.payload.op.source \in live' => e \in audit'
  BY EvidenceStays DEF PolicyInvariant, TypeOK
<1> USE DEF HandFitsItsStage, SourceAt
<1>1. CASE pc'[q] = pc[q] /\ hand'[q] = hand[q]
  <2>1. EvidenceOf(hand[q].payload).payload = hand[q].payload
    BY DEF EvidenceOf
  <2>2. EvidenceOf(hand[q].payload) \in audit /\ hand[q].payload.op.source \in live' =>
          EvidenceOf(hand[q].payload) \in audit'
    BY <1>0, <2>1
  <2> QED
    BY <1>0, <1>1, <2>2
<1>2. CASE pc'[q] = "idle"
  BY <1>2
<1>3. CASE RecordCheck(q)
  BY <1>0, <1>3 DEF RecordCheck, GoTo, TypeOK
<1>4. ASSUME NEW action \in Actions, NEW s \in Sources, ReadCheck(q, action, s)
      PROVE  HandFitsItsStage(q)'
  <2>1. pc'[q] = "evidencing" /\ hand'[q] = Signed(q, ReadVerdict(action, s), TRUE)
    BY <1>0, <1>4 DEF ReadCheck, GoTo, TypeOK
  <2>2. hand'[q] # None
    BY <1>0, <1>4, <2>1, ReadIsSound, NoneAssumption DEF ReadCheck
  <2>3. hand'[q].payload = ReadVerdict(action, s) /\ hand'[q].event = hand'[q].payload
    BY <2>1 DEF Signed
  <2>4. hand'[q].payload =
          ReadVerdict(hand'[q].payload.op.action, hand'[q].payload.op.source)
    BY <2>3 DEF ReadVerdict, Judged
  <2> QED
    BY <2>1, <2>2, <2>3, <2>4
<1>5. CASE ReadRecord(q)
  <2> DEFINE payload == hand[q].payload
  <2>1. /\ pc[q] = "evidencing" /\ pc'[q] = "reading"
        /\ hand'[q] = hand[q] /\ hand[q] \in Decision
        /\ hand[q].event = payload
    BY <1>0, <1>5 DEF ReadRecord, GoTo, TypeOK
  <2>2. PICK e \in audit' : e.event = payload
    BY <1>0, <1>5, <2>1, InsertStep DEF ReadRecord
  <2>3. e.payload = e.event \/ e.event \in spoiled'
    BY EvidenceStep DEF SpoiledAreKnown
  <2>4. e \in Evidence
    BY EvidenceStep
  <2>5. EvidenceOf(payload) \in audit' \/ payload \in spoiled'
    BY <2>2, <2>3, <2>4 DEF EvidenceOf, Evidence
  <2> QED
    BY <1>0, <2>1, <2>5
<1>6. CASE PrepareCheck(q)
  <2>1. /\ pc'[q] = "preparing" /\ hand'[q] = hand[q]
        /\ hand[q] # None
        /\ hand[q].tag.payload = hand[q].payload
        /\ hand[q].payload.status # "deny"
        /\ ~ReadOnly(hand[q].payload.op)
    BY <1>0, <1>6 DEF PrepareCheck, Verified, ReadOnly, GoTo, TypeOK
  <2> QED
    BY <2>1
<1>7. CASE Record(q) \/ Read(q) \/ Prepare(q) \/ Fail(q) \/ Restart(q)
  BY <1>0, <1>2, <1>7 DEF Record, Read, Prepare, Fail, Restart, GoTo, TypeOK
<1>8. ASSUME NEW op \in Operations, Evaluate(q, op)
      PROVE  pc'[q] = "idle"
  BY <1>8 DEF Evaluate
<1>9. ASSUME NEW p \in Procs, PassOn(p, q)
      PROVE  pc'[q] = "idle"
  BY <1>9 DEF PassOn
<1>10. ASSUME NEW p \in Procs, p # q, Act(p)
       PROVE  pc'[q] = pc[q] /\ hand'[q] = hand[q]
  <2>1. ASSUME NEW op \in Operations, Evaluate(p, op)
        PROVE  pc'[q] = pc[q] /\ hand'[q] = hand[q]
    BY <1>0, <1>10, <2>1 DEF Evaluate, TypeOK
  <2>2. ASSUME NEW action \in Actions, NEW s \in Sources, ReadCheck(p, action, s)
        PROVE  pc'[q] = pc[q] /\ hand'[q] = hand[q]
    BY <1>0, <1>10, <2>2 DEF ReadCheck, GoTo, TypeOK
  <2>3. CASE \/ RecordCheck(p) \/ Record(p) \/ ReadRecord(p) \/ Read(p)
             \/ PrepareCheck(p) \/ Prepare(p) \/ Fail(p) \/ Restart(p)
    BY <1>0, <1>10, <2>3
       DEF RecordCheck, Record, ReadRecord, Read, PrepareCheck, Prepare, Fail,
           Restart, GoTo, TypeOK
  <2> QED
    BY <1>10, <2>1, <2>2, <2>3 DEF Act
<1>11. ASSUME NEW p \in Procs, NEW r \in Procs, r # q, PassOn(p, r)
       PROVE  pc'[q] = pc[q] /\ hand'[q] = hand[q]
  BY <1>0, <1>11 DEF PassOn, TypeOK
<1>12. ASSUME NEW s \in Sources, Revoke(s)
       PROVE  pc'[q] = pc[q] /\ hand'[q] = hand[q]
  BY <1>12 DEF Revoke
<1>13. CASE UNCHANGED vars
  BY <1>1, <1>13 DEF vars
<1>14. CASE Act(q)
  BY <1>2, <1>3, <1>4, <1>5, <1>6, <1>7, <1>8, <1>14 DEF Act
<1> HIDE DEF HandFitsItsStage
<1> QED
  BY <1>1, <1>2, <1>9, <1>10, <1>11, <1>12, <1>13, <1>14 DEF Next

\* The rest of the types.
LEMMA TypeStep ==
  ASSUME PolicyInvariant, [Next]_vars
  PROVE  /\ live' \subseteq Sources
         /\ engine' \in [Procs -> Nat] /\ engines' \in Nat
         /\ pc' \in [Procs -> Stages]
<1>0. TypeOK
  BY DEF PolicyInvariant
<1>1. live' \subseteq Sources
  BY <1>0, EvidenceStays DEF TypeOK
<1>2. ASSUME NEW p \in Procs, NEW stage \in Stages, GoTo(p, stage)
      PROVE  pc' \in [Procs -> Stages]
  BY <1>0, <1>2 DEF GoTo, TypeOK
<1>3. ASSUME NEW p \in Procs, Restart(p)
      PROVE  /\ engine' \in [Procs -> Nat] /\ engines' \in Nat
             /\ pc' \in [Procs -> Stages]
  BY <1>0, <1>2, <1>3 DEF Restart, TypeOK, Stages
<1>4. ASSUME NEW p \in Procs, NEW op \in Operations, Evaluate(p, op)
      PROVE  UNCHANGED <<engineVars, pc>>
  BY <1>4 DEF Evaluate
<1>5. ASSUME NEW p \in Procs, NEW q \in Procs, PassOn(p, q)
      PROVE  UNCHANGED <<engineVars, pc>>
  BY <1>5 DEF PassOn
<1>6. ASSUME NEW p \in Procs, NEW action \in Actions, NEW s \in Sources,
             ReadCheck(p, action, s)
      PROVE  UNCHANGED engineVars /\ pc' \in [Procs -> Stages]
  BY <1>2, <1>6 DEF ReadCheck, Stages
<1>7. ASSUME NEW p \in Procs,
             \/ RecordCheck(p) \/ Record(p) \/ ReadRecord(p) \/ Read(p)
             \/ PrepareCheck(p) \/ Prepare(p) \/ Fail(p)
      PROVE  UNCHANGED engineVars /\ pc' \in [Procs -> Stages]
  BY <1>2, <1>7 DEF RecordCheck, Record, ReadRecord, Read, PrepareCheck, Prepare,
                    Fail, Stages
<1>8. ASSUME NEW s \in Sources, Revoke(s)
      PROVE  UNCHANGED <<engineVars, pc>>
  BY <1>8 DEF Revoke
<1>9. CASE UNCHANGED vars
  BY <1>0, <1>1, <1>9 DEF vars, TypeOK
<1> QED
  BY <1>0, <1>1, <1>3, <1>4, <1>5, <1>6, <1>7, <1>8, <1>9 DEF Next, Act, TypeOK

THEOREM InvariantHolds == Spec => []PolicyInvariant
<1>1. ASSUME PolicyInvariant, [Next]_vars
      PROVE  PolicyInvariant'
  <2>1. TypeOK'
    BY <1>1, HandStep, EvidenceStep, WorkflowStep, ReadStep, TypeStep
       DEF TypeOK
  <2>2. \A p \in Procs : HandFitsItsStage(p)'
    BY <1>1, StageStep
  <2>3. NothingOutlivesItsSource'
    BY <1>1, EvidenceStep, WorkflowStep DEF NothingOutlivesItsSource
  <2> QED
    BY <1>1, <2>1, <2>2, <2>3, HandStep, EvidenceStep, WorkflowStep, ReadStep
       DEF PolicyInvariant
<1> QED
  BY <1>1, InitInvariant, PTL DEF Spec

----------------------------------------------------------------------------
(* What the policy promises, for any number of processes, sources and       *)
(* requests                                                                *)

\* The tables, the decisions under way and the history have their types.
THEOREM TypeCorrect == Spec => []TypeOK
<1>1. PolicyInvariant => TypeOK
  BY DEF PolicyInvariant
<1> QED
  BY <1>1, InvariantHolds, PTL

\* ActionWorkflow.prepare inserts a workflow only of what evaluate granted by
\* the permission of every authority, with a key, whoever presents the
\* decision, altered or not, and after however many restarts.
THEOREM WorkflowsAreGranted == Spec => []WorkflowsWereGranted
<1>1. PolicyInvariant => WorkflowsWereGranted
  BY DEF PolicyInvariant
<1> QED
  BY <1>1, InvariantHolds, PTL

\* What search, ask and source_preview returned of a source that is there is
\* in the audit table, for _authorize_read recorded it before; unless the
\* event id of the read was used before, by a caller of
\* record_agent_decision, for something else.
THEOREM ReadsAreEvidenced == Spec => []ReadsLeaveEvidence
<1>1. PolicyInvariant => ReadsLeaveEvidence
  BY DEF PolicyInvariant
<1> QED
  BY <1>1, InvariantHolds, PTL

\* A row of the audit or the workflow table that is inserted around
\* revoke_source is refused by the foreign key or deleted by the cascade.
THEOREM RevocationTakesEverything == Spec => []NothingOutlivesItsSource
<1>1. PolicyInvariant => NothingOutlivesItsSource
  BY DEF PolicyInvariant
<1> QED
  BY <1>1, InvariantHolds, PTL
=============================================================================
