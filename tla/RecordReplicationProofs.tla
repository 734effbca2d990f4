---------------------- MODULE RecordReplicationProofs -----------------------
(***************************************************************************)
(* Proofs about RecordReplication, for every choice of its constants.      *)
(***************************************************************************)
EXTENDS RecordReplication, TLAPS

-----------------------------------------------------------------------------
(* The inductive invariant *)

\* Every change took one sequence number, and every number went to a change.
SequencesInStep ==
    /\ Len(changes) = nextSequence
    /\ \A e \in Entity : records[e].sequence <= nextSequence
    /\ \A v \in versions : v.sequence <= nextSequence

\* A record that is not there is not deleted; one that is live has a payload.
RecordsWellFormed ==
    \A e \in Entity :
        /\ records[e].revision = 0 => ~records[e].deleted
        /\ Live(records[e]) => records[e].payload \in Payload

\* One version per revision of an entity.
VersionsUnique ==
    \A v, w \in versions :
        v.entity = w.entity /\ v.revision = w.revision => v = w

IInv ==
    /\ TypeOK
    /\ SequencesInStep
    /\ RecordsWellFormed
    /\ VersionsUnique
    /\ RecordIsLatestVersion

-----------------------------------------------------------------------------
(* Operators *)

\* A request is typed, is about its entity, and carries a payload unless it
\* deletes.
LEMMA OperationsOnType ==
    ASSUME TypeOK, NEW e \in Entity, NEW op \in OperationsOn(e)
    PROVE  /\ op \in Operation
           /\ op.entity = e
           /\ op.kind # "delete" => op.payload \in Payload
<1>1. records[e].revision \in Nat
  BY SMT DEF TypeOK, Record
<1>2. {k.id : k \in conflicts} \subseteq Nat
  BY DEF TypeOK, Conflict
<1>3. CategoryOf[e] \in Category /\ DeleteCategories[e] \subseteq Category
  BY ConstantAssumption
<1>4. QED
  BY <1>1, <1>2, <1>3 DEF OperationsOn, Operation, NullablePayload

\* Merging payloads gives a payload, because the current one is there.
LEMMA MergedPayloadType ==
    ASSUME NEW base, NEW current \in Payload, NEW incoming \in Payload
    PROVE  MergedPayload(base, current, incoming) \in Payload
BY ConstantAssumption DEF MergedPayload, FieldOf, Payload

-----------------------------------------------------------------------------
(* What a step does: it writes one revision, or retains one operation *)

\* The payload of the next revision of e respects what e became after base:
\* the base is the current revision, or the current live content was merged
\* with the incoming one, or e is declared last-writer-wins.
RespectsBase(e, base, payload) ==
    \/ Policy[e] = "lww"
    \/ base = records[e].revision
    \/ /\ ~records[e].deleted
       /\ \E b \in VersionsAt(e, base), incoming \in Payload :
            payload = MergedPayload(b.payload, records[e].payload, incoming)

AcceptStep ==
    \E source \in (Client \X OperationId) \union {ServerOperation}, e \in Entity,
       cat \in Category, base \in Nat, payload \in NullablePayload, deleted \in BOOLEAN :
        /\ Accept(source, e, cat, base, payload, deleted)
        /\ ~deleted => payload \in Payload
        /\ RespectsBase(e, base, payload)
        /\ operations' \subseteq Outcome
        /\ conflicts' \subseteq Conflict

RetainStep ==
    \E op \in Operation :
        /\ Retain(op)
        /\ operations' \subseteq Outcome

LEMMA MarkResolvedType ==
    ASSUME TypeOK, NEW k \in conflicts, MarkResolved(k)
    PROVE  conflicts' \subseteq Conflict
<1>1. k \in Conflict
  BY DEF TypeOK
<1>2. records[k.entity].revision \in Nat
  BY <1>1 DEF TypeOK, Record, Conflict
<1>3. ASSUME NEW row \in Conflict, NEW n \in Nat
      PROVE  [row EXCEPT !.resolutionRevision = n] \in Conflict
  BY DEF Conflict
<1>4. [k EXCEPT !.status = "resolved"] \in Conflict
  BY <1>1 DEF Conflict
<1>5. records[k.entity].revision + 1 \in Nat
  BY <1>2
<1>6. [k EXCEPT !.status = "resolved",
               !.resolutionRevision = records[k.entity].revision + 1] \in Conflict
  BY <1>3, <1>4, <1>5, Zenon
<1>7. QED
  BY <1>6, Zenon DEF TypeOK, MarkResolved

LEMMA AnswerType ==
    ASSUME TypeOK, NEW client \in Client, NEW op \in Operation,
           NEW status \in {"accepted", "conflict"}, Answer(client, op, status)
    PROVE  operations' \subseteq Outcome
<1>1. nextSequence + 1 \in Nat \ {0}
  BY DEF TypeOK
<1>2. QED
  BY <1>1 DEF TypeOK, Answer, Outcome

\* Accepting an operation is an accept step, whatever becomes of the conflicts.
LEMMA AcceptOperationStep ==
    ASSUME TypeOK, NEW client \in Client, NEW op \in Operation,
           NEW payload \in NullablePayload, NEW deleted \in BOOLEAN,
           ~deleted => payload \in Payload,
           RespectsBase(op.entity, op.baseRevision, payload),
           AcceptOperation(client, op, payload, deleted),
           conflicts' \subseteq Conflict
    PROVE  AcceptStep
<1>1. operations' \subseteq Outcome
  BY AnswerType DEF AcceptOperation
<1>2. /\ <<client, op.operationId>> \in (Client \X OperationId) \union {ServerOperation}
      /\ op.entity \in Entity
      /\ op.category \in Category
      /\ op.baseRevision \in Nat
  BY DEF Operation
<1>3. Accept(<<client, op.operationId>>, op.entity, op.category,
             op.baseRevision, payload, deleted)
  BY DEF AcceptOperation
<1>4. QED
  BY <1>1, <1>2, <1>3 DEF AcceptStep

LEMMA ApplyOperationEffect ==
    ASSUME IInv, NEW client \in Client, NEW op \in Operation,
           op.kind # "delete" => op.payload \in Payload,
           ApplyOperation(client, op)
    PROVE  AcceptStep \/ RetainStep
<1> DEFINE e == op.entity
<1>1. TypeOK /\ e \in Entity /\ records[e] \in Record /\ op.baseRevision \in Nat
  BY DEF IInv, TypeOK, Operation
<1>2. records[e].payload \in NullablePayload
  BY <1>1 DEF Record
<1>3. ASSUME RetainOperation(client, op)
      PROVE  RetainStep
  <2>1. operations' \subseteq Outcome
    BY <1>1, <1>3, AnswerType DEF RetainOperation
  <2>2. QED
    BY <1>3, <2>1 DEF RetainOperation, RetainStep
<1>4. UNCHANGED conflicts => conflicts' \subseteq Conflict
  BY <1>1 DEF TypeOK
<1>5. CASE ApplyCurrent(client, op)
  <2> DEFINE payload == IF op.kind = "delete" THEN records[e].payload ELSE op.payload
  <2>1. payload \in NullablePayload /\ (op.kind # "delete" => payload \in Payload)
    BY <1>2 DEF NullablePayload
  <2>2. RespectsBase(e, op.baseRevision, payload)
    BY <1>5 DEF ApplyCurrent, IsStale, RespectsBase
  <2>3. AcceptOperation(client, op, payload, op.kind = "delete") /\ UNCHANGED conflicts
    BY <1>5 DEF ApplyCurrent
  <2>4. (op.kind = "delete") \in BOOLEAN
    OBVIOUS
  <2>5. QED
    BY <1>1, <1>4, <2>1, <2>2, <2>3, <2>4, AcceptOperationStep
<1>6. CASE ApplyStale(client, op)
  <2>1. CASE /\ LastWriterWins(op)
             /\ AcceptOperation(client, op, op.payload, FALSE)
             /\ UNCHANGED conflicts
    <3>1. op.payload \in Payload /\ op.payload \in NullablePayload
      BY <2>1 DEF LastWriterWins, NullablePayload
    <3>2. RespectsBase(e, op.baseRevision, op.payload)
      BY <2>1 DEF LastWriterWins, RespectsBase
    <3>3. QED
      BY <1>1, <1>4, <2>1, <3>1, <3>2, AcceptOperationStep
  <2>2. ASSUME NEW base \in MergeBases(op),
               AcceptOperation(client, op,
                   MergedPayload(base.payload, records[e].payload, op.payload), FALSE),
               UNCHANGED conflicts
        PROVE  AcceptStep
    <3>1. /\ op.kind # "delete"
          /\ ~records[e].deleted
          /\ base \in VersionsAt(e, op.baseRevision)
      BY <2>2 DEF MergeBases
    <3>2. records[e].revision > 0
      BY <1>1, <3>1 DEF IInv, TypeOK, RecordIsLatestVersion, VersionsAt, Version, Record
    <3>3. records[e].payload \in Payload
      BY <1>1, <3>1, <3>2 DEF IInv, RecordsWellFormed, Live
    <3>4. MergedPayload(base.payload, records[e].payload, op.payload) \in Payload
      BY <3>1, <3>3, MergedPayloadType
    <3>5. RespectsBase(e, op.baseRevision,
              MergedPayload(base.payload, records[e].payload, op.payload))
      BY <3>1 DEF RespectsBase
    <3>6. QED
      BY <1>1, <1>4, <2>2, <3>4, <3>5, AcceptOperationStep DEF NullablePayload
  <2>3. QED
    BY <1>3, <1>6, <2>1, <2>2 DEF ApplyStale
<1>7. CASE ResolveConflict(client, op)
  <2>1. PICK k \in conflicts :
          /\ k.entity = e
          /\ \/ /\ ResolutionCurrent(op, k)
                /\ AcceptOperation(client, op, op.payload, FALSE)
                /\ MarkResolved(k)
             \/ RetainOperation(client, op)
    BY <1>7 DEF ResolveConflict
  <2>2. ASSUME ResolutionCurrent(op, k), MarkResolved(k),
               AcceptOperation(client, op, op.payload, FALSE)
        PROVE  AcceptStep
    <3>1. op.payload \in Payload /\ op.payload \in NullablePayload
      BY <1>7 DEF ResolveConflict, NullablePayload
    <3>2. RespectsBase(e, op.baseRevision, op.payload)
      BY <2>1, <2>2 DEF ResolutionCurrent, RespectsBase
    <3>3. conflicts' \subseteq Conflict
      BY <1>1, <2>2, MarkResolvedType
    <3>4. QED
      BY <1>1, <2>2, <3>1, <3>2, <3>3, AcceptOperationStep
  <2>3. QED
    BY <1>3, <2>1, <2>2
<1>8. QED
  BY <1>5, <1>6, <1>7 DEF ApplyOperation

LEMMA NextEffect ==
    ASSUME IInv, Next
    PROVE  AcceptStep \/ RetainStep \/ UNCHANGED vars
<1>1. TypeOK
  BY DEF IInv
<1>2. ASSUME NEW client \in Client, Push(client)
      PROVE  AcceptStep \/ RetainStep
  <2>1. PICK e \in Entity : \E op \in OperationsOn(e) : ApplyOperation(client, op)
    BY <1>2 DEF Push
  <2>2. PICK op \in OperationsOn(e) : ApplyOperation(client, op)
    BY <2>1
  <2>3. QED
    BY <1>1, <2>2, OperationsOnType, ApplyOperationEffect
<1>3. ASSUME NEW client \in Client, Restore(client)
      PROVE  AcceptStep \/ RetainStep
  <2>0. PICK t \in versions, id \in OperationId :
          /\ t.payload # NoPayload
          /\ \E base \in 0 .. t.revision : ApplyOperation(client,
                [operationId |-> id, entity |-> t.entity,
                 category |-> CategoryOf[t.entity], baseRevision |-> base,
                 kind |-> "upsert", payload |-> t.payload, conflictId |-> 0])
    BY <1>3 DEF Restore
  <2>1. PICK base \in 0 .. t.revision : ApplyOperation(client,
                [operationId |-> id, entity |-> t.entity,
                 category |-> CategoryOf[t.entity], baseRevision |-> base,
                 kind |-> "upsert", payload |-> t.payload, conflictId |-> 0])
    BY <2>0
  <2> DEFINE op == [operationId |-> id, entity |-> t.entity,
                    category |-> CategoryOf[t.entity], baseRevision |-> base,
                    kind |-> "upsert", payload |-> t.payload, conflictId |-> 0]
  <2>2. t \in Version
    BY <1>1 DEF TypeOK
  <2>3. t.payload \in Payload /\ t.entity \in Entity /\ base \in Nat
    BY <2>0, <2>2 DEF Version, NullablePayload
  <2>4. op \in Operation /\ op.payload \in Payload
    BY <2>3, ConstantAssumption DEF Operation, NullablePayload
  <2>5. QED
    BY <2>1, <2>4, ApplyOperationEffect
<1>4. ASSUME Administer
      PROVE  AcceptStep
  <2>0. PICK k \in conflicts, resolution \in {"current", "incoming", "manual"} :
          \E base \in 0 .. records[k.entity].revision :
              ResolveForAccount(k, resolution, base)
    BY <1>4 DEF Administer
  <2>1. PICK base \in 0 .. records[k.entity].revision :
          ResolveForAccount(k, resolution, base)
    BY <2>0
  <2>2. PICK payload \in Payload :
          Accept(ServerOperation, k.entity, k.category, base, payload, FALSE)
    BY <2>1 DEF ResolveForAccount, ResolutionPayloads
  <2>3. k.entity \in Entity /\ k.category \in Category
    BY <1>1 DEF TypeOK, Conflict
  <2>4. base \in Nat /\ base = records[k.entity].revision
    BY <1>1, <2>1, <2>3 DEF ResolveForAccount, TypeOK, Record
  <2>5. conflicts' \subseteq Conflict
    BY <1>1, <2>1, MarkResolvedType DEF ResolveForAccount
  <2>6. operations' \subseteq Outcome
    BY <1>1, <2>1 DEF ResolveForAccount, TypeOK
  <2>7. QED
    BY <2>2, <2>3, <2>4, <2>5, <2>6 DEF AcceptStep, RespectsBase, NullablePayload
<1>5. QED
  BY <1>2, <1>3, <1>4 DEF Next, Replay

-----------------------------------------------------------------------------
(* The invariant is inductive *)

LEMMA InitIInv == Init => IInv
<1> SUFFICES ASSUME Init PROVE IInv
  OBVIOUS
<1>1. TypeOK
  BY ConstantAssumption DEF Init, TypeOK, Record, NullablePayload
<1>2. SequencesInStep
  BY DEF Init, SequencesInStep
<1>3. RecordsWellFormed
  BY DEF Init, RecordsWellFormed, Live
<1>4. VersionsUnique /\ RecordIsLatestVersion
  BY DEF Init, VersionsUnique, RecordIsLatestVersion, VersionsAt
<1>5. QED
  BY <1>1, <1>2, <1>3, <1>4 DEF IInv

\* The rows an accepted revision writes.
LEMMA AcceptRows ==
    ASSUME IInv,
           NEW source \in (Client \X OperationId) \union {ServerOperation},
           NEW e \in Entity, NEW cat \in Category, NEW base \in Nat,
           NEW payload \in NullablePayload, NEW deleted \in BOOLEAN,
           Accept(source, e, cat, base, payload, deleted),
           NEW revision, revision = records[e].revision + 1,
           NEW sequence, sequence = nextSequence + 1,
           NEW row, row = [revision |-> revision, category |-> cat, deleted |-> deleted,
                           payload |-> payload, sequence |-> sequence],
           NEW v, v = [entity |-> e, revision |-> revision, baseRevision |-> base,
                       source |-> source, deleted |-> deleted, payload |-> payload,
                       sequence |-> sequence]
    PROVE  /\ nextSequence' = sequence
           /\ sequence \in Nat \ {0}
           /\ revision \in Nat \ {0}
           /\ row \in Record
           /\ records' = [records EXCEPT ![e] = row]
           /\ v \in Version
           /\ versions' = versions \union {v}
           /\ \A w \in versions : w.entity = e => w.revision < revision
           /\ \E change \in Change : changes' = Append(changes, change)
           /\ categoryPresent' \in [Category -> BOOLEAN]
<1>1. TypeOK /\ records[e] \in Record /\ nextSequence \in Nat /\ records[e].revision \in Nat
  BY DEF IInv, TypeOK, Record
<1>2. revision \in Nat \ {0} /\ sequence \in Nat \ {0}
  BY <1>1
<1>3. row \in Record /\ v \in Version
  BY <1>2 DEF Record, Version
<1>4. /\ nextSequence' = sequence
      /\ records' = [records EXCEPT ![e] = row]
      /\ versions' = versions \union {v}
  BY DEF Accept, NextRevision
<1>5. \A w \in versions : w.entity = e => w.revision < revision
  BY <1>1 DEF IInv, RecordIsLatestVersion, TypeOK, Version
<1>6. \E change \in Change : changes' = Append(changes, change)
  <2> DEFINE change == [sequence |-> sequence, kind |-> ChangeKind(e, deleted),
                        entity |-> e, category |-> cat, revision |-> revision]
  <2>1. change \in Change
    BY <1>2 DEF Change, ChangeKind
  <2>2. changes' = Append(changes, change)
    BY DEF Accept, NextRevision
  <2>3. QED
    BY <2>1, <2>2
<1>7. categoryPresent' \in [Category -> BOOLEAN]
  <2>1. PICK present : /\ present \in BOOLEAN
                       /\ categoryPresent' = [categoryPresent EXCEPT ![cat] = present]
    BY DEF Accept, PresentAfter
  <2>2. QED
    BY <1>1, <2>1 DEF TypeOK
<1>8. QED
  BY <1>2, <1>3, <1>4, <1>5, <1>6, <1>7

LEMMA AcceptPreserves ==
    ASSUME IInv, AcceptStep
    PROVE  IInv'
<1>1. PICK source \in (Client \X OperationId) \union {ServerOperation}, e \in Entity,
           cat \in Category, base \in Nat, payload \in NullablePayload,
           deleted \in BOOLEAN :
        /\ Accept(source, e, cat, base, payload, deleted)
        /\ ~deleted => payload \in Payload
        /\ operations' \subseteq Outcome
        /\ conflicts' \subseteq Conflict
  BY DEF AcceptStep
<1> DEFINE revision == records[e].revision + 1
           sequence == nextSequence + 1
           row == [revision |-> revision, category |-> cat, deleted |-> deleted,
                   payload |-> payload, sequence |-> sequence]
           v == [entity |-> e, revision |-> revision, baseRevision |-> base,
                 source |-> source, deleted |-> deleted, payload |-> payload,
                 sequence |-> sequence]
<1>2. /\ nextSequence' = sequence
      /\ sequence \in Nat \ {0}
      /\ revision \in Nat \ {0}
      /\ row \in Record
      /\ records' = [records EXCEPT ![e] = row]
      /\ v \in Version
      /\ versions' = versions \union {v}
      /\ \A w \in versions : w.entity = e => w.revision < revision
      /\ \E change \in Change : changes' = Append(changes, change)
      /\ categoryPresent' \in [Category -> BOOLEAN]
  BY <1>1, AcceptRows
<1>3. TypeOK /\ nextSequence \in Nat /\ records[e].revision \in Nat
  BY DEF IInv, TypeOK, Record
<1>4. /\ row.revision = revision /\ row.deleted = deleted
      /\ row.payload = payload /\ row.sequence = sequence
      /\ v.entity = e /\ v.revision = revision /\ v.deleted = deleted
      /\ v.payload = payload /\ v.sequence = sequence
  OBVIOUS
<1> HIDE DEF row, v
<1>5. /\ records'[e] = row
      /\ \A d \in Entity : d # e => records'[d] = records[d]
  BY <1>2, <1>3 DEF TypeOK
<1>6. TypeOK'
  BY <1>1, <1>2, <1>3 DEF TypeOK
<1>7. SequencesInStep'
  <2>1. Len(changes') = Len(changes) + 1
    BY <1>2, <1>3 DEF TypeOK
  <2>2. \A d \in Entity : records[d].sequence \in Nat
    BY <1>3 DEF TypeOK, Record
  <2>3. \A w \in versions : w.sequence \in Nat
    BY <1>3 DEF TypeOK, Version
  <2>4. \A d \in Entity : records'[d].sequence <= nextSequence'
    BY <1>2, <1>3, <1>4, <1>5, <2>2 DEF IInv, SequencesInStep
  <2>5. \A w \in versions' : w.sequence <= nextSequence'
    BY <1>2, <1>3, <1>4, <2>3 DEF IInv, SequencesInStep
  <2>6. QED
    BY <1>2, <2>1, <2>4, <2>5 DEF IInv, SequencesInStep
<1>8. RecordsWellFormed'
  BY <1>1, <1>2, <1>4, <1>5 DEF IInv, RecordsWellFormed, Live
<1>9. VersionsUnique'
  BY <1>2, <1>4 DEF IInv, VersionsUnique
<1>10. RecordIsLatestVersion'
  <2> SUFFICES ASSUME NEW d \in Entity
               PROVE  /\ \A r \in 1 .. records'[d].revision : VersionsAt(d, r)' # {}
                      /\ \A w \in versions' : w.entity = d =>
                          /\ w.revision <= records'[d].revision
                          /\ w.revision = records'[d].revision =>
                              /\ w.deleted = records'[d].deleted
                              /\ w.payload = records'[d].payload
                              /\ w.sequence = records'[d].sequence
                          /\ \A x \in versions' : x.entity = d =>
                              (w.revision <= x.revision <=> w.sequence <= x.sequence)
    BY DEF RecordIsLatestVersion
  <2>1. \A r \in 1 .. records'[d].revision : VersionsAt(d, r)' # {}
    <3>1. \A r \in 1 .. records[d].revision : VersionsAt(d, r) # {}
      BY DEF IInv, RecordIsLatestVersion
    <3>2. \A r : VersionsAt(d, r) \subseteq VersionsAt(d, r)'
      BY <1>2 DEF VersionsAt
    <3>3. ASSUME NEW r \in 1 .. records'[d].revision
          PROVE  VersionsAt(d, r)' # {}
      <4>1. CASE r \in 1 .. records[d].revision
        BY <3>1, <3>2, <4>1
      <4>2. CASE r \notin 1 .. records[d].revision
        <5>1. d = e /\ r = revision
          BY <1>2, <1>3, <1>4, <1>5, <4>2
        <5>2. v \in VersionsAt(d, r)'
          BY <1>2, <1>4, <5>1 DEF VersionsAt
        <5>3. QED
          BY <5>2
      <4>3. QED
        BY <4>1, <4>2
    <3>4. QED
      BY <3>3
  <2>2. ASSUME NEW w \in versions', w.entity = d
        PROVE  /\ w.revision <= records'[d].revision
               /\ w.revision = records'[d].revision =>
                    /\ w.deleted = records'[d].deleted
                    /\ w.payload = records'[d].payload
                    /\ w.sequence = records'[d].sequence
    BY <1>2, <1>3, <1>4, <1>5, <2>2 DEF IInv, RecordIsLatestVersion, TypeOK, Version
  <2>3. ASSUME NEW w \in versions', w.entity = d, NEW x \in versions', x.entity = d
        PROVE  w.revision <= x.revision <=> w.sequence <= x.sequence
    <3>1. \A y \in versions : y.revision \in Nat /\ y.sequence \in Nat
                             /\ y.sequence <= nextSequence
      BY <1>3 DEF TypeOK, Version, IInv, SequencesInStep
    <3>2. CASE w \in versions /\ x \in versions
      BY <2>3, <3>2 DEF IInv, RecordIsLatestVersion
    <3>3. CASE w = v \/ x = v
      BY <1>2, <1>3, <1>4, <2>3, <3>1, <3>3
    <3>4. QED
      BY <1>2, <3>2, <3>3
  <2>4. QED
    BY <2>1, <2>2, <2>3
<1>11. QED
  BY <1>6, <1>7, <1>8, <1>9, <1>10 DEF IInv

LEMMA RetainPreserves ==
    ASSUME IInv, RetainStep
    PROVE  IInv'
<1>1. PICK op \in Operation : Retain(op) /\ operations' \subseteq Outcome
  BY DEF RetainStep
<1>2. /\ TypeOK
      /\ nextSequence \in Nat
      /\ op.entity \in Entity
      /\ op.category \in Category
      /\ op.payload \in NullablePayload
      /\ records[op.entity].revision \in Nat
      /\ records[op.entity].payload \in NullablePayload
  BY DEF IInv, TypeOK, Record, Operation
<1>3. /\ nextSequence' = nextSequence + 1
      /\ UNCHANGED <<records, versions, categoryPresent>>
  BY <1>1 DEF Retain
<1>4. conflicts' \subseteq Conflict
  BY <1>1, <1>2 DEF Retain, TypeOK, Conflict
<1>5. \E change \in Change : changes' = Append(changes, change)
  <2> DEFINE change == [sequence |-> nextSequence + 1, kind |-> "conflict",
                        entity |-> op.entity, category |-> op.category,
                        revision |-> records[op.entity].revision]
  <2>1. change \in Change
    BY <1>2 DEF Change
  <2>2. changes' = Append(changes, change)
    BY <1>1 DEF Retain
  <2>3. QED
    BY <2>1, <2>2
<1>6. TypeOK'
  BY <1>1, <1>2, <1>3, <1>4, <1>5 DEF TypeOK
<1>7. SequencesInStep'
  <2>1. Len(changes') = Len(changes) + 1
    BY <1>2, <1>5 DEF TypeOK
  <2>2. \A d \in Entity : records[d].sequence \in Nat
    BY <1>2 DEF TypeOK, Record
  <2>3. \A w \in versions : w.sequence \in Nat
    BY <1>2 DEF TypeOK, Version
  <2>4. QED
    BY <1>2, <1>3, <2>1, <2>2, <2>3 DEF IInv, SequencesInStep
<1>8. (RecordsWellFormed /\ VersionsUnique /\ RecordIsLatestVersion)'
  BY <1>3 DEF IInv, RecordsWellFormed, VersionsUnique, RecordIsLatestVersion, VersionsAt
<1>9. QED
  BY <1>6, <1>7, <1>8 DEF IInv

LEMMA NextIInv == IInv /\ [Next]_vars => IInv'
<1>1. ASSUME IInv, UNCHANGED vars
      PROVE  IInv'
  BY <1>1 DEF IInv, vars, TypeOK, SequencesInStep, RecordsWellFormed, VersionsUnique,
              RecordIsLatestVersion, VersionsAt
<1>2. QED
  BY <1>1, NextEffect, AcceptPreserves, RetainPreserves

\* The invariant holds in every state the service reaches.
THEOREM InductiveInvariant == Spec => []IInv
BY InitIInv, NextIInv, PTL DEF Spec

\* Every table keeps its type: no transaction of src/records/service.js writes
\* a row of another shape, whatever operations clients send.
THEOREM TypeCorrect == Spec => []TypeOK
<1>1. IInv => TypeOK
  BY DEF IInv
<1>2. QED
  BY <1>1, InductiveInvariant, PTL

\* The record row is the last of a gapless chain of versions, so that a base
\* revision, a conflict's base and a restore always find the version they name.
THEOREM RecordsAreLatestVersions == Spec => []RecordIsLatestVersion
<1>1. IInv => RecordIsLatestVersion
  BY DEF IInv
<1>2. QED
  BY <1>1, InductiveInvariant, PTL

-----------------------------------------------------------------------------
(* No accepted edit overwrites an edit it did not see *)

\* Merging touches no field that the current side changed.
LEMMA MergeRespectsCurrent ==
    ASSUME NEW base, NEW current \in Payload, NEW incoming \in Payload
    PROVE  ChangedFields(current, MergedPayload(base, current, incoming))
             \intersect ChangedFields(base, current) = {}
<1>1. MergedPayload(base, current, incoming) \in Payload
  BY MergedPayloadType
<1>2. /\ current # NoPayload
      /\ MergedPayload(base, current, incoming) # NoPayload
  BY <1>1, ConstantAssumption
<1>3. \A f \in Field : f \in ChangedFields(base, current) =>
          MergedPayload(base, current, incoming)[f] = current[f]
  BY <1>2 DEF MergedPayload, FieldOf
<1>4. QED
  BY <1>2, <1>3 DEF ChangedFields, FieldOf

\* A base comes before the revision made from it.
BasesPrecede ==
    \A v \in versions : Policy[v.entity] # "lww" => v.baseRevision < v.revision

EditInv ==
    /\ BasesPrecede
    /\ NoLostUpdate
    /\ NoStaleResurrection

LEMMA AcceptPreservesEdits ==
    ASSUME IInv, EditInv, AcceptStep
    PROVE  EditInv'
<1>1. PICK source \in (Client \X OperationId) \union {ServerOperation}, e \in Entity,
           cat \in Category, base \in Nat, payload \in NullablePayload,
           deleted \in BOOLEAN :
        /\ Accept(source, e, cat, base, payload, deleted)
        /\ ~deleted => payload \in Payload
        /\ RespectsBase(e, base, payload)
  BY DEF AcceptStep
<1>2. PICK revision, sequence, row, v :
        /\ revision = records[e].revision + 1
        /\ sequence = nextSequence + 1
        /\ row = [revision |-> revision, category |-> cat, deleted |-> deleted,
                  payload |-> payload, sequence |-> sequence]
        /\ v = [entity |-> e, revision |-> revision, baseRevision |-> base,
                source |-> source, deleted |-> deleted, payload |-> payload,
                sequence |-> sequence]
  OBVIOUS
<1>3. /\ v \in Version
      /\ versions' = versions \union {v}
      /\ \A w \in versions : w.entity = e => w.revision < revision
  BY <1>1, <1>2, AcceptRows
<1>4. /\ v.entity = e /\ v.revision = revision /\ v.baseRevision = base
      /\ v.deleted = deleted /\ v.payload = payload
  BY <1>2
<1>5. /\ records[e].revision \in Nat
      /\ \A w \in versions : w.revision \in Nat \ {0} /\ w.baseRevision \in Nat
      /\ \A w \in versions : w.entity \in Entity
  BY DEF IInv, TypeOK, Record, Version
<1>6. \A w \in versions : w.entity = e /\ w.revision = records[e].revision =>
          w.deleted = records[e].deleted /\ w.payload = records[e].payload
  BY DEF IInv, RecordIsLatestVersion
<1>7. ASSUME Policy[e] # "lww"
      PROVE  base <= records[e].revision
  <2>1. CASE base = records[e].revision
    BY <1>5, <2>1
  <2>2. CASE base # records[e].revision
    <3>1. PICK b \in VersionsAt(e, base) : TRUE
      BY <1>1, <1>7, <2>2 DEF RespectsBase
    <3>2. QED
      BY <1>5, <3>1 DEF VersionsAt, IInv, RecordIsLatestVersion
  <2>3. QED
    BY <2>1, <2>2
<1>8. BasesPrecede'
  BY <1>2, <1>3, <1>4, <1>5, <1>7 DEF EditInv, BasesPrecede
\* What an old version of an entity was compared with is still all there is.
<1>9. ASSUME NEW w \in versions, NEW r \in Nat, r <= w.revision
      PROVE  VersionsAt(w.entity, r)' = VersionsAt(w.entity, r)
  <2>1. w.entity = e => r < revision
    BY <1>2, <1>3, <1>5, <1>9
  <2>2. QED
    BY <1>2, <1>3, <1>4, <1>5, <2>1 DEF VersionsAt
<1>10. ASSUME NEW r \in Nat, r <= records[e].revision
       PROVE  VersionsAt(e, r)' = VersionsAt(e, r)
  BY <1>2, <1>3, <1>4, <1>5, <1>10 DEF VersionsAt
<1>11. NoLostUpdate'
  <2> SUFFICES ASSUME NEW w \in versions', Policy[w.entity] # "lww",
                      NEW before \in VersionsAt(w.entity, w.revision - 1)',
                      NEW origin \in VersionsAt(w.entity, w.baseRevision)'
               PROVE  ChangedFields(before.payload, w.payload)
                        \intersect ChangedFields(origin.payload, before.payload) = {}
    BY DEF NoLostUpdate
  <2>1. CASE w \in versions
    <3>1. /\ w.revision - 1 \in Nat /\ w.revision - 1 <= w.revision
          /\ w.baseRevision \in Nat /\ w.baseRevision <= w.revision
      BY <1>5, <2>1 DEF EditInv, BasesPrecede
    <3>2. /\ before \in VersionsAt(w.entity, w.revision - 1)
          /\ origin \in VersionsAt(w.entity, w.baseRevision)
      BY <1>9, <2>1, <3>1
    <3>3. QED
      BY <2>1, <3>2 DEF EditInv, NoLostUpdate
  <2>2. CASE w = v
    <3>1. /\ before \in VersionsAt(e, records[e].revision)
          /\ origin \in VersionsAt(e, base)
      <4>1. w.revision - 1 = records[e].revision /\ w.baseRevision = base /\ w.entity = e
        BY <1>2, <1>4, <1>5, <2>2
      <4>2. QED
        BY <1>5, <1>7, <1>10, <2>2, <4>1
    <3>2. before.payload = records[e].payload
      BY <1>6, <3>1 DEF VersionsAt
    <3>3. CASE base = records[e].revision
      <4>1. origin.payload = records[e].payload
        BY <1>6, <3>1, <3>3 DEF VersionsAt
      <4>2. QED
        BY <3>2, <4>1 DEF ChangedFields
    <3>4. CASE base # records[e].revision
      <4>1. PICK b \in VersionsAt(e, base), incoming \in Payload :
              /\ ~records[e].deleted
              /\ payload = MergedPayload(b.payload, records[e].payload, incoming)
        BY <1>1, <1>4, <2>2, <3>4 DEF RespectsBase
      <4>2. b = origin
        BY <3>1, <4>1 DEF VersionsAt, IInv, VersionsUnique
      <4>3. records[e].payload \in Payload
        <5>1. records[e].revision > 0
          BY <1>5, <4>1 DEF VersionsAt, IInv, RecordIsLatestVersion
        <5>2. QED
          BY <4>1, <5>1 DEF IInv, RecordsWellFormed, Live
      <4>4. QED
        BY <1>4, <2>2, <3>2, <4>1, <4>2, <4>3, MergeRespectsCurrent
    <3>5. QED
      BY <3>3, <3>4
  <2>3. QED
    BY <1>3, <2>1, <2>2
<1>12. NoStaleResurrection'
  <2> SUFFICES ASSUME NEW d \in Entity, Policy[d] # "lww",
                      NEW w \in versions', w.entity = d, ~w.deleted,
                      NEW before \in VersionsAt(d, w.revision - 1)', before.deleted
               PROVE  w.baseRevision = before.revision
    BY DEF NoStaleResurrection, StaysDeleted
  <2>1. CASE w \in versions
    <3>1. w.revision - 1 \in Nat /\ w.revision - 1 <= w.revision
      BY <1>5, <2>1
    <3>2. before \in VersionsAt(d, w.revision - 1)
      BY <1>9, <2>1, <3>1
    <3>3. QED
      BY <2>1, <3>2 DEF EditInv, NoStaleResurrection, StaysDeleted
  <2>2. CASE w = v
    <3>1. d = e /\ w.revision - 1 = records[e].revision /\ w.baseRevision = base
      BY <1>2, <1>4, <1>5, <2>2
    <3>2. before \in VersionsAt(e, records[e].revision)
      BY <1>5, <1>10, <3>1
    <3>3. before.revision = records[e].revision /\ records[e].deleted
      BY <1>6, <3>2 DEF VersionsAt
    <3>4. QED
      BY <1>1, <3>1, <3>3 DEF RespectsBase
  <2>3. QED
    BY <1>3, <2>1, <2>2
<1>13. QED
  BY <1>8, <1>11, <1>12 DEF EditInv

LEMMA NextEdits == IInv /\ EditInv /\ [Next]_vars => EditInv'
<1>1. ASSUME EditInv, UNCHANGED versions
      PROVE  EditInv'
  BY <1>1 DEF EditInv, BasesPrecede, NoLostUpdate, NoStaleResurrection, StaysDeleted,
              VersionsAt
<1>2. RetainStep => UNCHANGED versions
  BY DEF RetainStep, Retain
<1>3. UNCHANGED vars => UNCHANGED versions
  BY DEF vars
<1>4. QED
  BY <1>1, <1>2, <1>3, NextEffect, AcceptPreservesEdits

LEMMA EditsPreserved == Spec => []EditInv
<1>1. Init => EditInv
  BY DEF Init, EditInv, BasesPrecede, NoLostUpdate, NoStaleResurrection, StaysDeleted
<1>2. QED
  BY <1>1, NextEdits, InductiveInvariant, PTL DEF Spec

\* No accepted edit, stale or not, changes a field that another client changed
\* since the base it was made from (mergeFields, applyStale), except where the
\* registry says that the last writer wins.
THEOREM NoUpdateIsLost == Spec => []NoLostUpdate
<1>1. EditInv => NoLostUpdate
  BY DEF EditInv
<1>2. QED
  BY <1>1, EditsPreserved, PTL

\* Outside the last-writer-wins types a tombstone is followed only by a revision
\* that was made from the tombstone itself.
THEOREM DeletedStaysDeleted == Spec => []NoStaleResurrection
<1>1. EditInv => NoStaleResurrection
  BY DEF EditInv
<1>2. QED
  BY <1>1, EditsPreserved, PTL

-----------------------------------------------------------------------------
(* The record service implements the space log *)

\* An accepted revision is a revision of the log, a retained operation a dispute.
LEMMA StepsAreLogSteps ==
    ASSUME IInv, [Next]_vars
    PROVE  [Log!LogNext]_(Log!logVars)
<1>1. /\ TypeOK
      /\ Len(changes) = nextSequence
      /\ \A e \in Entity : records[e].revision \in Nat
  BY DEF IInv, SequencesInStep, TypeOK, Record
<1>2. ASSUME AcceptStep
      PROVE  Log!LogNext
  <2>1. PICK source \in (Client \X OperationId) \union {ServerOperation}, e \in Entity,
             cat \in Category, base \in Nat, payload \in NullablePayload,
             deleted \in BOOLEAN :
          Accept(source, e, cat, base, payload, deleted)
    BY <1>2 DEF AcceptStep
  <2>2. changes' = Append(changes,
          [sequence |-> nextSequence + 1, kind |-> ChangeKind(e, deleted), entity |-> e,
           category |-> cat, revision |-> records[e].revision + 1])
    BY <2>1 DEF Accept, NextRevision
  <2>3. records' = [records EXCEPT ![e] =
          [revision |-> records[e].revision + 1, category |-> cat, deleted |-> deleted,
           payload |-> payload, sequence |-> nextSequence + 1]]
    BY <2>1 DEF Accept, NextRevision
  <2>4. Log!Revise(e, cat, deleted)
    BY <1>1, <2>2, <2>3 DEF Log!Revise, Log!KindAfter, ChangeKind, TypeOK
  <2>5. QED
    BY <2>4 DEF Log!LogNext
<1>3. ASSUME RetainStep
      PROVE  Log!LogNext
  <2>1. PICK op \in Operation : Retain(op)
    BY <1>3 DEF RetainStep
  <2>2. op.entity \in Entity /\ op.category \in Category
    BY DEF Operation
  <2>3. Log!Dispute(op.entity, op.category)
    BY <1>1, <2>1, <2>2 DEF Log!Dispute, Retain
  <2>4. QED
    BY <2>2, <2>3 DEF Log!LogNext
<1>4. ASSUME UNCHANGED vars
      PROVE  UNCHANGED Log!logVars
  BY <1>4 DEF vars, Log!logVars
<1>5. QED
  BY <1>2, <1>3, <1>4, NextEffect

\* The change stream of the record service is a space log.
THEOREM RecordsImplementLog == Spec => ImplementsSpaceLog
<1>1. Init => Log!LogInit
  BY DEF Init, Log!LogInit
<1>2. QED
  BY <1>1, StepsAreLogSteps, InductiveInvariant, PTL
     DEF Spec, ImplementsSpaceLog, Log!LogSpec

-----------------------------------------------------------------------------
(* What a step does, in full: it accepts or retains one operation that was   *)
(* not answered before, or settles one conflict                              *)

\* The payload an operation is accepted with: what it deletes, what it asks for, or
\* that merged with the current one, where no field conflicts.
AcceptedPayload(op, payload, deleted) ==
    \/ op.kind = "delete" /\ deleted /\ payload = records[op.entity].payload
    \/ op.kind # "delete" /\ ~deleted /\ payload = op.payload
    \/ /\ op.kind # "delete" /\ ~deleted /\ records[op.entity].payload \in Payload
       /\ \E base \in VersionsAt(op.entity, op.baseRevision) :
            /\ ConflictingFields(base.payload, records[op.entity].payload, op.payload) = {}
            /\ payload = MergedPayload(base.payload, records[op.entity].payload, op.payload)

\* The operation names the category of its entity, or deletes.
CategoryNamed(op) ==
    op.kind # "delete" => op.category = CategoryOf[op.entity]

AcceptedPush ==
    \E client \in Client, op \in Operation, payload \in NullablePayload, deleted \in BOOLEAN :
        /\ ~AnsweredBefore(client, op)
        /\ CategoryNamed(op)
        /\ AcceptOperation(client, op, payload, deleted)
        /\ AcceptedPayload(op, payload, deleted)
        /\ op.kind # "delete" => op.payload \in Payload
        /\ \/ UNCHANGED conflicts
           \/ \E k \in conflicts :
                /\ k.status = "unresolved" /\ k.entity = op.entity /\ ~deleted
                /\ op.baseRevision = records[k.entity].revision
                /\ MarkResolved(k)

RetainedPush ==
    \E client \in Client, op \in Operation :
        /\ ~AnsweredBefore(client, op)
        /\ RetainOperation(client, op)

Settlement ==
    \E k \in conflicts, payload \in Payload :
        /\ k.status = "unresolved"
        /\ k.category = CategoryOf[k.entity]
        /\ Accept(ServerOperation, k.entity, k.category, records[k.entity].revision, payload, FALSE)
        /\ MarkResolved(k)
        /\ UNCHANGED operations

\* Applying an operation accepts it or retains it.
LEMMA ApplyOperationKinds ==
    ASSUME IInv, NEW client \in Client, NEW op \in Operation, CategoryNamed(op),
           op.kind # "delete" => op.payload \in Payload,
           ApplyOperation(client, op)
    PROVE  AcceptedPush \/ RetainedPush
<1>1. /\ ~AnsweredBefore(client, op) /\ op.entity \in Entity /\ TypeOK
      /\ records[op.entity] \in Record
      /\ records[op.entity].payload \in NullablePayload
  BY DEF ApplyOperation, Operation, IInv, TypeOK, Record
<1>2. RetainOperation(client, op) => RetainedPush
  BY <1>1 DEF RetainedPush
<1>3. CASE ApplyCurrent(client, op)
  <2>1. CASE op.kind = "delete"
    <3>1. AcceptOperation(client, op, records[op.entity].payload, TRUE) /\ UNCHANGED conflicts
      BY <1>3, <2>1 DEF ApplyCurrent
    <3>2. AcceptedPayload(op, records[op.entity].payload, TRUE)
      BY <2>1 DEF AcceptedPayload
    <3> QED BY <1>1, <3>1, <3>2 DEF AcceptedPush
  <2>2. CASE op.kind # "delete"
    <3>1. AcceptOperation(client, op, op.payload, FALSE) /\ UNCHANGED conflicts
      BY <1>3, <2>2 DEF ApplyCurrent
    <3>2. AcceptedPayload(op, op.payload, FALSE) /\ op.payload \in NullablePayload
      BY <2>2 DEF AcceptedPayload, NullablePayload
    <3> QED BY <1>1, <3>1, <3>2 DEF AcceptedPush
  <2> QED BY <2>1, <2>2
<1>4. CASE ApplyStale(client, op)
  <2>1. CASE LastWriterWins(op) /\ AcceptOperation(client, op, op.payload, FALSE)
             /\ UNCHANGED conflicts
    <3>1. AcceptedPayload(op, op.payload, FALSE) /\ op.payload \in NullablePayload
      BY <2>1 DEF AcceptedPayload, LastWriterWins, NullablePayload
    <3> QED BY <1>1, <2>1, <3>1 DEF AcceptedPush
  <2>2. ASSUME NEW base \in MergeBases(op),
               AcceptOperation(client, op,
                   MergedPayload(base.payload, records[op.entity].payload, op.payload), FALSE),
               UNCHANGED conflicts
        PROVE  AcceptedPush
    <3>1. /\ op.kind # "delete" /\ ~records[op.entity].deleted
          /\ base \in VersionsAt(op.entity, op.baseRevision)
          /\ ConflictingFields(base.payload, records[op.entity].payload, op.payload) = {}
      BY <2>2 DEF MergeBases
    <3>2. records[op.entity].revision > 0
      BY <1>1, <3>1 DEF IInv, TypeOK, RecordIsLatestVersion, VersionsAt, Version, Record
    <3>3. records[op.entity].payload \in Payload
      BY <1>1, <3>1, <3>2 DEF IInv, RecordsWellFormed, Live
    <3>4. PICK payload \in Payload :
            payload = MergedPayload(base.payload, records[op.entity].payload, op.payload)
      BY <3>1, <3>3, MergedPayloadType
    <3>5. AcceptedPayload(op, payload, FALSE)
      BY <3>1, <3>3, <3>4 DEF AcceptedPayload
    <3>6. AcceptOperation(client, op, payload, FALSE) /\ payload \in NullablePayload
      BY <2>2, <3>4 DEF NullablePayload
    <3> QED BY <1>1, <2>2, <3>5, <3>6 DEF AcceptedPush
  <2> QED BY <1>2, <1>4, <2>1, <2>2 DEF ApplyStale
<1>5. CASE ResolveConflict(client, op)
  <2>1. PICK k \in conflicts :
          /\ k.entity = op.entity
          /\ \/ /\ ResolutionCurrent(op, k)
                /\ AcceptOperation(client, op, op.payload, FALSE)
                /\ MarkResolved(k)
             \/ RetainOperation(client, op)
    BY <1>5 DEF ResolveConflict
  <2>2. op.kind # "delete" /\ op.payload \in NullablePayload
    BY <1>5 DEF ResolveConflict, NullablePayload
  <2>3. AcceptedPayload(op, op.payload, FALSE)
    BY <2>2 DEF AcceptedPayload
  <2>4. ASSUME ResolutionCurrent(op, k), AcceptOperation(client, op, op.payload, FALSE),
               MarkResolved(k)
        PROVE  AcceptedPush
    <3>1. k.status = "unresolved" /\ op.baseRevision = records[k.entity].revision
      BY <2>4 DEF ResolutionCurrent
    <3> QED BY <1>1, <2>1, <2>2, <2>3, <2>4, <3>1 DEF AcceptedPush
  <2> QED BY <1>2, <2>1, <2>4
<1> QED BY <1>3, <1>4, <1>5 DEF ApplyOperation

\* Every step is one of these.
LEMMA NextKinds ==
    ASSUME IInv, [Next]_vars
    PROVE  AcceptedPush \/ RetainedPush \/ Settlement \/ UNCHANGED vars
<1>1. TypeOK
  BY DEF IInv
<1>2. ASSUME NEW client \in Client, Push(client)
      PROVE  AcceptedPush \/ RetainedPush
  <2>1. PICK e \in Entity : \E op \in OperationsOn(e) : ApplyOperation(client, op)
    BY <1>2 DEF Push
  <2>2. PICK op \in OperationsOn(e) : ApplyOperation(client, op)
    BY <2>1
  <2>3. CategoryNamed(op)
    BY <1>1, <2>2 DEF OperationsOn, CategoryNamed
  <2> QED BY <1>1, <2>2, <2>3, OperationsOnType, ApplyOperationKinds
<1>3. ASSUME NEW client \in Client, Restore(client)
      PROVE  AcceptedPush \/ RetainedPush
  <2>1. PICK t \in versions, id \in OperationId :
          /\ t.payload # NoPayload
          /\ \E base \in 0 .. t.revision : ApplyOperation(client,
                [operationId |-> id, entity |-> t.entity,
                 category |-> CategoryOf[t.entity], baseRevision |-> base,
                 kind |-> "upsert", payload |-> t.payload, conflictId |-> 0])
    BY <1>3 DEF Restore
  <2>2. PICK base \in 0 .. t.revision : ApplyOperation(client,
                [operationId |-> id, entity |-> t.entity,
                 category |-> CategoryOf[t.entity], baseRevision |-> base,
                 kind |-> "upsert", payload |-> t.payload, conflictId |-> 0])
    BY <2>1
  <2>3. PICK op : op = [operationId |-> id, entity |-> t.entity,
                        category |-> CategoryOf[t.entity], baseRevision |-> base,
                        kind |-> "upsert", payload |-> t.payload, conflictId |-> 0]
    OBVIOUS
  <2>4. t.payload \in Payload /\ t.entity \in Entity /\ base \in Nat
    BY <1>1, <2>1 DEF TypeOK, Version, NullablePayload
  <2>5. op \in Operation /\ op.payload \in Payload /\ CategoryNamed(op)
    BY <2>3, <2>4, ConstantAssumption DEF Operation, NullablePayload, CategoryNamed
  <2> QED BY <2>2, <2>3, <2>5, ApplyOperationKinds
<1>4. ASSUME Administer
      PROVE  Settlement
  <2>1. PICK k \in conflicts, resolution \in {"current", "incoming", "manual"} :
          \E base \in 0 .. records[k.entity].revision :
              ResolveForAccount(k, resolution, base)
    BY <1>4 DEF Administer
  <2>2. PICK base \in 0 .. records[k.entity].revision : ResolveForAccount(k, resolution, base)
    BY <2>1
  <2>3. base = records[k.entity].revision /\ k.status = "unresolved"
        /\ k.category = CategoryOf[k.entity] /\ MarkResolved(k) /\ UNCHANGED operations
    BY <2>2 DEF ResolveForAccount
  <2>4. PICK payload \in Payload :
          Accept(ServerOperation, k.entity, k.category, base, payload, FALSE)
    BY <2>2 DEF ResolveForAccount, ResolutionPayloads
  <2> QED BY <2>3, <2>4 DEF Settlement
<1> QED BY <1>2, <1>3, <1>4 DEF Next, Replay

\* An accepted revision is a new version, the latest of its entity.
Adds(v) ==
    /\ v \in Version
    /\ v \notin versions
    /\ versions' = versions \union {v}
    /\ nextSequence' = nextSequence + 1
    /\ v.sequence = nextSequence + 1
    /\ v.revision = records[v.entity].revision + 1
    /\ \A w \in versions : w.entity = v.entity => w.revision < v.revision

\* Accept adds the version of its arguments.
LEMMA AcceptAdds ==
    ASSUME IInv,
           NEW source \in (Client \X OperationId) \union {ServerOperation},
           NEW e \in Entity, NEW cat \in Category, NEW base \in Nat,
           NEW payload \in NullablePayload, NEW deleted \in BOOLEAN,
           Accept(source, e, cat, base, payload, deleted)
    PROVE  \E v : /\ Adds(v)
                  /\ v.entity = e /\ v.source = source /\ v.baseRevision = base
                  /\ v.payload = payload /\ v.deleted = deleted
<1>1. PICK revision : revision = records[e].revision + 1
  OBVIOUS
<1>2. PICK sequence : sequence = nextSequence + 1
  OBVIOUS
<1>3. PICK row : row = [revision |-> revision, category |-> cat, deleted |-> deleted,
                        payload |-> payload, sequence |-> sequence]
  OBVIOUS
<1>4. PICK v : v = [entity |-> e, revision |-> revision, baseRevision |-> base,
                    source |-> source, deleted |-> deleted, payload |-> payload,
                    sequence |-> sequence]
  OBVIOUS
<1>5. /\ nextSequence' = sequence /\ v \in Version /\ versions' = versions \union {v}
      /\ \A w \in versions : w.entity = e => w.revision < revision
  BY <1>1, <1>2, <1>3, <1>4, AcceptRows
<1>6. v.revision = revision /\ v.entity = e /\ revision \in Nat
  BY <1>4, <1>5 DEF Version
<1>7. v \notin versions
  BY <1>5, <1>6
<1> QED BY <1>1, <1>2, <1>4, <1>5, <1>6, <1>7 DEF Adds

-----------------------------------------------------------------------------
(* An operation takes effect once *)

\* Every version a client made is of an operation that was answered, and every
\* answer has a number that was given out.
SourcesAnswered ==
    /\ \A row \in operations : row.sequence <= nextSequence
    /\ \A v \in versions : v.source # ServerOperation =>
         \E row \in operations : v.source = <<row.client, row.request.operationId>>

OnceInv == SourcesAnswered /\ OperationAppliedOnce

\* An answer that is new, and its number.
LEMMA AnswersOnce ==
    ASSUME TypeOK, OnceInv, NEW client \in Client, NEW op \in Operation,
           NEW status \in {"accepted", "conflict"},
           ~AnsweredBefore(client, op), Answer(client, op, status),
           nextSequence' = nextSequence + 1
    PROVE  /\ \A row \in operations' : row.sequence <= nextSequence'
           /\ \A a, b \in operations' :
                \/ a = b
                \/ /\ a.sequence # b.sequence
                   /\ a.client # b.client \/ a.request.operationId # b.request.operationId
           /\ operations \subseteq operations'
           /\ \E row \in operations' : <<client, op.operationId>> = <<row.client, row.request.operationId>>
<1>1. PICK new : new = [client |-> client, request |-> op, status |-> status,
                        sequence |-> nextSequence + 1]
  OBVIOUS
<1>2. operations' = operations \union {new}
  BY <1>1 DEF Answer
<1>3. new.client = client /\ new.request = op /\ new.sequence = nextSequence + 1
  BY <1>1
<1>4. /\ nextSequence \in Nat
      /\ \A row \in operations : row.sequence \in Nat /\ row.sequence <= nextSequence
  BY DEF TypeOK, Outcome, OnceInv, SourcesAnswered
<1>5. \A row \in operations :
        /\ row.sequence # new.sequence
        /\ row.client # new.client \/ row.request.operationId # new.request.operationId
  BY <1>3, <1>4 DEF AnsweredBefore
<1>6. \A a, b \in operations :
        \/ a = b
        \/ /\ a.sequence # b.sequence
           /\ a.client # b.client \/ a.request.operationId # b.request.operationId
  BY DEF OnceInv, OperationAppliedOnce
<1> QED BY <1>2, <1>3, <1>4, <1>5, <1>6

\* The invariant of answers is inductive.
LEMMA OnceStays == IInv /\ OnceInv /\ [Next]_vars => OnceInv'
<1> SUFFICES ASSUME IInv, OnceInv, [Next]_vars PROVE OnceInv'
  OBVIOUS
<1>0. /\ TypeOK /\ nextSequence \in Nat
      /\ \A row \in operations : row.sequence \in Nat /\ row.sequence <= nextSequence
      /\ \A v \in versions : v.source # ServerOperation =>
           \E row \in operations : v.source = <<row.client, row.request.operationId>>
      /\ \A v, w \in versions : v.source = w.source /\ v.source # ServerOperation => v = w
  BY DEF IInv, TypeOK, Outcome, OnceInv, SourcesAnswered, OperationAppliedOnce
<1>1. CASE AcceptedPush
  <2>1. PICK client \in Client, op \in Operation, payload \in NullablePayload, deleted \in BOOLEAN :
          ~AnsweredBefore(client, op) /\ AcceptOperation(client, op, payload, deleted)
    BY <1>1 DEF AcceptedPush
  <2>2. PICK source : source = <<client, op.operationId>>
    OBVIOUS
  <2>3. /\ source \in (Client \X OperationId) \union {ServerOperation}
        /\ op.entity \in Entity /\ op.category \in Category /\ op.baseRevision \in Nat
        /\ Accept(source, op.entity, op.category, op.baseRevision, payload, deleted)
        /\ Answer(client, op, "accepted")
    BY <2>1, <2>2 DEF Operation, AcceptOperation
  <2>4. PICK v : Adds(v) /\ v.source = source
    BY <2>3, AcceptAdds
  <2>5. versions' = versions \union {v} /\ nextSequence' = nextSequence + 1
    BY <2>4 DEF Adds
  <2>6. /\ \A row \in operations' : row.sequence <= nextSequence'
        /\ \A a, b \in operations' :
             \/ a = b
             \/ /\ a.sequence # b.sequence
                /\ a.client # b.client \/ a.request.operationId # b.request.operationId
        /\ operations \subseteq operations'
        /\ \E row \in operations' : source = <<row.client, row.request.operationId>>
    BY <1>0, <2>1, <2>2, <2>3, <2>5, AnswersOnce
  <2>7. \A w \in versions : w.source # source
    BY <1>0, <2>1, <2>2, ConstantAssumption DEF AnsweredBefore, Operation
  <2> QED BY <1>0, <2>4, <2>5, <2>6, <2>7 DEF OnceInv, SourcesAnswered, OperationAppliedOnce
<1>2. CASE RetainedPush
  <2>1. PICK client \in Client, op \in Operation :
          ~AnsweredBefore(client, op) /\ RetainOperation(client, op)
    BY <1>2 DEF RetainedPush
  <2>2. UNCHANGED versions /\ nextSequence' = nextSequence + 1 /\ Answer(client, op, "conflict")
    BY <2>1 DEF RetainOperation, Retain
  <2>3. /\ \A row \in operations' : row.sequence <= nextSequence'
        /\ \A a, b \in operations' :
             \/ a = b
             \/ /\ a.sequence # b.sequence
                /\ a.client # b.client \/ a.request.operationId # b.request.operationId
        /\ operations \subseteq operations'
    BY <1>0, <2>1, <2>2, AnswersOnce
  <2> QED BY <1>0, <2>2, <2>3 DEF OnceInv, SourcesAnswered, OperationAppliedOnce
<1>3. CASE Settlement
  <2>1. PICK k \in conflicts, payload \in Payload :
          /\ Accept(ServerOperation, k.entity, k.category, records[k.entity].revision, payload, FALSE)
          /\ UNCHANGED operations
    BY <1>3 DEF Settlement
  <2>2. PICK e \in Entity : e = k.entity
    BY <1>0 DEF TypeOK, Conflict
  <2>3. PICK cat \in Category : cat = k.category
    BY <1>0 DEF TypeOK, Conflict
  <2>4. PICK base \in Nat : base = records[k.entity].revision
    BY <1>0, <2>2 DEF TypeOK, Record
  <2>5. PICK v : Adds(v) /\ v.source = ServerOperation
    <3>1. PICK source \in (Client \X OperationId) \union {ServerOperation} :
            source = ServerOperation
      OBVIOUS
    <3>2. PICK deleted \in BOOLEAN : /\ payload \in NullablePayload
                                   /\ Accept(source, e, cat, base, payload, deleted)
      BY <2>1, <2>2, <2>3, <2>4, <3>1 DEF NullablePayload
    <3>3. PICK v : Adds(v) /\ v.source = source
      BY <3>2, AcceptAdds
    <3> QED BY <3>1, <3>3
  <2>6. versions' = versions \union {v} /\ nextSequence' = nextSequence + 1
    BY <2>5 DEF Adds
  <2>7. OperationAppliedOnce'
    BY <1>0, <2>1, <2>5, <2>6 DEF OnceInv, OperationAppliedOnce
  <2>8. SourcesAnswered'
    BY <1>0, <2>1, <2>5, <2>6 DEF SourcesAnswered
  <2> QED BY <2>7, <2>8 DEF OnceInv
<1>4. CASE UNCHANGED vars
  BY <1>4 DEF vars, OnceInv, SourcesAnswered, OperationAppliedOnce
<1> QED BY <1>1, <1>2, <1>3, <1>4, NextKinds

\* However often clients repeat their operations, an operation makes at most one
\* revision or conflict and has one answer: applyOperation of src/records/service.js
\* looks it up in the transaction that would apply it.
THEOREM OperationsApplyOnce == Spec => []OperationAppliedOnce
<1>1. Init => OnceInv
  BY DEF Init, OnceInv, SourcesAnswered, OperationAppliedOnce
<1>2. OnceInv => OperationAppliedOnce
  BY DEF OnceInv
<1> QED BY <1>1, <1>2, OnceStays, InductiveInvariant, PTL DEF Spec

-----------------------------------------------------------------------------
(* What was pushed is kept *)

\* Merging without conflicting fields makes every change that was asked for.
LEMMA MergeKeepsEdit ==
    ASSUME NEW base, NEW current \in Payload, NEW incoming \in Payload, NEW f \in Field,
           ConflictingFields(base, current, incoming) = {}
    PROVE  \/ FieldOf(MergedPayload(base, current, incoming), f) = FieldOf(incoming, f)
           \/ FieldOf(base, f) = FieldOf(incoming, f)
<1>1. MergedPayload(base, current, incoming)[f] =
        IF f \in ChangedFields(base, incoming) \ ChangedFields(base, current)
        THEN FieldOf(incoming, f) ELSE FieldOf(current, f)
  BY DEF MergedPayload
<1>2. MergedPayload(base, current, incoming) # NoPayload
  BY MergedPayloadType, ConstantAssumption
<1>3. FieldOf(MergedPayload(base, current, incoming), f) =
        MergedPayload(base, current, incoming)[f]
  BY <1>2 DEF FieldOf
<1>4. f \in ChangedFields(base, incoming) \intersect ChangedFields(base, current) =>
        FieldOf(current, f) = FieldOf(incoming, f)
  BY DEF ConflictingFields
<1>5. f \notin ChangedFields(base, incoming) => FieldOf(base, f) = FieldOf(incoming, f)
  BY DEF ChangedFields
<1> QED BY <1>1, <1>3, <1>4, <1>5

\* Conflicts are never dropped, and keep what came in.
LEMMA ConflictsKept ==
    ASSUME TypeOK, NEW k \in conflicts, MarkResolved(k), NEW j \in conflicts
    PROVE  \E i \in conflicts' : i.id = j.id /\ i.incomingPayload = j.incomingPayload
<1>1. k \in Conflict
  BY DEF TypeOK
<1>2. PICK n : n = records[k.entity].revision + 1
  OBVIOUS
<1>3. PICK new : new = [k EXCEPT !.status = "resolved", !.resolutionRevision = n]
  OBVIOUS
<1>4. new.id = k.id /\ new.incomingPayload = k.incomingPayload
  BY <1>1, <1>3 DEF Conflict
<1>5. conflicts' = (conflicts \ {k}) \union {new}
  BY <1>2, <1>3 DEF MarkResolved
<1> QED BY <1>4, <1>5

\* What became of an answered operation, as EditKept says it.
AnswerKept(row) ==
    \/ /\ row.status = "conflict"
       /\ \E k \in conflicts :
            k.id = row.sequence /\ k.incomingPayload = row.request.payload
    \/ /\ row.status = "accepted"
       /\ \E v \in versions :
            /\ v.sequence = row.sequence
            /\ IF row.request.kind = "delete"
               THEN KeepsDeletedContent(v)
               ELSE ~v.deleted /\ KeepsEdit(v, row.request)

\* What was kept stays kept: versions are added after those there are, and conflicts
\* keep what came in.
LEMMA KeptStays ==
    ASSUME IInv, NEW row \in operations, AnswerKept(row),
           \/ UNCHANGED versions
           \/ \E v : Adds(v),
           \A j \in conflicts :
               \E i \in conflicts' : i.id = j.id /\ i.incomingPayload = j.incomingPayload
    PROVE  AnswerKept(row)'
<1>0. /\ TypeOK /\ \A e \in Entity : records[e].revision \in Nat
      /\ \A v \in versions : v \in Version /\ v.entity \in Entity /\ v.revision \in Nat \ {0}
      /\ \A v \in versions : v.revision <= records[v.entity].revision
  BY DEF IInv, TypeOK, Record, Version, RecordIsLatestVersion
<1>1. versions \subseteq versions'
  BY DEF Adds
<1>2. ASSUME NEW w \in versions
      PROVE  VersionsAt(w.entity, w.revision - 1)' = VersionsAt(w.entity, w.revision - 1)
  <2>1. CASE UNCHANGED versions
    BY <2>1 DEF VersionsAt
  <2>2. ASSUME NEW v, Adds(v)
        PROVE  VersionsAt(w.entity, w.revision - 1)' = VersionsAt(w.entity, w.revision - 1)
    <3>1. v.entity = w.entity => w.revision < v.revision
      BY <2>2 DEF Adds
    <3>2. v.revision \in Nat /\ versions' = versions \union {v}
      BY <2>2 DEF Adds, Version
    <3>3. ~(v.entity = w.entity /\ v.revision = w.revision - 1)
      BY <1>0, <3>1, <3>2
    <3> QED BY <3>2, <3>3 DEF VersionsAt
  <2> QED BY <2>1, <2>2
<1>3. CASE row.status = "conflict"
  <2>1. PICK k \in conflicts : k.id = row.sequence /\ k.incomingPayload = row.request.payload
    BY <1>3 DEF AnswerKept
  <2>2. PICK i \in conflicts' : i.id = k.id /\ i.incomingPayload = k.incomingPayload
    OBVIOUS
  <2> QED BY <1>3, <2>1, <2>2 DEF AnswerKept
<1>4. CASE row.status = "accepted"
  <2>1. PICK v \in versions :
          /\ v.sequence = row.sequence
          /\ row.request.kind = "delete" => KeepsDeletedContent(v)
          /\ row.request.kind # "delete" => ~v.deleted /\ KeepsEdit(v, row.request)
    BY <1>4 DEF AnswerKept
  <2>2. KeepsDeletedContent(v) => KeepsDeletedContent(v)'
    BY <1>2 DEF KeepsDeletedContent
  <2>3. KeepsEdit(v, row.request) => KeepsEdit(v, row.request)'
    BY <1>1 DEF KeepsEdit, VersionsAt
  <2> QED BY <1>1, <1>4, <2>1, <2>2, <2>3 DEF AnswerKept
<1> QED BY <1>3, <1>4 DEF AnswerKept

\* The operation that an accepted push answers is kept by the version it adds.
LEMMA PushKept ==
    ASSUME IInv, NEW client \in Client, NEW op \in Operation,
           NEW payload \in NullablePayload, NEW deleted \in BOOLEAN,
           AcceptOperation(client, op, payload, deleted),
           AcceptedPayload(op, payload, deleted),
           op.kind # "delete" => op.payload \in Payload,
           NEW v, Adds(v), v.entity = op.entity, v.payload = payload, v.deleted = deleted,
           NEW row, row = [client |-> client, request |-> op, status |-> "accepted",
                           sequence |-> nextSequence + 1]
    PROVE  AnswerKept(row)'
<1> DEFINE e == op.entity
<1>0. /\ TypeOK /\ e \in Entity /\ records[e].revision \in Nat
      /\ row.status = "accepted" /\ row.request = op /\ row.sequence = nextSequence + 1
      /\ v \in versions' /\ v.sequence = row.sequence
      /\ versions' = versions \union {v} /\ v.revision = records[e].revision + 1
  BY DEF IInv, TypeOK, Record, Operation, Adds
<1>1. CASE op.kind = "delete"
  <2>1. deleted /\ payload = records[e].payload
    BY <1>1 DEF AcceptedPayload
  <2>2. \A before \in VersionsAt(e, v.revision - 1)' :
          before \in VersionsAt(e, records[e].revision)
    BY <1>0 DEF VersionsAt
  <2>3. \A before \in VersionsAt(e, records[e].revision) : before.payload = records[e].payload
    BY <1>0 DEF VersionsAt, IInv, RecordIsLatestVersion
  <2>4. KeepsDeletedContent(v)'
    BY <2>1, <2>2, <2>3 DEF KeepsDeletedContent
  <2> QED BY <1>0, <1>1, <2>4 DEF AnswerKept
<1>2. CASE op.kind # "delete"
  <2>1. ~deleted /\ op.payload \in Payload
    BY <1>2 DEF AcceptedPayload
  <2>2. KeepsEdit(v, op)'
    <3>1. CASE payload = op.payload
      BY <3>1 DEF KeepsEdit
    <3>2. ASSUME NEW base \in VersionsAt(e, op.baseRevision),
                 records[e].payload \in Payload,
                 ConflictingFields(base.payload, records[e].payload, op.payload) = {},
                 payload = MergedPayload(base.payload, records[e].payload, op.payload)
          PROVE  KeepsEdit(v, op)'
      <4>1. base \in VersionsAt(v.entity, op.baseRevision)'
        BY <1>0, <3>2 DEF VersionsAt
      <4>2. \A f \in Field : \/ FieldOf(payload, f) = FieldOf(op.payload, f)
                            \/ FieldOf(base.payload, f) = FieldOf(op.payload, f)
        BY <2>1, <3>2, MergeKeepsEdit
      <4> QED BY <4>1, <4>2 DEF KeepsEdit
    <3> QED BY <1>2, <3>1, <3>2 DEF AcceptedPayload
  <2> QED BY <1>0, <1>2, <2>1, <2>2 DEF AnswerKept
<1> QED BY <1>1, <1>2

\* A retained push is kept by the conflict it adds.
LEMMA RetainedKept ==
    ASSUME TypeOK, NEW client \in Client, NEW op \in Operation, Retain(op),
           NEW row, row = [client |-> client, request |-> op, status |-> "conflict",
                           sequence |-> nextSequence + 1]
    PROVE  AnswerKept(row)'
<1>1. PICK k : k = [id |-> nextSequence + 1, entity |-> op.entity, category |-> op.category,
                    currentRevision |-> records[op.entity].revision,
                    currentPayload |-> records[op.entity].payload,
                    incomingPayload |-> op.payload,
                    status |-> "unresolved", resolutionRevision |-> 0]
  OBVIOUS
<1>2. k \in conflicts' /\ k.id = nextSequence + 1 /\ k.incomingPayload = op.payload
  BY <1>1 DEF Retain
<1> QED BY <1>2 DEF AnswerKept

\* EditKept is inductive, given the invariant.
LEMMA EditKeptStays == IInv /\ EditKept /\ [Next]_vars => EditKept'
<1> SUFFICES ASSUME IInv, EditKept, [Next]_vars PROVE EditKept'
  OBVIOUS
<1>0. TypeOK /\ (EditKept <=> \A row \in operations : AnswerKept(row))
  BY DEF IInv, EditKept, AnswerKept
<1>a. (\A row \in operations' : AnswerKept(row)') => EditKept'
  BY DEF EditKept, AnswerKept
<1>b. UNCHANGED conflicts =>
        \A j \in conflicts :
          \E i \in conflicts' : i.id = j.id /\ i.incomingPayload = j.incomingPayload
  OBVIOUS
<1>1. CASE AcceptedPush
  <2>1. PICK client \in Client, op \in Operation, payload \in NullablePayload, deleted \in BOOLEAN :
          /\ AcceptOperation(client, op, payload, deleted)
          /\ AcceptedPayload(op, payload, deleted)
          /\ op.kind # "delete" => op.payload \in Payload
          /\ UNCHANGED conflicts \/ \E k \in conflicts : MarkResolved(k)
    BY <1>1 DEF AcceptedPush
  <2>2. PICK v : Adds(v) /\ v.entity = op.entity /\ v.payload = payload /\ v.deleted = deleted
    <3>1. PICK source \in (Client \X OperationId) \union {ServerOperation}, e \in Entity,
               cat \in Category, base \in Nat :
            e = op.entity /\ Accept(source, e, cat, base, payload, deleted)
      BY <2>1 DEF Operation, AcceptOperation
    <3> QED BY <3>1, AcceptAdds
  <2>3. PICK new : new = [client |-> client, request |-> op, status |-> "accepted",
                          sequence |-> nextSequence + 1]
    OBVIOUS
  <2>4. operations' = operations \union {new}
    BY <2>1, <2>3 DEF AcceptOperation, Answer
  <2>5. AnswerKept(new)'
    BY <2>1, <2>2, <2>3, PushKept
  <2>6. \A j \in conflicts :
          \E i \in conflicts' : i.id = j.id /\ i.incomingPayload = j.incomingPayload
    BY <1>0, <1>b, <2>1, ConflictsKept
  <2>7. ASSUME NEW row \in operations PROVE AnswerKept(row)'
    BY <1>0, <2>2, <2>6, KeptStays
  <2> QED BY <1>a, <2>4, <2>5, <2>7
<1>2. CASE RetainedPush
  <2>1. PICK client \in Client, op \in Operation : RetainOperation(client, op)
    BY <1>2 DEF RetainedPush
  <2>2. PICK new : new = [client |-> client, request |-> op, status |-> "conflict",
                          sequence |-> nextSequence + 1]
    OBVIOUS
  <2>3. operations' = operations \union {new} /\ UNCHANGED versions /\ conflicts \subseteq conflicts'
    BY <2>1, <2>2 DEF RetainOperation, Retain, Answer
  <2>4. AnswerKept(new)'
    BY <1>0, <2>1, <2>2, RetainedKept DEF RetainOperation
  <2>5. ASSUME NEW row \in operations PROVE AnswerKept(row)'
    BY <1>0, <2>3, KeptStays
  <2> QED BY <1>a, <2>3, <2>4, <2>5
<1>3. CASE Settlement
  <2>1. PICK k \in conflicts, payload \in Payload :
          /\ Accept(ServerOperation, k.entity, k.category, records[k.entity].revision, payload, FALSE)
          /\ MarkResolved(k)
          /\ UNCHANGED operations
    BY <1>3 DEF Settlement
  <2>2. PICK e \in Entity, cat \in Category, base \in Nat :
          Accept(ServerOperation, e, cat, base, payload, FALSE)
    BY <1>0, <2>1 DEF TypeOK, Conflict, Record
  <2>3. \E v : Adds(v)
    <3>1. payload \in NullablePayload /\ FALSE \in BOOLEAN
          /\ ServerOperation \in (Client \X OperationId) \union {ServerOperation}
      BY DEF NullablePayload
    <3> QED BY <2>2, <3>1, AcceptAdds
  <2>4. \A j \in conflicts :
          \E i \in conflicts' : i.id = j.id /\ i.incomingPayload = j.incomingPayload
    BY <1>0, <2>1, ConflictsKept
  <2>5. ASSUME NEW row \in operations PROVE AnswerKept(row)'
    BY <1>0, <2>3, <2>4, KeptStays
  <2> QED BY <1>a, <2>1, <2>5
<1>4. CASE UNCHANGED vars
  BY <1>4 DEF vars, EditKept, KeepsDeletedContent, KeepsEdit, VersionsAt
<1> QED BY <1>1, <1>2, <1>3, <1>4, NextKinds

\* Nothing a client pushed disappears: every field it changed is in the version its
\* operation made, or its payload is in a conflict (applyOperation, mergeFields and
\* conflict of src/records/service.js).
THEOREM EditsAreKept == Spec => []EditKept
<1>1. Init => EditKept
  BY DEF Init, EditKept
<1> QED BY <1>1, EditKeptStays, InductiveInvariant, PTL DEF Spec

-----------------------------------------------------------------------------
(* Conflicts settle once, and categories are present with their records *)

\* Who resolves a conflict takes it from unresolved to resolved by the new version.
LEMMA SettledByVersion ==
    ASSUME IInv, NEW k \in conflicts, k.status = "unresolved", MarkResolved(k),
           NEW v, Adds(v), v.entity = k.entity, ~v.deleted,
           v.baseRevision = records[k.entity].revision,
           NEW j \in conflicts
    PROVE  \/ j \in conflicts'
           \/ /\ j.status = "unresolved"
              /\ \E w \in versions' \ versions :
                   /\ w.entity = j.entity
                   /\ ~w.deleted
                   /\ w.baseRevision = records[j.entity].revision
                   /\ [j EXCEPT !.status = "resolved",
                                !.resolutionRevision = w.revision] \in conflicts'
<1>1. v \in versions' \ versions /\ v.revision = records[k.entity].revision + 1
  BY DEF Adds
<1>2. [k EXCEPT !.status = "resolved", !.resolutionRevision = v.revision] \in conflicts'
  BY <1>1 DEF MarkResolved
<1>3. j # k => j \in conflicts'
  BY DEF MarkResolved
<1> QED BY <1>1, <1>2, <1>3

\* What a step does to a conflict.
LEMMA ConflictStep ==
    ASSUME IInv, [Next]_vars, NEW j \in conflicts
    PROVE  \/ j \in conflicts'
           \/ /\ j.status = "unresolved"
              /\ \E w \in versions' \ versions :
                   /\ w.entity = j.entity
                   /\ ~w.deleted
                   /\ w.baseRevision = records[j.entity].revision
                   /\ [j EXCEPT !.status = "resolved",
                                !.resolutionRevision = w.revision] \in conflicts'
<1> DEFINE Goal == \/ j \in conflicts'
                   \/ /\ j.status = "unresolved"
                      /\ \E w \in versions' \ versions :
                           /\ w.entity = j.entity
                           /\ ~w.deleted
                           /\ w.baseRevision = records[j.entity].revision
                           /\ [j EXCEPT !.status = "resolved",
                                        !.resolutionRevision = w.revision] \in conflicts'
<1>0. TypeOK
  BY DEF IInv
<1>1. CASE AcceptedPush
  <2>1. PICK client \in Client, op \in Operation, payload \in NullablePayload, deleted \in BOOLEAN :
          /\ AcceptOperation(client, op, payload, deleted)
          /\ \/ UNCHANGED conflicts
             \/ \E k \in conflicts :
                  /\ k.status = "unresolved" /\ k.entity = op.entity /\ ~deleted
                  /\ op.baseRevision = records[k.entity].revision
                  /\ MarkResolved(k)
    BY <1>1 DEF AcceptedPush
  <2>2. PICK v : /\ Adds(v) /\ v.entity = op.entity /\ v.baseRevision = op.baseRevision
                 /\ v.deleted = deleted
    <3>1. PICK source \in (Client \X OperationId) \union {ServerOperation}, e \in Entity,
               cat \in Category, base \in Nat :
            e = op.entity /\ base = op.baseRevision
            /\ Accept(source, e, cat, base, payload, deleted)
      BY <2>1 DEF Operation, AcceptOperation
    <3> QED BY <3>1, AcceptAdds
  <2>3. ASSUME NEW k \in conflicts, k.status = "unresolved", k.entity = op.entity, ~deleted,
               op.baseRevision = records[k.entity].revision, MarkResolved(k)
        PROVE  Goal
    <3>1. v.entity = k.entity /\ ~v.deleted /\ v.baseRevision = records[k.entity].revision
      BY <2>2, <2>3
    <3> QED BY <2>2, <2>3, <3>1, SettledByVersion
  <2> QED BY <2>1, <2>3
<1>2. CASE RetainedPush
  BY <1>2 DEF RetainedPush, RetainOperation, Retain
<1>3. CASE Settlement
  <2>1. PICK k \in conflicts, payload \in Payload :
          /\ k.status = "unresolved"
          /\ Accept(ServerOperation, k.entity, k.category, records[k.entity].revision, payload, FALSE)
          /\ MarkResolved(k)
    BY <1>3 DEF Settlement
  <2>2. PICK e \in Entity, cat \in Category, base \in Nat,
             source \in (Client \X OperationId) \union {ServerOperation} :
          /\ e = k.entity /\ base = records[k.entity].revision
          /\ Accept(source, e, cat, base, payload, FALSE)
    BY <1>0, <2>1 DEF TypeOK, Conflict, Record
  <2>3. PICK v : Adds(v) /\ v.entity = e /\ v.baseRevision = base /\ v.deleted = FALSE
    <3>1. PICK deleted \in BOOLEAN : /\ deleted = FALSE /\ payload \in NullablePayload
                                   /\ Accept(source, e, cat, base, payload, deleted)
      BY <2>2 DEF NullablePayload
    <3> QED BY <3>1, AcceptAdds
  <2>4. v.entity = k.entity /\ ~v.deleted /\ v.baseRevision = records[k.entity].revision
    BY <2>2, <2>3
  <2> QED BY <2>1, <2>3, <2>4, SettledByVersion
<1>4. CASE UNCHANGED vars
  BY <1>4 DEF vars
<1> QED BY <1>1, <1>2, <1>3, <1>4, NextKinds

\* A conflict is settled at most once, by a live revision made from the current one
\* (resolveConflict and resolveConflictForAccount of src/records/service.js).
THEOREM ConflictsAreSettledOnce == Spec => ConflictsSettleOnce
<1> DEFINE A == \A k \in conflicts :
                  \/ k \in conflicts'
                  \/ /\ k.status = "unresolved"
                     /\ \E v \in versions' \ versions :
                          /\ v.entity = k.entity
                          /\ ~v.deleted
                          /\ v.baseRevision = records[k.entity].revision
                          /\ [k EXCEPT !.status = "resolved",
                                       !.resolutionRevision = v.revision] \in conflicts'
<1>1. IInv /\ [Next]_vars => [A]_vars
  BY ConflictStep
<1>2. ConflictsSettleOnce <=> [][A]_vars
  BY DEF ConflictsSettleOnce
<1> HIDE DEF A
<1> QED BY <1>1, <1>2, InductiveInvariant, PTL DEF Spec

\* What is live is in the category of its entity: only deletions take a record elsewhere.
LiveInPlace == \A e \in Entity : Live(records[e]) => records[e].category = CategoryOf[e]

\* The last change that tells of e is i, and it put e, live, into its category.
ToldLast(e, i) ==
    /\ TellsOf(i, e)
    /\ changes[i].category = CategoryOf[e] /\ changes[i].kind # "tombstone"
    /\ \A k \in DOMAIN changes : i < k => ~TellsOf(k, e)

LiveTold == \A e \in Entity : Live(records[e]) => \E i \in DOMAIN changes : ToldLast(e, i)

PresenceInv == LiveInPlace /\ LiveTold /\ CategoryPresence

\* What the log says of revisions and abandoned categories stays said when a change is
\* appended: a conflict, or a revision of another entity or category.
LEMMA AppendKeepsTold ==
    ASSUME changes \in Seq(Change), NEW c, changes' = Append(changes, c)
    PROVE  /\ \A e \in Entity : c.kind = "conflict" \/ c.entity # e =>
                ((\E i \in DOMAIN changes : ToldLast(e, i))
                    => \E i \in DOMAIN changes' : ToldLast(e, i)')
           /\ \A cat \in Category : c.kind = "conflict" \/ c.category # cat =>
                (Abandoned(cat) => Abandoned(cat)')
<1> DEFINE n == Len(changes) + 1
<1>1. /\ DOMAIN changes = 1 .. Len(changes) /\ Len(changes) \in Nat
      /\ DOMAIN changes' = 1 .. n
      /\ changes'[n] = c
      /\ \A k \in DOMAIN changes : k \in DOMAIN changes' /\ changes'[k] = changes[k] /\ k < n
      /\ \A k \in DOMAIN changes' : k = n \/ k \in DOMAIN changes
  OBVIOUS
<1>2. ASSUME NEW e \in Entity, c.kind = "conflict" \/ c.entity # e,
             NEW i \in DOMAIN changes, ToldLast(e, i)
      PROVE  \E j \in DOMAIN changes' : ToldLast(e, j)'
  <2>1. TellsOf(i, e)' /\ (\A k \in DOMAIN changes' : i < k => ~TellsOf(k, e)')
    BY <1>1, <1>2 DEF ToldLast, TellsOf
  <2> QED BY <1>1, <1>2, <2>1 DEF ToldLast
<1>3. ASSUME NEW cat \in Category, c.kind = "conflict" \/ c.category # cat, Abandoned(cat)
      PROVE  Abandoned(cat)'
  <2>1. PICK e \in Entity, i \in DOMAIN changes, j \in DOMAIN changes :
          /\ i < j /\ TellsOf(i, e) /\ TellsOf(j, e)
          /\ changes[i].category = cat /\ changes[i].kind # "tombstone"
          /\ changes[j].kind = "tombstone"
          /\ \A k \in DOMAIN changes :
               /\ i < k /\ k < j => ~TellsOf(k, e)
               /\ changes[k].kind # "conflict" /\ changes[k].category = cat => k < j
    BY <1>3 DEF Abandoned
  <2>2. /\ TellsOf(i, e)' /\ TellsOf(j, e)'
        /\ changes'[i] = changes[i] /\ changes'[j] = changes[j]
        /\ i \in DOMAIN changes' /\ j \in DOMAIN changes'
    BY <1>1, <2>1 DEF TellsOf
  <2>3. ASSUME NEW k \in DOMAIN changes'
        PROVE  /\ i < k /\ k < j => ~TellsOf(k, e)'
               /\ changes'[k].kind # "conflict" /\ changes'[k].category = cat => k < j
    <3>1. CASE k = n
      BY <1>1, <1>3, <3>1
    <3>2. CASE k \in DOMAIN changes
      BY <1>1, <2>1, <3>2 DEF TellsOf
    <3> QED BY <1>1, <3>1, <3>2
  <2> QED BY <2>1, <2>2, <2>3 DEF Abandoned
<1> QED BY <1>2, <1>3

\* An accepted revision sets the presence of its category, and abandons the one it takes
\* its record from.
LEMMA AcceptKeepsPresence ==
    ASSUME IInv, PresenceInv, NEW source, NEW e \in Entity, NEW cat \in Category, NEW base,
           NEW payload, NEW deleted \in BOOLEAN, deleted \/ cat = CategoryOf[e],
           Accept(source, e, cat, base, payload, deleted)
    PROVE  PresenceInv'
<1>n. PICK n : n = Len(changes) + 1
  OBVIOUS
<1>0. /\ TypeOK /\ records \in [Entity -> Record] /\ records[e].revision \in Nat
      /\ categoryPresent \in [Category -> BOOLEAN] /\ changes \in Seq(Change)
  BY DEF IInv, TypeOK, Record
<1>1. PICK row : row = [revision |-> records[e].revision + 1, category |-> cat,
                        deleted |-> deleted, payload |-> payload, sequence |-> nextSequence + 1]
  OBVIOUS
<1>2. /\ records' = [records EXCEPT ![e] = row]
      /\ categoryPresent' = [categoryPresent EXCEPT ![cat] = PresentAfter(cat, deleted, records')]
  BY <1>1 DEF Accept, NextRevision
<1>3. row.category = cat /\ row.deleted = deleted /\ row.revision > 0
  BY <1>0, <1>1
<1>4. records'[e] = row /\ \A d \in Entity \ {e} : records'[d] = records[d]
  BY <1>0, <1>2
<1>5. PICK c : /\ changes' = Append(changes, c)
               /\ c.kind = ChangeKind(e, deleted) /\ c.entity = e /\ c.category = cat
  BY DEF Accept
<1>6. c.kind # "conflict" /\ (c.kind = "tombstone" <=> deleted)
  BY <1>5 DEF ChangeKind
<1>7. /\ DOMAIN changes = 1 .. Len(changes) /\ Len(changes) \in Nat
      /\ DOMAIN changes' = 1 .. n
      /\ n \in Nat /\ n \in DOMAIN changes' /\ changes'[n] = c
      /\ \A k \in DOMAIN changes : k \in DOMAIN changes' /\ changes'[k] = changes[k] /\ k < n
      /\ \A k \in DOMAIN changes' : k = n \/ k \in DOMAIN changes
  BY <1>0, <1>5, <1>n
<1>8. LiveInPlace'
  BY <1>3, <1>4 DEF PresenceInv, LiveInPlace, Live
<1>9. LiveTold'
  <2>1. ASSUME Live(records'[e])
        PROVE  ToldLast(e, n)'
    <3>1. ~deleted
      BY <1>3, <1>4, <2>1 DEF Live
    <3>2. \A k \in DOMAIN changes' : ~(n < k)
      <4>1. \A k \in 1 .. n : ~(n < k)
        BY <1>7
      <4> QED BY <1>7, <4>1
    <3> QED BY <1>5, <1>6, <1>7, <3>1, <3>2 DEF ToldLast, TellsOf
  <2>2. ASSUME NEW d \in Entity \ {e}, Live(records'[d])
        PROVE  \E i \in DOMAIN changes' : ToldLast(d, i)'
    <3>1. \E i \in DOMAIN changes : ToldLast(d, i)
      BY <1>4, <2>2 DEF PresenceInv, LiveTold
    <3> QED BY <1>0, <1>5, <3>1, AppendKeepsTold
  <2>3. n \in DOMAIN changes'
    BY <1>7
  <2> QED BY <2>1, <2>2, <2>3 DEF LiveTold
<1>10. ASSUME NEW other \in Category, other # cat, Live(records[e]), records[e].category = other
       PROVE  Abandoned(other)'
  <2>1. deleted /\ CategoryOf[e] = other
    BY <1>10 DEF PresenceInv, LiveInPlace
  <2>2. PICK i \in DOMAIN changes : ToldLast(e, i)
    BY <1>10 DEF PresenceInv, LiveTold
  <2>3. /\ TellsOf(i, e)' /\ TellsOf(n, e)' /\ i < n
        /\ changes'[i].category = other /\ changes'[i].kind # "tombstone"
        /\ changes'[n].kind = "tombstone" /\ changes'[n].category # other
    BY <1>5, <1>6, <1>7, <1>10, <2>1, <2>2 DEF ToldLast, TellsOf
  <2>4. ASSUME NEW k \in DOMAIN changes'
        PROVE  /\ i < k /\ k < n => ~TellsOf(k, e)'
               /\ changes'[k].kind # "conflict" /\ changes'[k].category = other => k < n
    <3>1. CASE k = n
      BY <1>7, <2>3, <3>1
    <3>2. CASE k \in DOMAIN changes
      BY <1>7, <2>2, <3>2 DEF ToldLast, TellsOf
    <3> QED BY <1>7, <3>1, <3>2
  <2> QED BY <1>7, <2>3, <2>4 DEF Abandoned
<1>11. ASSUME NEW other \in Category
       PROVE  /\ Held(other)' => categoryPresent'[other]
              /\ categoryPresent'[other] => Held(other)' \/ Abandoned(other)'
  <2>1. CASE other = cat
    <3>1. categoryPresent'[other] <=> PresentAfter(cat, deleted, records')
      BY <1>0, <1>2, <2>1
    <3>2. ~deleted => Held(other)'
      BY <1>3, <1>4, <2>1 DEF Live, Held
    <3> QED BY <2>1, <3>1, <3>2 DEF PresentAfter, Held
  <2>2. CASE other # cat
    <3>1. categoryPresent'[other] = categoryPresent[other]
      BY <1>0, <1>2, <2>2
    <3>2. Held(other)' => Held(other)
      BY <1>3, <1>4, <2>2 DEF Held
    <3>3. Held(other) => Held(other)' \/ Abandoned(other)'
      BY <1>4, <1>10, <2>2 DEF Held
    <3>4. Abandoned(other) => Abandoned(other)'
      BY <1>0, <1>5, <2>2, AppendKeepsTold
    <3> QED BY <3>1, <3>2, <3>3, <3>4 DEF PresenceInv, CategoryPresence
  <2> QED BY <2>1, <2>2
<1>12. CategoryPresence'
  BY <1>11 DEF CategoryPresence
<1> QED BY <1>8, <1>9, <1>12 DEF PresenceInv

\* A conflict changes no record and no presence.
LEMMA RetainKeepsPresence ==
    ASSUME IInv, PresenceInv, NEW op, Retain(op)
    PROVE  PresenceInv'
<1>1. changes \in Seq(Change) /\ UNCHANGED <<records, categoryPresent>>
  BY DEF IInv, TypeOK, Retain
<1>2. PICK c : changes' = Append(changes, c) /\ c.kind = "conflict"
  BY DEF Retain
<1>3. LiveTold'
  BY <1>1, <1>2, AppendKeepsTold DEF PresenceInv, LiveTold
<1>4. \A cat \in Category : Abandoned(cat) => Abandoned(cat)'
  BY <1>1, <1>2, AppendKeepsTold
<1>5. CategoryPresence'
  BY <1>1, <1>4 DEF PresenceInv, CategoryPresence, Held
<1> QED BY <1>1, <1>3, <1>5 DEF PresenceInv, LiveInPlace

\* Presence is inductive.
LEMMA PresenceStays ==
    ASSUME IInv, PresenceInv, [Next]_vars
    PROVE  PresenceInv'
<1>0. TypeOK
  BY DEF IInv
<1>1. CASE AcceptedPush
  <2>1. PICK client \in Client, op \in Operation, payload \in NullablePayload, deleted \in BOOLEAN :
          /\ CategoryNamed(op)
          /\ AcceptOperation(client, op, payload, deleted)
          /\ AcceptedPayload(op, payload, deleted)
    BY <1>1 DEF AcceptedPush
  <2>2. op.entity \in Entity /\ op.category \in Category
    BY <2>1 DEF Operation
  <2>3. deleted \/ op.category = CategoryOf[op.entity]
    BY <2>1 DEF CategoryNamed, AcceptedPayload
  <2>4. Accept(<<client, op.operationId>>, op.entity, op.category, op.baseRevision, payload, deleted)
    BY <2>1 DEF AcceptOperation
  <2>5. PICK e \in Entity, cat \in Category : e = op.entity /\ cat = op.category
    BY <2>2
  <2>6. PICK source, base : Accept(source, e, cat, base, payload, deleted)
    BY <2>4, <2>5
  <2> QED BY <2>3, <2>5, <2>6, AcceptKeepsPresence
<1>2. CASE RetainedPush
  BY <1>2, RetainKeepsPresence DEF RetainedPush, RetainOperation
<1>3. CASE Settlement
  <2>1. PICK k \in conflicts, payload \in Payload :
          /\ k.category = CategoryOf[k.entity]
          /\ Accept(ServerOperation, k.entity, k.category, records[k.entity].revision, payload, FALSE)
    BY <1>3 DEF Settlement
  <2>2. PICK e \in Entity, cat \in Category : e = k.entity /\ cat = k.category
    BY <1>0, <2>1 DEF TypeOK, Conflict
  <2>3. PICK base : Accept(ServerOperation, e, cat, base, payload, FALSE)
    BY <2>1, <2>2
  <2> QED BY <2>1, <2>2, <2>3, AcceptKeepsPresence
<1>4. CASE UNCHANGED vars
  BY <1>4 DEF vars, PresenceInv, LiveInPlace, LiveTold, ToldLast, TellsOf, CategoryPresence,
              Held, Abandoned
<1> QED BY <1>1, <1>2, <1>3, <1>4, NextKinds

\* A category is marked present when one of its records is live, and else only when a
\* deletion that named another category took its last one (accept of
\* src/records/service.js), whatever categories deletions name.
THEOREM CategoriesPresent == Spec => []CategoryPresence
<1>1. Init => PresenceInv
  <2> SUFFICES ASSUME Init PROVE PresenceInv
    OBVIOUS
  <2>1. \A e \in Entity : ~Live(records[e])
    BY DEF Init, Live
  <2>2. \A cat \in Category : ~categoryPresent[cat]
    BY DEF Init
  <2> QED BY <2>1, <2>2 DEF PresenceInv, LiveInPlace, LiveTold, CategoryPresence, Held
<1>2. IInv /\ PresenceInv /\ [Next]_vars => PresenceInv'
  BY PresenceStays
<1>3. PresenceInv => CategoryPresence
  BY DEF PresenceInv
<1> QED BY <1>1, <1>2, <1>3, InductiveInvariant, PTL DEF Spec
=============================================================================
