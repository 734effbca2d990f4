------------------------- MODULE RecordReplication --------------------------
(***************************************************************************)
(* The record service of one space: src/records/service.js over a          *)
(* repository whose transactions on a space are serial (a promise chain in *)
(* memory-repository.js, SELECT ... FOR UPDATE on the spaces row in        *)
(* postgres-repository.js).  A transaction is therefore one step here, and *)
(* what interleaves is whole operations of different clients, each made    *)
(* against a revision its client saw some time ago.                        *)
(*                                                                         *)
(* Tables are sets of rows, except records (one row per entity, revision 0 *)
(* standing for no row) and changes (an array the service appends to).     *)
(* Payloads are functions from fields to values; wire formats, schemas,    *)
(* times and retention dates are left out.                                 *)
(***************************************************************************)
EXTENDS Naturals, Sequences

CONSTANTS
    Client,            \* clients of the space
    OperationId,       \* operation ids a client may choose
    ServerOperation,   \* stands for the fresh ids the server makes up
    Entity, Category, Field, Value,
    NoPayload,         \* the payload null
    CategoryOf,        \* the registry's category of an entity
    Policy,            \* the registry's merge policy of an entity
    DeleteCategories,  \* the categories clients name when they delete an entity
    MaxSequence        \* bound on nextSequence

Payload == [Field -> Value]
NullablePayload == Payload \union {NoPayload}

ASSUME ConstantAssumption ==
    /\ NoPayload \notin Payload
    /\ ServerOperation \notin Client \X OperationId
    /\ CategoryOf \in [Entity -> Category]
    /\ Policy \in [Entity -> {"field", "copy", "lww"}]
    /\ DeleteCategories \in [Entity -> SUBSET Category]
    /\ MaxSequence \in Nat

VARIABLES
    nextSequence,      \* the last sequence number given out
    records,           \* the current row of every entity
    versions,          \* every accepted revision
    operations,        \* what each (client, operation id) was answered
    conflicts,         \* retained conflicts; the id is the conflict's sequence
    changes,           \* the change stream
    categoryPresent    \* category_state.present

vars == <<nextSequence, records, versions, operations, conflicts, changes,
          categoryPresent>>

-----------------------------------------------------------------------------
(* Rows *)

Record == [revision : Nat, category : Category, deleted : BOOLEAN,
           payload : NullablePayload, sequence : Nat]

Version == [entity : Entity, revision : Nat \ {0}, baseRevision : Nat,
            source : (Client \X OperationId) \union {ServerOperation},
            deleted : BOOLEAN, payload : NullablePayload, sequence : Nat \ {0}]

Operation == [operationId : OperationId, entity : Entity, category : Category,
              baseRevision : Nat, kind : {"upsert", "delete", "resolveConflict"},
              payload : NullablePayload, conflictId : Nat]

Outcome == [client : Client, request : Operation,
            status : {"accepted", "conflict"}, sequence : Nat \ {0}]

Conflict == [id : Nat \ {0}, entity : Entity, category : Category,
             currentRevision : Nat, currentPayload : NullablePayload,
             incomingPayload : NullablePayload,
             status : {"unresolved", "resolved"}, resolutionRevision : Nat]

Change == [sequence : Nat \ {0},
           kind     : {"record", "tombstone", "restore", "conflict"},
           entity   : Entity, category : Category, revision : Nat]

TypeOK ==
    /\ nextSequence \in Nat
    /\ records \in [Entity -> Record]
    /\ versions \subseteq Version
    /\ operations \subseteq Outcome
    /\ conflicts \subseteq Conflict
    /\ changes \in Seq(Change)
    /\ categoryPresent \in [Category -> BOOLEAN]

Init ==
    /\ nextSequence = 0
    /\ records = [e \in Entity |-> [revision |-> 0, category |-> CategoryOf[e],
                                    deleted |-> FALSE, payload |-> NoPayload,
                                    sequence |-> 0]]
    /\ versions = {}
    /\ operations = {}
    /\ conflicts = {}
    /\ changes = <<>>
    /\ categoryPresent = [cat \in Category |-> FALSE]

-----------------------------------------------------------------------------
(* Three-way merge of payloads, field by field *)

\* A field of a payload that may be null: base?.[key] in mergeFields.
FieldOf(payload, f) == IF payload = NoPayload THEN NoPayload ELSE payload[f]

ChangedFields(base, payload) ==
    {f \in Field : FieldOf(payload, f) # FieldOf(base, f)}

\* Mutant: both sides changed a field and the current side silently wins.
NoConflictingFields(base, current, incoming) == {}

\* Fields both sides changed, to different values.
ConflictingFields(base, current, incoming) ==
    {f \in ChangedFields(base, current) \intersect ChangedFields(base, incoming) :
        FieldOf(current, f) # FieldOf(incoming, f)}

\* Mutants: a merge that keeps the fields nobody changed out of the payload;
\* one that takes the whole incoming payload.
MergedTouchedFields(base, current, incoming) ==
    [f \in ChangedFields(base, incoming) \union ChangedFields(base, current) |->
        IF f \in ChangedFields(base, current)
        THEN FieldOf(current, f)
        ELSE FieldOf(incoming, f)]
MergedByTakingIncoming(base, current, incoming) == incoming

\* The current payload with the fields that only the incoming side changed.
MergedPayload(base, current, incoming) ==
    [f \in Field |->
        IF f \in ChangedFields(base, incoming) \ ChangedFields(base, current)
        THEN FieldOf(incoming, f)
        ELSE FieldOf(current, f)]

-----------------------------------------------------------------------------
(* Steps of a transaction *)

Exists(e) == records[e].revision > 0
Live(row) == row.revision > 0 /\ ~row.deleted

IsStale(op) == op.baseRevision # records[op.entity].revision

VersionsAt(e, revision) == {v \in versions : v.entity = e /\ v.revision = revision}

\* Mutant: the revision follows the base the client named.
RevisionAfterBase(e, baseRevision) == baseRevision + 1

NextRevision(e, baseRevision) == records[e].revision + 1

\* Mutant: only the record just written counts.
PresentAfterThis(cat, deleted, rows) == ~deleted

\* Whether a category has content once one of its records was written.
PresentAfter(cat, deleted, rows) ==
    ~deleted \/ \E e \in Entity : Live(rows[e]) /\ rows[e].category = cat

\* Mutant: a restore is announced as an ordinary edit.
ChangeKindWithoutRestore(e, deleted) == IF deleted THEN "tombstone" ELSE "record"

ChangeKind(e, deleted) ==
    IF deleted THEN "tombstone" ELSE IF records[e].deleted THEN "restore" ELSE "record"

\* A new current revision of e: version, record, category row and change.
Accept(source, e, cat, baseRevision, payload, deleted) ==
    LET revision == NextRevision(e, baseRevision)
        sequence == nextSequence + 1
        row == [revision |-> revision, category |-> cat, deleted |-> deleted,
                payload |-> payload, sequence |-> sequence]
        rows == [records EXCEPT ![e] = row]
    IN  /\ nextSequence' = sequence
        /\ versions' = versions \union
               {[entity |-> e, revision |-> revision, baseRevision |-> baseRevision,
                 source |-> source, deleted |-> deleted, payload |-> payload,
                 sequence |-> sequence]}
        /\ records' = rows
        /\ categoryPresent' =
               [categoryPresent EXCEPT ![cat] = PresentAfter(cat, deleted, rows)]
        /\ changes' = Append(changes,
               [sequence |-> sequence, kind |-> ChangeKind(e, deleted), entity |-> e,
                category |-> cat, revision |-> revision])

\* The record stays; the incoming payload is kept beside it, unresolved.
Retain(op) ==
    LET sequence == nextSequence + 1
    IN  /\ nextSequence' = sequence
        /\ conflicts' = conflicts \union
               {[id |-> sequence, entity |-> op.entity, category |-> op.category,
                 currentRevision |-> records[op.entity].revision,
                 currentPayload |-> records[op.entity].payload,
                 incomingPayload |-> op.payload,
                 status |-> "unresolved", resolutionRevision |-> 0]}
        /\ changes' = Append(changes,
               [sequence |-> sequence, kind |-> "conflict", entity |-> op.entity,
                category |-> op.category, revision |-> records[op.entity].revision])
        /\ UNCHANGED <<records, versions, categoryPresent>>

\* Marks conflict k resolved by the revision that Accept gives its entity.
MarkResolved(k) ==
    conflicts' = (conflicts \ {k}) \union
        {[k EXCEPT !.status = "resolved",
                   !.resolutionRevision = records[k.entity].revision + 1]}

-----------------------------------------------------------------------------
(* push: one operation of a batch.  A batch is a client's next operations   *)
(* one after the other: each is a transaction of its own, and one that      *)
(* throws ends the batch and loses the answers of those before it, which    *)
(* the client then sends again.                                             *)

\* The operations a client may send about e: those the operation schema and
\* validateEntity let through.  Its base is a revision of e it may have seen.
OperationsOn(e) ==
    LET Requests(kind, cats, payloads, ids) ==
            [operationId : OperationId, entity : {e}, category : cats,
             baseRevision : 0 .. records[e].revision, kind : {kind},
             payload : payloads, conflictId : ids]
    IN  Requests("upsert", {CategoryOf[e]}, Payload, {0})
        \union Requests("delete", DeleteCategories[e], {NoPayload}, {0})
        \union Requests("resolveConflict", {CategoryOf[e]}, Payload,
                        {k.id : k \in conflicts})

\* Mutant: an id used again for another request counts as a new operation.
SameRequestBefore(client, op) ==
    \E row \in operations : row.client = client /\ row.request = op

AnsweredBefore(client, op) ==
    \E row \in operations :
        row.client = client /\ row.request.operationId = op.operationId

\* putOperation: the answer is remembered for replays of the operation.
Answer(client, op, status) ==
    operations' = operations \union
        {[client |-> client, request |-> op, status |-> status,
          sequence |-> nextSequence + 1]}

AcceptOperation(client, op, payload, deleted) ==
    /\ Accept(<<client, op.operationId>>, op.entity, op.category,
              op.baseRevision, payload, deleted)
    /\ Answer(client, op, "accepted")

RetainOperation(client, op) ==
    /\ Retain(op)
    /\ Answer(client, op, "conflict")

\* An operation sent again is answered from the operations table, and refused
\* when its id was used for another request; nothing is written.
Replay(client) ==
    /\ \E row \in operations : row.client = client
    /\ UNCHANGED vars

\* The base is current: a delete keeps the payload in its tombstone.
ApplyCurrent(client, op) ==
    /\ op.kind # "resolveConflict"
    /\ ~IsStale(op)
    /\ AcceptOperation(client, op,
          IF op.kind = "delete" THEN records[op.entity].payload ELSE op.payload,
          op.kind = "delete")
    /\ UNCHANGED conflicts

LastWriterWins(op) == Policy[op.entity] = "lww" /\ op.kind = "upsert"

\* Mutant: a stale edit is merged into a tombstone too.
MergeBasesOfTombstones(op) ==
    IF op.kind = "delete"
    THEN {}
    ELSE {base \in VersionsAt(op.entity, op.baseRevision) :
            ConflictingFields(base.payload, records[op.entity].payload, op.payload) = {}}

\* The versions a stale operation can be merged from: none when the record
\* is a tombstone, when it deletes, or when its base was not retained.
MergeBases(op) ==
    IF records[op.entity].deleted \/ op.kind = "delete"
    THEN {}
    ELSE {base \in VersionsAt(op.entity, op.baseRevision) :
            ConflictingFields(base.payload, records[op.entity].payload, op.payload) = {}}

ApplyStale(client, op) ==
    /\ op.kind # "resolveConflict"
    /\ IsStale(op)
    /\ \/ /\ LastWriterWins(op)
          /\ AcceptOperation(client, op, op.payload, FALSE)
          /\ UNCHANGED conflicts
       \/ /\ ~LastWriterWins(op)
          /\ \E base \in MergeBases(op) :
                AcceptOperation(client, op,
                    MergedPayload(base.payload, records[op.entity].payload, op.payload),
                    FALSE)
          /\ UNCHANGED conflicts
       \/ /\ ~LastWriterWins(op)
          /\ MergeBases(op) = {}
          /\ RetainOperation(client, op)

\* Mutant: a conflict settled before is settled again.
ResolutionOfAnyStatus(op, k) ==
    Exists(k.entity) /\ op.baseRevision = records[k.entity].revision

\* Whether a pushed resolution of conflict k still speaks of the current record.
ResolutionCurrent(op, k) ==
    /\ k.status = "unresolved"
    /\ Exists(k.entity)
    /\ op.baseRevision = records[k.entity].revision

\* A resolution that comes too late is itself retained as a conflict.
ResolveConflict(client, op) ==
    /\ op.kind = "resolveConflict"
    /\ \E k \in conflicts :
        /\ k.id = op.conflictId
        /\ k.entity = op.entity
        /\ \/ /\ ResolutionCurrent(op, k)
              /\ AcceptOperation(client, op, op.payload, FALSE)
              /\ MarkResolved(k)
           \/ /\ ~ResolutionCurrent(op, k)
              /\ RetainOperation(client, op)

ApplyOperation(client, op) ==
    /\ ~AnsweredBefore(client, op)
    /\ \/ ApplyCurrent(client, op)
       \/ ApplyStale(client, op)
       \/ ResolveConflict(client, op)

Push(client) ==
    /\ nextSequence < MaxSequence
    /\ \E e \in Entity : \E op \in OperationsOn(e) : ApplyOperation(client, op)

\* restore: one transaction reads the tombstone, another pushes its payload
\* back.  Other transactions may come between, so the payload is that of
\* some tombstone e has had since the client chose its base.
Restore(client) ==
    /\ nextSequence < MaxSequence
    /\ \E tombstone \in versions, id \in OperationId :
        /\ tombstone.deleted
        /\ tombstone.payload # NoPayload
        /\ \E base \in 0 .. tombstone.revision :
              ApplyOperation(client,
                  [operationId |-> id, entity |-> tombstone.entity,
                   category |-> CategoryOf[tombstone.entity], baseRevision |-> base,
                   kind |-> "upsert", payload |-> tombstone.payload, conflictId |-> 0])

-----------------------------------------------------------------------------
(* resolveConflictForAccount: an administrator settles a conflict *)

\* The payloads that validateEntity can let through for a chosen resolution.
ResolutionPayloads(k, resolution) ==
    Payload \intersect CASE resolution = "current"  -> {k.currentPayload}
                         [] resolution = "incoming" -> {k.incomingPayload}
                         [] resolution = "manual"   -> Payload

\* The caller must name the revision that is current now; a conflict settled
\* before is answered with its resolution and nothing is written.
ResolveForAccount(k, resolution, baseRevision) ==
    /\ nextSequence < MaxSequence
    /\ k.status = "unresolved"
    /\ Exists(k.entity)
    /\ baseRevision = records[k.entity].revision
    /\ k.category = CategoryOf[k.entity]
    /\ \E payload \in ResolutionPayloads(k, resolution) :
          Accept(ServerOperation, k.entity, k.category, baseRevision, payload, FALSE)
    /\ MarkResolved(k)
    /\ UNCHANGED operations

Administer ==
    \E k \in conflicts, resolution \in {"current", "incoming", "manual"} :
        \E baseRevision \in 0 .. records[k.entity].revision :
            ResolveForAccount(k, resolution, baseRevision)

-----------------------------------------------------------------------------

Next ==
    \/ \E client \in Client : Push(client) \/ Replay(client) \/ Restore(client)
    \/ Administer

Spec == Init /\ [][Next]_vars

-----------------------------------------------------------------------------
(* Properties *)

\* The record and version tables agree: the revisions of an entity are
\* 1, 2, ..., revision, each kept once and in sequence order, and the record
\* is a copy of the last one.  Merging, listing a conflict's base and
\* restoring all read versions that accept wrote long before.
RecordIsLatestVersion ==
    \A e \in Entity :
        /\ \A r \in 1 .. records[e].revision : VersionsAt(e, r) # {}
        /\ \A v \in versions : v.entity = e =>
            /\ v.revision <= records[e].revision
            /\ v.revision = records[e].revision =>
                /\ v.deleted = records[e].deleted
                /\ v.payload = records[e].payload
                /\ v.sequence = records[e].sequence
            /\ \A w \in versions : w.entity = e =>
                (v.revision <= w.revision <=> v.sequence <= w.sequence)

\* However often and in whatever order clients repeat their operations, an
\* operation makes at most one revision or one conflict, and has one answer.
OperationAppliedOnce ==
    /\ \A v, w \in versions :
        v.source = w.source /\ v.source # ServerOperation => v = w
    /\ \A a, b \in operations :
        \/ a = b
        \/ a.sequence # b.sequence
           /\ (a.client # b.client \/ a.request.operationId # b.request.operationId)

\* An accepted edit changes no field that somebody else changed after the base
\* it was made from, unless its entity is declared last-writer-wins.
NoLostUpdate ==
    \A v \in versions : Policy[v.entity] # "lww" =>
        \A before \in VersionsAt(v.entity, v.revision - 1),
           base \in VersionsAt(v.entity, v.baseRevision) :
            ChangedFields(before.payload, v.payload)
                \intersect ChangedFields(base.payload, before.payload) = {}

\* v has every field the request changed relative to the request's base.
KeepsEdit(v, request) ==
    \A f \in Field :
        \/ FieldOf(v.payload, f) = FieldOf(request.payload, f)
        \/ \E base \in VersionsAt(v.entity, request.baseRevision) :
              FieldOf(base.payload, f) = FieldOf(request.payload, f)

\* v is a tombstone with the content that was deleted.
KeepsDeletedContent(v) ==
    /\ v.deleted
    /\ \A before \in VersionsAt(v.entity, v.revision - 1) : v.payload = before.payload

\* Nothing a client pushed disappears.  An accepted edit made every change it
\* asked for, a delete kept the content it deleted, and the payload of every
\* other operation is retained in a conflict.
EditKept ==
    \A row \in operations :
        \/ /\ row.status = "conflict"
           /\ \E k \in conflicts :
                k.id = row.sequence /\ k.incomingPayload = row.request.payload
        \/ /\ row.status = "accepted"
           /\ \E v \in versions :
                /\ v.sequence = row.sequence
                /\ IF row.request.kind = "delete"
                   THEN KeepsDeletedContent(v)
                   ELSE ~v.deleted /\ KeepsEdit(v, row.request)

\* An edit or restore made from a revision older than a tombstone never brings
\* the record back: whatever follows a tombstone was made from that tombstone.
StaysDeleted(e) ==
    \A v \in versions : v.entity = e /\ ~v.deleted =>
        \A before \in VersionsAt(e, v.revision - 1) :
            before.deleted => v.baseRevision = before.revision

NoStaleResurrection == \A e \in Entity : Policy[e] # "lww" => StaysDeleted(e)

\* The same without the exception, as the design states it for every entity.
NoResurrection == \A e \in Entity : StaysDeleted(e)

\* A conflict is never dropped and is settled at most once, by a live revision
\* made from the revision that was current; its payloads never change.
ConflictsSettleOnce ==
    [][\A k \in conflicts :
        \/ k \in conflicts'
        \/ /\ k.status = "unresolved"
           /\ \E v \in versions' \ versions :
                /\ v.entity = k.entity
                /\ ~v.deleted
                /\ v.baseRevision = records[k.entity].revision
                /\ [k EXCEPT !.status = "resolved",
                             !.resolutionRevision = v.revision] \in conflicts']_vars

\* Change i tells of a revision of e.
TellsOf(i, e) == changes[i].entity = e /\ changes[i].kind # "conflict"

\* A live record of cat was deleted under another category, and no record of cat was
\* written since.
Abandoned(cat) ==
    \E e \in Entity : \E i, j \in DOMAIN changes :
        /\ i < j /\ TellsOf(i, e) /\ TellsOf(j, e)
        /\ changes[i].category = cat /\ changes[i].kind # "tombstone"
        /\ changes[j].kind = "tombstone"
        /\ \A k \in DOMAIN changes :
             /\ i < k /\ k < j => ~TellsOf(k, e)
             /\ changes[k].kind # "conflict" /\ changes[k].category = cat => k < j

Held(cat) == \E e \in Entity : Live(records[e]) /\ records[e].category = cat

\* A category is marked present when one of its records is live, and else only when a
\* deletion that named another category took its last one: the category that such a
\* deletion leaves is not written.
CategoryPresence ==
    \A cat \in Category :
        /\ Held(cat) => categoryPresent[cat]
        /\ categoryPresent[cat] => Held(cat) \/ Abandoned(cat)

\* The change stream is a space log: dense, in order, truthful about kinds.
Log == INSTANCE SpaceLog
    WITH log <- changes,
         head <- [e \in Entity |-> [revision |-> records[e].revision,
                                    deleted |-> records[e].deleted]]

ImplementsSpaceLog == Log!LogSpec

=============================================================================
