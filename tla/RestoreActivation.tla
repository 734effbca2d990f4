-------------------------- MODULE RestoreActivation --------------------------
(***************************************************************************)
(* Staged restore: stage, drill and apply of src/backup/restore.js over    *)
(* the snapshot and the transactions of src/backup/postgres-repository.js, *)
(* with the trigger of src/migrations/0002_records.sql that gives a new    *)
(* space its stream floor.                                                 *)
(*                                                                         *)
(* Restores of several stages run side by side, among the pushes of the    *)
(* clients.  A transaction works on rows of its own until it commits; the  *)
(* rows of spaces and stages it has locked keep the others waiting.        *)
(***************************************************************************)
EXTENDS Naturals, FiniteSets, Sequences

CONSTANTS
    Space,
    Stage,
    Apply,           \* calls of apply that are under way at the same time
    MaxSequence,     \* a number: bound on the changes of a space,
    MaxPoints        \* and on the recovery points taken

VARIABLES
    spaces,          \* the rows of spaces, with those of the other tables
    points,          \* verified recovery points
    stages,          \* restore_stages and their payloads
    applying

vars == <<spaces, points, stages, applying>>

-----------------------------------------------------------------------------

\* The tables in the order they are filled.  Those of the records stand for one, and
\* so do those of the objects of a space.
InsertOrder == <<"records", "space_stream_floors", "physical_objects", "space_objects">>
Table == {InsertOrder[i] : i \in DOMAIN InsertOrder}

\* The row of a space, and the tables that have rows of it.
SpaceRow == [exists : BOOLEAN, epoch : Nat, sequence : 0 .. MaxSequence, tables : SUBSET Table]
Snapshot == [Space -> SpaceRow]

StageRow == [status : {"none", "ready", "applied"}, payload : Snapshot]

NoSpace == [exists |-> FALSE, epoch |-> 0, sequence |-> 0, tables |-> {}]
NoStage == [status |-> "none", payload |-> [s \in Space |-> NoSpace]]

InTransaction == {"spaces", "replace", "insert"}

Rest == [at |-> "idle", stage |-> CHOOSE st \in Stage : TRUE, scope |-> {}, locked |-> {},
         rows |-> [s \in Space |-> NoSpace], left |-> <<>>, fault |-> FALSE]

TypeOK ==
    /\ spaces \in Snapshot
    /\ points \subseteq Snapshot
    /\ stages \in [Stage -> StageRow]
    /\ applying \in [Apply -> [at : {"idle", "point", "stage", "publish", "done", "failed"}
                                    \union InTransaction,
                               stage : Stage, scope : SUBSET Space, locked : SUBSET Space,
                               rows : Snapshot, left : Seq(Table), fault : BOOLEAN]]

\* A space is created with its floor, which the trigger inserts.
Created(epoch) == [NoSpace EXCEPT !.exists = TRUE, !.epoch = epoch,
                                  !.tables = {"space_stream_floors"}]

Init ==
    /\ spaces = [s \in Space |-> Created(1)]
    /\ points = {}
    /\ stages = [st \in Stage |-> NoStage]
    /\ applying = [a \in Apply |-> Rest]

Locked(s) == \E a \in Apply : applying[a].at \in InTransaction /\ s \in applying[a].locked

\* Clients push and commit objects meanwhile.
Push(s) ==
    /\ ~Locked(s)
    /\ spaces[s].sequence < MaxSequence
    /\ \E table \in {"records", "space_objects"} :
         spaces' = [spaces EXCEPT ![s].sequence = @ + 1, ![s].tables = @ \union {table}
                          \union (IF table = "space_objects" THEN {"physical_objects"} ELSE {})]
    /\ UNCHANGED <<points, stages, applying>>

\* A snapshot reads every table at one moment; the point it goes into is verified.
TakePoint ==
    /\ Cardinality(points) < MaxPoints
    /\ points' = points \union {spaces}
    /\ UNCHANGED <<spaces, stages, applying>>

\* A point that verifies is saved in one transaction, ready when the inspection of its
\* tables and objects found nothing.
StagePoint(st) ==
    /\ stages[st].status = "none"
    /\ \E point \in points :
         stages' = [stages EXCEPT ![st] = [status |-> "ready", payload |-> point]]
    /\ UNCHANGED <<spaces, points, applying>>

-----------------------------------------------------------------------------
(* apply *)

Step(a, from, to) ==
    /\ applying[a].at = from
    /\ applying' = [applying EXCEPT ![a] = to]

\* An account's spaces, or one.
GetStage(a) ==
    /\ \E st \in Stage : \E scope \in {Space} \union {{s} : s \in Space} :
         /\ stages[st].status = "ready"
         /\ Step(a, "idle", [Rest EXCEPT !.at = "point", !.stage = st, !.scope = scope])
    /\ UNCHANGED <<spaces, points, stages>>

\* A recovery point is made first, unless the caller does without.
CreatePreRestore(a) ==
    /\ Step(a, "point", [applying[a] EXCEPT !.at = "stage"])
    /\ \/ Cardinality(points) < MaxPoints /\ points' = points \union {spaces}
       \/ UNCHANGED points
    /\ UNCHANGED <<spaces, stages>>

StageLocked(a) ==
    \E b \in Apply \ {a} :
        applying[b].at \in InTransaction /\ applying[b].stage = applying[a].stage

LockStage(a) ==
    /\ Step(a, "stage", [applying[a] EXCEPT !.at = "spaces"])
    /\ ~StageLocked(a)
    /\ stages[applying[a].stage].status = "ready"
    /\ UNCHANGED <<spaces, points, stages>>

\* The spaces of the stage that are in scope.
Staged(a) == {s \in applying[a].scope : stages[applying[a].stage].payload[s].exists}

\* One after the other is locked; the epoch is the one after that of the row, or of the
\* stage when there is no row.
LockSpace(a) ==
    /\ \E s \in Staged(a) \ applying[a].locked :
         /\ ~Locked(s)
         /\ LET payload == stages[applying[a].stage].payload
                epoch == IF spaces[s].exists THEN spaces[s].epoch ELSE payload[s].epoch
            IN  Step(a, "spaces", [applying[a] EXCEPT !.locked = @ \union {s},
                                     !.rows[s].epoch = epoch + 1])
    /\ UNCHANGED <<spaces, points, stages>>

PutObjects(a) ==
    /\ Step(a, "spaces", [applying[a] EXCEPT !.at = "replace"])
    /\ applying[a].locked = Staged(a)
    /\ UNCHANGED <<spaces, points, stages>>

\* The spaces are deleted with all their rows, and inserted with the next epoch.
ReplaceSpaces(a) ==
    /\ Step(a, "replace", [applying[a] EXCEPT !.at = "insert", !.left = InsertOrder,
                             !.rows = [s \in Space |->
                                 IF s \in Staged(a) THEN Created(@[s].epoch) ELSE NoSpace]])
    /\ UNCHANGED <<spaces, points, stages>>

\* The rows the stage has for a table: blobs are shared, and inserted once.
Rows(a, table) == {s \in Staged(a) : table \in stages[applying[a].stage].payload[s].tables}

Collides(a, table) ==
    /\ table # "physical_objects"
    /\ \E s \in Rows(a, table) : table \in applying[a].rows[s].tables

InsertTable(a) ==
    /\ applying[a].at = "insert" /\ applying[a].left # <<>>
    /\ LET table == Head(applying[a].left) IN
        /\ ~Collides(a, table)
        /\ Step(a, "insert", [applying[a] EXCEPT !.left = Tail(@),
                                !.rows = [s \in Space |->
                                    IF s \notin Rows(a, table) THEN @[s]
                                    ELSE [@[s] EXCEPT !.tables = @ \union {table}]]])
    /\ UNCHANGED <<spaces, points, stages>>

\* A row with the same key is there already: the statement fails, and everything is
\* rolled back.
RowExists(a) ==
    /\ applying[a].at = "insert" /\ applying[a].left # <<>>
    /\ Collides(a, Head(applying[a].left))
    /\ Step(a, "insert", [applying[a] EXCEPT !.at = "failed"])
    /\ UNCHANGED <<spaces, points, stages>>

Commit(a) ==
    /\ Step(a, "insert", [applying[a] EXCEPT !.at = "publish"])
    /\ applying[a].left = <<>>
    /\ spaces' = [s \in Space |-> IF s \in Staged(a) THEN applying[a].rows[s] ELSE spaces[s]]
    /\ stages' = [stages EXCEPT ![applying[a].stage].status = "applied"]
    /\ UNCHANGED points

\* The sockets of the restored spaces are told, and the audit.
Publish(a) ==
    /\ Step(a, "publish", [applying[a] EXCEPT !.at = "done"])
    /\ UNCHANGED <<spaces, points, stages>>

\* A call fails, or a deadlock is broken; what is not committed is rolled back.
Fault(a) ==
    /\ applying[a].at \notin {"idle", "done", "failed"}
    /\ applying' = [applying EXCEPT ![a].at = "failed", ![a].fault = TRUE]
    /\ UNCHANGED <<spaces, points, stages>>

\* Another restore has used the stage up meanwhile, or it has no space in scope.
NotReady(a) ==
    /\ applying[a].at = "stage" /\ ~StageLocked(a)
    /\ stages[applying[a].stage].status # "ready" \/ Staged(a) = {}
    /\ applying' = [applying EXCEPT ![a].at = "failed", ![a].fault = TRUE]
    /\ UNCHANGED <<spaces, points, stages>>

-----------------------------------------------------------------------------

Next ==
    \/ \E s \in Space : Push(s)
    \/ TakePoint
    \/ \E st \in Stage : StagePoint(st)
    \/ \E a \in Apply :
        \/ GetStage(a) \/ CreatePreRestore(a) \/ LockStage(a) \/ LockSpace(a) \/ PutObjects(a)
        \/ ReplaceSpaces(a) \/ InsertTable(a) \/ RowExists(a) \/ Commit(a) \/ Publish(a)
        \/ Fault(a) \/ NotReady(a)

Spec == Init /\ [][Next]_vars

-----------------------------------------------------------------------------
(* Properties *)

\* The apply of a ready stage, of which no call fails and no other restore takes the
\* stage, replaces the scope from the stage: activation does not fail on its own.
RestoreCommits == \A a \in Apply : applying[a].at = "failed" => applying[a].fault

=============================================================================
