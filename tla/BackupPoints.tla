---------------------------- MODULE BackupPoints ----------------------------
(***************************************************************************)
(* Recovery points on a backup target: create, list, verify and prune of   *)
(* src/backup/service.js with the retention of src/backup/retention.js, over*)
(* the put, move, list and delete of src/backup/targets.js.                *)
(*                                                                         *)
(* Points of every kind share the target: the worker's server-wide points, *)
(* those taken before a restore or a destructive first sync, and exports.  *)
(* Any number may be under way, with any number of prunings; each call of  *)
(* the target is a step, may fail, and the process may stop between two.   *)
(***************************************************************************)
EXTENDS Naturals, FiniteSets

CONSTANTS
    Point,           \* manifest ids, one for each attempt to create a point,
    NoPoint,         \* and none of them, for those who make points
    Pruning,         \* concurrent calls of prune
    Scope,           \* the scopes a point can have,
    ServerScope,     \* and the one of server-wide points
    Tier,            \* daily, weekly and monthly
    Limit,           \* how many slots of a tier are kept
    SlotOf,          \* the slot of a tier that a day falls into: days, weeks and months
                     \* are numbered as they pass
    LastDay          \* bound on the days that pass

ASSUME BackupAssumption ==
    /\ NoPoint \notin Point
    /\ ServerScope \in Scope
    /\ LastDay \in Nat
    /\ Limit \in [Tier -> Nat]
    /\ SlotOf \in [Tier -> [0 .. LastDay -> Nat]]
    /\ \A tier \in Tier : \A d, e \in 0 .. LastDay :
         d <= e => SlotOf[tier][d] <= SlotOf[tier][e]

VARIABLES
    today,
    scope,           \* what a point covers
    stage,           \* how far its creation has come
    created,         \* createdAt of its manifest: the day, and the order of creation
    temporary,       \* files under temporary/<point>
    published,       \* files under points/<point>
    doomed,          \* the points a pruning still has to remove,
    keys             \* and the files it still has to delete of the first of them

vars == <<today, scope, stage, created, temporary, published, doomed, keys>>

-----------------------------------------------------------------------------

\* The files of a point in the order targets list them, by code unit: the marker
\* comes first.  All chunks stand for one file, and so do all objects.
Listing == <<"COMMITTED.json", "chunks", "manifest.enc.json", "objects">>
Marker == "COMMITTED.json"
Snapshot == {"chunks", "objects"}
Body == Snapshot \union {"manifest.enc.json"}
File == Body \union {Marker}

Place == [f \in File |-> CHOOSE k \in DOMAIN Listing : Listing[k] = f]
Precedes(f, g) == Place[f] < Place[g]

\* Whoever lists files goes through them in that order.
First(files) == CHOOSE f \in files : \A g \in files : ~Precedes(g, f)

Stage == {"none", "snapshot", "written", "manifest", "moving", "committed", "verified",
          "failed", "unreturned"}

NotCreated == [day |-> 0, order |-> 0]

TypeOK ==
    /\ today \in 0 .. LastDay
    /\ scope \in [Point -> Scope]
    /\ stage \in [Point -> Stage]
    /\ created \in [Point -> [day : 0 .. LastDay, order : Nat]]
    /\ temporary \in [Point -> SUBSET Body]
    /\ published \in [Point -> SUBSET File]
    /\ doomed \in [Pruning -> SUBSET Point]
    /\ keys \in [Pruning -> SUBSET File]

Init ==
    /\ today = 0
    /\ scope = [p \in Point |-> ServerScope]
    /\ stage = [p \in Point |-> "none"]
    /\ created = [p \in Point |-> NotCreated]
    /\ temporary = [p \in Point |-> {}]
    /\ published = [p \in Point |-> {}]
    /\ doomed = [r \in Pruning |-> {}]
    /\ keys = [r \in Pruning |-> {}]

NextDay ==
    /\ today < LastDay
    /\ today' = today + 1
    /\ UNCHANGED <<scope, stage, created, temporary, published, doomed, keys>>

-----------------------------------------------------------------------------
(* create *)

Begin(p) ==
    /\ stage[p] = "none"
    /\ stage' = [stage EXCEPT ![p] = "snapshot"]
    /\ \E s \in Scope : scope' = [scope EXCEPT ![p] = s]
    /\ UNCHANGED <<today, created, temporary, published, doomed, keys>>

PutSnapshot(p) ==
    /\ stage[p] = "snapshot"
    /\ stage' = [stage EXCEPT ![p] = "written"]
    /\ temporary' = [temporary EXCEPT ![p] = Snapshot]
    /\ UNCHANGED <<today, scope, created, published, doomed, keys>>

\* Mutant: the marker is written next to the manifest.
WithManifestAndMarker(files) == files \union {"manifest.enc.json", Marker}

WithManifest(files) == files \union {"manifest.enc.json"}

\* The manifest carries the moment it was made; moments differ.
PutManifest(p) ==
    /\ stage[p] = "written"
    /\ stage' = [stage EXCEPT ![p] = "manifest"]
    /\ created' = [created EXCEPT ![p] =
                     [day |-> today,
                      order |-> 1 + Cardinality({q \in Point : created[q].order > 0})]]
    /\ temporary' = [temporary EXCEPT ![p] = WithManifest(@)]
    /\ UNCHANGED <<today, scope, published, doomed, keys>>

\* What was written reads back, and its files are listed for moving.
VerifyTemporary(p) ==
    /\ stage[p] = "manifest"
    /\ stage' = [stage EXCEPT ![p] = "moving"]
    /\ UNCHANGED <<today, scope, created, temporary, published, doomed, keys>>

\* The next file in listed order.
Move(p) ==
    /\ stage[p] = "moving"
    /\ temporary[p] # {}
    /\ LET file == First(temporary[p])
       IN  /\ temporary' = [temporary EXCEPT ![p] = @ \ {file}]
           /\ published' = [published EXCEPT ![p] = @ \union {file}]
    /\ UNCHANGED <<today, scope, stage, created, doomed, keys>>

\* Mutant: the marker is written before the last file is moved.
EarlyToCommit(p) == stage[p] = "moving" /\ published[p] # {}

ReadyToCommit(p) == stage[p] = "moving" /\ temporary[p] = {}

Commit(p) ==
    /\ ReadyToCommit(p)
    /\ stage' = [stage EXCEPT ![p] = "committed"]
    /\ published' = [published EXCEPT ![p] = @ \union {Marker}]
    /\ UNCHANGED <<today, scope, created, temporary, doomed, keys>>

Complete(p) == published[p] = File

\* The published point reads back and create returns it.
VerifyPublished(p) ==
    /\ stage[p] = "committed"
    /\ Complete(p)
    /\ stage' = [stage EXCEPT ![p] = "verified"]
    /\ UNCHANGED <<today, scope, created, temporary, published, doomed, keys>>

UnderWay == {"snapshot", "written", "manifest", "moving", "committed"}

\* Create deletes what it can of its temporary files, and of published nothing;
\* a process that stops deletes nothing.
CleanUp(p) ==
    \/ temporary' = [temporary EXCEPT ![p] = {}]
    \/ UNCHANGED temporary

AfterFailure(p) ==
    CASE stage[p] = "committed" -> "unreturned"
      [] stage[p] \in UnderWay \ {"committed"} -> "failed"
      [] OTHER -> stage[p]

\* A call of the target fails, or the process stops.
Fail(p) ==
    /\ stage[p] \in UnderWay
    /\ stage' = [stage EXCEPT ![p] = AfterFailure(p)]
    /\ CleanUp(p)
    /\ UNCHANGED <<today, scope, created, published, doomed, keys>>

\* It does so after a file was copied, and before it was deleted at its old place.
FailMove(p) ==
    /\ stage[p] = "moving"
    /\ temporary[p] # {}
    /\ stage' = [stage EXCEPT ![p] = "failed"]
    /\ published' = [published EXCEPT ![p] = @ \union {First(temporary[p])}]
    /\ CleanUp(p)
    /\ UNCHANGED <<today, scope, created, doomed, keys>>

-----------------------------------------------------------------------------
(* selectRetention *)

Newer(p, q) == created[p].order > created[q].order

Slot(tier, p) == SlotOf[tier][created[p].day]

NewestOfSlot(tier, p, points) ==
    \A q \in points : Newer(q, p) => Slot(tier, q) # Slot(tier, p)

NewerSlots(tier, p, points) == {Slot(tier, q) : q \in {r \in points : Newer(r, p)}}

\* Mutant: a tier counts the newer points instead of their slots.
KeepByNewerPoints(points) ==
    {p \in points : \E tier \in Tier :
        /\ NewestOfSlot(tier, p, points)
        /\ Cardinality({q \in points : Newer(q, p)}) < Limit[tier]}

\* A point is kept when in some tier it is the newest of its slot and its slot
\* is one of the newest.
Keep(points) ==
    {p \in points : \E tier \in Tier :
        /\ NewestOfSlot(tier, p, points)
        /\ Cardinality(NewerSlots(tier, p, points)) < Limit[tier]}

-----------------------------------------------------------------------------
(* prune *)

\* list finds the committed points and verifies each: one that does not read
\* back, now or for the moment, counts for nothing.
List(r) ==
    /\ doomed[r] = {}
    /\ \E points \in SUBSET {p \in Point : Complete(p)} :
        doomed' = [doomed EXCEPT ![r] = points \ Keep(points)]
    /\ UNCHANGED <<today, scope, stage, created, temporary, published, keys>>

\* The doomed are removed from the newest to the oldest.
IsNext(r, p) == p \in doomed[r] /\ \A q \in doomed[r] : ~Newer(q, p)

\* Mutant: files are deleted in the reverse of the listed order.
LastKey(r) == CHOOSE f \in keys[r] : \A g \in keys[r] : ~Precedes(f, g)

\* The file that is deleted next.
NextKey(r) == First(keys[r])

\* The files of the next point are listed; a point without any is done.
ListFiles(r) ==
    /\ keys[r] = {}
    /\ \E p \in doomed[r] :
        /\ IsNext(r, p)
        /\ keys' = [keys EXCEPT ![r] = published[p]]
        /\ doomed' = IF published[p] = {}
                     THEN [doomed EXCEPT ![r] = @ \ {p}]
                     ELSE doomed
    /\ UNCHANGED <<today, scope, stage, created, temporary, published>>

Delete(r) ==
    /\ keys[r] # {}
    /\ \E p \in doomed[r] :
        /\ IsNext(r, p)
        /\ published' = [published EXCEPT ![p] = @ \ {NextKey(r)}]
        /\ doomed' = IF keys[r] = {NextKey(r)}
                     THEN [doomed EXCEPT ![r] = @ \ {p}]
                     ELSE doomed
    /\ keys' = [keys EXCEPT ![r] = @ \ {NextKey(r)}]
    /\ UNCHANGED <<today, scope, stage, created, temporary>>

\* A deletion fails, or the process stops.
StopPruning(r) ==
    /\ doomed[r] # {}
    /\ doomed' = [doomed EXCEPT ![r] = {}]
    /\ keys' = [keys EXCEPT ![r] = {}]
    /\ UNCHANGED <<today, scope, stage, created, temporary, published>>

-----------------------------------------------------------------------------

Next ==
    \/ NextDay
    \/ \E p \in Point :
        \/ Begin(p) \/ PutSnapshot(p) \/ PutManifest(p) \/ VerifyTemporary(p)
        \/ Move(p) \/ Commit(p) \/ VerifyPublished(p)
        \/ Fail(p) \/ FailMove(p)
    \/ \E r \in Pruning : List(r) \/ ListFiles(r) \/ Delete(r) \/ StopPruning(r)

Spec == Init /\ [][Next]_vars

-----------------------------------------------------------------------------
(* Properties *)

\* A point with a commit marker is complete, wherever its creation or a pruning
\* failed or stopped, and while prunings run side by side.
MarkedIsComplete(p) == Marker \in published[p] => Complete(p)

Committed == {p \in Point : stage[p] \in {"committed", "verified", "unreturned"}}

Newest(points) == {p \in points : \A q \in points : ~Newer(q, p)}

\* The newest Limit[tier] slots of a tier that have a point.
LastSlots(tier, points) ==
    LET slots == {Slot(tier, p) : p \in points}
    IN  {s \in slots : Cardinality({t \in slots : t > s}) < Limit[tier]}

\* Of all points ever committed, the newest one of each of the last slots of each
\* tier is there: however many prunings run, however old the lists are that they
\* work from, and whatever failed meanwhile.
RetainedPointsStand ==
    \A tier \in Tier : \A s \in LastSlots(tier, Committed) :
        \A p \in Newest({q \in Committed : Slot(tier, q) = s}) : Complete(p)

\* Of the server-wide points ever returned, the newest one of each of the last
\* slots of each tier is there: a worst-case loss of a day, with daily points.
ServerPointStands ==
    LET points == {p \in Point : stage[p] = "verified" /\ scope[p] = ServerScope} IN
        \A tier \in Tier : \A s \in LastSlots(tier, points) :
            \A p \in Newest({q \in points : Slot(tier, q) = s}) : Complete(p)

=============================================================================
