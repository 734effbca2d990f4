------------------------ MODULE BackupOperationsProofs -----------------------
(***************************************************************************)
(* The safety properties of BackupOperations hold for any number of points,*)
(* prunings, workers, jobs, exports, downloads and imports, all at work at *)
(* once on one target, for any days, tiers and limits.                     *)
(*                                                                         *)
(* The argument: a point has no marker before it is committed, and is      *)
(* complete then (CreationFits); only prunings that found it committed, and*)
(* the import that has its lease, change it after that.  A pruning deletes *)
(* the marker first (MarkerGoesFirst) and an import publishes it last      *)
(* (ImportsFit).  What a pruning may delete has been superseded for good,  *)
(* in every tier, by newer committed points (SupersededGoes).              *)
(***************************************************************************)
EXTENDS BackupOperations, FiniteSetTheorems, TLAPS

-----------------------------------------------------------------------------
(* Types of the worker, the exports and the imports *)

JobRow == [status : {"none", "queued", "running", "verified", "failed"},
           point : Point \union {NoPoint}]

WorkerTypeOK ==
    /\ process \in [Worker -> {"down", "up", "stopping"}]
    /\ timer \in [Worker -> BOOLEAN]
    /\ run \in [Worker -> Run]
    /\ jobId \in [Worker -> Job \union {NoJob}]
    /\ making \in [Worker -> Point \union {NoPoint}]
    /\ jobs \in [Job -> JobRow]
    /\ alert \in BOOLEAN
    /\ told \in {"nothing", "verified", "failed"}

ExportRow == [at : {"none", "create", "creating", "over"}, point : Point \union {NoPoint}]

DownloadRow == [point : Point \union {NoPoint}, listed : SUBSET File, unread : SUBSET File,
                busy : BOOLEAN]

Package == [point : Point \union {NoPoint}, files : SUBSET File]

ExportTypeOK ==
    /\ exporting \in [Export -> ExportRow]
    /\ exportJobs \in [Export -> {"none", "running", "verified", "failed"}]
    /\ downloading \in [Download -> DownloadRow]
    /\ packages \subseteq Package

ImportStage == {"none", "lease", "over"} \union Leased

ImportRow == [at : ImportStage, pack : Package, copies : SUBSET File, tracked : SUBSET File,
              moved : SUBSET File, faulty : BOOLEAN]

ImportTypeOK ==
    /\ importing \in [Import -> ImportRow]
    /\ lease \in [Point -> Import \union {NoImport}]
    /\ disturbed \subseteq Point

-----------------------------------------------------------------------------
(* The inductive invariant *)

\* Points get their orders one after the other, as the days pass.
Ordered == {p \in Point : created[p].order > 0}

OrdersFit ==
    /\ IsFiniteSet(Ordered)
    /\ \A p \in Point : created[p].order <= Cardinality(Ordered) /\ created[p].day <= today
    /\ \A p \in Point : created[p].order = 0 => created[p].day = 0
    /\ \A p, q \in Ordered : created[p].order = created[q].order => p = q
    /\ \A p, q \in Point : Newer(q, p) => created[p].day <= created[q].day

\* A point is published file by file, and has no marker before it is committed.
CreationFits ==
    \A p \in Point :
        /\ p \notin Committed => Marker \notin published[p]
        /\ stage[p] \in {"none", "snapshot", "written", "manifest"} => published[p] = {}
        /\ stage[p] \in {"none", "snapshot", "written"} => created[p].order = 0
        /\ p \in Committed \/ stage[p] \in {"manifest", "moving"} => created[p].order > 0
        /\ stage[p] = "written" => temporary[p] = Snapshot
        /\ stage[p] = "manifest" => temporary[p] = Body
        /\ stage[p] = "moving" => Body \subseteq temporary[p] \union published[p]

\* Prunings delete committed points only.
PruningsFit ==
    \A r \in Pruning :
        /\ doomed[r] \subseteq Committed
        /\ doomed[r] = {} => keys[r] = {}

\* A point that is a job's, an export's, a download's, a package's or an import's has
\* been verified.
Verified(p) == p \in Point /\ stage[p] = "verified"

PointsVerified ==
    /\ \A w \in Worker : run[w] \in {"list", "pruning", "finish"} => Verified(making[w])
    /\ \A j \in Job : jobs[j].status = "verified" => Verified(jobs[j].point)
    /\ \A e \in Export :
         /\ exporting[e].at = "creating" => exporting[e].point \in Point
         /\ exportJobs[e] = "verified" =>
              exporting[e].at = "over" /\ Verified(exporting[e].point)
    /\ \A d \in Download : downloading[d].busy => Verified(downloading[d].point)
    /\ \A pack \in packages : Verified(pack.point)
    /\ \A i \in Import : importing[i].at # "none" => Verified(Destination(i))

\* Where a pruning has deleted the marker of a point, or found none, there is none.
MarkerGoesFirst ==
    \A r \in Pruning : \A p \in doomed[r] \ disturbed :
        keys[r] # {} /\ IsNext(r, p) /\ Marker \notin keys[r] => Marker \notin published[p]

\* What was listed with a marker was listed complete.
ListingsComplete ==
    /\ \A d \in Download : Marker \in downloading[d].listed =>
         downloading[d].listed = File \/ downloading[d].point \in disturbed
    /\ PackageWithMarkerIsComplete

\* What an import has copied and published, and what is at its destination.
ImportsFit ==
    \A i \in Import :
        LET row == importing[i]
            p == Destination(i)
        IN  /\ row.at \in {"lease", "list", "put"} =>
                 row.copies = {} /\ row.tracked = {} /\ row.moved = {}
            /\ row.at = "verify" => row.moved = {} /\ row.copies \subseteq row.pack.files
            /\ row.at = "move" => row.pack.files = File
            /\ row.at \in {"move", "undo"} => Marker \notin row.moved
            /\ row.at = "stage" => Marker \in row.moved
            /\ row.at \in Leased /\ ~row.faulty => row.copies \subseteq row.tracked
            /\ row.at \in {"put", "verify"} => published[p] = {}
            /\ row.at = "move" /\ p \notin disturbed =>
                 /\ published[p] = row.moved
                 /\ row.moved # {} => \A r \in Pruning : p \notin doomed[r]
            /\ row.at = "undo" /\ p \notin disturbed => Marker \notin published[p]
            /\ row.at = "clean" /\ ~row.faulty /\ Marker \notin row.moved =>
                 row.moved \intersect published[p] = {}

\* In every tier a newer committed point has taken the slot of p, or newer ones have
\* taken as many slots as are kept.
Superseded(p) ==
    \A tier \in Tier :
        \/ \E q \in Committed : Newer(q, p) /\ Slot(tier, q) = Slot(tier, p)
        \/ Limit[tier] <= Cardinality(NewerSlots(tier, p, Committed))

SupersededGoes ==
    /\ \A r \in Pruning : \A p \in doomed[r] : Superseded(p)
    /\ \A p \in Committed : Complete(p) \/ Superseded(p)
    /\ \A i \in Import : importing[i].at \in {"put", "verify", "move", "undo"} =>
         Superseded(Destination(i))

AlertTold == told = "failed" => alert

IInv ==
    /\ TypeOK
    /\ WorkerTypeOK
    /\ ExportTypeOK
    /\ ImportTypeOK
    /\ OrdersFit
    /\ CreationFits
    /\ PruningsFit
    /\ PointsVerified
    /\ MarkerGoesFirst
    /\ CommittedIsComplete
    /\ ListingsComplete
    /\ LeaseIsHeld
    /\ ImportsFit
    /\ SupersededGoes
    /\ AlertTold
    /\ SchedulerGoesOn

-----------------------------------------------------------------------------
(* Which action writes which variable *)

\* What no action of a group names stays as it is: the variables of the points.
LEMMA PointWriters ==
    ASSUME [NextOperations]_opVars
    PROVE  /\ UNCHANGED today \/ NextDay
           /\ UNCHANGED scope \/ \E p \in Point : Begin(p)
           /\ \/ UNCHANGED stage
              \/ \E p \in Point :
                   \/ Begin(p) \/ PutSnapshot(p) \/ PutManifest(p) \/ VerifyTemporary(p)
                   \/ Commit(p) \/ VerifyPublished(p) \/ Fail(p) \/ FailMove(p)
              \/ \E w \in Worker : KillWorker(w)
           /\ UNCHANGED created \/ \E p \in Point : PutManifest(p)
           /\ \/ UNCHANGED temporary
              \/ \E p \in Point :
                   PutSnapshot(p) \/ PutManifest(p) \/ Move(p) \/ Fail(p) \/ FailMove(p)
           /\ \/ UNCHANGED published
              \/ \E p \in Point : Move(p) \/ Commit(p) \/ FailMove(p)
              \/ \E r \in Pruning : Delete(r)
              \/ \E i \in Import : Publish(i) \/ LoseAnswer(i) \/ Undo(i)
           /\ \/ UNCHANGED <<doomed, keys>>
              \/ \E r \in Pruning : List(r) \/ ListFiles(r) \/ Delete(r) \/ StopPruning(r)
              \/ \E w \in Worker : KillWorker(w)
<1>1. CASE NextPoints
  BY <1>1 DEF NextPoints, NextDay, Begin, PutSnapshot, PutManifest, VerifyTemporary, Move, Commit,
              VerifyPublished, Fail, FailMove, List, ListFiles, Delete, StopPruning
<1>2. CASE NextWorker
  BY <1>2, WorkerAssumption
     DEF NextWorker, vars, StartWorker, TimerFires, StopScheduler, ClosePool, KillWorker, QueueJob,
         StartJob, CreatePoint, PointReturned, PruneList, Pruned, PruneFails, CallFails, FinishJob,
         FailJob, FailUnrecorded, Begin, List, StopPruning
<1>3. CASE NextExport
  BY <1>3 DEF NextExport, vars, SaveJob, CreateExport, SaveOutcome, ListPackage, ReadFile, HandOut,
              DownloadFails, Begin
<1>4. CASE NextImport
  BY <1>4 DEF NextImport, vars, ReadPackage, TakeLease, Refused, ListDestination, PutFiles,
              VerifyCopies, Publish, LoseAnswer, PublishFails, SaveStage, Undo, CleanUpImport,
              StopImport
<1>5. CASE UNCHANGED opVars
  BY <1>5 DEF opVars, vars
<1> QED BY <1>1, <1>2, <1>3, <1>4, <1>5 DEF NextOperations

\* The variables of the worker, the exports and the imports.
LEMMA OtherWriters ==
    ASSUME [NextOperations]_opVars
    PROVE  /\ UNCHANGED workerVars \/ NextWorker
           /\ \/ UNCHANGED jobs
              \/ \E w \in Worker : QueueJob(w) \/ StartJob(w) \/ FinishJob(w) \/ FailJob(w)
           /\ UNCHANGED <<alert, told>> \/ \E w \in Worker : FinishJob(w) \/ FailJob(w)
           /\ \/ UNCHANGED exporting
              \/ \E e \in Export : SaveJob(e) \/ CreateExport(e) \/ SaveOutcome(e)
           /\ UNCHANGED exportJobs \/ \E e \in Export : SaveJob(e) \/ SaveOutcome(e)
           /\ \/ UNCHANGED downloading
              \/ \E d \in Download : ListPackage(d) \/ ReadFile(d) \/ HandOut(d) \/ DownloadFails(d)
           /\ UNCHANGED packages \/ \E d \in Download : HandOut(d)
           /\ UNCHANGED importVars \/ NextImport
           /\ UNCHANGED lease \/ \E i \in Import : TakeLease(i) \/ CleanUpImport(i)
           /\ UNCHANGED disturbed \/ \E i \in Import : Publish(i) \/ LoseAnswer(i)
<1>1. CASE NextPoints /\ UNCHANGED <<workerVars, exportVars, importVars>>
  BY <1>1 DEF workerVars, exportVars, importVars
<1>2. CASE NextWorker /\ UNCHANGED <<exportVars, importVars>>
  BY <1>2 DEF NextWorker, exportVars, importVars, StartWorker, TimerFires, StopScheduler,
              ClosePool, KillWorker, QueueJob, StartJob, CreatePoint, PointReturned, PruneList,
              Pruned, PruneFails, CallFails, FinishJob, FailJob, FailUnrecorded
<1>3. CASE NextExport /\ UNCHANGED <<workerVars, importVars>>
  BY <1>3 DEF NextExport, workerVars, importVars, SaveJob, CreateExport, SaveOutcome, ListPackage,
              ReadFile, HandOut, DownloadFails
<1>4. CASE NextImport /\ UNCHANGED workerVars
  BY <1>4 DEF NextImport, workerVars, exportVars, ReadPackage, TakeLease, Refused, ListDestination,
              PutFiles, VerifyCopies, Publish, LoseAnswer, PublishFails, SaveStage, Undo,
              CleanUpImport, StopImport
<1>5. CASE UNCHANGED opVars
  BY <1>5 DEF opVars, workerVars, exportVars, importVars
<1> QED BY <1>1, <1>2, <1>3, <1>4, <1>5 DEF NextOperations

-----------------------------------------------------------------------------
(* Points *)

\* The files, and which of some comes first.
LEMMA Files ==
    ASSUME NEW files \in SUBSET File, files # {}
    PROVE  First(files) \in files /\ (Marker \in files => First(files) = Marker)
<1>1. /\ Place[Marker] = 1 /\ Place["chunks"] = 2
      /\ Place["manifest.enc.json"] = 3 /\ Place["objects"] = 4
  BY DEF Place, Listing, File, Body, Snapshot, Marker
<1>2. \A f \in File : f \in {Marker, "chunks", "manifest.enc.json", "objects"}
  BY DEF File, Body, Snapshot
<1>3. \E f \in files : \A g \in files : ~Precedes(g, f)
  <2>1. CASE Marker \in files
    BY <1>1, <1>2, <2>1 DEF Precedes
  <2>2. CASE Marker \notin files /\ "chunks" \in files
    BY <1>1, <1>2, <2>2 DEF Precedes
  <2>3. CASE Marker \notin files /\ "chunks" \notin files /\ "manifest.enc.json" \in files
    BY <1>1, <1>2, <2>3 DEF Precedes
  <2>4. CASE files = {"objects"}
    BY <1>1, <2>4 DEF Precedes
  <2> QED BY <1>2, <2>1, <2>2, <2>3, <2>4
<1>4. First(files) \in files /\ \A g \in files : ~Precedes(g, First(files))
  BY <1>3 DEF First
<1>5. Marker \in files => First(files) = Marker
  BY <1>1, <1>2, <1>4 DEF Precedes
<1> QED BY <1>4, <1>5

\* The stages that the creation of a point goes through.
StageMoves(p) ==
    \/ stage'[p] = stage[p]
    \/ Begin(p) /\ stage[p] = "none" /\ stage'[p] = "snapshot"
    \/ PutSnapshot(p) /\ stage[p] = "snapshot" /\ stage'[p] = "written"
    \/ PutManifest(p) /\ stage[p] = "written" /\ stage'[p] = "manifest"
    \/ VerifyTemporary(p) /\ stage[p] = "manifest" /\ stage'[p] = "moving"
    \/ Commit(p) /\ stage[p] = "moving" /\ stage'[p] = "committed"
    \/ VerifyPublished(p) /\ stage[p] = "committed" /\ stage'[p] = "verified"
    \/ stage[p] \in UnderWay \ {"committed"} /\ stage'[p] = "failed"
    \/ stage[p] = "committed" /\ stage'[p] = "unreturned"

\* A point moves on in its creation, or stays.
LEMMA StagesMove ==
    ASSUME TypeOK, [NextOperations]_opVars
    PROVE  stage' \in [Point -> Stage] /\ \A p \in Point : StageMoves(p)
<1>0. stage \in [Point -> Stage]
  BY DEF TypeOK
<1>a. \A p \in Point :
        /\ stage[p] \in UnderWay \ {"committed"} => AfterFailure(p) = "failed"
        /\ stage[p] = "committed" => AfterFailure(p) = "unreturned"
        /\ stage[p] \notin UnderWay => AfterFailure(p) = stage[p]
  BY DEF AfterFailure, UnderWay
<1>b. ASSUME NEW q \in Point, NEW s \in Stage, stage' = [stage EXCEPT ![q] = s],
             stage'[q] = s => StageMoves(q)
      PROVE  stage' \in [Point -> Stage] /\ \A p \in Point : StageMoves(p)
  BY <1>0, <1>b DEF StageMoves
<1>1. ASSUME NEW q \in Point, Begin(q)
      PROVE  stage' \in [Point -> Stage] /\ \A p \in Point : StageMoves(p)
  BY <1>1, <1>b DEF Begin, StageMoves, Stage
<1>2. ASSUME NEW q \in Point,
             \/ PutSnapshot(q) \/ PutManifest(q) \/ VerifyTemporary(q) \/ Commit(q)
             \/ VerifyPublished(q)
      PROVE  stage' \in [Point -> Stage] /\ \A p \in Point : StageMoves(p)
  <2>1. PICK s \in Stage : stage' = [stage EXCEPT ![q] = s] /\ (stage'[q] = s => StageMoves(q))
    BY <1>2 DEF PutSnapshot, PutManifest, VerifyTemporary, Commit, ReadyToCommit, VerifyPublished,
                StageMoves, Stage
  <2> QED BY <1>b, <2>1
<1>3. ASSUME NEW q \in Point, Fail(q) \/ FailMove(q)
      PROVE  stage' \in [Point -> Stage] /\ \A p \in Point : StageMoves(p)
  <2>1. PICK s \in Stage : stage' = [stage EXCEPT ![q] = s] /\ (stage'[q] = s => StageMoves(q))
    BY <1>3, <1>a DEF Fail, FailMove, StageMoves, Stage, UnderWay
  <2> QED BY <1>b, <2>1
<1>4. ASSUME NEW w \in Worker, KillWorker(w)
      PROVE  stage' \in [Point -> Stage] /\ \A p \in Point : StageMoves(p)
  <2>1. stage' = [p \in Point |-> IF p = making[w] THEN AfterFailure(p) ELSE stage[p]]
    BY <1>4 DEF KillWorker
  <2>2. \A p \in Point : AfterFailure(p) \in Stage
    BY <1>0, <1>a DEF Stage, UnderWay
  <2>3. \A p \in Point : stage'[p] = stage[p] \/ stage'[p] = AfterFailure(p)
    BY <2>1
  <2>4. \A p \in Point : StageMoves(p)
    BY <1>a, <2>3 DEF StageMoves, UnderWay
  <2> QED BY <1>0, <2>1, <2>2, <2>4
<1> QED BY <1>0, <1>1, <1>2, <1>3, <1>4, PointWriters DEF StageMoves

\* What is committed, or verified, is so for good.
LEMMA CommittedStays ==
    ASSUME TypeOK, [NextOperations]_opVars
    PROVE  /\ Committed \subseteq Committed'
           /\ \A p : Verified(p) => Verified(p)'
           /\ \A p \in Committed' \ Committed : Commit(p)
<1>1. \A p \in Point : StageMoves(p)
  BY StagesMove
<1>2. \A p \in Point :
        /\ stage[p] \in {"committed", "verified", "unreturned"} =>
             stage'[p] \in {"committed", "verified", "unreturned"}
        /\ stage[p] = "verified" => stage'[p] = "verified"
        /\ stage[p] \notin {"committed", "verified", "unreturned"}
             /\ stage'[p] \in {"committed", "verified", "unreturned"} => Commit(p)
  BY <1>1 DEF StageMoves, UnderWay
<1> QED BY <1>2 DEF Committed, Verified

\* The orders of points stay distinct and in the order of their days.
LEMMA OrdersStay ==
    ASSUME TypeOK, OrdersFit, CreationFits, [NextOperations]_opVars
    PROVE  /\ created' \in [Point -> [day : 0 .. LastDay, order : Nat]]
           /\ today' \in 0 .. LastDay
           /\ OrdersFit'
           /\ \A p \in Ordered : created'[p] = created[p]
<1>0. /\ created \in [Point -> [day : 0 .. LastDay, order : Nat]]
      /\ today \in 0 .. LastDay /\ LastDay \in Nat
      /\ \A p \in Point : created[p].order \in Nat /\ created[p].day \in 0 .. LastDay
      /\ IsFiniteSet(Ordered) /\ Cardinality(Ordered) \in Nat
  BY BackupAssumption, FS_CardinalityType DEF TypeOK, OrdersFit
<1>1. today' \in 0 .. LastDay /\ today <= today'
  <2>1. CASE NextDay
    BY <1>0, <2>1 DEF NextDay
  <2>2. CASE UNCHANGED today
    BY <1>0, <2>2
  <2> QED BY <2>1, <2>2, PointWriters
<1>2. CASE UNCHANGED created
  <2>1. Ordered' = Ordered
    BY <1>2 DEF Ordered
  <2>2. \A p \in Point : created'[p].day <= today'
    BY <1>0, <1>1, <1>2 DEF OrdersFit
  <2>3. \A p, q \in Point : Newer(q, p)' = Newer(q, p)
    BY <1>2 DEF Newer
  <2> QED BY <1>0, <1>1, <1>2, <2>1, <2>2, <2>3 DEF OrdersFit
<1>3. ASSUME NEW n \in Point, PutManifest(n)
      PROVE  /\ created' \in [Point -> [day : 0 .. LastDay, order : Nat]]
             /\ OrdersFit'
             /\ \A p \in Ordered : created'[p] = created[p]
  <2>1. UNCHANGED today /\ created[n].order = 0 /\ n \notin Ordered
    BY <1>3 DEF PutManifest, CreationFits, Ordered
  <2>2. created' = [created EXCEPT ![n] = [day |-> today, order |-> 1 + Cardinality(Ordered)]]
    BY <1>3 DEF PutManifest, Ordered
  <2>3. /\ created'[n].day = today /\ created'[n].order = 1 + Cardinality(Ordered)
        /\ \A p \in Point \ {n} : created'[p] = created[p]
    BY <1>0, <2>2
  <2>4. created' \in [Point -> [day : 0 .. LastDay, order : Nat]]
    BY <1>0, <2>2
  <2>5. Ordered' = Ordered \union {n}
    BY <1>0, <2>1, <2>3 DEF Ordered
  <2>6. IsFiniteSet(Ordered') /\ Cardinality(Ordered') = Cardinality(Ordered) + 1
    BY <1>0, <2>1, <2>5, FS_AddElement
  <2>7. \A p \in Ordered : created'[p] = created[p]
    BY <2>1, <2>3 DEF Ordered
  <2>8. \A p \in Point \ {n} : created[p].order <= Cardinality(Ordered) /\ created[p].day <= today
    BY DEF OrdersFit
  <2>9. \A p \in Point : created'[p].order <= Cardinality(Ordered') /\ created'[p].day <= today'
    BY <1>0, <2>1, <2>3, <2>6, <2>8
  <2>10. \A p \in Point : created'[p].order = 0 => created'[p].day = 0
    BY <1>0, <2>3 DEF OrdersFit
  <2>11. ASSUME NEW p \in Ordered', NEW q \in Ordered', created'[p].order = created'[q].order
         PROVE  p = q
    <3>1. CASE p \in Ordered /\ q \in Ordered
      BY <2>7, <2>11, <3>1 DEF OrdersFit
    <3>2. CASE p = n /\ q # n
      BY <1>0, <2>3, <2>5, <2>8, <2>11, <3>2 DEF Ordered
    <3>3. CASE q = n /\ p # n
      BY <1>0, <2>3, <2>5, <2>8, <2>11, <3>3 DEF Ordered
    <3> QED BY <2>5, <3>1, <3>2, <3>3
  <2>12. ASSUME NEW p \in Point, NEW q \in Point, Newer(q, p)'
         PROVE  created'[p].day <= created'[q].day
    <3>0. created'[q].order > created'[p].order
      BY <2>12 DEF Newer
    <3>1. CASE p # n /\ q # n
      BY <2>3, <3>0, <3>1 DEF OrdersFit, Newer
    <3>2. CASE p = n /\ q # n
      BY <1>0, <2>3, <2>8, <3>0, <3>2
    <3>3. CASE q = n /\ p # n
      BY <1>0, <2>3, <2>8, <3>3
    <3>4. CASE p = n /\ q = n
      BY <1>0, <2>3, <3>4
    <3> QED BY <3>1, <3>2, <3>3, <3>4
  <2> QED BY <2>4, <2>6, <2>7, <2>9, <2>10, <2>11, <2>12 DEF OrdersFit
<1> QED BY <1>0, <1>1, <1>2, <1>3, PointWriters

-----------------------------------------------------------------------------
(* Files *)

\* The file that an import publishes next.
ImportFile(i) == NextFile(importing[i].pack.files \ importing[i].moved)

\* An import publishes the marker last.
LEMMA MarkerComesLast ==
    ASSUME ImportTypeOK, ImportsFit, NEW i \in Import, importing[i].at = "move"
    PROVE  /\ ImportFile(i) \in File \ importing[i].moved
           /\ ImportFile(i) = Marker => File = importing[i].moved \union {Marker}
<1>1. /\ importing[i].pack.files = File /\ Marker \notin importing[i].moved
      /\ importing[i].moved \subseteq File
  BY DEF ImportsFit, ImportTypeOK, ImportRow
<1>2. Marker \in File
  BY DEF File
<1>3. CASE File \ importing[i].moved = {Marker}
  BY <1>1, <1>2, <1>3 DEF ImportFile, NextFile
<1>4. CASE File \ importing[i].moved # {Marker}
  <2>1. (File \ importing[i].moved) \ {Marker} # {}
    BY <1>1, <1>2, <1>4
  <2>2. First((File \ importing[i].moved) \ {Marker}) \in (File \ importing[i].moved) \ {Marker}
    BY <2>1, Files
  <2> QED BY <1>1, <1>4, <2>2 DEF ImportFile, NextFile
<1> QED BY <1>3, <1>4

\* What happens to the published files of a point.
PublishedMoves(p) ==
    \/ published'[p] = published[p]
    \/ \E f \in temporary[p] :
         /\ stage[p] = "moving"
         /\ f = First(temporary[p])
         /\ Move(p) \/ FailMove(p)
         /\ published'[p] = published[p] \union {f}
    \/ Commit(p) /\ published'[p] = published[p] \union {Marker}
    \/ \E r \in Pruning :
         /\ Delete(r) /\ keys[r] # {} /\ IsNext(r, p)
         /\ published'[p] = published[p] \ {NextKey(r)}
    \/ \E i \in Import :
         /\ importing[i].at = "move" /\ Destination(i) = p
         /\ Publish(i) \/ LoseAnswer(i)
         /\ published'[p] = published[p] \union {ImportFile(i)}
    \/ \E i \in Import :
         /\ importing[i].at = "undo" /\ Destination(i) = p
         /\ Undo(i) /\ published'[p] \subseteq published[p]

\* Files are moved, committed, deleted, or published and taken back by imports.
LEMMA FilesMove ==
    ASSUME TypeOK, ImportTypeOK, ImportsFit, [NextOperations]_opVars
    PROVE  published' \in [Point -> SUBSET File] /\ \A p \in Point : PublishedMoves(p)
<1>0. published \in [Point -> SUBSET File] /\ temporary \in [Point -> SUBSET File]
  BY DEF TypeOK, File
<1>a. ASSUME NEW q, NEW files \in SUBSET File, published' = [published EXCEPT ![q] = files],
             q \in Point /\ published'[q] = files => PublishedMoves(q)
      PROVE  published' \in [Point -> SUBSET File] /\ \A p \in Point : PublishedMoves(p)
  BY <1>0, <1>a DEF PublishedMoves
<1>1. ASSUME NEW q \in Point, Move(q) \/ FailMove(q)
      PROVE  published' \in [Point -> SUBSET File] /\ \A p \in Point : PublishedMoves(p)
  <2>1. PICK f \in temporary[q] : f = First(temporary[q])
    BY <1>0, <1>1, Files DEF Move, FailMove
  <2>2. stage[q] = "moving" /\ published' = [published EXCEPT ![q] = published[q] \union {f}]
    BY <1>1, <2>1 DEF Move, FailMove
  <2>3. published'[q] = published[q] \union {f} => PublishedMoves(q)
    BY <1>1, <2>1, <2>2 DEF PublishedMoves
  <2>4. published[q] \union {f} \in SUBSET File
    BY <1>0
  <2> QED BY <1>a, <2>2, <2>3, <2>4
<1>2. ASSUME NEW q \in Point, Commit(q)
      PROVE  published' \in [Point -> SUBSET File] /\ \A p \in Point : PublishedMoves(p)
  <2>1. published' = [published EXCEPT ![q] = published[q] \union {Marker}]
    BY <1>2 DEF Commit
  <2>2. published[q] \union {Marker} \in SUBSET File
    BY <1>0 DEF File
  <2> QED BY <1>2, <1>a, <2>1, <2>2 DEF PublishedMoves
<1>3. ASSUME NEW r \in Pruning, Delete(r)
      PROVE  published' \in [Point -> SUBSET File] /\ \A p \in Point : PublishedMoves(p)
  <2>1. PICK q \in doomed[r] : /\ IsNext(r, q)
                               /\ published' = [published EXCEPT ![q] = published[q] \ {NextKey(r)}]
    BY <1>3 DEF Delete
  <2>2. q \in Point /\ keys[r] # {}
    BY <1>3 DEF TypeOK, Delete
  <2>3. published[q] \ {NextKey(r)} \in SUBSET File
    BY <1>0, <2>2
  <2> QED BY <1>3, <1>a, <2>1, <2>2, <2>3 DEF PublishedMoves
<1>4. ASSUME NEW i \in Import, Publish(i) \/ LoseAnswer(i)
      PROVE  published' \in [Point -> SUBSET File] /\ \A p \in Point : PublishedMoves(p)
  <2>1. /\ importing[i].at = "move"
        /\ published' = [published EXCEPT ![Destination(i)] =
                           published[Destination(i)] \union {ImportFile(i)}]
    BY <1>4 DEF Publish, LoseAnswer, ImportFile
  <2>2. PICK q : q = Destination(i)
    OBVIOUS
  <2>3. CASE q \in Point
    <3>1. published[q] \union {ImportFile(i)} \in SUBSET File
      BY <1>0, <2>1, <2>3, MarkerComesLast
    <3> QED BY <1>4, <1>a, <2>1, <2>2, <3>1 DEF PublishedMoves
  <2>4. CASE q \notin Point
    BY <1>0, <2>1, <2>2, <2>4 DEF PublishedMoves
  <2> QED BY <2>3, <2>4
<1>5. ASSUME NEW i \in Import, Undo(i)
      PROVE  published' \in [Point -> SUBSET File] /\ \A p \in Point : PublishedMoves(p)
  <2>1. importing[i].at = "undo"
    BY <1>5 DEF Undo
  <2>2. PICK q : q = Destination(i)
    OBVIOUS
  <2>3. PICK files \in SUBSET published[q] : published' = [published EXCEPT ![q] = files]
    BY <1>5, <2>2 DEF Undo
  <2>4. CASE q \in Point
    <3>1. files \in SUBSET File
      BY <1>0, <2>4
    <3> QED BY <1>5, <1>a, <2>1, <2>2, <2>3, <3>1 DEF PublishedMoves
  <2>5. CASE q \notin Point
    BY <1>0, <2>3, <2>5 DEF PublishedMoves
  <2> QED BY <2>4, <2>5
<1>6. CASE UNCHANGED published
  BY <1>0, <1>6 DEF PublishedMoves
<1> QED BY <1>1, <1>2, <1>3, <1>4, <1>5, <1>6, PointWriters

\* What happens to the temporary files of a point.
TemporaryMoves(p) ==
    \/ temporary'[p] = temporary[p] /\ ~PutSnapshot(p) /\ ~PutManifest(p)
    \/ PutSnapshot(p) /\ temporary'[p] = Snapshot
    \/ PutManifest(p) /\ temporary'[p] = temporary[p] \union {"manifest.enc.json"}
    \/ Move(p) /\ temporary'[p] = temporary[p] \ {First(temporary[p])}
    \/ stage'[p] = "failed" \/ stage'[p] = "unreturned"

\* Temporary files are put, moved and cleaned up.
LEMMA TemporaryMove ==
    ASSUME TypeOK, [NextOperations]_opVars
    PROVE  temporary' \in [Point -> SUBSET Body] /\ \A p \in Point : TemporaryMoves(p)
<1>0. temporary \in [Point -> SUBSET Body] /\ stage \in [Point -> Stage]
  BY DEF TypeOK
<1>1. ASSUME NEW q \in Point, PutSnapshot(q)
      PROVE  temporary' \in [Point -> SUBSET Body] /\ \A p \in Point : TemporaryMoves(p)
  <2>1. temporary' = [temporary EXCEPT ![q] = Snapshot] /\ Snapshot \subseteq Body
    BY <1>1 DEF PutSnapshot, Body
  <2>2. stage' = [stage EXCEPT ![q] = "written"] /\ stage[q] = "snapshot"
    BY <1>1 DEF PutSnapshot
  <2>3. \A p \in Point \ {q} : ~PutSnapshot(p) /\ ~PutManifest(p)
    BY <1>0, <2>2 DEF PutSnapshot, PutManifest
  <2> QED BY <1>0, <1>1, <2>1, <2>3 DEF TemporaryMoves
<1>2. ASSUME NEW q \in Point, PutManifest(q)
      PROVE  temporary' \in [Point -> SUBSET Body] /\ \A p \in Point : TemporaryMoves(p)
  <2>1. temporary' = [temporary EXCEPT ![q] = temporary[q] \union {"manifest.enc.json"}]
    BY <1>2 DEF PutManifest, WithManifest
  <2>2. stage' = [stage EXCEPT ![q] = "manifest"] /\ stage[q] = "written"
    BY <1>2 DEF PutManifest
  <2>3. \A p \in Point \ {q} : ~PutSnapshot(p) /\ ~PutManifest(p)
    BY <1>0, <2>2 DEF PutSnapshot, PutManifest
  <2>4. temporary[q] \union {"manifest.enc.json"} \subseteq Body
    BY <1>0 DEF Body
  <2> QED BY <1>0, <1>2, <2>1, <2>3, <2>4 DEF TemporaryMoves
<1>3. ASSUME NEW q \in Point, Move(q)
      PROVE  temporary' \in [Point -> SUBSET Body] /\ \A p \in Point : TemporaryMoves(p)
  <2>1. temporary' = [temporary EXCEPT ![q] = temporary[q] \ {First(temporary[q])}]
    BY <1>3 DEF Move
  <2>2. \A p \in Point : ~PutSnapshot(p) /\ ~PutManifest(p)
    BY <1>0, <1>3 DEF Move, PutSnapshot, PutManifest
  <2> QED BY <1>0, <1>3, <2>1, <2>2 DEF TemporaryMoves
<1>4. ASSUME NEW q \in Point, Fail(q) \/ FailMove(q)
      PROVE  temporary' \in [Point -> SUBSET Body] /\ \A p \in Point : TemporaryMoves(p)
  <2>1. temporary' = [temporary EXCEPT ![q] = {}] \/ temporary' = temporary
    BY <1>4 DEF Fail, FailMove, CleanUp
  <2>2. PICK s \in {"failed", "unreturned"} : stage' = [stage EXCEPT ![q] = s]
    BY <1>4 DEF Fail, FailMove, AfterFailure, UnderWay
  <2>3. \A p \in Point \ {q} : ~PutSnapshot(p) /\ ~PutManifest(p)
    BY <1>0, <2>2 DEF PutSnapshot, PutManifest
  <2>4. stage'[q] = "failed" \/ stage'[q] = "unreturned"
    BY <1>0, <2>2
  <2> QED BY <1>0, <2>1, <2>3, <2>4 DEF TemporaryMoves
<1>5. CASE UNCHANGED temporary
  <2>1. \A p \in Point : TemporaryMoves(p)
    BY <1>1, <1>2, <1>5 DEF TemporaryMoves
  <2> QED BY <1>0, <1>5, <2>1
<1> QED BY <1>1, <1>2, <1>3, <1>4, <1>5, PointWriters

-----------------------------------------------------------------------------
(* Prunings *)

\* What happens to the lists of a pruning.
PruningMoves(r) ==
    \/ doomed'[r] = doomed[r] /\ keys'[r] = keys[r]
    \/ /\ doomed[r] = {} /\ keys'[r] = keys[r]
       /\ UNCHANGED <<stage, created, published>>
       /\ \E points \in SUBSET {p \in Point : Complete(p)} : doomed'[r] = points \ Keep(points)
    \/ /\ keys[r] = {} /\ UNCHANGED <<stage, created, published>>
       /\ \E p \in doomed[r] :
            /\ IsNext(r, p) /\ keys'[r] = published[p]
            /\ published[p] = {} => doomed'[r] = doomed[r] \ {p}
            /\ published[p] # {} => doomed'[r] = doomed[r]
    \/ /\ keys[r] # {} /\ keys'[r] = keys[r] \ {NextKey(r)} /\ UNCHANGED <<stage, created>>
       /\ \E p \in doomed[r] :
            /\ IsNext(r, p) /\ published' = [published EXCEPT ![p] = @ \ {NextKey(r)}]
            /\ keys[r] = {NextKey(r)} => doomed'[r] = doomed[r] \ {p}
            /\ keys[r] # {NextKey(r)} => doomed'[r] = doomed[r]
    \/ doomed'[r] = {} /\ keys'[r] = {}

\* Prunings list points, list the files of the next, delete them, and stop.
LEMMA PruningsMove ==
    ASSUME TypeOK, [NextOperations]_opVars
    PROVE  /\ doomed' \in [Pruning -> SUBSET Point]
           /\ keys' \in [Pruning -> SUBSET File]
           /\ \A r \in Pruning : PruningMoves(r)
<1>0. /\ doomed \in [Pruning -> SUBSET Point] /\ keys \in [Pruning -> SUBSET File]
      /\ published \in [Point -> SUBSET File]
  BY DEF TypeOK
<1>a. ASSUME NEW r \in Pruning, NEW points \in SUBSET Point, NEW files \in SUBSET File,
             doomed' = [doomed EXCEPT ![r] = points], keys' = [keys EXCEPT ![r] = files],
             doomed'[r] = points /\ keys'[r] = files => PruningMoves(r)
      PROVE  /\ doomed' \in [Pruning -> SUBSET Point]
             /\ keys' \in [Pruning -> SUBSET File]
             /\ \A q \in Pruning : PruningMoves(q)
  BY <1>0, <1>a DEF PruningMoves
<1>1. ASSUME NEW r \in Pruning, List(r)
      PROVE  /\ doomed' \in [Pruning -> SUBSET Point]
             /\ keys' \in [Pruning -> SUBSET File]
             /\ \A q \in Pruning : PruningMoves(q)
  <2>1. PICK points \in SUBSET {p \in Point : Complete(p)} :
          doomed' = [doomed EXCEPT ![r] = points \ Keep(points)]
    BY <1>1 DEF List
  <2>2. /\ points \ Keep(points) \in SUBSET Point /\ keys' = [keys EXCEPT ![r] = keys[r]]
        /\ keys[r] \in SUBSET File
    BY <1>0, <1>1 DEF List
  <2>3. doomed'[r] = points \ Keep(points) /\ keys'[r] = keys[r] => PruningMoves(r)
    BY <1>1, <2>1 DEF List, PruningMoves
  <2> QED BY <1>a, <2>1, <2>2, <2>3
<1>2. ASSUME NEW r \in Pruning, ListFiles(r)
      PROVE  /\ doomed' \in [Pruning -> SUBSET Point]
             /\ keys' \in [Pruning -> SUBSET File]
             /\ \A q \in Pruning : PruningMoves(q)
  <2>1. PICK p \in doomed[r] :
          /\ IsNext(r, p)
          /\ keys' = [keys EXCEPT ![r] = published[p]]
          /\ doomed' = IF published[p] = {}
                       THEN [doomed EXCEPT ![r] = @ \ {p}]
                       ELSE doomed
    BY <1>2 DEF ListFiles
  <2>2. PICK points \in SUBSET Point :
          /\ doomed' = [doomed EXCEPT ![r] = points]
          /\ published[p] = {} => points = doomed[r] \ {p}
          /\ published[p] # {} => points = doomed[r]
    <3>1. CASE published[p] = {}
      BY <1>0, <2>1, <3>1, ZenonT(60)
    <3>2. CASE published[p] # {}
      BY <1>0, <2>1, <3>2, ZenonT(60)
    <3> QED BY <3>1, <3>2
  <2>3. published[p] \in SUBSET File
    BY <1>0
  <2>4. doomed'[r] = points /\ keys'[r] = published[p] => PruningMoves(r)
    BY <1>2, <2>1, <2>2 DEF ListFiles, PruningMoves
  <2> QED BY <1>a, <2>1, <2>2, <2>3, <2>4
<1>3. ASSUME NEW r \in Pruning, Delete(r)
      PROVE  /\ doomed' \in [Pruning -> SUBSET Point]
             /\ keys' \in [Pruning -> SUBSET File]
             /\ \A q \in Pruning : PruningMoves(q)
  <2>1. PICK p \in doomed[r] :
          /\ IsNext(r, p)
          /\ published' = [published EXCEPT ![p] = @ \ {NextKey(r)}]
          /\ doomed' = IF keys[r] = {NextKey(r)}
                       THEN [doomed EXCEPT ![r] = @ \ {p}]
                       ELSE doomed
    BY <1>3 DEF Delete
  <2>2. PICK points \in SUBSET Point :
          /\ doomed' = [doomed EXCEPT ![r] = points]
          /\ keys[r] = {NextKey(r)} => points = doomed[r] \ {p}
          /\ keys[r] # {NextKey(r)} => points = doomed[r]
    <3>1. CASE keys[r] = {NextKey(r)}
      BY <1>0, <2>1, <3>1
    <3>2. CASE keys[r] # {NextKey(r)}
      BY <1>0, <2>1, <3>2
    <3> QED BY <3>1, <3>2
  <2>3. /\ keys' = [keys EXCEPT ![r] = keys[r] \ {NextKey(r)}]
        /\ keys[r] \ {NextKey(r)} \in SUBSET File
    BY <1>0, <1>3 DEF Delete
  <2>4. doomed'[r] = points /\ keys'[r] = keys[r] \ {NextKey(r)} => PruningMoves(r)
    BY <1>3, <2>1, <2>2 DEF Delete, PruningMoves
  <2> QED BY <1>a, <2>2, <2>3, <2>4
<1>4. ASSUME NEW r \in Pruning, StopPruning(r) \/ (r \in Worker /\ KillWorker(r))
      PROVE  /\ doomed' \in [Pruning -> SUBSET Point]
             /\ keys' \in [Pruning -> SUBSET File]
             /\ \A q \in Pruning : PruningMoves(q)
  <2>1. doomed' = [doomed EXCEPT ![r] = {}] /\ keys' = [keys EXCEPT ![r] = {}]
    BY <1>4 DEF StopPruning, KillWorker
  <2> QED BY <1>a, <2>1 DEF PruningMoves
<1>5. CASE UNCHANGED <<doomed, keys>>
  BY <1>0, <1>5 DEF PruningMoves
<1> QED BY <1>1, <1>2, <1>3, <1>4, <1>5, PointWriters, WorkerAssumption

\* The type invariant.
LEMMA TypesKept ==
    ASSUME TypeOK, ImportTypeOK, OrdersFit, CreationFits, ImportsFit, [NextOperations]_opVars
    PROVE  TypeOK'
<1>1. scope' \in [Point -> Scope]
  BY PointWriters DEF TypeOK, Begin
<1> QED BY <1>1, OrdersStay, StagesMove, FilesMove, TemporaryMove, PruningsMove DEF TypeOK

\* What is not committed has no marker, and a pruning finds no such point.
LEMMA CompleteIsCommitted ==
    ASSUME CreationFits, NEW p \in Point, Complete(p)
    PROVE  p \in Committed
BY DEF Complete, CreationFits, File

\* Prunings go on deleting committed points only.
LEMMA PruningsFitStays ==
    ASSUME TypeOK, CreationFits, PruningsFit, [NextOperations]_opVars
    PROVE  PruningsFit'
<1>1. ASSUME NEW r \in Pruning
      PROVE  doomed'[r] \subseteq Committed' /\ (doomed'[r] = {} => keys'[r] = {})
  <2>1. PruningMoves(r)
    BY PruningsMove
  <2>2. doomed[r] \subseteq Committed /\ (doomed[r] = {} => keys[r] = {})
    BY DEF PruningsFit
  <2>3. doomed'[r] \subseteq Committed
    <3>1. \A points \in SUBSET {p \in Point : Complete(p)} : points \ Keep(points) \subseteq Committed
      BY CompleteIsCommitted
    <3> QED BY <2>1, <2>2, <3>1 DEF PruningMoves
  <2>4. Committed \subseteq Committed'
    BY CommittedStays
  <2>5. doomed'[r] = {} => keys'[r] = {}
    <3>1. \A p \in doomed[r] : doomed[r] # {}
      OBVIOUS
    <3> QED BY <2>1, <2>2, <3>1 DEF PruningMoves
  <2> QED BY <2>3, <2>4, <2>5
<1> QED BY <1>1 DEF PruningsFit

-----------------------------------------------------------------------------
(* Creation *)

\* The files of a point that is not committed change by its creation alone.
LEMMA UncommittedFiles ==
    ASSUME TypeOK, ImportTypeOK, PruningsFit, PointsVerified, ImportsFit, [NextOperations]_opVars,
           NEW p \in Point, p \notin Committed
    PROVE  \/ published'[p] = published[p] /\ ~Commit(p)
           \/ \E f \in temporary[p] :
                /\ stage[p] = "moving"
                /\ f = First(temporary[p])
                /\ Move(p) \/ FailMove(p)
                /\ published'[p] = published[p] \union {f}
           \/ Commit(p) /\ published'[p] = published[p] \union {Marker}
<1>1. PublishedMoves(p)
  BY FilesMove
<1>2. \A r \in Pruning : ~IsNext(r, p)
  BY DEF PruningsFit, IsNext
<1>3. \A i \in Import : importing[i].at # "none" => Destination(i) # p
  BY DEF PointsVerified, Verified, Committed
<1>4. Commit(p) => published'[p] = published[p] \union {Marker}
  BY DEF Commit, TypeOK
<1> QED BY <1>1, <1>2, <1>3, <1>4 DEF PublishedMoves

\* A point is committed with all its files, and has no marker until then.
LEMMA CreationFitsStays ==
    ASSUME TypeOK, ImportTypeOK, OrdersFit, CreationFits, PruningsFit, PointsVerified, ImportsFit,
           [NextOperations]_opVars
    PROVE  /\ CreationFits'
           /\ \A p \in Committed' \ Committed : Complete(p)'
<1>1. ASSUME NEW p \in Point
      PROVE  /\ p \notin Committed' => Marker \notin published'[p]
             /\ stage'[p] \in {"none", "snapshot", "written", "manifest"} => published'[p] = {}
             /\ stage'[p] \in {"none", "snapshot", "written"} => created'[p].order = 0
             /\ p \in Committed' \/ stage'[p] \in {"manifest", "moving"} => created'[p].order > 0
             /\ stage'[p] = "written" => temporary'[p] = Snapshot
             /\ stage'[p] = "manifest" => temporary'[p] = Body
             /\ stage'[p] = "moving" => Body \subseteq temporary'[p] \union published'[p]
             /\ p \in Committed' \ Committed => Complete(p)'
  <2>1. StageMoves(p) /\ TemporaryMoves(p)
    BY StagesMove, TemporaryMove
  <2>2. /\ temporary[p] \subseteq Body /\ published[p] \subseteq File /\ Marker \notin Body
        /\ File = Body \union {Marker}
        /\ created[p].order \in Nat /\ stage[p] \in Stage
    BY DEF TypeOK, Body, Snapshot, Marker, File
  <2>3. /\ p \notin Committed => Marker \notin published[p]
        /\ stage[p] \in {"none", "snapshot", "written", "manifest"} => published[p] = {}
        /\ stage[p] \in {"none", "snapshot", "written"} => created[p].order = 0
        /\ p \in Committed \/ stage[p] \in {"manifest", "moving"} => created[p].order > 0
        /\ stage[p] = "written" => temporary[p] = Snapshot
        /\ stage[p] = "manifest" => temporary[p] = Body
        /\ stage[p] = "moving" => Body \subseteq temporary[p] \union published[p]
    BY DEF CreationFits
  <2>4. Committed \subseteq Committed' /\ (p \in Committed' \ Committed => Commit(p))
    BY CommittedStays
  <2>5. /\ p \in Committed' <=> stage'[p] \in {"committed", "verified", "unreturned"}
        /\ p \in Committed <=> stage[p] \in {"committed", "verified", "unreturned"}
    BY DEF Committed
  <2>6. p \notin Committed' => Marker \notin published'[p]
    <3>1. p \notin Committed' => p \notin Committed /\ ~Commit(p)
      <4>1. Commit(p) => stage'[p] = "committed"
        BY DEF Commit, TypeOK
      <4> QED BY <2>4, <2>5, <4>1
    <3> QED BY <2>2, <2>3, <3>1, UncommittedFiles
  <2>7. stage'[p] \in {"none", "snapshot", "written", "manifest"} => published'[p] = {}
    <3>1. stage'[p] \in {"none", "snapshot", "written", "manifest"} =>
            /\ stage[p] \in {"none", "snapshot", "written", "manifest"}
            /\ p \notin Committed
      BY <2>1, <2>5 DEF StageMoves, UnderWay
    <3>2. Commit(p) => stage[p] = "moving"
      BY DEF Commit, ReadyToCommit
    <3> QED BY <2>3, <3>1, <3>2, UncommittedFiles
  <2>8. \/ created'[p] = created[p]
        \/ PutManifest(p) /\ created'[p].order > 0 /\ stage'[p] = "manifest"
    <3>1. ASSUME NEW q \in Point, PutManifest(q)
          PROVE  \/ created'[p] = created[p]
                 \/ PutManifest(p) /\ created'[p].order > 0 /\ stage'[p] = "manifest"
      <4>1. PICK n : n = Cardinality(Ordered)
        OBVIOUS
      <4>2. n \in Nat
        BY <4>1, FS_CardinalityType DEF OrdersFit
      <4>3. created' = [created EXCEPT ![q] = [day |-> today, order |-> 1 + n]]
        BY <3>1, <4>1 DEF PutManifest, Ordered
      <4>4. stage'[q] = "manifest" /\ created \in [Point -> [day : 0 .. LastDay, order : Nat]]
        BY <3>1 DEF PutManifest, TypeOK
      <4>5. CASE p = q
        BY <3>1, <4>2, <4>3, <4>4, <4>5
      <4>6. CASE p # q
        BY <4>3, <4>4, <4>6
      <4> QED BY <4>5, <4>6
    <3> QED BY <3>1, PointWriters
  <2>9. stage'[p] \in {"none", "snapshot", "written"} => created'[p].order = 0
    BY <2>1, <2>3, <2>8 DEF StageMoves, UnderWay
  <2>10. p \in Committed' \/ stage'[p] \in {"manifest", "moving"} => created'[p].order > 0
    <3>1. p \in Committed' \/ stage'[p] \in {"manifest", "moving"} =>
            \/ p \in Committed \/ stage[p] \in {"manifest", "moving"}
            \/ PutManifest(p)
      BY <2>1, <2>5 DEF StageMoves, UnderWay
    <3>2. PutManifest(p) => created'[p].order > 0
      <4>1. PutManifest(p) => created'[p] = [day |-> today, order |-> 1 + Cardinality(Ordered)]
        BY DEF PutManifest, Ordered, TypeOK
      <4>2. Cardinality(Ordered) \in Nat
        BY FS_CardinalityType DEF OrdersFit
      <4> QED BY <4>1, <4>2
    <3> QED BY <2>3, <2>8, <3>1, <3>2
  <2>a. /\ PutManifest(p) => stage[p] = "written" /\ stage'[p] = "manifest"
        /\ PutSnapshot(p) => stage[p] = "snapshot" /\ stage'[p] = "written"
        /\ Move(p) => stage[p] = "moving" /\ stage'[p] = "moving"
    BY DEF PutSnapshot, PutManifest, Move, TypeOK
  <2>11. stage'[p] = "written" => temporary'[p] = Snapshot
    BY <2>1, <2>3, <2>a DEF StageMoves, TemporaryMoves, UnderWay
  <2>12. stage'[p] = "manifest" => temporary'[p] = Body
    BY <2>1, <2>3, <2>a DEF StageMoves, TemporaryMoves, UnderWay, Body
  <2>13. stage'[p] = "moving" => Body \subseteq temporary'[p] \union published'[p]
    <3>1. CASE stage'[p] = "moving"
      <4>1. stage[p] \in {"manifest", "moving"} /\ p \notin Committed
        BY <2>1, <2>5, <3>1 DEF StageMoves, UnderWay
      <4>2. Body \subseteq temporary[p] \union published[p]
        BY <2>3, <4>1
      <4>3. published[p] \subseteq published'[p]
        BY <4>1, UncommittedFiles
      <4>4. ~PutSnapshot(p) /\ ~PutManifest(p)
        BY <4>1 DEF PutSnapshot, PutManifest
      <4>5. Move(p) => First(temporary[p]) \in published'[p]
        BY DEF Move, TypeOK
      <4> QED BY <2>1, <3>1, <4>2, <4>3, <4>4, <4>5 DEF TemporaryMoves
    <3> QED BY <3>1
  <2>14. p \in Committed' \ Committed => Complete(p)'
    <3>1. CASE Commit(p)
      <4>1. stage[p] = "moving" /\ temporary[p] = {} /\ p \notin Committed
        BY <3>1 DEF Commit, ReadyToCommit, Committed
      <4>2. published'[p] = published[p] \union {Marker}
        BY <3>1 DEF Commit, TypeOK
      <4> QED BY <2>2, <2>3, <4>1, <4>2 DEF Complete
    <3> QED BY <2>4, <3>1
  <2> QED BY <2>6, <2>7, <2>9, <2>10, <2>11, <2>12, <2>13, <2>14
<1>2. CreationFits'
  BY <1>1 DEF CreationFits
<1> QED BY <1>1, <1>2 DEF Committed

-----------------------------------------------------------------------------
(* The worker *)

\* What happens to a job.
JobMoves(j) ==
    \/ jobs'[j] = jobs[j]
    \/ /\ jobs[j].status \notin {"verified", "failed"}
       /\ \/ jobs'[j].status \in {"queued", "running", "failed"}
          \/ \E w \in Worker :
               run[w] = "finish" /\ jobs'[j] = [status |-> "verified", point |-> making[w]]

\* A job ends by being verified with the point of its worker, or by being failed.
LEMMA JobsMove ==
    ASSUME WorkerTypeOK, [NextOperations]_opVars
    PROVE  jobs' \in [Job -> JobRow] /\ \A j \in Job : JobMoves(j)
<1>0. /\ jobs \in [Job -> JobRow] /\ making \in [Worker -> Point \union {NoPoint}]
      /\ \A j \in Job : jobs[j] \in JobRow
  BY DEF WorkerTypeOK
<1>a. ASSUME NEW j \in Job, NEW row \in JobRow, jobs' = [jobs EXCEPT ![j] = row],
             jobs'[j] = row => JobMoves(j)
      PROVE  jobs' \in [Job -> JobRow] /\ \A k \in Job : JobMoves(k)
  BY <1>0, <1>a DEF JobMoves
<1>b. ASSUME NEW j \in Job, NEW s \in {"queued", "running", "failed"}
      PROVE  [jobs[j] EXCEPT !.status = s] \in JobRow /\ [jobs[j] EXCEPT !.status = s].status = s
  BY <1>0 DEF JobRow
<1>1. ASSUME NEW w \in Worker, QueueJob(w)
      PROVE  jobs' \in [Job -> JobRow] /\ \A j \in Job : JobMoves(j)
  <2>1. PICK j \in Job : NewJob(j) /\ jobs' = [jobs EXCEPT ![j].status = "queued"]
    BY <1>1 DEF QueueJob
  <2>2. jobs[j].status = "none"
    BY <2>1 DEF NewJob, Unused
  <2>3. jobs' = [jobs EXCEPT ![j] = [jobs[j] EXCEPT !.status = "queued"]]
    BY <1>0, <2>1
  <2> QED BY <1>a, <1>b, <2>2, <2>3 DEF JobMoves
<1>2. ASSUME NEW w \in Worker, StartJob(w)
      PROVE  jobs' \in [Job -> JobRow] /\ \A j \in Job : JobMoves(j)
  <2>1. PICK j : j = jobId[w]
    OBVIOUS
  <2>2. jobs' = [jobs EXCEPT ![j].status = IF @ = "queued" THEN "running" ELSE @]
    BY <1>2, <2>1 DEF StartJob
  <2>3. CASE j \in Job /\ jobs[j].status = "queued"
    <3>1. jobs' = [jobs EXCEPT ![j] = [jobs[j] EXCEPT !.status = "running"]]
      BY <1>0, <2>2, <2>3
    <3> QED BY <1>a, <1>b, <2>3, <3>1 DEF JobMoves
  <2>4. CASE j \in Job /\ jobs[j].status # "queued"
    <3>1. jobs' = jobs
      BY <1>0, <2>2, <2>4 DEF JobRow
    <3> QED BY <1>0, <3>1 DEF JobMoves
  <2>5. CASE j \notin Job
    <3>1. jobs' = jobs
      BY <1>0, <2>2, <2>5
    <3> QED BY <1>0, <3>1 DEF JobMoves
  <2> QED BY <2>3, <2>4, <2>5
<1>3. ASSUME NEW w \in Worker, FinishJob(w)
      PROVE  jobs' \in [Job -> JobRow] /\ \A j \in Job : JobMoves(j)
  <2>1. PICK j : j = jobId[w]
    OBVIOUS
  <2>2. /\ run[w] = "finish"
        /\ jobs' = [jobs EXCEPT ![j] =
                      IF @.status = "running"
                      THEN [status |-> "verified", point |-> making[w]] ELSE @]
    BY <1>3, <2>1 DEF FinishJob, GoOn
  <2>3. CASE j \in Job /\ jobs[j].status = "running"
    <3>1. jobs' = [jobs EXCEPT ![j] = [status |-> "verified", point |-> making[w]]]
      BY <1>0, <2>2, <2>3
    <3>2. [status |-> "verified", point |-> making[w]] \in JobRow
      BY <1>0 DEF JobRow
    <3> QED BY <1>a, <2>2, <2>3, <3>1, <3>2 DEF JobMoves
  <2>4. CASE j \in Job /\ jobs[j].status # "running"
    <3>1. jobs' = jobs
      BY <1>0, <2>2, <2>4
    <3> QED BY <1>0, <3>1 DEF JobMoves
  <2>5. CASE j \notin Job
    <3>1. jobs' = jobs
      BY <1>0, <2>2, <2>5
    <3> QED BY <1>0, <3>1 DEF JobMoves
  <2> QED BY <2>3, <2>4, <2>5
<1>4. ASSUME NEW w \in Worker, FailJob(w)
      PROVE  jobs' \in [Job -> JobRow] /\ \A j \in Job : JobMoves(j)
  <2>1. jobs' = [j \in Job |-> IF j = jobId[w] /\ jobs[j].status \in NotEnded
                               THEN [jobs[j] EXCEPT !.status = "failed"] ELSE jobs[j]]
    BY <1>4 DEF FailJob
  <2>2. \A j \in Job : \/ jobs'[j] = jobs[j]
                       \/ /\ jobs[j].status \in NotEnded
                          /\ jobs'[j] = [jobs[j] EXCEPT !.status = "failed"]
    BY <2>1
  <2>3. \A j \in Job : jobs'[j] \in JobRow
    BY <1>0, <1>b, <2>2
  <2>4. \A j \in Job : JobMoves(j)
    BY <1>b, <2>2 DEF JobMoves, NotEnded
  <2> QED BY <2>1, <2>3, <2>4
<1>5. CASE UNCHANGED jobs
  BY <1>0, <1>5 DEF JobMoves
<1> QED BY <1>1, <1>2, <1>3, <1>4, <1>5, OtherWriters

\* What happens to a worker.
WorkerMoves(w) ==
    /\ run'[w] \in {"list", "pruning", "finish"} =>
         /\ making'[w] = making[w]
         /\ \/ run[w] \in {"list", "pruning", "finish"}
            \/ Verified(making[w])
    /\ process'[w] = "up" =>
         \/ run'[w] # "idle"
         \/ timer'[w]
         \/ process[w] = "up" /\ run'[w] = run[w] /\ timer'[w] = timer[w]

\* The same for all of them, with the types of what they keep.
WorkersGoOn ==
    /\ process' \in [Worker -> {"down", "up", "stopping"}]
    /\ timer' \in [Worker -> BOOLEAN]
    /\ run' \in [Worker -> Run]
    /\ jobId' \in [Worker -> Job \union {NoJob}]
    /\ making' \in [Worker -> Point \union {NoPoint}]
    /\ \A w \in Worker : WorkerMoves(w)

\* A run gets beyond its point when that is verified, and arms the timer when it ends.
LEMMA WorkersMove ==
    ASSUME TypeOK, WorkerTypeOK, [NextOperations]_opVars
    PROVE  WorkersGoOn
<1>0. /\ process \in [Worker -> {"down", "up", "stopping"}]
      /\ timer \in [Worker -> BOOLEAN]
      /\ run \in [Worker -> Run]
      /\ jobId \in [Worker -> Job \union {NoJob}]
      /\ making \in [Worker -> Point \union {NoPoint}]
  BY DEF WorkerTypeOK
<1>a. ASSUME NEW w \in Worker, NEW s \in Run, run' = [run EXCEPT ![w] = s],
             \/ UNCHANGED process
             \/ \E k \in {"down", "up", "stopping"} : process' = [process EXCEPT ![w] = k],
             \/ UNCHANGED timer
             \/ \E k \in BOOLEAN : timer' = [timer EXCEPT ![w] = k],
             \/ UNCHANGED jobId
             \/ \E k \in Job \union {NoJob} : jobId' = [jobId EXCEPT ![w] = k],
             \/ UNCHANGED making
             \/ \E k \in Point \union {NoPoint} : making' = [making EXCEPT ![w] = k],
             run'[w] = s => WorkerMoves(w)
      PROVE  WorkersGoOn
  <2>1. /\ process' \in [Worker -> {"down", "up", "stopping"}]
        /\ \A u \in Worker \ {w} : process'[u] = process[u]
    BY <1>0, <1>a
  <2>2. timer' \in [Worker -> BOOLEAN] /\ \A u \in Worker \ {w} : timer'[u] = timer[u]
    BY <1>0, <1>a
  <2>3. run' \in [Worker -> Run] /\ run'[w] = s /\ \A u \in Worker \ {w} : run'[u] = run[u]
    BY <1>0, <1>a
  <2>4. jobId' \in [Worker -> Job \union {NoJob}]
    BY <1>0, <1>a
  <2>5. /\ making' \in [Worker -> Point \union {NoPoint}]
        /\ \A u \in Worker \ {w} : making'[u] = making[u]
    BY <1>0, <1>a
  <2>6. \A u \in Worker \ {w} : WorkerMoves(u)
    BY <2>1, <2>2, <2>3, <2>5 DEF WorkerMoves
  <2> QED BY <1>a, <2>1, <2>2, <2>3, <2>4, <2>5, <2>6 DEF WorkersGoOn
<1>1. ASSUME NEW w \in Worker, StartWorker(w) \/ TimerFires(w)
      PROVE  WorkersGoOn
  <2>1. run' = [run EXCEPT ![w] = "queue"] /\ "queue" \in Run
    BY <1>1 DEF StartWorker, TimerFires, GoOn, Run
  <2>2. run'[w] = "queue" => WorkerMoves(w)
    BY DEF WorkerMoves
  <2> QED BY <1>1, <1>a, <2>1, <2>2 DEF StartWorker, TimerFires
<1>2. ASSUME NEW w \in Worker, StopScheduler(w) \/ ClosePool(w)
      PROVE  WorkersGoOn
  <2>1. run' = [run EXCEPT ![w] = run[w]] /\ run[w] \in Run /\ UNCHANGED <<run, making>>
    BY <1>0, <1>2 DEF StopScheduler, ClosePool
  <2>2. PICK k \in {"down", "stopping"} : process' = [process EXCEPT ![w] = k]
    BY <1>2 DEF StopScheduler, ClosePool
  <2>3. WorkerMoves(w)
    BY <1>0, <2>1, <2>2 DEF WorkerMoves
  <2> QED BY <1>2, <1>a, <2>1, <2>2, <2>3 DEF StopScheduler, ClosePool
<1>3. ASSUME NEW w \in Worker, KillWorker(w)
      PROVE  WorkersGoOn
  <2>1. /\ run' = [run EXCEPT ![w] = "idle"] /\ "idle" \in Run
        /\ process' = [process EXCEPT ![w] = "down"]
        /\ timer' = [timer EXCEPT ![w] = FALSE]
        /\ jobId' = [jobId EXCEPT ![w] = NoJob]
        /\ making' = [making EXCEPT ![w] = NoPoint]
    BY <1>3 DEF KillWorker, LeaveRun, Run
  <2>2. run'[w] = "idle" => WorkerMoves(w)
    BY <1>0, <2>1 DEF WorkerMoves
  <2> QED BY <1>a, <2>1, <2>2
<1>4. ASSUME NEW w \in Worker, QueueJob(w)
      PROVE  WorkersGoOn
  <2>1. PICK s \in {"start", "fail"} : run' = [run EXCEPT ![w] = s]
    BY <1>4 DEF QueueJob, GoOn
  <2>2. UNCHANGED jobId \/ \E k \in Job \union {NoJob} : jobId' = [jobId EXCEPT ![w] = k]
    BY <1>4 DEF QueueJob
  <2>3. run'[w] = s => WorkerMoves(w)
    BY DEF WorkerMoves
  <2>4. s \in Run
    BY DEF Run
  <2> QED BY <1>4, <1>a, <2>1, <2>2, <2>3, <2>4 DEF QueueJob
<1>5. ASSUME NEW w \in Worker, StartJob(w) \/ CallFails(w) \/ PruneFails(w)
      PROVE  WorkersGoOn
  <2>1. PICK s \in {"create", "fail"} : run' = [run EXCEPT ![w] = s]
    BY <1>5 DEF StartJob, CallFails, PruneFails, GoOn
  <2>2. run'[w] = s => WorkerMoves(w)
    BY DEF WorkerMoves
  <2>3. s \in Run
    BY DEF Run
  <2> QED BY <1>5, <1>a, <2>1, <2>2, <2>3 DEF StartJob, CallFails, PruneFails
<1>6. ASSUME NEW w \in Worker, CreatePoint(w)
      PROVE  WorkersGoOn
  <2>1. run' = [run EXCEPT ![w] = "creating"] /\ "creating" \in Run
    BY <1>6 DEF CreatePoint, GoOn, Run
  <2>2. \E p \in Point \union {NoPoint} : making' = [making EXCEPT ![w] = p]
    BY <1>6 DEF CreatePoint
  <2>3. run'[w] = "creating" => WorkerMoves(w)
    BY DEF WorkerMoves
  <2> QED BY <1>6, <1>a, <2>1, <2>2, <2>3 DEF CreatePoint
<1>7. ASSUME NEW w \in Worker, PointReturned(w) \/ PruneList(w) \/ Pruned(w)
      PROVE  WorkersGoOn
  <2>1. PICK s \in {"list", "pruning", "finish", "fail"} :
          /\ run' = [run EXCEPT ![w] = s]
          /\ s # "fail" => \/ run[w] \in {"list", "pruning"}
                           \/ making[w] # NoPoint /\ stage[making[w]] = "verified"
    BY <1>7 DEF PointReturned, PruneList, Pruned, GoOn
  <2>2. s \in Run
    BY DEF Run
  <2>3. UNCHANGED making /\ making[w] \in Point \union {NoPoint}
    BY <1>0, <1>7 DEF PointReturned, PruneList, Pruned
  <2>4. run'[w] = s => WorkerMoves(w)
    BY <2>1, <2>3 DEF WorkerMoves, Verified
  <2> QED BY <1>7, <1>a, <2>1, <2>2, <2>4 DEF PointReturned, PruneList, Pruned
<1>8. ASSUME NEW w \in Worker, run' = [run EXCEPT ![w] = "idle"],
             jobId' = [jobId EXCEPT ![w] = NoJob], making' = [making EXCEPT ![w] = NoPoint],
             timer' = [timer EXCEPT ![w] = (process[w] = "up")], UNCHANGED process
      PROVE  WorkersGoOn
  <2>1. "idle" \in Run /\ (process[w] = "up") \in BOOLEAN
    BY DEF Run
  <2>2. run'[w] = "idle" => WorkerMoves(w)
    BY <1>0, <1>8 DEF WorkerMoves
  <2> QED BY <1>8, <1>a, <2>1, <2>2
<1>9. ASSUME NEW w \in Worker, FinishJob(w)
      PROVE  WorkersGoOn
  <2>1. CASE EndRun(w, TRUE)
    BY <1>8, <1>9, <2>1 DEF FinishJob, EndRun, LeaveRun, Armed
  <2>2. CASE GoOn(w, "finish", "fail") /\ UNCHANGED <<timer, jobId, making>>
    <3>1. run' = [run EXCEPT ![w] = "fail"] /\ "fail" \in Run
      BY <2>2 DEF GoOn, Run
    <3>2. run'[w] = "fail" => WorkerMoves(w)
      BY DEF WorkerMoves
    <3> QED BY <1>9, <1>a, <2>2, <3>1, <3>2 DEF FinishJob
  <2> QED BY <1>9, <2>1, <2>2 DEF FinishJob
<1>10. ASSUME NEW w \in Worker, FailJob(w) \/ FailUnrecorded(w)
       PROVE  WorkersGoOn
  BY <1>8, <1>10 DEF FailJob, FailUnrecorded, EndRun, LeaveRun, Armed
<1>11. CASE UNCHANGED workerVars
  BY <1>0, <1>11 DEF workerVars, WorkerMoves, WorkersGoOn
<1>12. CASE NextWorker
  BY <1>1, <1>2, <1>3, <1>4, <1>5, <1>6, <1>7, <1>9, <1>10, <1>12 DEF NextWorker
<1> QED BY <1>11, <1>12, OtherWriters

\* The types of what the worker keeps; the failure of a run raises the alert.
LEMMA WorkerStays ==
    ASSUME TypeOK, WorkerTypeOK, AlertTold, SchedulerGoesOn, [NextOperations]_opVars
    PROVE  WorkerTypeOK' /\ AlertTold' /\ SchedulerGoesOn'
<1>1. WorkersGoOn
  BY WorkersMove
<1>2. \/ UNCHANGED <<alert, told>>
      \/ alert' = FALSE /\ told' = "verified"
      \/ alert' = TRUE /\ told' = "failed"
  BY OtherWriters DEF FinishJob, FailJob, AlertRaised
<1>3. alert \in BOOLEAN /\ told \in {"nothing", "verified", "failed"}
  BY DEF WorkerTypeOK
<1>4. alert' \in BOOLEAN /\ told' \in {"nothing", "verified", "failed"} /\ AlertTold'
  BY <1>2, <1>3 DEF AlertTold
<1>5. SchedulerGoesOn'
  BY <1>1 DEF WorkersGoOn, WorkerMoves, SchedulerGoesOn
<1> QED BY <1>1, <1>4, <1>5, JobsMove DEF WorkersGoOn, WorkerTypeOK

-----------------------------------------------------------------------------
(* Exports and downloads *)

\* What happens to an export and its job.
ExportMoves(e) ==
    \/ exporting'[e] = exporting[e] /\ exportJobs'[e] = exportJobs[e]
    \/ exportJobs'[e] = "running" /\ exporting'[e].at # "creating"
    \/ /\ exporting[e].at = "create" /\ exportJobs'[e] = exportJobs[e]
       /\ exporting'[e].at = "creating" /\ exporting'[e].point \in Point
    \/ /\ exporting[e].at = "creating" /\ exporting'[e].at = "over"
       /\ exporting'[e].point = exporting[e].point
       /\ \/ exportJobs'[e] \in {exportJobs[e], "failed"}
          \/ exportJobs'[e] = "verified" /\ stage[exporting[e].point] = "verified"

\* An export's job is verified when its point is.
LEMMA ExportsMove ==
    ASSUME TypeOK, ExportTypeOK, [NextOperations]_opVars
    PROVE  /\ exporting' \in [Export -> ExportRow]
           /\ exportJobs' \in [Export -> {"none", "running", "verified", "failed"}]
           /\ \A e \in Export : ExportMoves(e)
<1>0. /\ exporting \in [Export -> ExportRow]
      /\ exportJobs \in [Export -> {"none", "running", "verified", "failed"}]
  BY DEF ExportTypeOK
<1>a. ASSUME NEW e \in Export, NEW row \in ExportRow,
             NEW s \in {"none", "running", "verified", "failed"},
             exporting' = [exporting EXCEPT ![e] = row],
             exportJobs' = [exportJobs EXCEPT ![e] = s],
             exporting'[e] = row /\ exportJobs'[e] = s => ExportMoves(e)
      PROVE  /\ exporting' \in [Export -> ExportRow]
             /\ exportJobs' \in [Export -> {"none", "running", "verified", "failed"}]
             /\ \A k \in Export : ExportMoves(k)
  BY <1>0, <1>a DEF ExportMoves
<1>b. ASSUME NEW e \in Export, NEW at \in {"create", "over"}
      PROVE  LET row == [exporting[e] EXCEPT !.at = at]
             IN  row \in ExportRow /\ row.at = at /\ row.point = exporting[e].point
  BY <1>0 DEF ExportRow
<1>1. ASSUME NEW e \in Export, SaveJob(e)
      PROVE  /\ exporting' \in [Export -> ExportRow]
             /\ exportJobs' \in [Export -> {"none", "running", "verified", "failed"}]
             /\ \A k \in Export : ExportMoves(k)
  <2>1. PICK at \in {"create", "over"} : exporting' = [exporting EXCEPT ![e].at = at]
    BY <1>1 DEF SaveJob
  <2>2. exporting' = [exporting EXCEPT ![e] = [exporting[e] EXCEPT !.at = at]]
    BY <1>0, <2>1
  <2>3. exportJobs' = [exportJobs EXCEPT ![e] = "running"]
    BY <1>1 DEF SaveJob
  <2> QED BY <1>a, <1>b, <2>2, <2>3 DEF ExportMoves
<1>2. ASSUME NEW e \in Export, CreateExport(e)
      PROVE  /\ exporting' \in [Export -> ExportRow]
             /\ exportJobs' \in [Export -> {"none", "running", "verified", "failed"}]
             /\ \A k \in Export : ExportMoves(k)
  <2>1. PICK p \in Point : exporting' = [exporting EXCEPT ![e] = [at |-> "creating", point |-> p]]
    BY <1>2 DEF CreateExport
  <2>2. [at |-> "creating", point |-> p] \in ExportRow
    BY DEF ExportRow
  <2>3. exportJobs' = [exportJobs EXCEPT ![e] = exportJobs[e]] /\ exporting[e].at = "create"
    BY <1>0, <1>2 DEF CreateExport
  <2> QED BY <1>0, <1>a, <2>1, <2>2, <2>3 DEF ExportMoves
<1>3. ASSUME NEW e \in Export, SaveOutcome(e)
      PROVE  /\ exporting' \in [Export -> ExportRow]
             /\ exportJobs' \in [Export -> {"none", "running", "verified", "failed"}]
             /\ \A k \in Export : ExportMoves(k)
  <2>1. exporting[e].at = "creating" /\ exporting' = [exporting EXCEPT ![e].at = "over"]
    BY <1>3 DEF SaveOutcome
  <2>2. exporting' = [exporting EXCEPT ![e] = [exporting[e] EXCEPT !.at = "over"]]
    BY <1>0, <2>1
  <2>3. PICK s \in {"none", "running", "verified", "failed"} :
          /\ exportJobs' = [exportJobs EXCEPT ![e] = s]
          /\ \/ s \in {exportJobs[e], "failed"}
             \/ s = "verified" /\ stage[exporting[e].point] = "verified"
    BY <1>0, <1>3 DEF SaveOutcome, StateOfExport
  <2>4. PICK row \in ExportRow :
          /\ row = [exporting[e] EXCEPT !.at = "over"]
          /\ row.at = "over" /\ row.point = exporting[e].point
    BY <1>b
  <2>5. exporting'[e] = row /\ exportJobs'[e] = s => ExportMoves(e)
    BY <2>1, <2>3, <2>4 DEF ExportMoves
  <2> QED BY <1>a, <2>2, <2>3, <2>4, <2>5
<1>4. CASE UNCHANGED <<exporting, exportJobs>>
  BY <1>0, <1>4 DEF ExportMoves
<1> QED BY <1>1, <1>2, <1>3, <1>4, OtherWriters

\* What happens to a download.
DownloadMoves(d) ==
    LET row == downloading[d]
        new == downloading'[d]
    IN  \/ new = row
        \/ new = Idle
        \/ /\ new.busy /\ new.listed = published[new.point]
           /\ \E e \in Export : exportJobs[e] = "verified" /\ new.point = exporting[e].point
        \/ new.point = row.point /\ new.listed = row.listed /\ new.busy = row.busy

\* A download lists the point of a verified export, and becomes a package of what it
\* listed.
LEMMA DownloadsMove ==
    ASSUME TypeOK, ExportTypeOK, PointsVerified, [NextOperations]_opVars
    PROVE  /\ downloading' \in [Download -> DownloadRow]
           /\ \A d \in Download : DownloadMoves(d)
           /\ \A pack \in packages' :
                \/ pack \in packages
                \/ \E d \in Download :
                     /\ downloading[d].busy
                     /\ pack = [point |-> downloading[d].point, files |-> downloading[d].listed]
<1>0. /\ downloading \in [Download -> DownloadRow]
      /\ \A d \in Download : downloading[d] \in DownloadRow
      /\ published \in [Point -> SUBSET File]
      /\ Idle \in DownloadRow
  BY DEF ExportTypeOK, TypeOK, Idle, DownloadRow
<1>a. ASSUME NEW d \in Download, NEW row \in DownloadRow,
             downloading' = [downloading EXCEPT ![d] = row],
             downloading'[d] = row => DownloadMoves(d)
      PROVE  downloading' \in [Download -> DownloadRow] /\ \A k \in Download : DownloadMoves(k)
  BY <1>0, <1>a DEF DownloadMoves
<1>1. ASSUME NEW d \in Download, ListPackage(d)
      PROVE  downloading' \in [Download -> DownloadRow] /\ \A k \in Download : DownloadMoves(k)
  <2>1. PICK e \in Export :
          /\ exportJobs[e] = "verified"
          /\ LET p == exporting[e].point IN
             downloading' = [downloading EXCEPT ![d] =
               [point |-> p, listed |-> published[p], unread |-> published[p], busy |-> TRUE]]
    BY <1>1 DEF ListPackage
  <2>2. PICK p \in Point : p = exporting[e].point
    BY <2>1 DEF PointsVerified, Verified
  <2>3. PICK row : row = [point |-> p, listed |-> published[p], unread |-> published[p],
                          busy |-> TRUE]
    OBVIOUS
  <2>4. row \in DownloadRow
    BY <1>0, <2>3 DEF DownloadRow
  <2>5. downloading' = [downloading EXCEPT ![d] = row]
    BY <2>1, <2>2, <2>3
  <2>6. row.busy /\ row.point = exporting[e].point /\ row.listed = published[row.point]
    BY <2>2, <2>3
  <2>7. downloading'[d] = row => DownloadMoves(d)
    BY <2>1, <2>6 DEF DownloadMoves
  <2> QED BY <1>a, <2>4, <2>5, <2>7
<1>2. ASSUME NEW d \in Download, ReadFile(d)
      PROVE  downloading' \in [Download -> DownloadRow] /\ \A k \in Download : DownloadMoves(k)
  <2>1. PICK f : downloading' = [downloading EXCEPT ![d].unread = @ \ {f}]
    BY <1>2 DEF ReadFile
  <2>2. PICK files \in SUBSET File : files = downloading[d].unread \ {f}
    BY <1>0 DEF DownloadRow
  <2>3. downloading' = [downloading EXCEPT ![d] = [downloading[d] EXCEPT !.unread = files]]
    BY <1>0, <2>1, <2>2
  <2>4. PICK row : row = [downloading[d] EXCEPT !.unread = files]
    OBVIOUS
  <2>5. /\ row \in DownloadRow /\ row.point = downloading[d].point
        /\ row.listed = downloading[d].listed /\ row.busy = downloading[d].busy
    BY <1>0, <2>4 DEF DownloadRow
  <2> QED BY <1>a, <2>3, <2>4, <2>5 DEF DownloadMoves
<1>3. ASSUME NEW d \in Download, HandOut(d) \/ DownloadFails(d)
      PROVE  downloading' \in [Download -> DownloadRow] /\ \A k \in Download : DownloadMoves(k)
  <2>1. downloading' = [downloading EXCEPT ![d] = Idle]
    BY <1>3 DEF HandOut, DownloadFails
  <2> QED BY <1>0, <1>a, <2>1 DEF DownloadMoves
<1>4. \A pack \in packages' :
        \/ pack \in packages
        \/ \E d \in Download :
             /\ downloading[d].busy
             /\ pack = [point |-> downloading[d].point, files |-> downloading[d].listed]
  BY OtherWriters DEF HandOut
<1>5. CASE UNCHANGED downloading
  <2>1. \A d \in Download : downloading'[d] = downloading[d]
    BY <1>5
  <2>2. \A d \in Download : DownloadMoves(d)
    BY <2>1 DEF DownloadMoves
  <2> QED BY <1>0, <1>4, <1>5, <2>2
<1> QED BY <1>1, <1>2, <1>3, <1>4, <1>5, OtherWriters

\* The types of what exports and downloads keep.
LEMMA ExportTypesKept ==
    ASSUME TypeOK, ExportTypeOK, PointsVerified, [NextOperations]_opVars
    PROVE  ExportTypeOK'
<1>1. ASSUME NEW pack \in packages'
      PROVE  pack \in Package
  <2>1. CASE pack \in packages
    BY <2>1 DEF ExportTypeOK
  <2>2. ASSUME NEW d \in Download,
               pack = [point |-> downloading[d].point, files |-> downloading[d].listed]
        PROVE  pack \in Package
    BY <2>2 DEF ExportTypeOK, DownloadRow, Package
  <2> QED BY <2>1, <2>2, DownloadsMove
<1> QED BY <1>1, ExportsMove, DownloadsMove DEF ExportTypeOK

-----------------------------------------------------------------------------
(* Imports *)

\* What happens to an import, and to the files of its destination then.
ImportMoves(i) ==
    LET row == importing[i]
        new == importing'[i]
        p == Destination(i)
        file == ImportFile(i)
    IN  \/ new = row
        \/ /\ row.at = "none" /\ new.at = "lease" /\ new.pack \in packages
           /\ new.copies = {} /\ new.tracked = {} /\ new.moved = {}
           /\ UNCHANGED published
        \/ /\ new.pack = row.pack /\ new.copies = row.copies /\ new.tracked = row.tracked
           /\ new.moved = row.moved /\ new.faulty = row.faulty
           /\ UNCHANGED <<published, stage, disturbed>>
           /\ \/ row.at = "lease" /\ new.at = "list" /\ TakeLease(i)
              \/ row.at = "lease" /\ new.at = "over"
              \/ row.at = "list" /\ new.at = "put" /\ published[p] = {}
              \/ row.at \in {"list", "verify", "stage"} /\ new.at = "clean"
              \/ row.at = "verify" /\ new.at = "move" /\ row.copies = File
              \/ row.at = "move" /\ new.at = "undo"
        \/ /\ new.pack = row.pack /\ new.copies = new.tracked /\ new.moved = row.moved
           /\ row.at = "put" /\ new.at \in {"verify", "clean"} /\ new.copies \subseteq row.pack.files
           /\ UNCHANGED published
        \/ /\ new.pack = row.pack /\ new.copies \subseteq row.copies
           /\ new.tracked = row.tracked \ {file} /\ new.moved = row.moved \union {file}
           /\ row.at = "move"
           /\ file = Marker => new.at = "stage"
           /\ file # Marker => new.at = "move"
           /\ ~new.faulty => ~row.faulty /\ file \notin new.copies
           /\ published'[p] = published[p] \union {file}
           /\ p \notin disturbed' => \A r \in Pruning : p \notin doomed'[r]
        \/ /\ new.pack = row.pack /\ new.moved = row.moved
           /\ row.at = "move" /\ new.at = "undo" /\ new.faulty
           /\ published'[p] = published[p] \union {file}
           /\ p \notin disturbed' => file # Marker
        \/ /\ new.pack = row.pack /\ new.copies = row.copies /\ new.tracked = row.tracked
           /\ new.moved = row.moved
           /\ row.at = "undo" /\ new.at = "clean"
           /\ ~new.faulty => ~row.faulty /\ published'[p] = published[p] \ row.moved
        \/ /\ new.pack = row.pack /\ new.moved = row.moved
           /\ row.at = "clean" /\ new.at = "over" /\ UNCHANGED published
           /\ ~new.faulty => /\ ~row.faulty /\ new.copies = row.copies \ row.tracked
                             /\ lease'[p] = NoImport
        \/ /\ new.pack = row.pack /\ new.moved = row.moved
           /\ row.at \in Leased /\ new.at = "over" /\ new.faulty /\ UNCHANGED published

\* Imports take leases, copy, publish, undo and clean up.
LEMMA ImportsMove ==
    ASSUME TypeOK, ExportTypeOK, ImportTypeOK, PointsVerified, ImportsFit, [NextOperations]_opVars
    PROVE  importing' \in [Import -> ImportRow] /\ \A i \in Import : ImportMoves(i)
<1>0. /\ importing \in [Import -> ImportRow]
      /\ \A i \in Import : /\ importing[i] \in ImportRow
                           /\ importing[i].at # "none" => Destination(i) \in Point
      /\ published \in [Point -> SUBSET File]
      /\ lease \in [Point -> Import \union {NoImport}]
  BY DEF ImportTypeOK, TypeOK, PointsVerified, Verified
<1>a. ASSUME NEW i \in Import, NEW new \in ImportRow, importing' = [importing EXCEPT ![i] = new],
             importing'[i] = new => ImportMoves(i)
      PROVE  importing' \in [Import -> ImportRow] /\ \A k \in Import : ImportMoves(k)
  BY <1>0, <1>a DEF ImportMoves
<1>b. ASSUME NEW i \in Import, NEW to \in ImportStage, importing' = [importing EXCEPT ![i].at = to]
      PROVE  \E new \in ImportRow :
               /\ importing' = [importing EXCEPT ![i] = new]
               /\ new.at = to /\ new.pack = importing[i].pack /\ new.copies = importing[i].copies
               /\ new.tracked = importing[i].tracked /\ new.moved = importing[i].moved
               /\ new.faulty = importing[i].faulty
  <2>1. PICK new : new = [importing[i] EXCEPT !.at = to]
    OBVIOUS
  <2>2. importing' = [importing EXCEPT ![i] = new]
    BY <1>0, <1>b, <2>1
  <2>3. /\ new \in ImportRow
        /\ new.at = to /\ new.pack = importing[i].pack /\ new.copies = importing[i].copies
        /\ new.tracked = importing[i].tracked /\ new.moved = importing[i].moved
        /\ new.faulty = importing[i].faulty
    BY <1>0, <2>1 DEF ImportRow
  <2> QED BY <2>2, <2>3
<1>c. {"none", "lease", "list", "put", "verify", "move", "stage", "undo", "clean", "over"}
        = ImportStage
  BY DEF ImportStage, Leased
<1>1. ASSUME NEW i \in Import, ReadPackage(i)
      PROVE  importing' \in [Import -> ImportRow] /\ \A k \in Import : ImportMoves(k)
  <2>1. PICK pack \in packages : Become(i, "none", [Fresh EXCEPT !.at = "lease", !.pack = pack])
    BY <1>1 DEF ReadPackage
  <2>2. PICK new : new = [Fresh EXCEPT !.at = "lease", !.pack = pack]
    OBVIOUS
  <2>3. importing[i].at = "none" /\ importing' = [importing EXCEPT ![i] = new]
    BY <2>1, <2>2 DEF Become
  <2>4. /\ new.at = "lease" /\ new.pack = pack /\ new.copies = {} /\ new.tracked = {}
        /\ new.moved = {}
    BY <2>2 DEF Fresh
  <2>5. new \in ImportRow
    BY <1>c, <2>2 DEF Fresh, ImportRow, ExportTypeOK
  <2>6. UNCHANGED published
    BY <1>1 DEF ReadPackage, vars
  <2>7. importing'[i] = new => ImportMoves(i)
    BY <2>3, <2>4, <2>6 DEF ImportMoves
  <2> QED BY <1>a, <2>3, <2>5, <2>7
<1>2. ASSUME NEW i \in Import,
             \/ TakeLease(i) \/ Refused(i) \/ ListDestination(i) \/ VerifyCopies(i)
             \/ PublishFails(i) \/ SaveStage(i)
      PROVE  importing' \in [Import -> ImportRow] /\ \A k \in Import : ImportMoves(k)
  <2>1. PICK to \in ImportStage :
          /\ importing' = [importing EXCEPT ![i].at = to]
          /\ \/ importing[i].at = "lease" /\ to = "list" /\ TakeLease(i)
             \/ importing[i].at = "lease" /\ to = "over"
             \/ importing[i].at = "list" /\ to = "put" /\ published[Destination(i)] = {}
             \/ importing[i].at \in {"list", "verify", "stage"} /\ to = "clean"
             \/ importing[i].at = "verify" /\ to = "move" /\ importing[i].copies = File
             \/ importing[i].at = "move" /\ to = "undo"
    BY <1>2, <1>c
       DEF TakeLease, Refused, ListDestination, VerifyCopies, PublishFails, SaveStage, Proceed
  <2>2. UNCHANGED <<published, stage, disturbed>>
    BY <1>2 DEF TakeLease, Refused, ListDestination, VerifyCopies, PublishFails, SaveStage, vars
  <2>3. PICK new \in ImportRow :
          /\ importing' = [importing EXCEPT ![i] = new]
          /\ new.at = to /\ new.pack = importing[i].pack /\ new.copies = importing[i].copies
          /\ new.tracked = importing[i].tracked /\ new.moved = importing[i].moved
          /\ new.faulty = importing[i].faulty
    BY <1>b, <2>1
  <2>4. importing'[i] = new => ImportMoves(i)
    BY <2>1, <2>2, <2>3 DEF ImportMoves
  <2> QED BY <1>a, <2>3, <2>4
<1>3. ASSUME NEW i \in Import, PutFiles(i)
      PROVE  importing' \in [Import -> ImportRow] /\ \A k \in Import : ImportMoves(k)
  <2>1. PICK put \in SUBSET importing[i].pack.files, at \in {"verify", "clean"} :
          Become(i, "put", [importing[i] EXCEPT !.copies = put, !.tracked = put, !.at = at])
    BY <1>3 DEF PutFiles
  <2>2. PICK new : new = [importing[i] EXCEPT !.copies = put, !.tracked = put, !.at = at]
    OBVIOUS
  <2>3. importing[i].at = "put" /\ importing' = [importing EXCEPT ![i] = new]
    BY <2>1, <2>2 DEF Become
  <2>4. put \in SUBSET File /\ at \in ImportStage
    BY <1>0, <1>c DEF ImportRow, Package
  <2>5. /\ new \in ImportRow
        /\ new.at = at /\ new.pack = importing[i].pack /\ new.copies = put /\ new.tracked = put
        /\ new.moved = importing[i].moved
    BY <1>0, <2>2, <2>4 DEF ImportRow
  <2>6. UNCHANGED published
    BY <1>3 DEF PutFiles, vars
  <2>7. importing'[i] = new => ImportMoves(i)
    BY <2>3, <2>5, <2>6 DEF ImportMoves
  <2> QED BY <1>a, <2>3, <2>5, <2>7
<1>4. ASSUME NEW i \in Import, Publish(i)
      PROVE  importing' \in [Import -> ImportRow] /\ \A k \in Import : ImportMoves(k)
  <2>1. PICK file : file = ImportFile(i)
    OBVIOUS
  <2>2. PICK p : p = Destination(i)
    OBVIOUS
  <2>3. /\ importing[i].at = "move"
        /\ published' = [published EXCEPT ![p] = @ \union {file}]
        /\ UNCHANGED doomed
        /\ p \notin disturbed' => \A r \in Pruning : p \notin doomed[r]
    BY <1>4, <2>1, <2>2 DEF Publish, ImportFile
  <2>4. PICK copies \in {importing[i].copies, importing[i].copies \ {file}} :
          Become(i, "move", [importing[i] EXCEPT !.copies = copies, !.tracked = @ \ {file},
                 !.moved = @ \union {file}, !.at = IF file = Marker THEN "stage" ELSE @,
                 !.faulty = @ \/ file \in copies])
    BY <1>4, <2>1 DEF Publish, ImportFile
  <2>5. p \in Point /\ file \in File
    BY <1>0, <2>1, <2>2, <2>3, MarkerComesLast
  <2>6. published'[p] = published[p] \union {file}
    BY <1>0, <2>3, <2>5
  <2>7. PICK moved \in SUBSET File : moved = importing[i].moved \union {file}
    BY <1>0, <2>5 DEF ImportRow
  <2>8. PICK tracked \in SUBSET File : tracked = importing[i].tracked \ {file}
    BY <1>0 DEF ImportRow
  <2>9. PICK at \in ImportStage : /\ file = Marker => at = "stage"
                                  /\ file # Marker => at = "move"
    BY <1>c
  <2>10. PICK faulty \in BOOLEAN : faulty = (importing[i].faulty \/ file \in copies)
    BY <1>0 DEF ImportRow
  <2>11. PICK new : new = [importing[i] EXCEPT !.copies = copies, !.tracked = tracked,
                             !.moved = moved, !.at = at, !.faulty = faulty]
    OBVIOUS
  <2>12. importing' = [importing EXCEPT ![i] = new]
    <3>1. [importing[i] EXCEPT !.copies = copies, !.tracked = @ \ {file},
             !.moved = @ \union {file}, !.at = IF file = Marker THEN "stage" ELSE @,
             !.faulty = @ \/ file \in copies] = new
      BY <1>0, <2>3, <2>7, <2>8, <2>9, <2>10, <2>11 DEF ImportRow
    <3> QED BY <2>4, <3>1 DEF Become
  <2>13. copies \in SUBSET File
    BY <1>0 DEF ImportRow
  <2>14. /\ new \in ImportRow
         /\ new.at = at /\ new.pack = importing[i].pack /\ new.copies = copies
         /\ new.tracked = tracked /\ new.moved = moved /\ new.faulty = faulty
    BY <1>0, <2>11, <2>13 DEF ImportRow
  <2>15. importing'[i] = new => ImportMoves(i)
    BY <2>1, <2>2, <2>3, <2>6, <2>7, <2>8, <2>9, <2>10, <2>14 DEF ImportMoves
  <2> QED BY <1>a, <2>12, <2>14, <2>15
<1>5. ASSUME NEW i \in Import, LoseAnswer(i)
      PROVE  importing' \in [Import -> ImportRow] /\ \A k \in Import : ImportMoves(k)
  <2>1. PICK file : file = ImportFile(i)
    OBVIOUS
  <2>2. PICK p : p = Destination(i)
    OBVIOUS
  <2>3. /\ importing[i].at = "move"
        /\ published' = [published EXCEPT ![p] = @ \union {file}]
        /\ p \notin disturbed' => file # Marker
        /\ Become(i, "move", [importing[i] EXCEPT !.at = "undo", !.faulty = TRUE])
    BY <1>5, <2>1, <2>2 DEF LoseAnswer, ImportFile
  <2>4. p \in Point
    BY <1>0, <2>2, <2>3
  <2>5. published'[p] = published[p] \union {file}
    BY <1>0, <2>3, <2>4
  <2>6. PICK new : new = [importing[i] EXCEPT !.at = "undo", !.faulty = TRUE]
    OBVIOUS
  <2>7. importing' = [importing EXCEPT ![i] = new]
    BY <2>3, <2>6 DEF Become
  <2>8. /\ new \in ImportRow
        /\ new.at = "undo" /\ new.pack = importing[i].pack /\ new.moved = importing[i].moved
        /\ new.faulty
    BY <1>0, <1>c, <2>6 DEF ImportRow
  <2>9. importing'[i] = new => ImportMoves(i)
    BY <2>1, <2>2, <2>3, <2>5, <2>8 DEF ImportMoves
  <2> QED BY <1>a, <2>7, <2>8, <2>9
<1>6. ASSUME NEW i \in Import, Undo(i)
      PROVE  importing' \in [Import -> ImportRow] /\ \A k \in Import : ImportMoves(k)
  <2>1. PICK p : p = Destination(i)
    OBVIOUS
  <2>2. PICK kept \in {{}, importing[i].moved} :
          /\ Become(i, "undo", [importing[i] EXCEPT !.at = "clean", !.faulty = @ \/ kept # {}])
          /\ published' = [published EXCEPT ![p] = @ \ (importing[i].moved \ kept)]
    BY <1>6, <2>1 DEF Undo, Undone
  <2>3. importing[i].at = "undo"
    BY <2>2 DEF Become
  <2>4. p \in Point
    BY <1>0, <2>1, <2>3
  <2>5. published'[p] = published[p] \ (importing[i].moved \ kept)
    BY <1>0, <2>2, <2>4
  <2>6. PICK faulty \in BOOLEAN : faulty = (importing[i].faulty \/ kept # {})
    BY <1>0 DEF ImportRow
  <2>7. PICK new : new = [importing[i] EXCEPT !.at = "clean", !.faulty = faulty]
    OBVIOUS
  <2>8. importing' = [importing EXCEPT ![i] = new]
    <3>1. [importing[i] EXCEPT !.at = "clean", !.faulty = @ \/ kept # {}] = new
      BY <1>0, <2>6, <2>7 DEF ImportRow
    <3> QED BY <2>2, <3>1 DEF Become
  <2>9. /\ new \in ImportRow
        /\ new.at = "clean" /\ new.pack = importing[i].pack /\ new.copies = importing[i].copies
        /\ new.tracked = importing[i].tracked /\ new.moved = importing[i].moved
        /\ new.faulty = faulty
    BY <1>0, <1>c, <2>7 DEF ImportRow
  <2>10. ~new.faulty => ~importing[i].faulty /\ published'[p] = published[p] \ importing[i].moved
    BY <2>5, <2>6, <2>9
  <2>11. importing'[i] = new => ImportMoves(i)
    BY <2>1, <2>3, <2>9, <2>10 DEF ImportMoves
  <2> QED BY <1>a, <2>8, <2>9, <2>11
<1>7. ASSUME NEW i \in Import, CleanUpImport(i)
      PROVE  importing' \in [Import -> ImportRow] /\ \A k \in Import : ImportMoves(k)
  <2>1. PICK p : p = Destination(i)
    OBVIOUS
  <2>2. PICK kept \in {{}, importing[i].tracked}, released \in BOOLEAN :
          /\ Become(i, "clean",
               [importing[i] EXCEPT !.at = "over", !.copies = (@ \ importing[i].tracked) \union kept,
                                    !.faulty = @ \/ kept # {} \/ ~released])
          /\ lease' = IF released THEN [lease EXCEPT ![p] = NoImport] ELSE lease
    BY <1>7, <2>1 DEF CleanUpImport
  <2>3. importing[i].at = "clean" /\ UNCHANGED published
    BY <1>7, <2>2 DEF Become, CleanUpImport, vars
  <2>4. released => lease'[p] = NoImport
    BY <1>0, <2>1, <2>2, <2>3
  <2>5. PICK faulty \in BOOLEAN : faulty = (importing[i].faulty \/ kept # {} \/ ~released)
    BY <1>0 DEF ImportRow
  <2>6. PICK copies \in SUBSET File :
          copies = (importing[i].copies \ importing[i].tracked) \union kept
    BY <1>0 DEF ImportRow
  <2>7. PICK new : new = [importing[i] EXCEPT !.at = "over", !.copies = copies, !.faulty = faulty]
    OBVIOUS
  <2>8. importing' = [importing EXCEPT ![i] = new]
    <3>1. [importing[i] EXCEPT !.at = "over", !.copies = (@ \ importing[i].tracked) \union kept,
                               !.faulty = @ \/ kept # {} \/ ~released] = new
      BY <1>0, <2>5, <2>6, <2>7 DEF ImportRow
    <3> QED BY <2>2, <3>1 DEF Become
  <2>9. /\ new \in ImportRow
        /\ new.at = "over" /\ new.pack = importing[i].pack /\ new.copies = copies
        /\ new.moved = importing[i].moved /\ new.faulty = faulty
    BY <1>0, <1>c, <2>7 DEF ImportRow
  <2>10. ~new.faulty => /\ ~importing[i].faulty /\ lease'[p] = NoImport
                        /\ new.copies = importing[i].copies \ importing[i].tracked
    BY <2>4, <2>5, <2>6, <2>9
  <2>11. importing'[i] = new => ImportMoves(i)
    BY <2>1, <2>3, <2>9, <2>10 DEF ImportMoves
  <2> QED BY <1>a, <2>8, <2>9, <2>11
<1>8. ASSUME NEW i \in Import, StopImport(i)
      PROVE  importing' \in [Import -> ImportRow] /\ \A k \in Import : ImportMoves(k)
  <2>1. /\ importing[i].at \in Leased
        /\ importing' = [importing EXCEPT ![i].at = "over", ![i].faulty = TRUE]
        /\ UNCHANGED published
    BY <1>8 DEF StopImport, vars
  <2>2. PICK new : new = [importing[i] EXCEPT !.at = "over", !.faulty = TRUE]
    OBVIOUS
  <2>3. importing' = [importing EXCEPT ![i] = new]
    BY <1>0, <2>1, <2>2
  <2>4. /\ new \in ImportRow
        /\ new.at = "over" /\ new.pack = importing[i].pack /\ new.moved = importing[i].moved
        /\ new.faulty
    BY <1>0, <1>c, <2>2 DEF ImportRow
  <2>5. importing'[i] = new => ImportMoves(i)
    BY <2>1, <2>4 DEF ImportMoves
  <2> QED BY <1>a, <2>3, <2>4, <2>5
<1>9. CASE UNCHANGED importVars
  BY <1>0, <1>9 DEF importVars, ImportMoves
<1>10. CASE NextImport
  BY <1>1, <1>2, <1>3, <1>4, <1>5, <1>6, <1>7, <1>8, <1>10 DEF NextImport
<1> QED BY <1>9, <1>10, OtherWriters

\* The types of what imports keep; a disturbed point remains so.
LEMMA ImportTypesKept ==
    ASSUME TypeOK, ExportTypeOK, ImportTypeOK, PointsVerified, ImportsFit, [NextOperations]_opVars
    PROVE  ImportTypeOK' /\ disturbed \subseteq disturbed'
<1>1. lease' \in [Point -> Import \union {NoImport}]
  BY OtherWriters DEF ImportTypeOK, TakeLease, CleanUpImport
<1>2. disturbed \subseteq disturbed' /\ disturbed' \subseteq Point
  <2>1. ASSUME NEW i \in Import, Publish(i) \/ LoseAnswer(i)
        PROVE  disturbed \subseteq disturbed' /\ disturbed' \subseteq disturbed \union {Destination(i)}
               /\ importing[i].at = "move"
    BY <2>1 DEF Publish, LoseAnswer
  <2>2. \A i \in Import : importing[i].at = "move" => Destination(i) \in Point
    BY DEF PointsVerified, Verified
  <2> QED BY <2>1, <2>2, OtherWriters DEF ImportTypeOK
<1> QED BY <1>1, <1>2, ImportsMove DEF ImportTypeOK

\* Whoever works on a destination has its lease, which nobody else takes or deletes.
LEMMA LeaseStaysHeld ==
    ASSUME TypeOK, ExportTypeOK, ImportTypeOK, PointsVerified, ImportsFit, LeaseIsHeld,
           [NextOperations]_opVars
    PROVE  LeaseIsHeld'
<1>1. ASSUME NEW i \in Import, importing'[i].at \in Leased
      PROVE  lease'[Destination(i)'] = i
  <2>1. PICK p : p = Destination(i)
    OBVIOUS
  <2>2. \/ importing[i].at \in Leased /\ Destination(i)' = p
        \/ TakeLease(i) /\ Destination(i)' = p /\ p \in Point
    <3>1. ImportMoves(i)
      BY ImportsMove
    <3>2. "lease" \notin Leased /\ "over" \notin Leased
      BY DEF Leased
    <3>3. importing[i].at # "none" => p \in Point
      BY <2>1 DEF PointsVerified, Verified
    <3> QED BY <1>1, <2>1, <3>1, <3>2, <3>3 DEF ImportMoves, Destination, Leased
  <2>3. lease \in [Point -> Import \union {NoImport}] /\ i # NoImport
    BY ImportAssumption DEF ImportTypeOK
  <2>4. CASE TakeLease(i) /\ Destination(i)' = p /\ p \in Point
    BY <2>1, <2>3, <2>4 DEF TakeLease
  <2>5. CASE importing[i].at \in Leased /\ Destination(i)' = p
    <3>1. lease[p] = i /\ p \in Point
      BY <2>1, <2>5 DEF LeaseIsHeld, PointsVerified, Verified, Leased
    <3>2. ASSUME NEW j \in Import, TakeLease(j)
          PROVE  lease'[p] = i
      <4>1. lease[Destination(j)] = NoImport
        BY <3>2 DEF TakeLease, LeaseFree
      <4>2. Destination(j) # p
        BY <2>3, <3>1, <4>1
      <4> QED BY <2>3, <3>1, <3>2, <4>2 DEF TakeLease
    <3>3. ASSUME NEW j \in Import, CleanUpImport(j)
          PROVE  lease'[p] = i
      <4>1. importing[j].at = "clean"
        BY <3>3 DEF CleanUpImport, Become
      <4>2. lease[Destination(j)] = j
        BY <4>1 DEF LeaseIsHeld, Leased
      <4>3. \/ lease' = lease
            \/ lease' = [lease EXCEPT ![Destination(j)] = NoImport]
        BY <3>3 DEF CleanUpImport
      <4>4. CASE j = i
        <5>1. importing'[i].at = "over"
          <6>1. PICK kept, released :
                  importing' = [importing EXCEPT ![i] =
                    [importing[i] EXCEPT !.at = "over",
                       !.copies = (@ \ importing[i].tracked) \union kept,
                       !.faulty = @ \/ kept # {} \/ ~released]]
            BY <3>3, <4>4 DEF CleanUpImport, Become
          <6> QED BY <6>1 DEF ImportTypeOK, ImportRow
        <5> QED BY <1>1, <5>1 DEF Leased
      <4>5. CASE j # i
        BY <2>3, <3>1, <4>2, <4>3, <4>5
      <4> QED BY <4>4, <4>5
    <3> QED BY <2>5, <3>1, <3>2, <3>3, OtherWriters
  <2> QED BY <2>2, <2>4, <2>5
<1> QED BY <1>1 DEF LeaseIsHeld

\* Two imports never work on the same destination.
LEMMA OneImporter ==
    ASSUME LeaseIsHeld, NEW i \in Import, NEW j \in Import,
           importing[i].at \in Leased, importing[j].at \in Leased, Destination(i) = Destination(j)
    PROVE  i = j
BY DEF LeaseIsHeld

\* The files of a destination change by its import and by prunings alone.
LEMMA DestinationFiles ==
    ASSUME TypeOK, ImportTypeOK, PointsVerified, ImportsFit, LeaseIsHeld, [NextOperations]_opVars,
           NEW i \in Import, importing[i].at \in Leased, NEW p \in Point, p = Destination(i)
    PROVE  \/ published'[p] = published[p]
           \/ \E r \in Pruning :
                /\ IsNext(r, p) /\ published'[p] \subseteq published[p]
           \/ importing[i].at = "move" /\ (Publish(i) \/ LoseAnswer(i))
           \/ importing[i].at = "undo" /\ Undo(i)
<1>1. PublishedMoves(p)
  BY FilesMove
<1>2. stage[p] = "verified"
  BY DEF PointsVerified, Verified, Leased
<1>3. \A j \in Import : importing[j].at \in {"move", "undo"} /\ Destination(j) = p => j = i
  BY OneImporter DEF Leased
<1>4. ~Commit(p)
  BY <1>2 DEF Commit, ReadyToCommit
<1> QED BY <1>1, <1>2, <1>3, <1>4 DEF PublishedMoves

\* An import that changes its destination moves on.
LEMMA PublishingShows ==
    ASSUME ImportTypeOK, ImportsFit, NEW i \in Import, Publish(i) \/ LoseAnswer(i) \/ Undo(i)
    PROVE  importing'[i] # importing[i]
<1>0. importing \in [Import -> ImportRow] /\ importing[i] \in ImportRow
  BY DEF ImportTypeOK
<1>1. CASE Publish(i)
  <2>1. PICK file : file = ImportFile(i)
    OBVIOUS
  <2>2. importing[i].at = "move" /\ file \notin importing[i].moved
    BY <1>1, <2>1, MarkerComesLast DEF Publish
  <2>3. PICK copies :
          importing' = [importing EXCEPT ![i] =
            [importing[i] EXCEPT !.copies = copies, !.tracked = @ \ {file},
                 !.moved = @ \union {file}, !.at = IF file = Marker THEN "stage" ELSE @,
                 !.faulty = @ \/ file \in copies]]
    BY <1>1, <2>1 DEF Publish, ImportFile, Become
  <2>4. importing'[i].moved = importing[i].moved \union {file}
    BY <1>0, <2>3 DEF ImportRow
  <2> QED BY <2>2, <2>4
<1>2. CASE LoseAnswer(i)
  BY <1>0, <1>2 DEF LoseAnswer, Become, ImportRow
<1>3. CASE Undo(i)
  <2>1. PICK kept :
          importing' = [importing EXCEPT ![i] =
            [importing[i] EXCEPT !.at = "clean", !.faulty = @ \/ kept # {}]]
    BY <1>3 DEF Undo, Become
  <2>2. importing'[i].at = "clean" /\ importing[i].at = "undo"
    BY <1>0, <1>3, <2>1 DEF ImportRow, Undo
  <2> QED BY <2>2
<1> QED BY <1>1, <1>2, <1>3

\* Between them an import and the prunings keep the destination as the import expects it.
LEMMA ImportsFitStays ==
    ASSUME TypeOK, ExportTypeOK, ImportTypeOK, CreationFits, PruningsFit, PointsVerified,
           ImportsFit, LeaseIsHeld, [NextOperations]_opVars
    PROVE  ImportsFit'
<1>1. ASSUME NEW i \in Import
      PROVE  LET row == importing'[i]
                 p == Destination(i)'
             IN  /\ row.at \in {"lease", "list", "put"} =>
                      row.copies = {} /\ row.tracked = {} /\ row.moved = {}
                 /\ row.at = "verify" => row.moved = {} /\ row.copies \subseteq row.pack.files
                 /\ row.at = "move" => row.pack.files = File
                 /\ row.at \in {"move", "undo"} => Marker \notin row.moved
                 /\ row.at = "stage" => Marker \in row.moved
                 /\ row.at \in Leased /\ ~row.faulty => row.copies \subseteq row.tracked
                 /\ row.at \in {"put", "verify"} => published'[p] = {}
                 /\ row.at = "move" /\ p \notin disturbed' =>
                      /\ published'[p] = row.moved
                      /\ row.moved # {} => \A r \in Pruning : p \notin doomed'[r]
                 /\ row.at = "undo" /\ p \notin disturbed' => Marker \notin published'[p]
                 /\ row.at = "clean" /\ ~row.faulty /\ Marker \notin row.moved =>
                      row.moved \intersect published'[p] = {}
  <2> DEFINE row == importing[i]
             new == importing'[i]
             q == Destination(i)
             fits == /\ new.at \in {"put", "verify"} => published'[q] = {}
                     /\ new.at = "move" /\ q \notin disturbed' =>
                          /\ published'[q] = new.moved
                          /\ new.moved # {} => \A r \in Pruning : q \notin doomed'[r]
                     /\ new.at = "undo" /\ q \notin disturbed' => Marker \notin published'[q]
                     /\ new.at = "clean" /\ ~new.faulty /\ Marker \notin new.moved =>
                          new.moved \intersect published'[q] = {}
  <2>1. ImportMoves(i)
    BY ImportsMove
  <2>2. row \in ImportRow /\ row.pack.files \subseteq File /\ Marker \in File
    BY DEF ImportTypeOK, ImportRow, Package, File
  <2>3. /\ row.at \in {"lease", "list", "put"} =>
             row.copies = {} /\ row.tracked = {} /\ row.moved = {}
        /\ row.at = "verify" => row.moved = {} /\ row.copies \subseteq row.pack.files
        /\ row.at = "move" => row.pack.files = File
        /\ row.at \in {"move", "undo"} => Marker \notin row.moved
        /\ row.at = "stage" => Marker \in row.moved
        /\ row.at \in Leased /\ ~row.faulty => row.copies \subseteq row.tracked
        /\ row.at \in {"put", "verify"} => published[q] = {}
        /\ row.at = "move" /\ q \notin disturbed =>
             /\ published[q] = row.moved
             /\ row.moved # {} => \A r \in Pruning : q \notin doomed[r]
        /\ row.at = "undo" /\ q \notin disturbed => Marker \notin published[q]
        /\ row.at = "clean" /\ ~row.faulty /\ Marker \notin row.moved =>
             row.moved \intersect published[q] = {}
    BY DEF ImportsFit
  <2>4. Leased = {"list", "put", "verify", "move", "stage", "undo", "clean"}
    BY DEF Leased
  <2>5. /\ new.at \in {"lease", "list", "put"} =>
             new.copies = {} /\ new.tracked = {} /\ new.moved = {}
        /\ new.at = "verify" => new.moved = {} /\ new.copies \subseteq new.pack.files
    BY <2>1, <2>3, <2>4 DEF ImportMoves
  <2>6. new.at = "move" => new.pack.files = File
    <3>1. row.at = "verify" /\ row.copies = File => row.pack.files = File
      BY <2>2, <2>3
    <3>2. new.at = "move" => \/ row.at = "move"
                             \/ row.at = "verify" /\ row.copies = File
      BY <2>1 DEF ImportMoves
    <3>3. new.at = "move" => new.pack = row.pack
      BY <2>1 DEF ImportMoves
    <3> QED BY <2>3, <3>1, <3>2, <3>3
  <2>7. /\ new.at \in {"move", "undo"} => Marker \notin new.moved
        /\ new.at = "stage" => Marker \in new.moved
    BY <2>1, <2>3, <2>4 DEF ImportMoves
  <2>8. new.at \in Leased /\ ~new.faulty => new.copies \subseteq new.tracked
    BY <2>1, <2>3, <2>4 DEF ImportMoves
  <2>9. new.at # "lease" /\ row.at # "none" => Destination(i)' = q
    BY <2>1 DEF ImportMoves, Destination
  <2>10. disturbed \subseteq disturbed'
    BY ImportTypesKept
  <2>11. row.at \in Leased => q \in Point
    BY <2>4 DEF PointsVerified, Verified
  <2>12. new.at \in Leased => row.at \in Leased \/ row.at = "lease"
    BY <2>1, <2>4 DEF ImportMoves
  <2>a. ASSUME new = row, row.at \in Leased
        PROVE  fits
    <3>1. /\ \/ published'[q] = published[q]
             \/ \E r \in Pruning : q \in doomed[r] /\ published'[q] \subseteq published[q]
          /\ published'[q] \subseteq published[q]
      <4>1. ~Publish(i) /\ ~LoseAnswer(i) /\ ~Undo(i)
        BY <2>a, PublishingShows
      <4>2. PICK p \in Point : p = q
        BY <2>a, <2>11
      <4>3. \/ published'[p] = published[p]
            \/ \E r \in Pruning : IsNext(r, p) /\ published'[p] \subseteq published[p]
        BY <2>a, <4>1, <4>2, DestinationFiles
      <4> QED BY <4>2, <4>3 DEF IsNext
    <3>2. new.at \in {"put", "verify"} => published'[q] = {}
      BY <2>3, <2>a, <3>1
    <3>3. ASSUME new.at = "move", q \notin disturbed'
          PROVE  /\ published'[q] = new.moved
                 /\ new.moved # {} => \A r \in Pruning : q \notin doomed'[r]
      <4>1. /\ published[q] = row.moved /\ Marker \notin row.moved
            /\ row.moved # {} => \A r \in Pruning : q \notin doomed[r]
        BY <2>3, <2>10, <2>a, <3>3
      <4>2. published'[q] = row.moved
        BY <3>1, <4>1
      <4>3. ASSUME row.moved # {}, NEW r \in Pruning
            PROVE  q \notin doomed'[r]
        <5>1. q \notin doomed[r]
          BY <4>1, <4>3
        <5>2. published[q] # File
          BY <2>2, <4>1
        <5>3. PruningMoves(r)
          BY PruningsMove
        <5> QED BY <5>1, <5>2, <5>3 DEF PruningMoves, Complete
      <4> QED BY <2>a, <4>2, <4>3
    <3>4. new.at = "undo" /\ q \notin disturbed' => Marker \notin published'[q]
      BY <2>3, <2>10, <2>a, <3>1
    <3>5. new.at = "clean" /\ ~new.faulty /\ Marker \notin new.moved =>
            new.moved \intersect published'[q] = {}
      BY <2>3, <2>a, <3>1
    <3> QED BY <3>2, <3>3, <3>4, <3>5 DEF fits
  <2>b. ASSUME new # row
        PROVE  fits
    <3>1. new.at \in {"put", "verify"} => published'[q] = {}
      BY <2>1, <2>3, <2>b DEF ImportMoves
    <3>2. ASSUME new.at = "move", q \notin disturbed'
          PROVE  /\ published'[q] = new.moved
                 /\ new.moved # {} => \A r \in Pruning : q \notin doomed'[r]
      <4>1. CASE row.at = "verify"
        <5>1. new.moved = {} /\ published'[q] = published[q] /\ published[q] = {}
          BY <2>1, <2>3, <2>b, <3>2, <4>1 DEF ImportMoves
        <5> QED BY <5>1
      <4>2. CASE row.at # "verify"
        <5>1. /\ row.at = "move" /\ published[q] = row.moved
              /\ new.moved = row.moved \union {ImportFile(i)}
              /\ published'[q] = published[q] \union {ImportFile(i)}
              /\ \A r \in Pruning : q \notin doomed'[r]
          BY <2>1, <2>3, <2>10, <2>b, <3>2, <4>2 DEF ImportMoves
        <5> QED BY <5>1
      <4> QED BY <4>1, <4>2
    <3>3. new.at = "undo" /\ q \notin disturbed' => Marker \notin published'[q]
      <4>1. new.at = "undo" /\ q \notin disturbed' =>
              /\ row.at = "move" /\ q \notin disturbed
              /\ \/ published'[q] = published[q]
                 \/ published'[q] = published[q] \union {ImportFile(i)} /\ ImportFile(i) # Marker
        BY <2>1, <2>10, <2>b DEF ImportMoves
      <4> QED BY <2>3, <4>1
    <3>4. new.at = "clean" /\ ~new.faulty /\ Marker \notin new.moved =>
            new.moved \intersect published'[q] = {}
      <4>1. new.at = "clean" =>
              /\ new.moved = row.moved
              /\ \/ row.at \in {"list", "verify", "stage", "put"}
                 \/ row.at = "undo" /\ (~new.faulty => published'[q] = published[q] \ row.moved)
        BY <2>1, <2>b DEF ImportMoves, Leased
      <4> QED BY <2>3, <4>1
    <3> QED BY <3>1, <3>2, <3>3, <3>4 DEF fits
  <2>c. new.at \in Leased => fits
    BY <2>4, <2>a, <2>b
  <2>17. new.at \in Leased => Destination(i)' = q
    BY <2>4, <2>9, <2>12
  <2> QED BY <2>4, <2>5, <2>6, <2>7, <2>8, <2>c, <2>17 DEF fits
<1> QED BY <1>1 DEF ImportsFit

-----------------------------------------------------------------------------
(* The steps of the invariant *)

\* Whoever relies on a point relies on one that was verified.
LEMMA PointsVerifiedStays ==
    ASSUME TypeOK, WorkerTypeOK, ExportTypeOK, ImportTypeOK, PointsVerified, ImportsFit,
           [NextOperations]_opVars
    PROVE  PointsVerified'
<1>0. \A p : Verified(p) => Verified(p)'
  BY CommittedStays
<1>1. ASSUME NEW w \in Worker, run'[w] \in {"list", "pruning", "finish"}
      PROVE  Verified(making[w])'
  <2>1. PICK p : p = making[w]
    OBVIOUS
  <2>2. making'[w] = p /\ Verified(p)
    BY <1>1, <2>1, WorkersMove DEF WorkersGoOn, WorkerMoves, PointsVerified
  <2> QED BY <1>0, <2>2 DEF Verified
<1>2. ASSUME NEW j \in Job, jobs'[j].status = "verified"
      PROVE  Verified(jobs[j].point)'
  <2>1. JobMoves(j)
    BY JobsMove
  <2>2. PICK p : p = jobs'[j].point
    OBVIOUS
  <2>3. Verified(p)
    <3>1. CASE jobs'[j] = jobs[j]
      BY <1>2, <2>2, <3>1 DEF PointsVerified
    <3>2. ASSUME NEW w \in Worker, run[w] = "finish",
                 jobs'[j] = [status |-> "verified", point |-> making[w]]
          PROVE  Verified(p)
      <4>1. Verified(making[w]) /\ p = making[w]
        BY <2>2, <3>2 DEF PointsVerified
      <4> QED BY <4>1
    <3> QED BY <1>2, <2>1, <3>1, <3>2 DEF JobMoves
  <2> QED BY <1>0, <2>2, <2>3 DEF Verified
<1>3. ASSUME NEW e \in Export
      PROVE  /\ exporting'[e].at = "creating" => exporting'[e].point \in Point
             /\ exportJobs'[e] = "verified" =>
                  exporting'[e].at = "over" /\ Verified(exporting[e].point)'
  <2>1. ExportMoves(e)
    BY ExportsMove
  <2>2. PICK p : p = exporting'[e].point
    OBVIOUS
  <2>3. /\ exporting[e].at = "creating" => exporting[e].point \in Point
        /\ exportJobs[e] = "verified" =>
             exporting[e].at = "over" /\ Verified(exporting[e].point)
    BY DEF PointsVerified
  <2>4. /\ exporting'[e].at = "creating" => exporting'[e].point \in Point
        /\ exportJobs'[e] = "verified" => exporting'[e].at = "over" /\ Verified(p)
    BY <2>1, <2>2, <2>3 DEF ExportMoves, Verified
  <2> QED BY <1>0, <2>2, <2>4 DEF Verified
<1>4. ASSUME NEW d \in Download, downloading'[d].busy
      PROVE  Verified(downloading[d].point)'
  <2>1. DownloadMoves(d)
    BY DownloadsMove
  <2>2. PICK p : p = downloading'[d].point
    OBVIOUS
  <2>3. Verified(p)
    <3>1. CASE /\ downloading'[d].point = downloading[d].point
               /\ downloading'[d].busy = downloading[d].busy
      <4>1. Verified(downloading[d].point) /\ p = downloading[d].point
        BY <1>4, <2>2, <3>1 DEF PointsVerified
      <4> QED BY <4>1
    <3>2. ASSUME NEW e \in Export, exportJobs[e] = "verified",
                 downloading'[d].point = exporting[e].point
          PROVE  Verified(p)
      <4>1. Verified(exporting[e].point) /\ p = exporting[e].point
        BY <2>2, <3>2 DEF PointsVerified
      <4> QED BY <4>1
    <3>3. downloading'[d] # Idle
      BY <1>4 DEF Idle
    <3> QED BY <2>1, <3>1, <3>2, <3>3 DEF DownloadMoves
  <2> QED BY <1>0, <2>2, <2>3 DEF Verified
<1>5. ASSUME NEW pack \in packages'
      PROVE  Verified(pack.point) /\ Verified(pack.point)'
  <2>1. Verified(pack.point)
    BY DownloadsMove DEF PointsVerified
  <2>2. PICK p : p = pack.point
    OBVIOUS
  <2> QED BY <1>0, <2>1, <2>2 DEF Verified
<1>6. ASSUME NEW i \in Import, importing'[i].at # "none"
      PROVE  Verified(Destination(i))'
  <2>1. ImportMoves(i)
    BY ImportsMove
  <2>2. PICK p : p = importing'[i].pack.point
    OBVIOUS
  <2>3. Verified(p)
    <3>1. CASE importing[i].at = "none"
      <4>1. importing'[i].pack \in packages
        BY <1>6, <2>1, <3>1 DEF ImportMoves, Leased
      <4> QED BY <2>2, <4>1 DEF PointsVerified
    <3>2. CASE importing[i].at # "none"
      <4>1. importing'[i].pack = importing[i].pack
        BY <2>1, <3>2 DEF ImportMoves
      <4> QED BY <2>2, <3>2, <4>1 DEF PointsVerified, Destination
    <3> QED BY <3>1, <3>2
  <2> QED BY <1>0, <2>2, <2>3 DEF Verified, Destination
<1> QED BY <1>1, <1>2, <1>3, <1>4, <1>5, <1>6 DEF PointsVerified

\* Two points with orders are not next in turn both.
LEMMA OneIsNext ==
    ASSUME TypeOK, OrdersFit, CreationFits, PruningsFit,
           NEW r \in Pruning, NEW p, NEW q, IsNext(r, p), IsNext(r, q)
    PROVE  p = q
<1>1. p \in Ordered /\ q \in Ordered /\ p \in Point /\ q \in Point
  BY DEF IsNext, PruningsFit, CreationFits, Committed, Ordered
<1>2. created[p].order \in Nat /\ created[q].order \in Nat
  BY <1>1 DEF TypeOK
<1>3. created[p].order = created[q].order
  BY <1>2 DEF IsNext, Newer
<1> QED BY <1>1, <1>3 DEF OrdersFit

\* What is next among the doomed stays so while they stay.
LEMMA NextStays ==
    ASSUME TypeOK, OrdersFit, CreationFits, PruningsFit, [NextOperations]_opVars,
           NEW r \in Pruning, NEW p, doomed'[r] = doomed[r], IsNext(r, p)'
    PROVE  IsNext(r, p)
<1>1. \A q \in doomed[r] : created'[q] = created[q]
  <2>1. doomed[r] \subseteq Ordered
    BY DEF PruningsFit, CreationFits, Committed, Ordered
  <2> QED BY <2>1, OrdersStay
<1> QED BY <1>1 DEF IsNext, Newer

\* The marker a pruning goes on without is gone, unless an import disturbs it.
LEMMA MarkerGoesFirstStays ==
    ASSUME TypeOK, ExportTypeOK, ImportTypeOK, OrdersFit, CreationFits, PruningsFit,
           PointsVerified, MarkerGoesFirst, ImportsFit, [NextOperations]_opVars
    PROVE  MarkerGoesFirst'
<1>1. SUFFICES ASSUME NEW r \in Pruning, NEW p \in doomed'[r], p \notin disturbed',
                      keys'[r] # {}, IsNext(r, p)', Marker \notin keys'[r]
               PROVE  Marker \notin published'[p]
  BY DEF MarkerGoesFirst
<1>2. p \notin disturbed /\ PruningMoves(r)
  BY <1>1, ImportTypesKept, PruningsMove
<1>3. keys[r] \in SUBSET File /\ published \in [Point -> SUBSET File] /\ doomed[r] \subseteq Point
  BY DEF TypeOK
<1>4. CASE doomed'[r] = doomed[r] /\ keys'[r] = keys[r]
  <2>1. p \in doomed[r] /\ p \in Committed /\ p \in Point /\ IsNext(r, p)
    BY <1>1, <1>3, <1>4, NextStays DEF PruningsFit
  <2>2. Marker \notin published[p]
    BY <1>1, <1>2, <1>4, <2>1 DEF MarkerGoesFirst
  <2>3. PublishedMoves(p)
    BY <2>1, FilesMove
  <2>4. stage[p] # "moving" /\ ~Commit(p)
    BY <2>1 DEF Committed, Commit, ReadyToCommit
  <2>5. ASSUME NEW i \in Import, Destination(i) = p, Publish(i) \/ LoseAnswer(i)
        PROVE  ImportFile(i) # Marker
    <3>1. CASE Publish(i)
      <4>1. \E s \in Pruning : p \in doomed[s]
        BY <2>1
      <4>2. disturbed' = disturbed \union {p}
        BY <2>5, <3>1, <4>1 DEF Publish
      <4> QED BY <1>1, <4>2
    <3>2. CASE LoseAnswer(i)
      BY <1>1, <2>5, <3>2 DEF LoseAnswer, ImportFile
    <3> QED BY <2>5, <3>1, <3>2
  <2> QED BY <2>2, <2>3, <2>4, <2>5 DEF PublishedMoves
<1>5. ASSUME NEW q \in doomed[r], keys[r] = {}, UNCHANGED published, IsNext(r, q),
             keys'[r] = published[q],
             published[q] # {} => doomed'[r] = doomed[r]
      PROVE  Marker \notin published'[p]
  <2>1. p = q
    BY <1>1, <1>5, NextStays, OneIsNext
  <2> QED BY <1>1, <1>5, <2>1
<1>6. ASSUME NEW q \in doomed[r], keys[r] # {}, IsNext(r, q),
             keys'[r] = keys[r] \ {NextKey(r)},
             published' = [published EXCEPT ![q] = @ \ {NextKey(r)}],
             keys[r] # {NextKey(r)} => doomed'[r] = doomed[r]
      PROVE  Marker \notin published'[p]
  <2>1. NextKey(r) \in keys[r] /\ (Marker \in keys[r] => NextKey(r) = Marker)
    BY <1>3, <1>6, Files DEF NextKey
  <2>2. keys[r] # {NextKey(r)}
    BY <1>1, <1>6
  <2>3. p = q
    BY <1>1, <1>6, <2>2, NextStays, OneIsNext
  <2>4. published'[p] = published[p] \ {NextKey(r)}
    BY <1>3, <1>6, <2>3
  <2>5. CASE Marker \in keys[r]
    BY <2>1, <2>4, <2>5
  <2>6. CASE Marker \notin keys[r]
    BY <1>2, <1>6, <2>3, <2>4, <2>6 DEF MarkerGoesFirst
  <2> QED BY <2>5, <2>6
<1>7. doomed[r] = {} => keys[r] = {}
  BY DEF PruningsFit
<1> QED BY <1>1, <1>2, <1>4, <1>5, <1>6, <1>7 DEF PruningMoves

\* No step leaves a point with its marker and without one of its files.
LEMMA CommittedStaysComplete ==
    ASSUME TypeOK, ExportTypeOK, ImportTypeOK, OrdersFit, CreationFits, PruningsFit,
           PointsVerified, MarkerGoesFirst, CommittedIsComplete, ImportsFit,
           [NextOperations]_opVars
    PROVE  CommittedIsComplete'
<1>1. SUFFICES ASSUME NEW p \in Point, p \notin disturbed', Marker \in published'[p]
               PROVE  published'[p] = File
  BY DEF CommittedIsComplete, MarkedIsComplete, Complete
<1>2. p \notin disturbed /\ PublishedMoves(p)
  BY <1>1, ImportTypesKept, FilesMove
<1>3. Marker \in published[p] => published[p] = File
  BY <1>2 DEF CommittedIsComplete, MarkedIsComplete, Complete
<1>4. /\ temporary[p] \subseteq Body /\ published[p] \subseteq File /\ Marker \notin Body
      /\ File = Body \union {Marker}
  BY DEF TypeOK, Body, Snapshot, Marker, File
<1>5. CASE stage[p] = "moving"
  <2>1. Marker \notin published[p] /\ Body \subseteq temporary[p] \union published[p]
        /\ p \notin Committed
    BY <1>5 DEF CreationFits, Committed
  <2>2. Commit(p) => temporary[p] = {}
    BY DEF Commit, ReadyToCommit
  <2> QED BY <1>1, <1>4, <2>1, <2>2, UncommittedFiles
<1>6. ASSUME NEW r \in Pruning, Delete(r), keys[r] # {}, IsNext(r, p),
             published'[p] = published[p] \ {NextKey(r)}
      PROVE  published'[p] = File
  <2>1. keys[r] \in SUBSET File /\ p \in doomed[r]
    BY <1>6 DEF TypeOK, IsNext
  <2>2. CASE Marker \in keys[r]
    BY <1>1, <1>6, <2>1, <2>2, Files DEF NextKey
  <2>3. CASE Marker \notin keys[r]
    BY <1>1, <1>2, <1>6, <2>1, <2>3 DEF MarkerGoesFirst
  <2> QED BY <2>2, <2>3
<1>7. ASSUME NEW i \in Import, importing[i].at = "move", Destination(i) = p,
             published'[p] = published[p] \union {ImportFile(i)}
      PROVE  published'[p] = File
  <2>1. published[p] = importing[i].moved /\ Marker \notin importing[i].moved
    BY <1>2, <1>7 DEF ImportsFit
  <2>2. ImportFile(i) = Marker
    BY <1>1, <1>7, <2>1
  <2> QED BY <1>7, <2>1, <2>2, MarkerComesLast
<1>8. ASSUME NEW i \in Import, importing[i].at = "undo", Destination(i) = p,
             published'[p] \subseteq published[p]
      PROVE  FALSE
  BY <1>1, <1>2, <1>8 DEF ImportsFit
<1>9. Commit(p) => stage[p] = "moving"
  BY DEF Commit, ReadyToCommit
<1> QED BY <1>1, <1>2, <1>3, <1>5, <1>6, <1>7, <1>8, <1>9 DEF PublishedMoves

\* What is listed with a marker is listed complete.
LEMMA ListingsStayComplete ==
    ASSUME TypeOK, ExportTypeOK, ImportTypeOK, PointsVerified, CommittedIsComplete,
           ListingsComplete, ImportsFit, [NextOperations]_opVars
    PROVE  ListingsComplete'
<1>0. disturbed \subseteq disturbed'
  BY ImportTypesKept
<1>1. ASSUME NEW d \in Download, Marker \in downloading'[d].listed
      PROVE  downloading'[d].listed = File \/ downloading'[d].point \in disturbed'
  <2>1. DownloadMoves(d)
    BY DownloadsMove
  <2>2. CASE downloading'[d].listed = downloading[d].listed
             /\ downloading'[d].point = downloading[d].point
    BY <1>0, <1>1, <2>2 DEF ListingsComplete
  <2>3. CASE downloading'[d] = Idle
    BY <1>1, <2>3 DEF Idle
  <2>4. ASSUME NEW e \in Export, exportJobs[e] = "verified",
               downloading'[d].listed = published[downloading'[d].point],
               downloading'[d].point = exporting[e].point
        PROVE  downloading'[d].listed = File \/ downloading'[d].point \in disturbed'
    <3>1. PICK p \in Point : p = downloading'[d].point
      BY <2>4 DEF PointsVerified, Verified
    <3>2. Marker \in published[p]
      BY <1>1, <2>4, <3>1
    <3>3. p \in disturbed \/ published[p] = File
      BY <3>2 DEF CommittedIsComplete, MarkedIsComplete, Complete
    <3> QED BY <1>0, <2>4, <3>1, <3>3
  <2> QED BY <2>1, <2>2, <2>3, <2>4 DEF DownloadMoves
<1>2. ASSUME NEW pack \in packages', Marker \in pack.files
      PROVE  pack.files = File \/ pack.point \in disturbed'
  <2>1. CASE pack \in packages
    BY <1>0, <1>2, <2>1 DEF ListingsComplete, PackageWithMarkerIsComplete
  <2>2. ASSUME NEW d \in Download,
               pack = [point |-> downloading[d].point, files |-> downloading[d].listed]
        PROVE  pack.files = File \/ pack.point \in disturbed'
    BY <1>0, <1>2, <2>2 DEF ListingsComplete
  <2> QED BY <2>1, <2>2, DownloadsMove
<1> QED BY <1>1, <1>2 DEF ListingsComplete, PackageWithMarkerIsComplete

\* A tier has finitely many slots.
LEMMA TierSlotsFinite ==
    ASSUME NEW tier \in Tier
    PROVE  IsFiniteSet({SlotOf[tier][d] : d \in 0 .. LastDay})
<1> DEFINE slots == {SlotOf[tier][d] : d \in 0 .. LastDay}
<1>1. LastDay \in Nat /\ IsFiniteSet(0 .. LastDay)
  BY BackupAssumption, FS_Interval
<1>2. SlotOf[tier] \in [0 .. LastDay -> slots]
  BY BackupAssumption
<1>3. SlotOf[tier] \in Surjection(0 .. LastDay, slots)
  BY <1>2 DEF Surjection
<1> HIDE DEF slots
<1>4. IsFiniteSet(slots)
  BY <1>1, <1>3, FS_Surjection
<1> QED BY <1>4 DEF slots

\* Slots of newer points are finitely many, and those of more points are more.
LEMMA SlotsAddUp ==
    ASSUME TypeOK, NEW tier \in Tier, NEW p \in Point,
           NEW some \in SUBSET Point, NEW more \in SUBSET Point, some \subseteq more
    PROVE  /\ IsFiniteSet(NewerSlots(tier, p, more))
           /\ Cardinality(NewerSlots(tier, p, some)) \in Nat
           /\ Cardinality(NewerSlots(tier, p, more)) \in Nat
           /\ Cardinality(NewerSlots(tier, p, some)) <= Cardinality(NewerSlots(tier, p, more))
<1>1. \A q \in Point : created[q].day \in 0 .. LastDay
  BY DEF TypeOK
<1>2. NewerSlots(tier, p, more) \subseteq {SlotOf[tier][d] : d \in 0 .. LastDay}
  BY <1>1 DEF NewerSlots, Slot
<1>3. IsFiniteSet(NewerSlots(tier, p, more))
  BY <1>2, TierSlotsFinite, FS_Subset
<1>4. NewerSlots(tier, p, some) \subseteq NewerSlots(tier, p, more)
  BY DEF NewerSlots
<1>5. /\ IsFiniteSet(NewerSlots(tier, p, some))
      /\ Cardinality(NewerSlots(tier, p, some)) <= Cardinality(NewerSlots(tier, p, more))
  BY <1>3, <1>4, FS_Subset
<1> QED BY <1>3, <1>5, FS_CardinalityType

\* A point that has been superseded is so for good.
LEMMA SupersededStays ==
    ASSUME TypeOK, TypeOK', OrdersFit, CreationFits, [NextOperations]_opVars,
           NEW p \in Committed, Superseded(p)
    PROVE  Superseded(p)'
<1>1. /\ Committed \subseteq Committed' /\ Committed' \subseteq Point /\ p \in Point
      /\ \A q \in Committed : created'[q] = created[q]
  <2>1. Committed \subseteq Ordered
    BY DEF CreationFits, Committed, Ordered
  <2> QED BY <2>1, CommittedStays, OrdersStay DEF Committed
<1>2. \A q \in Committed : Newer(q, p)' = Newer(q, p)
  BY <1>1 DEF Newer
<1>3. \A tier \in Tier : \A q \in Committed : Slot(tier, q)' = Slot(tier, q)
  BY <1>1 DEF Slot
<1>4. ASSUME NEW tier \in Tier
      PROVE  \/ \E q \in Committed' : Newer(q, p)' /\ Slot(tier, q)' = Slot(tier, p)'
             \/ Limit[tier] <= Cardinality(NewerSlots(tier, p, Committed)')
  <2>1. CASE \E q \in Committed : Newer(q, p) /\ Slot(tier, q) = Slot(tier, p)
    BY <1>1, <1>2, <1>3, <2>1
  <2>2. CASE Limit[tier] <= Cardinality(NewerSlots(tier, p, Committed))
    <3>1. NewerSlots(tier, p, Committed) \subseteq NewerSlots(tier, p, Committed)'
      BY <1>1, <1>2, <1>3 DEF NewerSlots
    <3>2. IsFiniteSet(NewerSlots(tier, p, Committed)')
      <4>1. \A q \in Point : created'[q].day \in 0 .. LastDay
        BY DEF TypeOK
      <4>2. NewerSlots(tier, p, Committed)' \subseteq {SlotOf[tier][d] : d \in 0 .. LastDay}
        BY <1>1, <4>1 DEF NewerSlots, Slot
      <4> QED BY <4>2, TierSlotsFinite, FS_Subset
    <3>3. /\ IsFiniteSet(NewerSlots(tier, p, Committed))
          /\ Cardinality(NewerSlots(tier, p, Committed))
               <= Cardinality(NewerSlots(tier, p, Committed)')
      BY <3>1, <3>2, FS_Subset
    <3>4. /\ Cardinality(NewerSlots(tier, p, Committed)) \in Nat
          /\ Cardinality(NewerSlots(tier, p, Committed)') \in Nat
          /\ Limit[tier] \in Nat
      BY <3>2, <3>3, FS_CardinalityType, BackupAssumption
    <3> QED BY <2>2, <3>3, <3>4
  <2>3. \/ \E q \in Committed : Newer(q, p) /\ Slot(tier, q) = Slot(tier, p)
        \/ Limit[tier] <= Cardinality(NewerSlots(tier, p, Committed))
    BY DEF Superseded
  <2> QED BY <2>1, <2>2, <2>3
<1> QED BY <1>4 DEF Superseded

\* The retention gives up what newer points have superseded.
LEMMA GivenUpIsSuperseded ==
    ASSUME TypeOK, CreationFits, NEW points \in SUBSET {p \in Point : Complete(p)},
           NEW p \in points \ Keep(points)
    PROVE  Superseded(p)
<1>1. points \subseteq Committed /\ Committed \subseteq Point /\ p \in Point
  BY CompleteIsCommitted DEF Committed
<1>2. ASSUME NEW tier \in Tier
      PROVE  \/ \E q \in Committed : Newer(q, p) /\ Slot(tier, q) = Slot(tier, p)
             \/ Limit[tier] <= Cardinality(NewerSlots(tier, p, Committed))
  <2>1. CASE ~NewestOfSlot(tier, p, points)
    BY <1>1, <2>1 DEF NewestOfSlot
  <2>2. CASE ~(Cardinality(NewerSlots(tier, p, points)) < Limit[tier])
    <3>1. /\ Cardinality(NewerSlots(tier, p, points)) \in Nat
          /\ Cardinality(NewerSlots(tier, p, Committed)) \in Nat
          /\ Cardinality(NewerSlots(tier, p, points)) <= Cardinality(NewerSlots(tier, p, Committed))
      BY <1>1, SlotsAddUp
    <3>2. Limit[tier] \in Nat
      BY BackupAssumption
    <3> QED BY <2>2, <3>1, <3>2
  <2> QED BY <2>1, <2>2 DEF Keep
<1> QED BY <1>2 DEF Superseded

\* What is not complete, or may still be deleted, has been superseded.
LEMMA SupersededGoesStays ==
    ASSUME TypeOK, TypeOK', ExportTypeOK, ImportTypeOK, OrdersFit, CreationFits, PruningsFit,
           PointsVerified, ImportsFit, SupersededGoes, [NextOperations]_opVars
    PROVE  SupersededGoes'
<1>0. \A p \in Committed : Superseded(p) => Superseded(p)'
  BY SupersededStays
<1>1. ASSUME NEW r \in Pruning, NEW p \in doomed'[r]
      PROVE  Superseded(p)'
  <2>1. PruningMoves(r) /\ doomed[r] \subseteq Committed
    BY PruningsMove DEF PruningsFit
  <2>2. CASE p \in doomed[r]
    BY <1>0, <2>1, <2>2 DEF SupersededGoes
  <2>3. ASSUME NEW points \in SUBSET {q \in Point : Complete(q)},
               doomed'[r] = points \ Keep(points)
        PROVE  Superseded(p)'
    <3>1. p \in points \ Keep(points)
      BY <2>3
    <3>2. Superseded(p) /\ p \in Committed
      BY <3>1, GivenUpIsSuperseded, CompleteIsCommitted
    <3> QED BY <1>0, <3>2
  <2> QED BY <1>1, <2>1, <2>2, <2>3 DEF PruningMoves
<1>2. ASSUME NEW p \in Committed'
      PROVE  Complete(p)' \/ Superseded(p)'
  <2>1. CASE p \notin Committed
    BY <2>1, CreationFitsStays
  <2>2. CASE p \in Committed /\ Superseded(p)
    BY <1>0, <2>2
  <2>3. CASE p \in Committed /\ ~Superseded(p)
    <3>1. Complete(p) /\ p \in Point
      BY <2>3 DEF SupersededGoes, Committed
    <3>2. \A r \in Pruning : ~IsNext(r, p)
      BY <2>3 DEF SupersededGoes, IsNext
    <3>3. \A i \in Import : importing[i].at = "undo" => Destination(i) # p
      BY <2>3 DEF SupersededGoes
    <3>4. published[p] \subseteq published'[p] /\ published'[p] \subseteq File
      BY <3>1, <3>2, <3>3, FilesMove DEF PublishedMoves
    <3> QED BY <3>1, <3>4 DEF Complete
  <2> QED BY <2>1, <2>2, <2>3
<1>3. ASSUME NEW i \in Import, importing'[i].at \in {"put", "verify", "move", "undo"}
      PROVE  Superseded(Destination(i))'
  <2>1. ImportMoves(i)
    BY ImportsMove
  <2>2. PICK p : p = Destination(i)
    OBVIOUS
  <2>3. /\ importing'[i].pack = importing[i].pack
        /\ \/ importing[i].at \in {"put", "verify", "move", "undo"}
           \/ importing[i].at = "list" /\ published[p] = {}
    BY <1>3, <2>1, <2>2 DEF ImportMoves
  <2>4. p \in Committed
    BY <2>2, <2>3 DEF PointsVerified, Verified, Committed
  <2>5. Superseded(p)
    <3>1. published[p] = {} => ~Complete(p)
      BY DEF Complete, File
    <3> QED BY <2>2, <2>3, <2>4, <3>1 DEF SupersededGoes
  <2>6. Destination(i)' = p
    BY <2>2, <2>3 DEF Destination
  <2>7. Superseded(p)'
    BY <1>0, <2>4, <2>5
  <2> QED BY <2>6, <2>7 DEF Superseded, Newer, Slot, NewerSlots
<1> QED BY <1>1, <1>2, <1>3 DEF SupersededGoes

-----------------------------------------------------------------------------
(* The theorems *)

\* The invariant holds initially.
LEMMA InitialInvariant ==
    ASSUME InitOperations
    PROVE  IInv
<1> USE DEF InitOperations
<1>1. TypeOK
  BY BackupAssumption DEF Init, TypeOK, Stage, NotCreated
<1>2. WorkerTypeOK /\ AlertTold /\ SchedulerGoesOn
  BY DEF InitWorker, WorkerTypeOK, AlertTold, SchedulerGoesOn, JobRow, NoRow, Run
<1>3. ExportTypeOK
  BY DEF InitExport, ExportTypeOK, ExportRow, DownloadRow, Idle
<1>4. ImportTypeOK
  BY DEF InitImport, ImportTypeOK, ImportRow, ImportStage, Package, Fresh
<1>5. \A p \in Point : created[p].order = 0 /\ created[p].day = 0 /\ today = 0
  BY DEF Init, NotCreated
<1>6. OrdersFit
  <2>1. Ordered = {}
    BY <1>5 DEF Ordered
  <2>2. IsFiniteSet(Ordered) /\ Cardinality(Ordered) = 0
    BY <2>1, FS_EmptySet
  <2>3. \A p, q \in Point : ~Newer(q, p)
    BY <1>5 DEF Newer
  <2> QED BY <1>5, <2>1, <2>2, <2>3 DEF OrdersFit
<1>7. Committed = {}
  BY DEF Init, Committed
<1>8. \A r \in Pruning : doomed[r] = {} /\ keys[r] = {}
  BY DEF Init
<1>9. \A p \in Point : published[p] = {} /\ stage[p] = "none"
  BY DEF Init
<1>10. CreationFits /\ CommittedIsComplete
  BY <1>5, <1>7, <1>9 DEF CreationFits, CommittedIsComplete, MarkedIsComplete
<1>11. PruningsFit /\ MarkerGoesFirst
  BY <1>8 DEF PruningsFit, MarkerGoesFirst
<1>12. \A i \in Import : /\ importing[i].at = "none"
                         /\ importing[i].copies = {} /\ importing[i].moved = {}
  BY DEF InitImport, Fresh
<1>13. LeaseIsHeld /\ ImportsFit
  BY <1>12 DEF LeaseIsHeld, ImportsFit, Leased
<1>14. /\ packages = {}
       /\ \A d \in Download : ~downloading[d].busy /\ downloading[d].listed = {}
       /\ \A e \in Export : exporting[e].at = "none" /\ exportJobs[e] = "none"
       /\ \A w \in Worker : run[w] = "idle"
       /\ \A j \in Job : jobs[j].status = "none"
  BY DEF InitExport, Idle, InitWorker, NoRow
<1>15. ListingsComplete
  BY <1>14 DEF ListingsComplete, PackageWithMarkerIsComplete
<1>16. PointsVerified
  BY <1>12, <1>14 DEF PointsVerified
<1>17. SupersededGoes
  BY <1>7, <1>8, <1>12 DEF SupersededGoes
<1> QED BY <1>1, <1>2, <1>3, <1>4, <1>6, <1>10, <1>11, <1>13, <1>15, <1>16, <1>17 DEF IInv

\* Every step preserves it.
LEMMA InvariantStays ==
    ASSUME IInv, [NextOperations]_opVars
    PROVE  IInv'
<1>1. /\ TypeOK /\ WorkerTypeOK /\ ExportTypeOK /\ ImportTypeOK /\ OrdersFit /\ CreationFits
      /\ PruningsFit /\ PointsVerified /\ MarkerGoesFirst /\ CommittedIsComplete
      /\ ListingsComplete /\ LeaseIsHeld /\ ImportsFit /\ SupersededGoes /\ AlertTold
      /\ SchedulerGoesOn
  BY DEF IInv
<1>2. TypeOK' /\ OrdersFit'
  BY <1>1, TypesKept, OrdersStay
<1>3. WorkerTypeOK' /\ AlertTold' /\ SchedulerGoesOn'
  BY <1>1, WorkerStays
<1>4. ExportTypeOK' /\ ImportTypeOK'
  BY <1>1, ExportTypesKept, ImportTypesKept
<1>5. CreationFits' /\ PruningsFit'
  BY <1>1, CreationFitsStays, PruningsFitStays
<1>6. PointsVerified' /\ LeaseIsHeld' /\ ImportsFit'
  BY <1>1, PointsVerifiedStays, LeaseStaysHeld, ImportsFitStays
<1>7. MarkerGoesFirst' /\ CommittedIsComplete' /\ ListingsComplete'
  BY <1>1, MarkerGoesFirstStays, CommittedStaysComplete, ListingsStayComplete
<1>8. SupersededGoes'
  BY <1>1, <1>2, SupersededGoesStays
<1> QED BY <1>2, <1>3, <1>4, <1>5, <1>6, <1>7, <1>8 DEF IInv

\* The inductive invariant holds throughout every behaviour of what shares the target.
THEOREM InductiveInvariant == SpecOperations => []IInv
<1>1. InitOperations => IInv
  BY InitialInvariant
<1>2. IInv /\ [NextOperations]_opVars => IInv'
  BY InvariantStays
<1> QED BY <1>1, <1>2, PTL DEF SpecOperations

\* The type invariant.
THEOREM TypeCorrect == SpecOperations => []TypeOK
<1>1. IInv => TypeOK
  BY DEF IInv
<1> QED BY <1>1, InductiveInvariant, PTL

\* A point with a commit marker is complete, whatever creations, prunings, downloads and
\* imports do side by side: create of src/backup/service.js writes the marker last, prune
\* deletes it first, and stageFile of src/cli/import-package.js moves it last.
THEOREM MarkersTell == SpecOperations => []CommittedIsComplete
<1>1. IInv => CommittedIsComplete
  BY DEF IInv
<1> QED BY <1>1, InductiveInvariant, PTL

\* Of all points ever committed, prunings leave the newest one of each of the last slots
\* of each tier, however old the lists are that they work from (selectRetention and prune).
THEOREM RetentionHolds == SpecOperations => []RetainedPointsStand
<1>1. ASSUME IInv
      PROVE  RetainedPointsStand
  <2>1. SUFFICES ASSUME NEW tier \in Tier, NEW s \in LastSlots(tier, Committed),
                        NEW p \in Newest({q \in Committed : Slot(tier, q) = s}),
                        Superseded(p)
                 PROVE  FALSE
    BY <1>1 DEF RetainedPointsStand, IInv, SupersededGoes, Newest
  <2>2. /\ p \in Committed /\ Slot(tier, p) = s /\ Committed \subseteq Point
        /\ \A q \in Committed : Slot(tier, q) = s => ~Newer(q, p)
    BY DEF Newest, Committed
  <2> DEFINE slots == {Slot(tier, q) : q \in Committed}
             later == {t \in slots : t > s}
  <2>3. /\ \A q \in Point : created[q].day \in 0 .. LastDay
        /\ \A q \in Point : Slot(tier, q) \in Nat
    <3>1. \A q \in Point : created[q].day \in 0 .. LastDay
      BY <1>1 DEF IInv, TypeOK
    <3> QED BY <3>1, BackupAssumption DEF Slot
  <2>4. NewerSlots(tier, p, Committed) \subseteq later
    <3>1. ASSUME NEW q \in Committed, Newer(q, p)
          PROVE  Slot(tier, q) > s
      <4>1. created[p].day <= created[q].day
        BY <1>1, <2>2, <3>1 DEF IInv, OrdersFit
      <4>2. Slot(tier, p) <= Slot(tier, q)
        BY <2>2, <2>3, <4>1, BackupAssumption DEF Slot
      <4>3. Slot(tier, q) # s
        BY <2>2, <3>1
      <4> QED BY <2>2, <2>3, <4>2, <4>3
    <3> QED BY <3>1 DEF NewerSlots
  <2>5. IsFiniteSet(later)
    <3>1. later \subseteq {SlotOf[tier][d] : d \in 0 .. LastDay}
      BY <2>2, <2>3 DEF Slot
    <3> QED BY <3>1, TierSlotsFinite, FS_Subset
  <2>6. Cardinality(later) < Limit[tier]
    BY DEF LastSlots
  <2>7. /\ IsFiniteSet(NewerSlots(tier, p, Committed))
        /\ Cardinality(NewerSlots(tier, p, Committed)) <= Cardinality(later)
    BY <2>4, <2>5, FS_Subset
  <2>8. Limit[tier] <= Cardinality(NewerSlots(tier, p, Committed))
    BY <2>1, <2>2 DEF Superseded
  <2>9. /\ Cardinality(later) \in Nat /\ Limit[tier] \in Nat
        /\ Cardinality(NewerSlots(tier, p, Committed)) \in Nat
    BY <2>5, <2>7, FS_CardinalityType, BackupAssumption
  <2> QED BY <2>6, <2>7, <2>8, <2>9
<1> QED BY <1>1, InductiveInvariant, PTL

\* A downloaded package with a marker has all the files of its point, although they were
\* listed and read while prunings deleted them (the download route of src/server.js).
THEOREM PackagesComplete == SpecOperations => []PackageWithMarkerIsComplete
<1>1. IInv => PackageWithMarkerIsComplete
  BY DEF IInv, ListingsComplete
<1> QED BY <1>1, InductiveInvariant, PTL

\* The lease of a manifest is its importer's for as long as that works on the destination
\* (stageFile of src/cli/import-package.js).
THEOREM LeasesHold == SpecOperations => []LeaseIsHeld
<1>1. IInv => LeaseIsHeld
  BY DEF IInv
<1> QED BY <1>1, InductiveInvariant, PTL

\* A run that failed last is seen in the health of the jobs (failJob and jobHealth of
\* src/cli/postgres-repository.js).
THEOREM FailuresTold == SpecOperations => []FailureIsTold
<1>1. IInv => FailureIsTold
  BY DEF IInv, AlertTold, FailureIsTold, JobsHealthy
<1> QED BY <1>1, InductiveInvariant, PTL

\* A scheduler that was not stopped always has a run under way or a timer armed
\* (DailyScheduler of src/jobs/backup.js).
THEOREM SchedulersGoOn == SpecOperations => []SchedulerGoesOn
<1>1. IInv => SchedulerGoesOn
  BY DEF IInv
<1> QED BY <1>1, InductiveInvariant, PTL

\* What a step does to an import it takes or leaves whole: nothing is deleted once its
\* marker is out, and nothing is left where it failed (stageFile).
LEMMA ImportStepIsAllOrNothing ==
    ASSUME IInv, [NextOperations]_opVars, NEW i \in Import, importing'[i] # importing[i]
    PROVE  LET p == Destination(i) IN
           /\ Marker \in importing[i].moved => published[p] \subseteq published'[p]
           /\ importing[i].at \in Leased /\ importing'[i].at = "over"
              /\ ~importing'[i].faulty /\ Marker \notin importing[i].moved =>
                  /\ importing[i].moved \intersect published'[p] = {}
                  /\ importing'[i].copies = {}
                  /\ lease'[p] # i
<1>1. ImportMoves(i)
  BY ImportsMove DEF IInv
<1>2. /\ importing[i].at \in {"lease", "list", "put"} => importing[i].moved = {}
      /\ importing[i].at = "verify" => importing[i].moved = {}
      /\ importing[i].at \in {"move", "undo"} => Marker \notin importing[i].moved
      /\ importing[i].at \in Leased /\ ~importing[i].faulty =>
           importing[i].copies \subseteq importing[i].tracked
      /\ importing[i].at = "clean" /\ ~importing[i].faulty /\ Marker \notin importing[i].moved =>
           importing[i].moved \intersect published[Destination(i)] = {}
  BY DEF IInv, ImportsFit
<1>3. Marker \in importing[i].moved =>
        published[Destination(i)] \subseteq published'[Destination(i)]
  BY <1>1, <1>2 DEF ImportMoves
<1>4. i # NoImport
  BY ImportAssumption
<1>5. importing[i].at \in Leased /\ importing'[i].at = "over" /\ ~importing'[i].faulty
        /\ Marker \notin importing[i].moved =>
          /\ importing[i].moved \intersect published'[Destination(i)] = {}
          /\ importing'[i].copies = {}
          /\ lease'[Destination(i)] # i
  <2>1. importing[i].at \in Leased /\ importing'[i].at = "over" /\ ~importing'[i].faulty =>
          /\ importing[i].at = "clean" /\ UNCHANGED published /\ ~importing[i].faulty
          /\ importing'[i].copies = importing[i].copies \ importing[i].tracked
          /\ lease'[Destination(i)] = NoImport
    BY <1>1 DEF ImportMoves, Leased
  <2> QED BY <1>2, <1>4, <2>1
<1> QED BY <1>3, <1>5

\* An import publishes its point as a whole, or takes back what it published.
THEOREM ImportsWhole == SpecOperations => ImportIsAllOrNothing
<1> DEFINE A == \A i \in Import : importing'[i] # importing[i] =>
                  LET p == Destination(i) IN
                  /\ Marker \in importing[i].moved => published[p] \subseteq published'[p]
                  /\ importing[i].at \in Leased /\ importing'[i].at = "over"
                     /\ ~importing'[i].faulty /\ Marker \notin importing[i].moved =>
                         /\ importing[i].moved \intersect published'[p] = {}
                         /\ importing'[i].copies = {}
                         /\ lease'[p] # i
<1>1. ASSUME IInv, [NextOperations]_opVars
      PROVE  A
  BY <1>1, ImportStepIsAllOrNothing
<1>2. IInv /\ [NextOperations]_opVars => [A]_opVars
  BY <1>1
<1>3. ImportIsAllOrNothing <=> [][A]_opVars
  BY DEF ImportIsAllOrNothing
<1> HIDE DEF A
<1> QED BY <1>2, <1>3, InductiveInvariant, PTL DEF SpecOperations

\* A job that has ended stays as it ended, and is verified only with a point that is
\* (finishJob and failJob of src/cli/postgres-repository.js).
THEOREM JobsEndOnce == SpecOperations => JobEndsOnce
<1> DEFINE A == \A j \in Job :
                  /\ jobs[j].status \in {"verified", "failed"} => jobs'[j] = jobs[j]
                  /\ jobs'[j].status = "verified" => stage'[jobs'[j].point] = "verified"
<1>1. ASSUME IInv, [NextOperations]_opVars
      PROVE  A
  <2>1. ASSUME NEW j \in Job
        PROVE  jobs[j].status \in {"verified", "failed"} => jobs'[j] = jobs[j]
    BY <1>1, JobsMove DEF IInv, JobMoves
  <2>2. ASSUME NEW j \in Job, jobs'[j].status = "verified"
        PROVE  stage'[jobs'[j].point] = "verified"
    BY <1>1, <2>2, InvariantStays DEF IInv, PointsVerified, Verified
  <2> QED BY <2>1, <2>2
<1>2. IInv /\ [NextOperations]_opVars => [A]_opVars
  BY <1>1
<1>3. JobEndsOnce <=> [][A]_opVars
  BY DEF JobEndsOnce
<1> HIDE DEF A
<1> QED BY <1>2, <1>3, InductiveInvariant, PTL DEF SpecOperations

-----------------------------------------------------------------------------
(* The abstract target *)

\* Retention of the abstract target is retention of the committed points.
LEMMA PlacesTaken ==
    ASSUME TypeOK, NEW p \in Committed, Superseded(p)
    PROVE  Target!PlaceTaken(p)
<1> DEFINE newer == Target!NewerThan(p)
<1>1. \A q \in Committed : [r \in Committed |-> created[r]][q] = created[q]
  OBVIOUS
<1>2. newer = {q \in Committed : Newer(q, p)}
  BY <1>1 DEF Target!NewerThan, Newer
<1>3. \A tier \in Tier, q \in Committed : Target!SlotOfPoint(tier, q) = Slot(tier, q)
  BY DEF Target!SlotOfPoint, Slot
<1>4. ASSUME NEW tier \in Tier
      PROVE  \/ \E q \in newer : Target!SlotOfPoint(tier, q) = Target!SlotOfPoint(tier, p)
             \/ Limit[tier] <= Cardinality({Target!SlotOfPoint(tier, q) : q \in newer})
  <2> HIDE DEF newer
  <2>1. {Target!SlotOfPoint(tier, q) : q \in newer} = NewerSlots(tier, p, Committed)
    <3>1. {Target!SlotOfPoint(tier, q) : q \in newer} = {Slot(tier, q) : q \in newer}
      BY <1>2, <1>3
    <3> QED BY <1>2, <3>1 DEF NewerSlots
  <2>2. CASE Limit[tier] <= Cardinality(NewerSlots(tier, p, Committed))
    BY <2>1, <2>2
  <2>3. CASE \E q \in Committed : Newer(q, p) /\ Slot(tier, q) = Slot(tier, p)
    <3>1. PICK q \in Committed : Newer(q, p) /\ Slot(tier, q) = Slot(tier, p)
      BY <2>3
    <3>2. q \in newer
      BY <1>2, <3>1
    <3> QED BY <1>3, <3>1, <3>2
  <2> QED BY <2>2, <2>3 DEF Superseded
<1>5. \A S : Target!Cardinality(S) = Cardinality(S)
  BY DEF Target!Cardinality, Cardinality
<1> QED BY <1>4, <1>5 DEF Target!PlaceTaken

\* A step that changes the files of one committed point, or of one that is not
\* committed, adds at most that point to the target, or takes it away.
LEMMA OnePointMoves ==
    ASSUME TypeOK, CreationFits, CreationFits', Committed' = Committed,
           \A q \in Committed : created'[q] = created[q],
           NEW p \in Point, \A q \in Point : q # p => published'[q] = published[q],
           p \in Committed /\ Complete(p) /\ ~Complete(p)' => Superseded(p)
    PROVE  [Target!TargetNext]_(Target!targetVars)
<1> DEFINE moments == [q \in Committed |-> created[q]]
           offered == {q \in Point : Complete(q)}
<1>1. moments' = moments
  OBVIOUS
<1>2. \A q \in Point : q # p => (Complete(q)' <=> Complete(q))
  BY DEF Complete
<1>3. CASE Complete(p)' <=> Complete(p)
  <2>1. offered' = offered
    BY <1>2, <1>3
  <2> QED BY <1>1, <2>1 DEF Target!targetVars
<1>4. CASE Complete(p) /\ ~Complete(p)'
  <2>1. offered' = offered \ {p} /\ p \in offered
    BY <1>2, <1>4
  <2>2. p \in Committed
    BY <1>4, CompleteIsCommitted
  <2>3. Target!PlaceTaken(p)
    BY <1>4, <2>2, PlacesTaken
  <2>4. Target!Withdraw(p)
    BY <1>1, <2>1, <2>3 DEF Target!Withdraw
  <2> QED BY <2>4 DEF Target!TargetNext
<1>5. CASE ~Complete(p) /\ Complete(p)'
  <2>1. offered' = offered \union {p} /\ p \notin offered
    BY <1>2, <1>5
  <2>2. p \in Committed'
    BY <1>5 DEF Complete, CreationFits, File
  <2>3. p \in DOMAIN moments \ offered
    BY <2>1, <2>2
  <2>4. Target!BringBack(p)
    BY <1>1, <2>1, <2>3 DEF Target!BringBack
  <2> QED BY <2>4 DEF Target!TargetNext
<1> QED BY <1>3, <1>4, <1>5

\* A point that is committed has been made.
LEMMA CommitMakes ==
    ASSUME IInv, IInv', [NextOperations]_opVars, NEW p \in Point, Commit(p)
    PROVE  Target!Make(p)
<1> DEFINE moments == [q \in Committed |-> created[q]]
           offered == {q \in Point : Complete(q)}
<1>1. /\ TypeOK /\ OrdersFit /\ CreationFits
      /\ TypeOK' /\ OrdersFit' /\ CreationFits'
  BY DEF IInv
<1>2. /\ stage[p] = "moving" /\ temporary[p] = {}
      /\ stage' = [stage EXCEPT ![p] = "committed"]
      /\ published' = [published EXCEPT ![p] = @ \union {Marker}]
      /\ created' = created
  BY DEF Commit, ReadyToCommit
<1>3. p \notin Committed /\ Committed' = Committed \union {p}
  BY <1>1, <1>2 DEF Committed, TypeOK
<1>4. Complete(p)' /\ ~Complete(p)
  <2>1. Marker \notin published[p] /\ Body \subseteq published[p]
    BY <1>1, <1>2, <1>3 DEF CreationFits
  <2>2. published[p] \subseteq File /\ published'[p] = published[p] \union {Marker}
    BY <1>1, <1>2 DEF TypeOK
  <2> QED BY <2>1, <2>2 DEF Complete, File
<1>5. \A q \in Point : q # p => (Complete(q)' <=> Complete(q))
  BY <1>1, <1>2 DEF Complete, TypeOK
<1>6. offered' = offered \union {p}
  BY <1>4, <1>5
<1>7. /\ p \notin DOMAIN moments
      /\ DOMAIN moments' = DOMAIN moments \union {p}
      /\ \A q \in DOMAIN moments : moments'[q] = created[q] /\ moments[q] = created[q]
      /\ moments'[p] = created[p]
  BY <1>2, <1>3
<1>8. \A q \in Committed : created[q].order # created[p].order
  <2> SUFFICES ASSUME NEW q \in Committed PROVE created[q].order # created[p].order
    OBVIOUS
  <2>1. q \in Point /\ q # p
    BY <1>3 DEF Committed
  <2>2. created[q].order > 0 /\ created[p].order > 0
    BY <1>1, <1>2, <2>1 DEF CreationFits
  <2> QED BY <1>1, <2>1, <2>2 DEF OrdersFit, Ordered
<1>9. created[p] \in [day : 0 .. LastDay, order : Nat]
  BY <1>1 DEF TypeOK
<1> HIDE DEF offered
<1>10. \A q \in DOMAIN moments :
         moments'[q] = moments[q] /\ moments'[q].order # moments'[p].order
  BY <1>7, <1>8
<1>11. moments'[p] \in [day : 0 .. LastDay, order : Nat]
  BY <1>7, <1>9
<1> QED BY <1>6, <1>7, <1>10, <1>11 DEF Target!Make, offered

\* Every step of those who share the target is one of the abstract target, or none.
LEMMA TargetSteps ==
    ASSUME IInv, IInv', [NextOperations]_opVars
    PROVE  [Target!TargetNext]_(Target!targetVars)
<1>1. /\ TypeOK /\ OrdersFit /\ CreationFits /\ PointsVerified /\ SupersededGoes
      /\ TypeOK' /\ CreationFits' /\ ImportTypeOK /\ ImportsFit
  BY DEF IInv
<1>2. CASE \E p \in Point : Commit(p)
  BY <1>2, CommitMakes DEF Target!TargetNext
<1>3. CASE ~ \E p \in Point : Commit(p)
  <2>1. Committed' = Committed
    <3>1. Committed \subseteq Committed' /\ \A p \in Committed' \ Committed : Commit(p)
      BY <1>1, CommittedStays
    <3>2. Committed' \subseteq Point
      BY DEF Committed
    <3> QED BY <1>3, <3>1, <3>2
  <2>2. \A q \in Committed : created'[q] = created[q]
    <3>1. \A q \in Ordered : created'[q] = created[q]
      BY <1>1, OrdersStay
    <3>2. Committed \subseteq Ordered
      BY <1>1 DEF CreationFits, Committed, Ordered
    <3> QED BY <3>1, <3>2
  <2>3. ASSUME NEW p \in Point, NEW files, published' = [published EXCEPT ![p] = files],
               p \in Committed /\ Complete(p) /\ ~Complete(p)' => Superseded(p)
        PROVE  [Target!TargetNext]_(Target!targetVars)
    <3>1. \A q \in Point : q # p => published'[q] = published[q]
      BY <1>1, <2>3 DEF TypeOK
    <3> QED BY <1>1, <2>1, <2>2, <2>3, <3>1, OnePointMoves
  <2>4. CASE UNCHANGED published
    <3>1. [q \in Committed |-> created[q]]' = [q \in Committed |-> created[q]]
      BY <2>1, <2>2
    <3>2. {q \in Point : Complete(q)}' = {q \in Point : Complete(q)}
      BY <2>4 DEF Complete
    <3> QED BY <3>1, <3>2 DEF Target!targetVars
  <2>5. ASSUME NEW p \in Point, Move(p) \/ FailMove(p)
        PROVE  [Target!TargetNext]_(Target!targetVars)
    <3>1. p \notin Committed
      BY <2>5 DEF Move, FailMove, Committed
    <3> QED BY <2>3, <2>5, <3>1 DEF Move, FailMove
  <2>6. ASSUME NEW r \in Pruning, Delete(r)
        PROVE  [Target!TargetNext]_(Target!targetVars)
    <3>1. PICK p \in doomed[r] :
             published' = [published EXCEPT ![p] = published[p] \ {NextKey(r)}]
      BY <2>6 DEF Delete
    <3>2. p \in Point /\ Superseded(p)
      BY <1>1 DEF SupersededGoes, TypeOK
    <3> QED BY <2>3, <3>1, <3>2
  <2>7. ASSUME NEW i \in Import, Publish(i) \/ LoseAnswer(i)
        PROVE  [Target!TargetNext]_(Target!targetVars)
    <3>1. Destination(i) \in Point
      BY <1>1, <2>7 DEF PointsVerified, Verified, Publish, LoseAnswer, Become
    <3>2. importing[i].at = "move"
      BY <2>7 DEF Publish, LoseAnswer
    <3>3. Superseded(Destination(i))
      BY <1>1, <3>2 DEF SupersededGoes
    <3>4. PICK files : published' = [published EXCEPT ![Destination(i)] = files]
      BY <2>7 DEF Publish, LoseAnswer
    <3> QED BY <2>3, <3>1, <3>3, <3>4
  <2>8. ASSUME NEW i \in Import, Undo(i)
        PROVE  [Target!TargetNext]_(Target!targetVars)
    <3>1. importing[i].at = "undo"
      BY <2>8 DEF Undo
    <3>2. Destination(i) \in Point /\ Superseded(Destination(i))
      BY <1>1, <3>1 DEF PointsVerified, Verified, SupersededGoes
    <3>3. PICK files : published' = [published EXCEPT ![Destination(i)] = files]
      BY <2>8 DEF Undo
    <3> QED BY <2>3, <3>2, <3>3
  <2> QED BY <2>4, <2>5, <2>6, <2>7, <2>8, <1>3, PointWriters
<1> QED BY <1>2, <1>3

\* Creations, prunings, downloads and imports implement the abstract target: points
\* appear at once and leave only when retention lets them.
THEOREM TargetImplemented == SpecOperations => ImplementsTarget
<1>1. InitOperations => Target!TargetInit
  <2> SUFFICES ASSUME InitOperations PROVE Target!TargetInit
    OBVIOUS
  <2>1. \A p \in Point : stage[p] = "none" /\ published[p] = {}
    BY DEF InitOperations, Init
  <2>2. Committed = {}
    BY <2>1 DEF Committed
  <2>3. {p \in Point : Complete(p)} = {}
    BY <2>1 DEF Complete, File
  <2>4. [p \in Committed |-> created[p]] = [p \in {} |-> 0]
    BY <2>2
  <2> QED BY <2>3, <2>4 DEF Target!TargetInit
<1>2. IInv /\ IInv' /\ [NextOperations]_opVars => [Target!TargetNext]_(Target!targetVars)
  BY TargetSteps
<1> QED BY <1>1, <1>2, InductiveInvariant, PTL
       DEF SpecOperations, ImplementsTarget, Target!TargetSpec
=============================================================================
