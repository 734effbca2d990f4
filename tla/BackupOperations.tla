-------------------------- MODULE BackupOperations --------------------------
(***************************************************************************)
(* What shares a backup target (composeOperationalServices of              *)
(* src/cli/index.js): the points of BackupPoints, those of the worker and  *)
(* of exports among them, the downloads and imports of packages, and the   *)
(* prunings of the worker and of operators.                                *)
(***************************************************************************)
EXTENDS BackupWorker, PackageImport

opVars == <<vars, workerVars, exportVars, importVars>>

InitOperations == Init /\ InitWorker /\ InitExport /\ InitImport

\* The points under way, whoever asked for them, and those of restores, first
\* synchronisations and commands; the prunings of commands.
NextPoints ==
    \/ NextDay
    \/ \E p \in Point :
        \/ Begin(p) \/ PutSnapshot(p) \/ PutManifest(p) \/ VerifyTemporary(p)
        \/ Move(p) \/ Commit(p) \/ VerifyPublished(p)
        \/ Fail(p) \/ FailMove(p)
    \/ \E r \in Pruning : ListFiles(r) \/ Delete(r)
    \/ \E r \in Pruning \ Worker : List(r) \/ StopPruning(r)

NextOperations ==
    \/ NextPoints /\ UNCHANGED <<workerVars, exportVars, importVars>>
    \/ NextWorker /\ UNCHANGED <<exportVars, importVars>>
    \/ NextExport /\ UNCHANGED <<workerVars, importVars>>
    \/ NextImport /\ UNCHANGED workerVars

SpecOperations == InitOperations /\ [][NextOperations]_opVars

-----------------------------------------------------------------------------
(* Properties *)

\* A point with a commit marker is complete, wherever its creation, its import or a
\* pruning failed or stopped, and while they run side by side.  Two cases are left out:
\* an import whose put of the marker was carried out but not answered, and one that
\* publishes a point while a pruning still goes on deleting it.
CommittedIsComplete == \A p \in Point \ disturbed : MarkedIsComplete(p)

\* A package with a marker has all the files of its point, although files are listed
\* and read while prunings delete them.
PackageWithMarkerIsComplete ==
    \A pack \in packages :
        Marker \in pack.files => pack.files = File \/ pack.point \in disturbed

\* The lease of a manifest is on the target, and its importer's own, for as long as it
\* works on the destination: no two imports publish, or undo, the same point.
LeaseIsHeld ==
    \A i \in Import : importing[i].at \in Leased => lease[Destination(i)] = i

\* An import deletes nothing once its marker is out.  One that fails before leaves none
\* of its files at the destination, no copies and no lease, unless it was stopped or a
\* call misled it.
ImportIsAllOrNothing ==
    [][\A i \in Import : importing'[i] # importing[i] =>
        LET p == Destination(i) IN
        /\ Marker \in importing[i].moved => published[p] \subseteq published'[p]
        /\ importing[i].at \in Leased /\ importing'[i].at = "over"
           /\ ~importing'[i].faulty /\ Marker \notin importing[i].moved =>
               /\ importing[i].moved \intersect published'[p] = {}
               /\ importing'[i].copies = {}
               /\ lease'[p] # i]_opVars

\* As long as the last thing the database was told of a run is that it failed, the
\* health of the jobs is not ok, whatever runs were queued, lost or killed since.
FailureIsTold == told = "failed" => ~JobsHealthy

\* A job ends once: what its row says then it says for good, though the transaction that
\* finished it lost its answer; and it is verified only with a point that is.
JobEndsOnce ==
    [][\A j \in Job :
        /\ jobs[j].status \in {"verified", "failed"} => jobs'[j] = jobs[j]
        /\ jobs'[j].status = "verified" => stage'[jobs'[j].point] = "verified"]_opVars

\* A worker that was not told to stop is running or will run again.
SchedulerGoesOn ==
    \A w \in Worker : process[w] = "up" => run[w] # "idle" \/ timer[w]

\* For those who look for a point, all of this is a set of whole points that appear at
\* once, and leave only when retention lets them: create, prune and stageFile, with their
\* failures, implement it.
Target == INSTANCE RecoveryTarget
    WITH made <- [p \in Committed |-> created[p]],
         offered <- {p \in Point : Complete(p)}

ImplementsTarget == Target!TargetSpec

=============================================================================
