----------------------------- MODULE SpaceExport -----------------------------
(***************************************************************************)
(* Exports of a space: the routes of src/routes/operations.js over the     *)
(* jobs of src/cli/postgres-repository.js.  An export is a point like any  *)
(* other, on the same target (src/cli/index.js), with what ExportSource of *)
(* src/backup/export.js leaves of a snapshot; a download hands out the     *)
(* files of the point as a package (src/server.js).                        *)
(***************************************************************************)
EXTENDS BackupPoints

CONSTANTS
    Export,          \* requests for an export, each with a job of its own
    Download         \* downloads under way

VARIABLES
    exporting,       \* how far a request has come, and the point it creates
    exportJobs,      \* export_jobs: the state of each request's job
    downloading,     \* of which point, the files that were listed and those not yet read
    packages         \* the packages downloaded

exportVars == <<exporting, exportJobs, downloading, packages>>

Idle == [point |-> NoPoint, listed |-> {}, unread |-> {}, busy |-> FALSE]

InitExport ==
    /\ exporting = [e \in Export |-> [at |-> "none", point |-> NoPoint]]
    /\ exportJobs = [e \in Export |-> "none"]
    /\ downloading = [d \in Download |-> Idle]
    /\ packages = {}

-----------------------------------------------------------------------------

\* The job is saved as running, and an answer from the database awaited; without it
\* the request is over.
SaveJob(e) ==
    /\ exporting[e].at = "none"
    /\ \E at \in {"create", "over"} : exporting' = [exporting EXCEPT ![e].at = at]
    /\ exportJobs' = [exportJobs EXCEPT ![e] = "running"]
    /\ UNCHANGED <<vars, downloading, packages>>

CreateExport(e) ==
    /\ exporting[e].at = "create"
    /\ \E p \in Point :
        /\ Begin(p)
        /\ exporting' = [exporting EXCEPT ![e] = [at |-> "creating", point |-> p]]
    /\ UNCHANGED <<exportJobs, downloading, packages>>

\* What became of the point, once create returned or threw.
StateOfExport(p) == IF stage[p] = "verified" THEN "verified" ELSE "failed"

\* The job is saved again.  Should that fail the job remains running for good.
SaveOutcome(e) ==
    LET p == exporting[e].point IN
    /\ exporting[e].at = "creating"
    /\ stage[p] \notin UnderWay
    /\ exporting' = [exporting EXCEPT ![e].at = "over"]
    /\ \/ exportJobs' = [exportJobs EXCEPT ![e] = StateOfExport(p)]
       \/ UNCHANGED exportJobs
    /\ UNCHANGED <<vars, downloading, packages>>

\* The files of a verified export are listed,
ListPackage(d) ==
    /\ ~downloading[d].busy
    /\ \E e \in Export :
        /\ exportJobs[e] = "verified"
        /\ LET p == exporting[e].point IN
           downloading' = [downloading EXCEPT ![d] =
               [point |-> p, listed |-> published[p], unread |-> published[p], busy |-> TRUE]]
    /\ UNCHANGED <<vars, exporting, exportJobs, packages>>

\* read side by side,
ReadFile(d) ==
    /\ \E f \in downloading[d].unread :
        /\ f \in published[downloading[d].point]
        /\ downloading' = [downloading EXCEPT ![d].unread = @ \ {f}]
    /\ UNCHANGED <<vars, exporting, exportJobs, packages>>

\* and handed out: whatever was listed, should that be nothing.
HandOut(d) ==
    /\ downloading[d].busy
    /\ downloading[d].unread = {}
    /\ packages' = packages \union
           {[point |-> downloading[d].point, files |-> downloading[d].listed]}
    /\ downloading' = [downloading EXCEPT ![d] = Idle]
    /\ UNCHANGED <<vars, exporting, exportJobs>>

\* A file is gone, or a call fails.
DownloadFails(d) ==
    /\ downloading[d].unread # {}
    /\ downloading' = [downloading EXCEPT ![d] = Idle]
    /\ UNCHANGED <<vars, exporting, exportJobs, packages>>

NextExport ==
    \/ \E e \in Export : SaveJob(e) \/ CreateExport(e) \/ SaveOutcome(e)
    \/ \E d \in Download : ListPackage(d) \/ ReadFile(d) \/ HandOut(d) \/ DownloadFails(d)

=============================================================================
