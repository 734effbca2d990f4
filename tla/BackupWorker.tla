---------------------------- MODULE BackupWorker ----------------------------
(***************************************************************************)
(* The backup worker: the process of src/worker.js, DailyScheduler and     *)
(* BackupJob of src/jobs/backup.js, and the rows they keep of each run in  *)
(* backup_jobs and operational_alerts (src/cli/postgres-repository.js).    *)
(*                                                                         *)
(* A run queues its job, starts it, creates a server-wide point, prunes and*)
(* finishes the job; whatever throws on the way fails the job.  Each call  *)
(* of the database is one transaction; it may fail, or commit and lose its *)
(* answer.  The actions of create and prune are those of BackupPoints.     *)
(***************************************************************************)
EXTENDS BackupPoints

CONSTANTS
    Worker,          \* worker processes; each prunes for itself
    Job,             \* ids of backup_jobs, in the order of their creation,
    NoJob            \* and none of them

ASSUME WorkerAssumption ==
    /\ Worker \subseteq Pruning
    /\ Job \subseteq Nat
    /\ NoJob \notin Job

VARIABLES
    process,         \* down, up, or stopping: the signal came, the run goes on
    timer,           \* is the timer of the next run or retry armed
    run,             \* how far the current run has come
    jobId, making,   \* its job, and the point it creates
    jobs,            \* backup_jobs
    alert,           \* is there an unresolved alert scheduled_backup_failed
    told             \* what the last transaction that ended a run said of it

workerVars == <<process, timer, run, jobId, making, jobs, alert, told>>

Run == {"idle", "queue", "start", "create", "creating", "list", "pruning", "finish", "fail"}

NoRow == [status |-> "none", point |-> NoPoint]

InitWorker ==
    /\ process = [w \in Worker |-> "down"]
    /\ timer = [w \in Worker |-> FALSE]
    /\ run = [w \in Worker |-> "idle"]
    /\ jobId = [w \in Worker |-> NoJob]
    /\ making = [w \in Worker |-> NoPoint]
    /\ jobs = [j \in Job |-> NoRow]
    /\ alert = FALSE
    /\ told = "nothing"

-----------------------------------------------------------------------------
(* The process and its scheduler *)

GoOn(w, from, to) == run[w] = from /\ run' = [run EXCEPT ![w] = to]

\* The first run starts at once.
StartWorker(w) ==
    /\ process[w] = "down"
    /\ process' = [process EXCEPT ![w] = "up"]
    /\ GoOn(w, "idle", "queue")
    /\ UNCHANGED <<vars, timer, jobId, making, jobs, alert, told>>

\* The timer starts a run, unless one is under way or the scheduler is stopped.
TimerFires(w) ==
    /\ timer[w]
    /\ timer' = [timer EXCEPT ![w] = FALSE]
    /\ process[w] = "up"
    /\ GoOn(w, "idle", "queue")
    /\ UNCHANGED <<vars, process, jobId, making, jobs, alert, told>>

\* Mutant: only a run that succeeded arms the timer.
ArmedWhenVerified(w, verified) == process[w] = "up" /\ verified

\* Whether a run that ends arms the timer, for the next day or for a retry.
Armed(w, verified) == process[w] = "up"

LeaveRun(w) ==
    /\ run' = [run EXCEPT ![w] = "idle"]
    /\ jobId' = [jobId EXCEPT ![w] = NoJob]
    /\ making' = [making EXCEPT ![w] = NoPoint]

EndRun(w, verified) ==
    /\ LeaveRun(w)
    /\ timer' = [timer EXCEPT ![w] = Armed(w, verified)]

\* A signal: no run starts any more.
StopScheduler(w) ==
    /\ process[w] = "up"
    /\ process' = [process EXCEPT ![w] = "stopping"]
    /\ timer' = [timer EXCEPT ![w] = FALSE]
    /\ UNCHANGED <<vars, run, jobId, making, jobs, alert, told>>

\* Once the current run has ended the pool is closed, and the process is over.
ClosePool(w) ==
    /\ process[w] = "stopping"
    /\ run[w] = "idle"
    /\ process' = [process EXCEPT ![w] = "down"]
    /\ UNCHANGED <<vars, timer, run, jobId, making, jobs, alert, told>>

\* The process is killed: its point stays where it is, and so does its job.
KillWorker(w) ==
    /\ process[w] # "down"
    /\ process' = [process EXCEPT ![w] = "down"]
    /\ timer' = [timer EXCEPT ![w] = FALSE]
    /\ LeaveRun(w)
    /\ stage' = [p \in Point |-> IF p = making[w] THEN AfterFailure(p) ELSE stage[p]]
    /\ doomed' = [doomed EXCEPT ![w] = {}]
    /\ keys' = [keys EXCEPT ![w] = {}]
    /\ UNCHANGED <<today, scope, created, temporary, published, jobs, alert, told>>

-----------------------------------------------------------------------------
(* The run of a job *)

Unused == {j \in Job : jobs[j].status = "none"}

\* The next row, while there are any left.
NewJob(j) == j \in Unused /\ \A k \in Unused : j <= k

QueueJob(w) ==
    /\ \E j \in Job :
        /\ NewJob(j)
        /\ jobs' = [jobs EXCEPT ![j].status = "queued"]
        /\ \/ GoOn(w, "queue", "start") /\ jobId' = [jobId EXCEPT ![w] = j]
           \/ GoOn(w, "queue", "fail") /\ UNCHANGED jobId
    /\ UNCHANGED <<vars, process, timer, making, alert, told>>

StartJob(w) ==
    /\ GoOn(w, "start", "create") \/ GoOn(w, "start", "fail")
    /\ LET j == jobId[w] IN
       jobs' = [jobs EXCEPT ![j].status = IF @ = "queued" THEN "running" ELSE @]
    /\ UNCHANGED <<vars, process, timer, jobId, making, alert, told>>

CreatePoint(w) ==
    /\ GoOn(w, "create", "creating")
    /\ \E p \in Point :
        /\ Begin(p)
        /\ scope'[p] = ServerScope
        /\ making' = [making EXCEPT ![w] = p]
    /\ UNCHANGED <<process, timer, jobId, jobs, alert, told>>

PointReturned(w) ==
    /\ making[w] # NoPoint
    /\ \/ stage[making[w]] = "verified" /\ GoOn(w, "creating", "list")
       \/ stage[making[w]] \in {"failed", "unreturned"} /\ GoOn(w, "creating", "fail")
    /\ UNCHANGED <<vars, process, timer, jobId, making, jobs, alert, told>>

PruneList(w) ==
    /\ GoOn(w, "list", "pruning")
    /\ List(w)
    /\ UNCHANGED <<process, timer, jobId, making, jobs, alert, told>>

Pruned(w) ==
    /\ doomed[w] = {}
    /\ GoOn(w, "pruning", "finish")
    /\ UNCHANGED <<vars, process, timer, jobId, making, jobs, alert, told>>

PruneFails(w) ==
    /\ GoOn(w, "pruning", "fail")
    /\ StopPruning(w)
    /\ UNCHANGED <<process, timer, jobId, making, jobs, alert, told>>

\* A call of the database that did nothing, or a listing, fails.
CallFails(w) ==
    /\ \E from \in {"queue", "start", "list", "finish"} : GoOn(w, from, "fail")
    /\ UNCHANGED <<vars, process, timer, jobId, making, jobs, alert, told>>

\* A job that is finished resolves the alert.
FinishJob(w) ==
    /\ \/ run[w] = "finish" /\ EndRun(w, TRUE)
       \/ GoOn(w, "finish", "fail") /\ UNCHANGED <<timer, jobId, making>>
    /\ jobs' = [jobs EXCEPT ![jobId[w]] =
                   IF @.status = "running"
                   THEN [status |-> "verified", point |-> making[w]] ELSE @]
    /\ alert' = FALSE
    /\ told' = "verified"
    /\ UNCHANGED <<vars, process>>

\* Mutant: a job is failed whatever its row says.
AnyStatus == {"queued", "running", "verified"}

\* The rows a failed run may write to.
NotEnded == {"queued", "running"}

\* Mutant: an alert needs a job.
AlertOfJob(w) == alert \/ jobId[w] # NoJob

AlertRaised(w) == TRUE

\* The job, when its id is known, and the alert in one transaction; its answer does
\* not matter, since the run throws in any case.
FailJob(w) ==
    /\ run[w] = "fail"
    /\ jobs' = [j \in Job |-> IF j = jobId[w] /\ jobs[j].status \in NotEnded
                              THEN [jobs[j] EXCEPT !.status = "failed"] ELSE jobs[j]]
    /\ alert' = AlertRaised(w)
    /\ told' = "failed"
    /\ EndRun(w, FALSE)
    /\ UNCHANGED <<vars, process>>

\* Nor does it matter that it did nothing.
FailUnrecorded(w) ==
    /\ run[w] = "fail"
    /\ EndRun(w, FALSE)
    /\ UNCHANGED <<vars, process, jobs, alert, told>>

NextWorker ==
    \E w \in Worker :
        \/ StartWorker(w) \/ TimerFires(w) \/ StopScheduler(w) \/ ClosePool(w) \/ KillWorker(w)
        \/ QueueJob(w) \/ StartJob(w) \/ CreatePoint(w) \/ PointReturned(w) \/ PruneList(w)
        \/ Pruned(w) \/ PruneFails(w) \/ CallFails(w) \/ FinishJob(w) \/ FailJob(w)
        \/ FailUnrecorded(w)

-----------------------------------------------------------------------------
(* Health, as readiness and the command backup health report it.  Ages are left out:  *)
(* they only ever make it worse.                                                       *)

Recorded == {j \in Job : jobs[j].status # "none"}

LatestFailed ==
    \E j \in Recorded : (\A k \in Recorded : k <= j) /\ jobs[j].status = "failed"

JobsHealthy == Recorded # {} /\ ~LatestFailed /\ ~alert

=============================================================================
