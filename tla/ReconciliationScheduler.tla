---------------------- MODULE ReconciliationScheduler ----------------------
(***************************************************************************)
(* ReconciliationScheduler (reconciliation_scheduler.py) over the audit     *)
(* file of a ServiceRuntime that goes on working: a scheduler is built from *)
(* one read of the file, plans jobs in memory, runs them, and appends each  *)
(* result to a second JSONL file (reconciliation_store.py).  The job store  *)
(* is InMemoryReconciliationJobStore, so jobs are lost with the process.    *)
(*                                                                         *)
(* jobs maps a request id to its job, as the job id `reconcile:<id>` does.  *)
(***************************************************************************)
EXTENDS ServiceRuntime, FiniteSets

CONSTANTS
    MaxSchedulers   \* bound on the schedulers built one after the other

ASSUME SchedulerAssumption == MaxSchedulers \in Nat

VARIABLES
    spc,        \* where the scheduler stands
    snapshot,   \* the audit events it was built from
    jobs,       \* its job store
    current,    \* the job being run
    all,        \* inside run_pending(), not run_job()
    results,    \* the result file
    built       \* how many schedulers there were

scheduler == <<spc, snapshot, jobs, current, all, results, built>>

schedulervars == <<runtime, scheduler>>

ReconciliationStatus == {"pending", "running", "passed", "failed", "skipped"}

Job == [source_event : AuditEvent, status : ReconciliationStatus]

\* `run` stands for checked_at: which scheduler wrote the result.
ReconciliationResult ==
    [request_id : RequestId, status : ReconciliationStatus, backend : {"not_invoked"} \cup Backends,
     run : 0..MaxSchedulers]

NoJobs == [rid \in {} |-> "none"]

SInit ==
    /\ Init
    /\ spc = "closed" /\ snapshot = <<>> /\ jobs = NoJobs /\ current = "none"
    /\ all = FALSE /\ results = EmptyFile /\ built = 0

-----------------------------------------------------------------------------
(* Planning                                                                 *)

\* ReconciliationScheduler(sink.read_events()); a broken line raises instead.
Build ==
    /\ spc = "closed" /\ built < MaxSchedulers
    /\ Readable(audit)
    /\ snapshot' = read(audit)
    /\ spc' = "idle" /\ built' = built + 1
    /\ UNCHANGED <<runtime, jobs, current, all, results>>

\* Mutant: every event makes a job that will be run.
PlanEverything(event) == [source_event |-> event, status |-> "pending"]

\* A job for an allow event; denied and error events make skipped ones.
PlannedJob(event) ==
    [source_event |-> event,
     status |-> IF event.event_type = "allow" THEN "pending" ELSE "skipped"]

RequestIds(events) == {events[i].request_id : i \in DOMAIN events}

\* Mutant: the request ids that have a job are not left out.
PlanAnew == RequestIds(snapshot)

\* existing_ids is read once, before the loop.
Unplanned == RequestIds(snapshot) \ DOMAIN jobs

\* Every event of an unplanned id makes a job with the same job id; the store
\* keeps the last.
LastEvent(rid) ==
    snapshot[CHOOSE i \in DOMAIN snapshot :
        /\ snapshot[i].request_id = rid
        /\ \A j \in DOMAIN snapshot : snapshot[j].request_id = rid => j <= i]

Plan ==
    /\ spc = "idle"
    /\ jobs' = [rid \in DOMAIN jobs \cup Unplanned |->
                   IF rid \in Unplanned THEN PlannedJob(LastEvent(rid)) ELSE jobs[rid]]
    /\ UNCHANGED <<runtime, spc, snapshot, current, all, results, built>>

-----------------------------------------------------------------------------
(* Running jobs                                                             *)

SetStatus(rid, status) == jobs' = [jobs EXCEPT ![rid].status = status]

\* Mutant: run_job() does not look whether the job is completed.
Runnable(rid) == jobs[rid].status \in {"pending", "passed"}

IsPending(rid) == jobs[rid].status = "pending"

\* The first half of run_job: the job is marked running.
StartJob(rid) ==
    /\ IsPending(rid)
    /\ SetStatus(rid, "running") /\ current' = rid /\ spc' = "verify"
    /\ UNCHANGED <<runtime, snapshot, results, built>>

\* run_job(job_id) called by itself; a job that is not pending is left alone.
RunJob ==
    /\ spc = "idle" /\ all' = FALSE
    /\ \E rid \in DOMAIN jobs : StartJob(rid)

RunPending ==
    /\ spc = "idle"
    /\ spc' = "next" /\ all' = TRUE
    /\ UNCHANGED <<runtime, snapshot, jobs, current, results, built>>

NextJob ==
    /\ spc = "next" /\ UNCHANGED all
    /\ \E rid \in DOMAIN jobs : StartJob(rid)

PendingDone ==
    /\ spc = "next"
    /\ \A rid \in DOMAIN jobs : ~ IsPending(rid)
    /\ spc' = "idle"
    /\ UNCHANGED <<runtime, snapshot, jobs, current, all, results, built>>

\* _verify: schema-level, it looks at the source event alone.
Verified(job) == job.source_event.event_type = "allow"

\* Mutant: a verdict that is not a ReconciliationStatus.
UndeclaredVerdict ==
    /\ spc = "verify"
    /\ SetStatus(current, "verified")
    /\ spc' = "save"
    /\ UNCHANGED <<runtime, snapshot, current, all, results, built>>

\* The second half; every planned job is of an allow event, so none fails.
VerifyJob ==
    /\ spc = "verify"
    /\ SetStatus(current, IF Verified(jobs[current]) THEN "passed" ELSE "failed")
    /\ spc' = "save"
    /\ UNCHANGED <<runtime, snapshot, current, all, results, built>>

job_result ==
    [request_id |-> current, status |-> jobs[current].status,
     backend |-> jobs[current].source_event.backend, run |-> built]

AppendResult ==
    /\ spc = "save"
    /\ results' = AppendLine(results, job_result)
    /\ spc' = IF all THEN "next" ELSE "idle"
    /\ UNCHANGED <<runtime, snapshot, jobs, current, all, built>>

\* ReconciliationWriteError escapes run_job and, with it, run_pending.
AppendResultFails ==
    /\ spc = "save"
    /\ results' \in PartialAppends(results, job_result)
    /\ spc' = "idle"
    /\ UNCHANGED <<runtime, snapshot, jobs, current, all, built>>

\* The process of the scheduler ends, in whatever step it is.
Close ==
    /\ spc # "closed"
    /\ spc' = "closed" /\ snapshot' = <<>> /\ jobs' = NoJobs /\ current' = "none"
    /\ all' = FALSE
    /\ UNCHANGED <<runtime, results, built>>

RunStep == NextJob \/ PendingDone \/ VerifyJob \/ AppendResult \/ AppendResultFails

SchedulerStep == Build \/ Plan \/ RunJob \/ RunPending \/ RunStep \/ Close

SNext == SchedulerStep \/ (Next /\ UNCHANGED scheduler)

SSpec == SInit /\ [][SNext]_schedulervars

\* The runtime's threads run on and their timers fire, whatever the scheduler does;
\* nothing is asked of a child process.
SFairSpec ==
    /\ SSpec
    /\ \A c \in Call : WF_schedulervars(Proceed(c) /\ UNCHANGED scheduler)

-----------------------------------------------------------------------------
(* Properties                                                               *)

\* Every variable of the runtime and the scheduler has its type, and so have the
\* lines of both files.
SchedulerTypeOK ==
    /\ RuntimeTypeOK
    /\ spc \in {"closed", "idle", "next", "verify", "save"}
    /\ snapshot \in Seq(AuditEvent)
    /\ DOMAIN jobs \subseteq RequestId /\ \A rid \in DOMAIN jobs : jobs[rid] \in Job
    /\ current \in RequestId \cup {"none"} /\ all \in BOOLEAN
    /\ results \in FileType(ReconciliationResult)
    /\ built \in 0..MaxSchedulers

\* A result "passed" in the file tells of a request that some call executed: the
\* boundary let it through, and when it was a write by the Rust backend the file was
\* written (reconciliation_scheduler.py:166, execution_backend.py:107).
PassedWasExecuted ==
    \A r \in Records(results) :
        r.status = "passed" =>
            \E c \in Call :
                /\ req[c] # NoRequest /\ req[c].request_id = r.request_id
                /\ answer[c] = [type |-> "allow", backend |-> r.backend]
                /\ r.backend = "rust_chokepoint" /\ IsWrite(c) => effect[c] = "written"

\* One scheduler writes at most one result per request id, however often plan(),
\* run_pending() and run_job() are called and appends fail (the guards at
\* reconciliation_scheduler.py:92 and :154).
OneResultPerRun ==
    \A i, j \in Entries(results) :
        LET r == Lines(results)[i][1]
            s == Lines(results)[j][1]
        IN  r.request_id = s.request_id /\ r.run = s.run => i = j

\* ADR-023: while its scheduler lives, a job goes pending, running, passed or failed,
\* and a job that ended or was skipped stays as it is, however often plan() is called.
StatusesOnlyAdvance ==
    [][spc' # "closed" => \A rid \in DOMAIN jobs :
          /\ rid \in DOMAIN jobs'
          /\ <<jobs[rid].status, jobs'[rid].status>> \in
                {<<"pending", "running">>, <<"running", "passed">>, <<"running", "failed">>}
             \/ jobs'[rid] = jobs[rid]]_schedulervars

-----------------------------------------------------------------------------
(* What documents say of the scheduler, and it does not do                  *)

\* ADR-027: every result is saved in the file; so a job that has passed and is not
\* being saved any more has a result of this scheduler there.  (After a failed
\* append the job counts as completed all the same.)
ResultsArePersisted ==
    \A rid \in DOMAIN jobs :
        jobs[rid].status = "passed" /\ spc # "save" =>
            \E r \in Records(results) : r.request_id = rid /\ r.run = built

=============================================================================
