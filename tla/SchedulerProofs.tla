--------------------------- MODULE SchedulerProofs ---------------------------
(***************************************************************************)
(* Theorems about ReconciliationScheduler beside a running ServiceRuntime,  *)
(* and about the Dashboard over both, for every set of calls and requests,  *)
(* shared request ids or not, and any number of schedulers one after the    *)
(* other.                                                                   *)
(***************************************************************************)
EXTENDS Dashboard, ServiceRuntimeProofs, WellFoundedInduction, FiniteSetTheorems

-----------------------------------------------------------------------------
(* The runtime under a scheduler                                            *)

\* A scheduler writes nothing the runtime reads.
LEMMA RuntimeUnder ==
    ASSUME [SNext]_schedulervars
    PROVE  [Next]_runtime
<1>1. CASE SchedulerStep
    BY <1>1 DEF SchedulerStep, Build, Plan, RunJob, RunPending, RunStep, NextJob, StartJob,
       PendingDone, VerifyJob, AppendResult, AppendResultFails, Close
<1>2. QED
    BY <1>1 DEF SNext, schedulervars

LEMMA RuntimeAlone == SSpec => Spec
<1>1. SInit => Init
    BY DEF SInit
<1>2. [SNext]_schedulervars => [Next]_runtime
    BY RuntimeUnder
<1>3. QED
    BY <1>1, <1>2, PTL DEF SSpec, Spec

\* So all that was proved of the runtime holds here.
RuntimeFacts == RuntimeInv /\ AuditTells /\ \A c \in Call : WorkInv(c)

LEMMA RuntimeFactsHold == SSpec => []RuntimeFacts
BY RuntimeAlone, RuntimeInvHolds, TellsHolds, WorkHolds, PTL DEF RuntimeFacts

\* A step is one of the scheduler's, or leaves its state alone.
LEMMA SchedulerRests ==
    ASSUME [SNext]_schedulervars, ~ SchedulerStep
    PROVE  UNCHANGED <<spc, snapshot, jobs, current, all, results, built>>
BY DEF SNext, schedulervars, scheduler

-----------------------------------------------------------------------------
(* The last event of a request                                              *)

\* A set of numbers up to n that is not empty has a largest one: its least bound.
LEMMA HasLargest ==
    ASSUME NEW n \in Nat, NEW S \in SUBSET (1..n), S # {}
    PROVE  \E i \in S : \A j \in S : j <= i
<1> DEFINE Bounds == {m \in Nat : \A j \in S : j <= m}
<1>1. Bounds \subseteq Nat /\ n \in Bounds
    OBVIOUS
<1>2. PICK m \in Bounds : \A k \in Bounds : ~ (<<k, m>> \in OpToRel(<, Nat))
    BY <1>1, WFMin, NatLessThanWellFounded
<1>3. \A k \in Bounds : ~ (k < m)
    BY <1>1, <1>2 DEF OpToRel
<1>4. PICK s \in S : s \in Nat /\ s >= 1 /\ s <= m
    <2>1. PICK s : s \in S
        OBVIOUS
    <2>2. s \in 1..n /\ s <= m
        BY <2>1
    <2>3. QED BY <2>1, <2>2
<1>5. m - 1 \in Nat /\ m \in Nat /\ m - 1 < m
    BY <1>4
<1>6. m - 1 \notin Bounds
    BY <1>3, <1>5
<1>7. PICK i \in S : ~ (i <= m - 1)
    BY <1>5, <1>6
<1>8. i = m
    BY <1>5, <1>7
<1>9. QED
    BY <1>7, <1>8

LEMMA LastEventIs ==
    ASSUME snapshot \in Seq(AuditEvent), NEW rid \in RequestIds(snapshot)
    PROVE  \E i \in DOMAIN snapshot : LastEvent(rid) = snapshot[i] /\ snapshot[i].request_id = rid
<1> DEFINE S == {i \in DOMAIN snapshot : snapshot[i].request_id = rid}
<1>1. Len(snapshot) \in Nat /\ S \in SUBSET (1..Len(snapshot))
    OBVIOUS
<1>2. S # {}
    BY DEF RequestIds
<1>3. PICK i \in S : \A j \in S : j <= i
    BY <1>1, <1>2, HasLargest
<1>4. /\ i \in DOMAIN snapshot /\ snapshot[i].request_id = rid
      /\ \A j \in DOMAIN snapshot : snapshot[j].request_id = rid => j <= i
    BY <1>3
<1>5. QED
    BY <1>4 DEF LastEvent

-----------------------------------------------------------------------------
(* Types                                                                    *)

SchedulerTypes ==
    /\ spc \in {"closed", "idle", "next", "verify", "save"}
    /\ snapshot \in Seq(AuditEvent)
    /\ DOMAIN jobs \subseteq RequestId /\ \A rid \in DOMAIN jobs : jobs[rid] \in Job
    /\ current \in RequestId \cup {"none"} /\ all \in BOOLEAN
    /\ results \in FileType(ReconciliationResult)
    /\ built \in 0..MaxSchedulers

\* The job being run is in the store, marked as far as its run has come.
CurrentJob ==
    /\ spc = "verify" => current \in DOMAIN jobs /\ jobs[current].status = "running"
    /\ spc = "save" => current \in DOMAIN jobs /\ jobs[current].status \in {"passed", "failed"}
    /\ spc = "closed" => jobs = NoJobs /\ snapshot = <<>>

SchedulerInv == SchedulerTypes /\ CurrentJob

\* One job changes its status, and keeps its event.
LEMMA OneJob ==
    ASSUME SchedulerTypes, NEW rid \in DOMAIN jobs, NEW status \in ReconciliationStatus,
           SetStatus(rid, status)
    PROVE  /\ DOMAIN jobs' = DOMAIN jobs
           /\ \A r \in DOMAIN jobs :
                  /\ jobs'[r] \in Job /\ jobs'[r].source_event = jobs[r].source_event
                  /\ jobs'[r].status = IF r = rid THEN status ELSE jobs[r].status
                  /\ r # rid => jobs'[r] = jobs[r]
<1>1. jobs' = [jobs EXCEPT ![rid] = [jobs[rid] EXCEPT !.status = status]]
    BY DEF SetStatus
<1>2. DOMAIN jobs' = DOMAIN jobs
    BY <1>1
<1>3. [jobs[rid] EXCEPT !.status = status] \in Job
      /\ [jobs[rid] EXCEPT !.status = status].source_event = jobs[rid].source_event
      /\ [jobs[rid] EXCEPT !.status = status].status = status
    BY DEF SchedulerTypes, Job
<1>4. \A r \in DOMAIN jobs :
          jobs'[r] = IF r = rid THEN [jobs[rid] EXCEPT !.status = status] ELSE jobs[r]
    BY <1>1
<1>5. QED
    BY <1>2, <1>3, <1>4 DEF SchedulerTypes

\* Planning keeps the jobs there are.
LEMMA PlannedJobs ==
    ASSUME SchedulerTypes, Plan
    PROVE  /\ DOMAIN jobs' = DOMAIN jobs \cup RequestIds(snapshot)
           /\ \A rid \in DOMAIN jobs : jobs'[rid] = jobs[rid]
           /\ \A rid \in DOMAIN jobs' \ DOMAIN jobs : \E i \in DOMAIN snapshot :
                  jobs'[rid] = PlannedJob(snapshot[i]) /\ snapshot[i].request_id = rid
<1>1. jobs' = [rid \in DOMAIN jobs \cup Unplanned |->
                  IF rid \in Unplanned THEN PlannedJob(LastEvent(rid)) ELSE jobs[rid]]
    BY DEF Plan
<1>2. Unplanned = RequestIds(snapshot) \ DOMAIN jobs
    BY DEF Unplanned
<1>3. DOMAIN jobs' = DOMAIN jobs \cup RequestIds(snapshot)
    BY <1>1, <1>2
<1>4. \A rid \in DOMAIN jobs : jobs'[rid] = jobs[rid]
    BY <1>1, <1>2
<1>5. ASSUME NEW rid \in DOMAIN jobs' \ DOMAIN jobs
      PROVE  \E i \in DOMAIN snapshot :
                 jobs'[rid] = PlannedJob(snapshot[i]) /\ snapshot[i].request_id = rid
    <2>1. rid \in RequestIds(snapshot) /\ jobs'[rid] = PlannedJob(LastEvent(rid))
        BY <1>1, <1>2, <1>3
    <2>2. QED
        BY <2>1, LastEventIs DEF SchedulerTypes
<1>6. QED
    BY <1>3, <1>4, <1>5

LEMMA PlannedType ==
    ASSUME NEW event \in AuditEvent
    PROVE  /\ PlannedJob(event) \in Job /\ PlannedJob(event).source_event = event
           /\ PlannedJob(event).status \in {"pending", "skipped"}
           /\ PlannedJob(event).status = "pending" => event.event_type = "allow"
BY DEF PlannedJob, Job, ReconciliationStatus

\* Reading a readable file gives its records in order.
LEMMA ReadGives ==
    ASSUME NEW Record, NEW f \in FileType(Record), Readable(f)
    PROVE  /\ read(f) \in Seq(Record)
           /\ \A i \in DOMAIN read(f) : read(f)[i] \in Records(f)
<1>1. \A i \in DOMAIN Lines(f) : i \in Entries(f) /\ Lines(f)[i][1] \in Records(f)
    BY DEF Readable, Entries, Records
<1>2. \E n \in Nat : DOMAIN Lines(f) = 1..n
    <2>1. CASE f.open = <<>>
        BY <2>1, LinesOf
    <2>2. CASE f.open # <<>>
        BY <2>2, LinesOf
    <2>3. QED BY <2>1, <2>2
<1>3. PICK n \in Nat : DOMAIN Lines(f) = 1..n
    BY <1>2
<1>4. read(f) = [i \in 1..n |-> Lines(f)[i][1]]
    BY <1>3 DEF read
<1>5. \A i \in 1..n : Lines(f)[i][1] \in Record
    BY <1>1, <1>3, RecordsTyped
<1>6. QED
    BY <1>1, <1>3, <1>4, <1>5

LEMMA ResultTypes ==
    ASSUME SchedulerInv, spc = "save"
    PROVE  /\ job_result \in ReconciliationResult
           /\ job_result.request_id = current /\ job_result.run = built
           /\ job_result.status = jobs[current].status
           /\ job_result.backend = jobs[current].source_event.backend
<1>1. current \in DOMAIN jobs /\ jobs[current] \in Job /\ current \in RequestId /\ built \in 0..MaxSchedulers
    BY DEF SchedulerInv, SchedulerTypes, CurrentJob
<1>2. jobs[current].source_event.backend \in {"not_invoked"} \cup Backends
      /\ jobs[current].status \in ReconciliationStatus
    BY <1>1 DEF Job, AuditEvent
<1>3. QED
    BY <1>1, <1>2 DEF job_result, ReconciliationResult

LEMMA SchedulerStepTypes ==
    ASSUME RuntimeTypeOK, SchedulerInv, [SNext]_schedulervars
    PROVE  SchedulerInv'
<1>0. SchedulerTypes /\ CurrentJob
    BY DEF SchedulerInv
<1>1. CASE ~ SchedulerStep
    BY <1>0, <1>1, SchedulerRests DEF SchedulerInv, SchedulerTypes, CurrentJob, NoJobs
<1>2. CASE Build
    <2>1. snapshot' \in Seq(AuditEvent)
        BY <1>2, ReadGives DEF Build, RuntimeTypeOK
    <2>2. built' \in 0..MaxSchedulers
        BY <1>0, <1>2, SchedulerAssumption DEF Build, SchedulerTypes
    <2>3. QED
        BY <1>0, <1>2, <2>1, <2>2 DEF Build, SchedulerInv, SchedulerTypes, CurrentJob
<1>3. CASE Plan
    <2>1. \A i \in DOMAIN snapshot : snapshot[i] \in AuditEvent /\ snapshot[i].request_id \in RequestId
        <3>1. \A i \in DOMAIN snapshot : snapshot[i] \in AuditEvent
            BY <1>0 DEF SchedulerTypes
        <3>2. \A e \in AuditEvent : e.request_id \in RequestId
            BY DEF AuditEvent
        <3>3. QED BY <3>1, <3>2
    <2>2. DOMAIN jobs' \subseteq RequestId
        BY <1>0, <1>3, <2>1, PlannedJobs DEF RequestIds, SchedulerTypes
    <2>3. \A rid \in DOMAIN jobs' : jobs'[rid] \in Job
        <3>1. ASSUME NEW rid \in DOMAIN jobs' PROVE jobs'[rid] \in Job
            <4>1. CASE rid \in DOMAIN jobs
                BY <1>0, <1>3, <4>1, PlannedJobs DEF SchedulerTypes
            <4>2. CASE rid \notin DOMAIN jobs
                BY <1>0, <1>3, <2>1, <4>2, PlannedJobs, PlannedType
            <4>3. QED BY <4>1, <4>2
        <3>2. QED BY <3>1
    <2>4. QED
        BY <1>0, <1>3, <2>2, <2>3 DEF Plan, SchedulerInv, SchedulerTypes, CurrentJob
<1>4. ASSUME NEW rid \in DOMAIN jobs, StartJob(rid), UNCHANGED all \/ all' = FALSE
      PROVE  SchedulerInv'
    <2>1. "running" \in ReconciliationStatus
        BY DEF ReconciliationStatus
    <2>2. /\ DOMAIN jobs' = DOMAIN jobs /\ \A r \in DOMAIN jobs : jobs'[r] \in Job
          /\ jobs'[rid].status = "running"
        BY <1>0, <1>4, <2>1, OneJob DEF StartJob
    <2>3. QED
        BY <1>0, <1>4, <2>2 DEF StartJob, SchedulerInv, SchedulerTypes, CurrentJob
<1>5. CASE VerifyJob
    <2>1. PICK status \in {"passed", "failed"} : SetStatus(current, status)
        BY <1>5 DEF VerifyJob
    <2>2. current \in DOMAIN jobs /\ status \in ReconciliationStatus
        BY <1>0, <1>5 DEF VerifyJob, CurrentJob, ReconciliationStatus
    <2>3. /\ DOMAIN jobs' = DOMAIN jobs /\ \A r \in DOMAIN jobs : jobs'[r] \in Job
          /\ jobs'[current].status = status
        BY <1>0, <2>1, <2>2, OneJob
    <2>4. QED
        BY <1>0, <1>5, <2>2, <2>3 DEF VerifyJob, SchedulerInv, SchedulerTypes, CurrentJob
<1>6. CASE AppendResult \/ AppendResultFails
    <2>1. results' \in Appended(results, job_result) /\ spc = "save"
        BY <1>6 DEF AppendResult, AppendResultFails, Appended
    <2>2. results' \in FileType(ReconciliationResult)
        BY <1>0, <2>1, ResultTypes, RecordsAfter DEF SchedulerTypes
    <2>3. QED
        BY <1>0, <1>6, <2>2 DEF AppendResult, AppendResultFails, SchedulerInv, SchedulerTypes,
           CurrentJob
<1>7. CASE Close
    <2>1. DOMAIN jobs' = {} /\ snapshot' = <<>> /\ snapshot' \in Seq(AuditEvent)
        BY <1>7 DEF Close, NoJobs
    <2>2. SchedulerTypes'
        BY <1>0, <1>7, <2>1 DEF Close, SchedulerTypes
    <2>3. CurrentJob'
        BY <1>7 DEF Close, CurrentJob
    <2>4. QED
        BY <2>2, <2>3 DEF SchedulerInv
<1>8. CASE RunPending \/ PendingDone
    BY <1>0, <1>8 DEF RunPending, PendingDone, SchedulerInv, SchedulerTypes, CurrentJob
<1>9. CASE RunJob \/ NextJob
    BY <1>4, <1>9 DEF RunJob, NextJob
<1>10. QED
    BY <1>1, <1>2, <1>3, <1>5, <1>6, <1>7, <1>8, <1>9 DEF SchedulerStep, RunStep

LEMMA SchedulerInvHolds == SSpec => []SchedulerInv
<1>1. SInit => SchedulerInv
    <2>1. EmptyFile \in FileType(ReconciliationResult) /\ 0 \in 0..MaxSchedulers
        BY SchedulerAssumption DEF EmptyFile, FileType
    <2>2. DOMAIN NoJobs = {} /\ <<>> \in Seq(AuditEvent)
        BY DEF NoJobs
    <2>3. SInit => SchedulerTypes
        BY <2>1, <2>2 DEF SInit, SchedulerTypes
    <2>4. SInit => CurrentJob
        BY DEF SInit, CurrentJob
    <2>5. QED
        BY <2>3, <2>4 DEF SchedulerInv
<1>2. RuntimeFacts /\ SchedulerInv /\ [SNext]_schedulervars => SchedulerInv'
    BY SchedulerStepTypes DEF RuntimeFacts, RuntimeInv
<1>3. QED
    BY <1>1, <1>2, RuntimeFactsHold, PTL DEF SSpec

\* The runtime, the scheduler, its jobs and the lines of both files keep their types.
THEOREM SchedulerTypeCorrect == SSpec => []SchedulerTypeOK
<1>1. RuntimeFacts /\ SchedulerInv => SchedulerTypeOK
    BY DEF RuntimeFacts, RuntimeInv, SchedulerInv, SchedulerTypes, SchedulerTypeOK
<1>2. QED
    BY <1>1, RuntimeFactsHold, SchedulerInvHolds, PTL

-----------------------------------------------------------------------------
(* Jobs only go forward                                                     *)

Advances(rid) ==
    /\ rid \in DOMAIN jobs'
    /\ \/ <<jobs[rid].status, jobs'[rid].status>> \in
              {<<"pending", "running">>, <<"running", "passed">>, <<"running", "failed">>}
       \/ jobs'[rid] = jobs[rid]

LEMMA JobsAdvance ==
    ASSUME SchedulerInv, [SNext]_schedulervars, spc' # "closed", NEW rid \in DOMAIN jobs
    PROVE  Advances(rid)
<1>0. SchedulerTypes /\ CurrentJob
    BY DEF SchedulerInv
<1>1. ASSUME NEW r \in DOMAIN jobs, StartJob(r) PROVE Advances(rid)
    <2>1. "running" \in ReconciliationStatus /\ SetStatus(r, "running") /\ jobs[r].status = "pending"
        BY <1>1 DEF StartJob, IsPending, ReconciliationStatus
    <2>2. QED
        BY <1>0, <2>1, OneJob DEF Advances
<1>2. CASE VerifyJob
    <2>1. PICK status \in {"passed", "failed"} : SetStatus(current, status)
        BY <1>2 DEF VerifyJob
    <2>2. /\ current \in DOMAIN jobs /\ jobs[current].status = "running"
          /\ status \in ReconciliationStatus
        BY <1>0, <1>2 DEF VerifyJob, CurrentJob, ReconciliationStatus
    <2>3. QED
        BY <1>0, <2>1, <2>2, OneJob DEF Advances
<1>3. CASE Plan
    BY <1>0, <1>3, PlannedJobs DEF Advances
<1>4. CASE ~ SchedulerStep \/ Build \/ RunPending \/ PendingDone \/ AppendResult \/ AppendResultFails
    BY <1>4, SchedulerRests DEF Build, RunPending, PendingDone, AppendResult, AppendResultFails,
       Advances
<1>5. CASE RunJob \/ NextJob
    BY <1>1, <1>5 DEF RunJob, NextJob
<1>6. CASE Close
    BY <1>6 DEF Close
<1>7. QED
    BY <1>2, <1>3, <1>4, <1>5, <1>6 DEF SchedulerStep, RunStep

\* While its scheduler lives a job goes pending, running, passed or failed; planning
\* again never resets it, and no job goes back or is taken away.
THEOREM StatusesAdvance == SSpec => StatusesOnlyAdvance
<1>1. SchedulerInv /\ [SNext]_schedulervars =>
          [spc' # "closed" => \A rid \in DOMAIN jobs :
              /\ rid \in DOMAIN jobs'
              /\ <<jobs[rid].status, jobs'[rid].status>> \in
                    {<<"pending", "running">>, <<"running", "passed">>, <<"running", "failed">>}
                 \/ jobs'[rid] = jobs[rid]]_schedulervars
    BY JobsAdvance DEF Advances
<1>2. QED
    BY <1>1, SchedulerInvHolds, PTL DEF SSpec, StatusesOnlyAdvance

-----------------------------------------------------------------------------
(* One result per request and scheduler                                     *)

ResultAt(i) == Lines(results)[i][1]

\* The job of a result the living scheduler has written is completed and not about to
\* be saved again; a later scheduler has written nothing yet.
Saved(r) ==
    /\ r.run <= built
    /\ r.run = built /\ spc # "closed" =>
          /\ r.request_id \in DOMAIN jobs /\ jobs[r.request_id].status \in {"passed", "failed"}
          /\ spc = "save" => r.request_id # current

SavedInv == \A r \in Records(results) : Saved(r)

LEMMA SavedStep ==
    ASSUME SchedulerInv, SavedInv, [SNext]_schedulervars
    PROVE  SavedInv'
<1>0. SchedulerTypes /\ CurrentJob /\ built \in Nat
    BY SchedulerAssumption DEF SchedulerInv, SchedulerTypes
<1>1. \A r \in Records(results) : r \in ReconciliationResult /\ r.run \in Nat /\ Saved(r)
    <2>1. \A r \in ReconciliationResult : r.run \in Nat
        BY SchedulerAssumption DEF ReconciliationResult
    <2>2. Records(results) \subseteq ReconciliationResult
        BY <1>0, RecordsTyped DEF SchedulerTypes
    <2>3. QED BY <2>1, <2>2 DEF SavedInv
<1>2. CASE ~ SchedulerStep
    BY <1>1, <1>2, SchedulerRests DEF SavedInv, Saved
<1>3. CASE Build
    <2>1. UNCHANGED results /\ built' = built + 1
        BY <1>3 DEF Build
    <2>2. \A r \in Records(results) : r.run <= built /\ r.run <= built + 1 /\ r.run # built + 1
        BY <1>0, <1>1 DEF Saved
    <2>3. QED
        BY <2>1, <2>2 DEF SavedInv, Saved
<1>4. CASE Plan
    <2>1. /\ UNCHANGED <<spc, current, results, built>>
          /\ \A rid \in DOMAIN jobs : rid \in DOMAIN jobs' /\ jobs'[rid] = jobs[rid]
        BY <1>0, <1>4, PlannedJobs DEF Plan
    <2>2. QED
        BY <1>1, <2>1 DEF SavedInv, Saved
<1>5. ASSUME NEW rid \in DOMAIN jobs, NEW status \in ReconciliationStatus, SetStatus(rid, status),
             jobs[rid].status \in {"pending", "running"}, spc # "closed",
             spc' # "save" \/ current' = rid, UNCHANGED <<results, built>>
      PROVE  SavedInv'
    <2>1. /\ DOMAIN jobs' = DOMAIN jobs
          /\ \A r \in DOMAIN jobs : r # rid => jobs'[r] = jobs[r]
        BY <1>0, <1>5, OneJob
    <2>2. ASSUME NEW r \in Records(results) PROVE Saved(r)'
        <3>1. CASE r.run # built
            BY <1>1, <1>5, <3>1 DEF Saved
        <3>2. CASE r.run = built
            <4>1. /\ r.request_id \in DOMAIN jobs
                  /\ jobs[r.request_id].status \in {"passed", "failed"} /\ r.run <= built
                BY <1>1, <1>5, <3>2 DEF Saved
            <4>2. r.request_id # rid
                BY <1>5, <4>1
            <4>3. QED
                BY <1>5, <2>1, <4>1, <4>2 DEF Saved
        <3>3. QED BY <3>1, <3>2
    <2>3. QED
        BY <1>5, <2>2 DEF SavedInv
<1>6. CASE RunJob \/ NextJob
    <2>1. PICK rid \in DOMAIN jobs : StartJob(rid)
        BY <1>6 DEF RunJob, NextJob
    <2>2. /\ SetStatus(rid, "running") /\ jobs[rid].status = "pending" /\ spc # "closed"
          /\ spc' # "save" /\ UNCHANGED <<results, built>> /\ "running" \in ReconciliationStatus
        BY <1>6, <2>1 DEF RunJob, NextJob, StartJob, IsPending, ReconciliationStatus
    <2>3. QED
        BY <1>5, <2>2
<1>7. CASE VerifyJob
    <2>1. PICK status \in {"passed", "failed"} : SetStatus(current, status)
        BY <1>7 DEF VerifyJob
    <2>2. /\ current \in DOMAIN jobs /\ jobs[current].status = "running" /\ spc # "closed"
          /\ current' = current /\ UNCHANGED <<results, built>> /\ status \in ReconciliationStatus
        BY <1>0, <1>7 DEF VerifyJob, CurrentJob, ReconciliationStatus
    <2>3. QED
        BY <1>5, <2>1, <2>2
<1>8. CASE AppendResult \/ AppendResultFails
    <2>1. /\ spc = "save" /\ spc' # "save" /\ UNCHANGED <<jobs, current, built>>
          /\ results' \in Appended(results, job_result)
        BY <1>8 DEF AppendResult, AppendResultFails, Appended
    <2>2. Records(results') \subseteq Records(results) \cup {job_result}
        BY <1>0, <2>1, ResultTypes, RecordsAfter DEF SchedulerTypes
    <2>3. ASSUME NEW r, r = job_result PROVE Saved(r)'
        BY <1>0, <2>1, <2>3, ResultTypes DEF Saved, CurrentJob
    <2>4. ASSUME NEW r \in Records(results) PROVE Saved(r)'
        BY <1>1, <2>1 DEF Saved
    <2>5. QED
        BY <2>2, <2>3, <2>4 DEF SavedInv
<1>9. CASE RunPending \/ PendingDone
    BY <1>1, <1>9 DEF RunPending, PendingDone, SavedInv, Saved
<1>10. CASE Close
    BY <1>1, <1>10 DEF Close, SavedInv, Saved
<1>11. QED
    BY <1>2, <1>3, <1>4, <1>6, <1>7, <1>8, <1>9, <1>10 DEF SchedulerStep, RunStep

LEMMA OneResultStep ==
    ASSUME SchedulerInv, SavedInv, OneResultPerRun, [SNext]_schedulervars
    PROVE  OneResultPerRun'
<1>0. SchedulerTypes
    BY DEF SchedulerInv
<1>1. CASE results' = results
    BY <1>1 DEF OneResultPerRun
<1>2. CASE results' # results
    <2>1. spc = "save" /\ results' \in Appended(results, job_result)
        BY <1>2, SchedulerRests DEF SchedulerStep, Build, Plan, RunJob, RunPending, RunStep, NextJob,
           StartJob, PendingDone, VerifyJob, AppendResult, AppendResultFails, Close, Appended
    <2>2. \A i \in Entries(results) :
              ~ (ResultAt(i).request_id = current /\ ResultAt(i).run = built)
        BY <2>1 DEF SavedInv, Saved, Records, ResultAt
    <2>3. SUFFICES ASSUME NEW i \in Entries(results'), NEW j \in Entries(results'), i # j,
                          Lines(results')[i][1].request_id = Lines(results')[j][1].request_id,
                          Lines(results')[i][1].run = Lines(results')[j][1].run
                   PROVE  FALSE
        BY DEF OneResultPerRun
    <2>4. /\ job_result \in ReconciliationResult
          /\ job_result.request_id = current /\ job_result.run = built
        BY <2>1, ResultTypes
    <2>5. \A k \in Entries(results') :
              \/ k \in Entries(results) /\ Lines(results')[k] = Lines(results)[k]
              \/ /\ Lines(results')[k][1] = job_result
                 /\ \A m \in Entries(results') : m # k =>
                        m \in Entries(results) /\ Lines(results')[m] = Lines(results)[m]
        BY <1>0, <2>1, <2>4, EntriesAfter DEF SchedulerTypes, Whole
    <2>6. CASE i \in Entries(results) /\ Lines(results')[i] = Lines(results)[i]
        <3>1. CASE j \in Entries(results) /\ Lines(results')[j] = Lines(results)[j]
            BY <2>3, <2>6, <3>1 DEF OneResultPerRun
        <3>2. CASE Lines(results')[j][1] = job_result
            BY <2>2, <2>3, <2>4, <2>6, <3>2 DEF ResultAt
        <3>3. QED BY <2>5, <3>1, <3>2
    <2>7. CASE /\ Lines(results')[i][1] = job_result
               /\ \A m \in Entries(results') : m # i =>
                      m \in Entries(results) /\ Lines(results')[m] = Lines(results)[m]
        BY <2>2, <2>3, <2>4, <2>7 DEF ResultAt
    <2>8. QED BY <2>5, <2>6, <2>7
<1>3. QED BY <1>1, <1>2

LEMMA SavedHolds == SSpec => []SavedInv
<1>1. SInit => SavedInv
    BY DEF SInit, SavedInv, Records, Entries, Lines, EmptyFile
<1>2. SchedulerInv /\ SavedInv /\ [SNext]_schedulervars => SavedInv'
    BY SavedStep
<1>3. QED
    BY <1>1, <1>2, SchedulerInvHolds, PTL DEF SSpec

\* However often plan(), run_pending() and run_job() are called, and whichever appends
\* fail, one scheduler leaves at most one result per request id in the file.
THEOREM ResultsAreSingle == SSpec => []OneResultPerRun
<1>1. SInit => OneResultPerRun
    BY DEF SInit, OneResultPerRun, Entries, Lines, EmptyFile
<1>2. SchedulerInv /\ SavedInv /\ OneResultPerRun /\ [SNext]_schedulervars => OneResultPerRun'
    BY OneResultStep
<1>3. QED
    BY <1>1, <1>2, SchedulerInvHolds, SavedHolds, PTL DEF SSpec

-----------------------------------------------------------------------------
(* What passed was executed                                                 *)

\* An event as the audit file had it: that of a call that has ended.
Told(e) == e.of \in Call /\ pc[e.of] \in {"answered", "raised"} /\ e = audit_event(e.of)

\* A call behind a result: it has ended and was allowed.
Behind(c, rid, backend) ==
    /\ pc[c] \in {"answered", "raised"} /\ req[c].request_id = rid
    /\ answer[c].type = "allow" /\ answer[c].backend = backend

GroundsOf(rid) ==
    /\ Told(jobs[rid].source_event) /\ jobs[rid].source_event.request_id = rid
    /\ jobs[rid].status \in {"pending", "running", "passed"} =>
          jobs[rid].source_event.event_type = "allow"

GroundsInv ==
    /\ \A i \in DOMAIN snapshot : Told(snapshot[i])
    /\ \A rid \in DOMAIN jobs : GroundsOf(rid)
    /\ \A r \in Records(results) :
          r.status = "passed" => \E c \in Call : Behind(c, r.request_id, r.backend)

LEMMA ToldStays ==
    ASSUME RuntimeInv, [SNext]_schedulervars, NEW e, Told(e)
    PROVE  Told(e)'
BY RuntimeUnder, EndedStays DEF Told, audit_event

LEMMA BehindStays ==
    ASSUME RuntimeInv, [SNext]_schedulervars, NEW c \in Call, NEW rid, NEW b, Behind(c, rid, b)
    PROVE  Behind(c, rid, b)'
BY RuntimeUnder, EndedStays DEF Behind

LEMMA GroundsStep ==
    ASSUME RuntimeInv, AuditTells, SchedulerInv, GroundsInv, [SNext]_schedulervars
    PROVE  GroundsInv'
<1>0. SchedulerTypes /\ CurrentJob /\ RuntimeTypeOK
    BY DEF SchedulerInv, RuntimeInv
<1>1. ASSUME NEW i \in DOMAIN snapshot' PROVE Told(snapshot[i])'
    <2>1. PICK e : e = snapshot'[i]
        OBVIOUS
    <2>2. CASE Build
        <3>1. snapshot' = read(audit) /\ Readable(audit)
            BY <2>2 DEF Build
        <3>2. e \in Records(audit)
            BY <1>0, <2>1, <3>1, ReadGives DEF RuntimeTypeOK
        <3>3. Told(e)
            BY <3>2 DEF AuditTells, Told
        <3>4. QED
            BY <2>1, <3>3, ToldStays DEF Told
    <2>3. CASE snapshot' = snapshot
        <3>1. Told(e)
            BY <2>1, <2>3 DEF GroundsInv
        <3>2. QED
            BY <2>1, <3>1, ToldStays DEF Told
    <2>4. CASE Close
        BY <2>4 DEF Close
    <2>5. QED
        BY <2>2, <2>3, <2>4, SchedulerRests DEF SchedulerStep, Plan, RunJob, RunPending, RunStep,
           NextJob, StartJob, PendingDone, VerifyJob, AppendResult, AppendResultFails
<1>2. ASSUME NEW rid \in DOMAIN jobs, rid \in DOMAIN jobs',
             jobs'[rid].source_event = jobs[rid].source_event,
             \/ jobs'[rid].status = jobs[rid].status
             \/ jobs[rid].source_event.event_type = "allow"
      PROVE  GroundsOf(rid)'
    <2>1. PICK e : e = jobs[rid].source_event /\ Told(e) /\ e.request_id = rid
        BY DEF GroundsInv, GroundsOf
    <2>2. Told(e)'
        BY <2>1, ToldStays
    <2>3. jobs'[rid].source_event = e
        BY <1>2, <2>1
    <2>4. jobs'[rid].status \in {"pending", "running", "passed"} => e.event_type = "allow"
        BY <1>2, <2>1 DEF GroundsInv, GroundsOf
    <2>5. QED
        BY <2>1, <2>2, <2>3, <2>4 DEF GroundsOf
<1>3. ASSUME NEW r \in DOMAIN jobs, NEW status \in ReconciliationStatus, SetStatus(r, status),
             jobs[r].status \in {"pending", "running"}
      PROVE  \A rid \in DOMAIN jobs' : GroundsOf(rid)'
    <2>1. /\ DOMAIN jobs' = DOMAIN jobs
          /\ \A rid \in DOMAIN jobs :
                 /\ jobs'[rid].source_event = jobs[rid].source_event
                 /\ rid # r => jobs'[rid] = jobs[rid]
          /\ \A rid \in DOMAIN jobs' : rid \in DOMAIN jobs
        BY <1>0, <1>3, OneJob
    <2>2. jobs[r].source_event.event_type = "allow"
        BY <1>3 DEF GroundsInv, GroundsOf
    <2>3. ASSUME NEW rid \in DOMAIN jobs' PROVE GroundsOf(rid)'
        <3>1. CASE rid = r
            BY <1>2, <2>1, <2>2, <3>1
        <3>2. CASE rid # r
            <4>1. jobs'[rid].status = jobs[rid].status
                BY <2>1, <3>2
            <4>2. QED BY <1>2, <2>1, <4>1
        <3>3. QED BY <3>1, <3>2
    <2>4. QED BY <2>3
<1>4. \A rid \in DOMAIN jobs' : GroundsOf(rid)'
    <2>1. CASE jobs' = jobs
        BY <1>2, <2>1
    <2>2. CASE Plan
        <3>1. ASSUME NEW rid \in DOMAIN jobs' PROVE GroundsOf(rid)'
            <4>1. CASE rid \in DOMAIN jobs
                BY <1>0, <1>2, <2>2, <4>1, PlannedJobs
            <4>2. CASE rid \notin DOMAIN jobs
                <5>1. PICK i \in DOMAIN snapshot :
                          jobs'[rid] = PlannedJob(snapshot[i]) /\ snapshot[i].request_id = rid
                    BY <1>0, <2>2, <4>2, PlannedJobs
                <5>2. PICK e : e = snapshot[i]
                    OBVIOUS
                <5>3. Told(e)' /\ e \in AuditEvent
                    BY <1>0, <5>2, ToldStays DEF GroundsInv, SchedulerTypes
                <5>4. /\ jobs'[rid].source_event = e /\ e.request_id = rid
                      /\ jobs'[rid].status \in {"pending", "running", "passed"} => e.event_type = "allow"
                    BY <5>1, <5>2, <5>3, PlannedType
                <5>5. QED
                    BY <5>3, <5>4 DEF GroundsOf
            <4>3. QED BY <4>1, <4>2
        <3>2. QED BY <3>1
    <2>3. CASE RunJob \/ NextJob
        <3>1. PICK rid \in DOMAIN jobs : StartJob(rid)
            BY <2>3 DEF RunJob, NextJob
        <3>2. SetStatus(rid, "running") /\ jobs[rid].status = "pending" /\ "running" \in ReconciliationStatus
            BY <3>1 DEF StartJob, IsPending, ReconciliationStatus
        <3>3. QED BY <1>3, <3>2
    <2>4. CASE VerifyJob
        <3>1. PICK status \in {"passed", "failed"} : SetStatus(current, status)
            BY <2>4 DEF VerifyJob
        <3>2. /\ current \in DOMAIN jobs /\ jobs[current].status = "running"
              /\ status \in ReconciliationStatus
            BY <1>0, <2>4 DEF VerifyJob, CurrentJob, ReconciliationStatus
        <3>3. QED BY <1>3, <3>1, <3>2
    <2>5. CASE Close
        BY <2>5 DEF Close, NoJobs
    <2>6. QED
        BY <2>1, <2>2, <2>3, <2>4, <2>5, SchedulerRests DEF SchedulerStep, Build, RunPending, RunStep,
           PendingDone, AppendResult, AppendResultFails
<1>5. ASSUME NEW r \in Records(results'), r.status = "passed"
      PROVE  \E c \in Call : Behind(c, r.request_id, r.backend)'
    <2>1. CASE r \in Records(results)
        <3>1. PICK c \in Call : Behind(c, r.request_id, r.backend)
            BY <1>5, <2>1 DEF GroundsInv
        <3>2. QED BY <3>1, BehindStays
    <2>2. CASE r \notin Records(results)
        <3>1. spc = "save" /\ results' \in Appended(results, job_result)
            BY <1>5, <2>2, SchedulerRests DEF SchedulerStep, Build, Plan, RunJob, RunPending,
               RunStep, NextJob, StartJob, PendingDone, VerifyJob, AppendResult,
               AppendResultFails, Close, Appended
        <3>2. r = job_result
            BY <1>0, <1>5, <2>2, <3>1, ResultTypes, RecordsAfter DEF SchedulerTypes
        <3>3. /\ current \in DOMAIN jobs /\ jobs[current].status = "passed"
              /\ r.request_id = current /\ r.backend = jobs[current].source_event.backend
            BY <1>0, <1>5, <3>1, <3>2, ResultTypes DEF CurrentJob
        <3>4. PICK e : e = jobs[current].source_event
            OBVIOUS
        <3>5. Told(e) /\ e.request_id = current /\ e.event_type = "allow"
            BY <3>3, <3>4 DEF GroundsInv, GroundsOf
        <3>6. PICK c \in Call : c = e.of
            BY <3>5 DEF Told
        <3>7. Behind(c, r.request_id, r.backend)
            BY <3>3, <3>4, <3>5, <3>6 DEF Told, Behind, audit_event
        <3>8. QED BY <3>7, BehindStays
    <2>3. QED BY <2>1, <2>2
<1>6. QED
    BY <1>1, <1>4, <1>5 DEF GroundsInv

LEMMA GroundsAre == SSpec => []GroundsInv
<1>1. SInit => GroundsInv
    BY DEF SInit, GroundsInv, Records, Entries, Lines, EmptyFile, NoJobs
<1>2. RuntimeFacts /\ SchedulerInv /\ GroundsInv /\ [SNext]_schedulervars => GroundsInv'
    BY GroundsStep DEF RuntimeFacts
<1>3. QED
    BY <1>1, <1>2, RuntimeFactsHold, SchedulerInvHolds, PTL DEF SSpec

\* A result "passed" tells of a call that the boundary let through and the backend
\* performed, across the audit file, the scheduler's memory and the result file.
THEOREM PassedHolds == SSpec => []PassedWasExecuted
<1>1. RuntimeFacts /\ GroundsInv => PassedWasExecuted
    <2>1. SUFFICES ASSUME RuntimeFacts, GroundsInv, NEW r \in Records(results), r.status = "passed"
                   PROVE  \E c \in Call :
                             /\ req[c] # NoRequest /\ req[c].request_id = r.request_id
                             /\ answer[c] = [type |-> "allow", backend |-> r.backend]
                             /\ r.backend = "rust_chokepoint" /\ IsWrite(c) => effect[c] = "written"
        BY DEF PassedWasExecuted
    <2>2. PICK c \in Call : Behind(c, r.request_id, r.backend)
        BY <2>1 DEF GroundsInv
    <2>3. req[c] # NoRequest
        BY <2>1, <2>2 DEF RuntimeFacts, RuntimeInv, Made, Behind
    <2>4. answer[c] = [type |-> "allow", backend |-> r.backend]
        <3>1. answer[c] \in Answer
            BY <2>1 DEF RuntimeFacts, RuntimeInv, RuntimeTypeOK
        <3>2. answer[c] = [type |-> answer[c].type, backend |-> answer[c].backend]
            BY <3>1 DEF Answer
        <3>3. QED BY <2>2, <3>2 DEF Behind
    <2>5. r.backend = "rust_chokepoint" /\ IsWrite(c) => effect[c] = "written"
        BY <2>1, <2>2 DEF RuntimeFacts, WorkInv, Behind
    <2>6. QED
        BY <2>2, <2>3, <2>4, <2>5 DEF Behind
<1>2. QED
    BY <1>1, RuntimeFactsHold, GroundsAre, PTL

-----------------------------------------------------------------------------
(* The dashboard                                                            *)

AllowedAt(events) == {i \in DOMAIN events : events[i].event_type = "allow"}

DeniedAt(events) == {i \in DOMAIN events : events[i].event_type \in {"deny", "error"}}

JobsIn(statuses) == {rid \in DOMAIN jobs : jobs[rid].status \in statuses}

\* Each job is of an event under its own id, and skipped if that was not allowed.
JobsOf(events) ==
    \A rid \in DOMAIN jobs :
        /\ jobs[rid].source_event.request_id = rid
        /\ \E i \in DOMAIN events : events[i] = jobs[rid].source_event
        /\ jobs[rid].status = "skipped" <=> jobs[rid].source_event.event_type # "allow"

\* Only the current job is running.
OneRuns == \A rid \in DOMAIN jobs : jobs[rid].status = "running" => spc = "verify" /\ rid = current

\* Two disjoint sets have the elements of both.
LEMMA DisjointSum ==
    ASSUME NEW S, NEW T, IsFiniteSet(S), IsFiniteSet(T), S \cap T = {}
    PROVE  /\ IsFiniteSet(S \cup T)
           /\ Cardinality(S \cup T) = Cardinality(S) + Cardinality(T)
<1>1. Cardinality(S \cap T) = 0
    BY FS_EmptySet
<1>2. Cardinality(S) \in Nat /\ Cardinality(T) \in Nat
    BY FS_CardinalityType
<1>3. /\ IsFiniteSet(S \cup T)
      /\ Cardinality(S \cup T) = Cardinality(S) + Cardinality(T) - Cardinality(S \cap T)
    BY FS_Union, Zenon
<1>4. QED
    BY <1>1, <1>2, <1>3

\* Different jobs have different events.
LEMMA FewerJobs ==
    ASSUME NEW events \in Seq(AuditEvent), NEW S \in SUBSET DOMAIN jobs, NEW P, JobsOf(events),
           IsFiniteSet(P),
           \A rid \in S : \A i \in DOMAIN events : events[i] = jobs[rid].source_event => i \in P
    PROVE  IsFiniteSet(S) /\ Cardinality(S) <= Cardinality(P)
<1> DEFINE At(rid) == CHOOSE i \in DOMAIN events : events[i] = jobs[rid].source_event
           f == [rid \in S |-> At(rid)]
<1>1. ASSUME NEW rid \in S
      PROVE  /\ At(rid) \in P /\ events[At(rid)].request_id = rid
    <2>1. \E i \in DOMAIN events : events[i] = jobs[rid].source_event
        BY DEF JobsOf
    <2>2. At(rid) \in DOMAIN events /\ events[At(rid)] = jobs[rid].source_event
        BY <2>1
    <2>3. QED
        BY <2>2 DEF JobsOf
<1> HIDE DEF At
<1>2. f \in Injection(S, P)
    BY <1>1 DEF Injection, IsInjective
<1>3. QED
    BY <1>2, FS_Injection

LEMMA KindsOfEvents ==
    ASSUME NEW events \in Seq(AuditEvent), NEW i \in DOMAIN events
    PROVE  events[i].event_type \in {"allow", "deny", "error"}
<1>1. events[i] \in AuditEvent
    OBVIOUS
<1>2. QED
    BY <1>1 DEF AuditEvent

\* What a snapshot counts of a list of events.
LEMMA CountedEvents ==
    ASSUME NEW events \in Seq(AuditEvent)
    PROVE  /\ IsFiniteSet(AllowedAt(events)) /\ IsFiniteSet(DeniedAt(events))
           /\ AuditSummary(events).allowed_events = Cardinality(AllowedAt(events))
           /\ AuditSummary(events).denied_events = Cardinality(DeniedAt(events))
           /\ AuditSummary(events).error_events <= Cardinality(DeniedAt(events))
           /\ AuditSummary(events).total_events =
                  Cardinality(AllowedAt(events)) + Cardinality(DeniedAt(events))
<1> DEFINE Errors == {i \in DOMAIN events : events[i].event_type = "error"}
<1>1. /\ AuditSummary(events).allowed_events = Cardinality(AllowedAt(events))
      /\ AuditSummary(events).denied_events = Cardinality(DeniedAt(events))
      /\ AuditSummary(events).error_events = Cardinality(Errors)
      /\ AuditSummary(events).total_events = Len(events)
    BY DEF AuditSummary, HowMany, Positions, IsAllowed, IsDenied, HasError, AllowedAt, DeniedAt
<1>2. Len(events) \in Nat /\ DOMAIN events = 1..Len(events)
    OBVIOUS
<1>3. IsFiniteSet(DOMAIN events) /\ Cardinality(DOMAIN events) = Len(events)
    BY <1>2, FS_Interval
<1>4. /\ AllowedAt(events) \in SUBSET DOMAIN events /\ DeniedAt(events) \in SUBSET DOMAIN events
      /\ Errors \in SUBSET DeniedAt(events)
    BY DEF AllowedAt, DeniedAt
<1>5. IsFiniteSet(AllowedAt(events)) /\ IsFiniteSet(DeniedAt(events))
    BY <1>3, <1>4, FS_Subset
<1>6. Cardinality(Errors) <= Cardinality(DeniedAt(events))
    BY <1>4, <1>5, FS_Subset
<1>7. /\ AllowedAt(events) \cup DeniedAt(events) = DOMAIN events
      /\ AllowedAt(events) \cap DeniedAt(events) = {}
    BY KindsOfEvents DEF AllowedAt, DeniedAt
<1>8. Cardinality(DOMAIN events) =
          Cardinality(AllowedAt(events)) + Cardinality(DeniedAt(events))
    BY <1>5, <1>7, DisjointSum
<1>9. QED
    BY <1>1, <1>3, <1>5, <1>6, <1>8

\* The two halves agree, when the jobs are of the events that are counted.
LEMMA HalvesAgree ==
    ASSUME SchedulerTypes, OneRuns, NEW events \in Seq(AuditEvent), JobsOf(events)
    PROVE  Agree(AuditSummary(events), ReconciliationSummary)
<1> DEFINE Pending == JobsIn({"pending"})
           Passed == JobsIn({"passed"})
           Failed == JobsIn({"failed"})
           Skipped == JobsIn({"skipped"})
           Ran == JobsIn({"pending", "passed", "failed"})
           A == AllowedAt(events)
           D == DeniedAt(events)
<1>1. /\ ReconciliationSummary.total_jobs = Cardinality(DOMAIN jobs)
      /\ ReconciliationSummary.pending = Cardinality(Pending)
      /\ ReconciliationSummary.passed = Cardinality(Passed)
      /\ ReconciliationSummary.failed = Cardinality(Failed)
      /\ ReconciliationSummary.skipped = Cardinality(Skipped)
    BY DEF ReconciliationSummary, JobsWith, JobsIn
<1>2. IsFiniteSet(A) /\ IsFiniteSet(D) /\ Cardinality(A) \in Nat /\ Cardinality(D) \in Nat
    BY CountedEvents, FS_CardinalityType
<1>3. IsFiniteSet(Ran) /\ Cardinality(Ran) <= Cardinality(A)
    <2>1. \A rid \in Ran : \A i \in DOMAIN events :
              events[i] = jobs[rid].source_event => i \in A
        BY DEF JobsIn, JobsOf, AllowedAt
    <2>2. Ran \in SUBSET DOMAIN jobs
        BY DEF JobsIn
    <2>3. QED BY <1>2, <2>1, <2>2, FewerJobs
<1>4. IsFiniteSet(Skipped) /\ Cardinality(Skipped) <= Cardinality(D)
    <2>1. \A rid \in Skipped : \A i \in DOMAIN events :
              events[i] = jobs[rid].source_event => i \in D
        BY KindsOfEvents DEF JobsIn, JobsOf, DeniedAt
    <2>2. Skipped \in SUBSET DOMAIN jobs
        BY DEF JobsIn
    <2>3. QED BY <1>2, <2>1, <2>2, FewerJobs
<1>5. /\ Cardinality(Ran) = Cardinality(Pending) + Cardinality(Passed) + Cardinality(Failed)
      /\ Cardinality(Pending) \in Nat /\ Cardinality(Passed) \in Nat
      /\ Cardinality(Failed) \in Nat
    <2> DEFINE Ended == JobsIn({"passed", "failed"})
    <2>1. Pending \in SUBSET Ran /\ Ended \in SUBSET Ran
          /\ Passed \in SUBSET Ran /\ Failed \in SUBSET Ran
        BY DEF JobsIn
    <2>2. IsFiniteSet(Pending) /\ IsFiniteSet(Ended) /\ IsFiniteSet(Passed) /\ IsFiniteSet(Failed)
        BY <1>3, <2>1, FS_Subset
    <2>3. Ended = Passed \cup Failed /\ Passed \cap Failed = {}
          /\ Ran = Pending \cup Ended /\ Pending \cap Ended = {}
        BY DEF JobsIn
    <2>4. /\ Cardinality(Passed \cup Failed) = Cardinality(Passed) + Cardinality(Failed)
          /\ Cardinality(Pending \cup Ended) = Cardinality(Pending) + Cardinality(Ended)
        BY <2>2, <2>3, DisjointSum
    <2>5. /\ Cardinality(Pending) \in Nat /\ Cardinality(Passed) \in Nat
          /\ Cardinality(Failed) \in Nat
        BY <2>2, FS_CardinalityType
    <2> HIDE DEF Pending, Ended, Passed, Failed, Ran
    <2>6. QED BY <2>3, <2>4, <2>5
<1>6. spc \in {"closed", "idle"} =>
          Cardinality(DOMAIN jobs) = Cardinality(Ran) + Cardinality(Skipped)
    <2>1. Ran \cap Skipped = {}
        BY DEF JobsIn
    <2>2. spc \in {"closed", "idle"} => DOMAIN jobs = Ran \cup Skipped
        BY DEF JobsIn, OneRuns, SchedulerTypes, Job, ReconciliationStatus
    <2> HIDE DEF Ran, Skipped
    <2>3. QED BY <1>3, <1>4, <2>1, <2>2, DisjointSum
<1>7. Cardinality(Skipped) \in Nat
    BY <1>4, FS_CardinalityType
<1> HIDE DEF Pending, Passed, Failed, Skipped, Ran
<1>8. /\ AuditSummary(events).allowed_events = Cardinality(A)
      /\ AuditSummary(events).denied_events = Cardinality(D)
      /\ AuditSummary(events).error_events <= Cardinality(D)
      /\ AuditSummary(events).total_events = Cardinality(A) + Cardinality(D)
    BY CountedEvents
<1> HIDE DEF A, D
<1>9. QED
    BY <1>1, <1>2, <1>3, <1>4, <1>5, <1>6, <1>7, <1>8 DEF Agree

\* Planned jobs stay jobs of the snapshot, and what was read from the audit file
\* stays there as long as it can be read.
CountInv ==
    /\ JobsOf(snapshot)
    /\ OneRuns
    /\ Readable(audit) => \A i \in DOMAIN snapshot : snapshot[i] \in Records(audit)

LEMMA SnapshotStays ==
    ASSUME RuntimeInv, SchedulerInv, CountInv, [SNext]_schedulervars, Readable(audit)'
    PROVE  \A i \in DOMAIN snapshot' : snapshot'[i] \in Records(audit)'
<1>1. Readable(audit) /\ Records(audit) \subseteq Records(audit')
    <2>1. CASE audit' = audit
        BY <2>1
    <2>2. CASE audit' # audit
        <3>1. PICK c \in Call : (Emit(c) \/ EmitFails(c)) /\ audit' \in Appended(audit, audit_event(c))
            BY <2>2, RuntimeUnder, FileSteps
        <3>2. pc[c] = "emit" /\ audit_event(c) \in AuditEvent /\ audit \in FileType(AuditEvent)
            BY <3>1, MadeEvent DEF Emit, EmitFails, RuntimeInv, RuntimeTypeOK
        <3>3. QED BY <3>1, <3>2, ReadableAfter
    <2>3. QED BY <2>1, <2>2
<1>2. CASE Build
    <2>1. snapshot' = read(audit) /\ audit' = audit /\ audit \in FileType(AuditEvent)
        BY <1>2 DEF Build, runtime, RuntimeInv, RuntimeTypeOK
    <2>2. QED BY <1>1, <2>1, ReadGives
<1>3. CASE snapshot' = <<>> \/ snapshot' = snapshot
    BY <1>1, <1>3 DEF CountInv
<1>4. QED
    BY <1>2, <1>3, SchedulerRests DEF SchedulerStep, Plan, RunJob, RunPending, RunStep, NextJob,
       StartJob, PendingDone, VerifyJob, AppendResult, AppendResultFails, Close

LEMMA CountStep ==
    ASSUME RuntimeInv, SchedulerInv, CountInv, [SNext]_schedulervars
    PROVE  CountInv'
<1>0. SchedulerTypes /\ CurrentJob
    BY DEF SchedulerInv
<1>1. Readable(audit)' => \A i \in DOMAIN snapshot' : snapshot'[i] \in Records(audit)'
    BY SnapshotStays
<1>2. CASE ~ SchedulerStep
    <2>1. UNCHANGED <<spc, snapshot, jobs, current>>
        BY <1>2, SchedulerRests
    <2>2. QED BY <1>1, <2>1 DEF CountInv, JobsOf, OneRuns
<1>3. CASE Build \/ Close
    <2>1. DOMAIN jobs' = {}
        BY <1>0, <1>3 DEF Build, Close, CurrentJob, NoJobs
    <2>2. QED BY <1>1, <2>1 DEF CountInv, JobsOf, OneRuns
<1>4. CASE Plan
    <2>1. UNCHANGED <<spc, snapshot, current>>
        BY <1>4 DEF Plan
    <2>2. ASSUME NEW rid \in DOMAIN jobs'
          PROVE  /\ jobs'[rid].source_event.request_id = rid
                 /\ \E i \in DOMAIN snapshot : snapshot[i] = jobs'[rid].source_event
                 /\ jobs'[rid].status = "skipped" <=> jobs'[rid].source_event.event_type # "allow"
                 /\ jobs'[rid].status = "running" => spc = "verify" /\ rid = current
        <3>1. CASE rid \in DOMAIN jobs
            BY <1>0, <1>4, <3>1, PlannedJobs DEF CountInv, JobsOf, OneRuns
        <3>2. CASE rid \notin DOMAIN jobs
            <4>1. PICK i \in DOMAIN snapshot :
                      jobs'[rid] = PlannedJob(snapshot[i]) /\ snapshot[i].request_id = rid
                BY <1>0, <1>4, <3>2, PlannedJobs
            <4>2. QED BY <4>1 DEF PlannedJob
        <3>3. QED BY <3>1, <3>2
    <2>3. QED
        BY <1>1, <2>1, <2>2 DEF CountInv, JobsOf, OneRuns
<1>5. ASSUME NEW rid \in DOMAIN jobs, StartJob(rid), spc # "verify"
      PROVE  CountInv'
    <2>1. /\ UNCHANGED snapshot /\ spc' = "verify" /\ current' = rid /\ spc # "verify"
          /\ jobs[rid].status = "pending" /\ SetStatus(rid, "running")
        BY <1>0, <1>5 DEF StartJob, IsPending, CurrentJob
    <2>2. "running" \in ReconciliationStatus
        BY DEF ReconciliationStatus
    <2>3. /\ DOMAIN jobs' = DOMAIN jobs
          /\ \A r \in DOMAIN jobs :
                 /\ jobs'[r].source_event = jobs[r].source_event
                 /\ jobs'[r].status = IF r = rid THEN "running" ELSE jobs[r].status
        BY <1>0, <2>1, <2>2, OneJob
    <2>4. QED
        BY <1>1, <2>1, <2>3 DEF CountInv, JobsOf, OneRuns
<1>6. CASE VerifyJob
    <2>1. PICK status \in {"passed", "failed"} : SetStatus(current, status)
        BY <1>6 DEF VerifyJob
    <2>2. /\ UNCHANGED <<snapshot, current>> /\ current \in DOMAIN jobs
          /\ jobs[current].status = "running" /\ status \in ReconciliationStatus
        BY <1>0, <1>6 DEF VerifyJob, CurrentJob, ReconciliationStatus
    <2>3. /\ DOMAIN jobs' = DOMAIN jobs
          /\ \A r \in DOMAIN jobs :
                 /\ jobs'[r].source_event = jobs[r].source_event
                 /\ jobs'[r].status = IF r = current THEN status ELSE jobs[r].status
        BY <1>0, <2>1, <2>2, OneJob
    <2>4. QED
        BY <1>1, <2>2, <2>3 DEF CountInv, JobsOf, OneRuns
<1>7. CASE RunPending \/ PendingDone \/ AppendResult \/ AppendResultFails
    <2>1. UNCHANGED <<snapshot, jobs>> /\ spc # "verify"
        BY <1>7 DEF RunPending, PendingDone, AppendResult, AppendResultFails
    <2>2. QED BY <1>1, <2>1 DEF CountInv, JobsOf, OneRuns
<1>8. CASE RunJob \/ NextJob
    BY <1>5, <1>8 DEF RunJob, NextJob
<1>9. QED
    BY <1>2, <1>3, <1>4, <1>6, <1>7, <1>8 DEF SchedulerStep, RunStep

\* The two halves of a dashboard snapshot add up, of the events the scheduler was built
\* from and of every later read of the audit file that succeeds.
THEOREM SummariesHold == SSpec => []SummariesAgree
<1>1. SInit => CountInv
    BY DEF SInit, CountInv, JobsOf, OneRuns, NoJobs
<1>2. RuntimeFacts /\ SchedulerInv /\ CountInv /\ [SNext]_schedulervars => CountInv'
    BY CountStep DEF RuntimeFacts
<1>3. RuntimeFacts /\ SchedulerInv /\ CountInv => SummariesAgree
    <2> SUFFICES ASSUME RuntimeFacts, SchedulerInv, CountInv PROVE SummariesAgree
        OBVIOUS
    <2>1. SchedulerTypes /\ OneRuns /\ JobsOf(snapshot) /\ snapshot \in Seq(AuditEvent)
        BY DEF SchedulerInv, SchedulerTypes, CountInv
    <2>2. Agree(AuditSummary(snapshot), ReconciliationSummary)
        BY <2>1, HalvesAgree
    <2>3. ASSUME Readable(audit)
          PROVE  Agree(AuditSummary(read(audit)), ReconciliationSummary)
        <3>1. audit \in FileType(AuditEvent)
            BY DEF RuntimeFacts, RuntimeInv, RuntimeTypeOK
        <3>2. read(audit) \in Seq(AuditEvent)
            BY <2>3, <3>1, ReadGives
        <3>3. \A e \in Records(audit) : \E j \in DOMAIN read(audit) : read(audit)[j] = e
            BY DEF Records, Entries, read
        <3>4. JobsOf(read(audit))
            BY <2>1, <2>3, <3>3 DEF JobsOf, CountInv
        <3>5. QED
            BY <2>1, <3>2, <3>4, HalvesAgree
    <2>4. QED
        BY <2>2, <2>3 DEF SummariesAgree
<1>4. QED
    BY <1>1, <1>2, <1>3, RuntimeFactsHold, SchedulerInvHolds, PTL DEF SSpec

=============================================================================
