----------------------------- MODULE AuditGates -----------------------------
(***************************************************************************)
(* What applications put on top of ToolProxy: KoguchiAuditGate (audit.py),  *)
(* KoguchiTodoAuditGate (integrations/joujou.py) with the application loop  *)
(* its guide prescribes (docs/dev/joujou-integration.md), and the           *)
(* ProviderReconciler (provider_reconcile.py).                              *)
(*                                                                         *)
(* A todo is created at a provider between two write_file calls under one   *)
(* record id: `before` writes the audit file with the todo, `after` writes  *)
(* it again with the provider's answer or its error.  ToolProxy knows the   *)
(* file only; the effect that counts, the todo at the provider, is `created`*)
(* here.  The process may die between any two steps.                        *)
(***************************************************************************)
EXTENDS ToolProxy

CONSTANTS
    Todo,             \* the todos an application creates
    Audited,          \* the calls of AuditGate.audit()
    RecordOf,         \* the uuid each of them draws
    AuditTarget,      \* .koguchi/audit/<record id>.json of each todo
    AuditRequests     \* what audit() may be asked to write

Task == Todo \cup Audited

ASSUME TaskAssumption == Todo \cap Audited = {}

before(k) == <<k, "before">>
after(k)  == <<k, "after">>
audit(a)  == <<a, "audit">>

CallsOf(k) == {c \in Call : c[1] = k}

ASSUME CallsAssumption ==
    Call = (Todo \X {"before", "after"}) \cup (Audited \X {"audit"})

ASSUME RecordsAssumption ==
    /\ RecordOf \in [Task -> ActionId]
    /\ \A k, m \in Task : RecordOf[k] = RecordOf[m] => k = m
    /\ AuditTarget \in [Todo -> Workspace]
    /\ \A k, m \in Todo : AuditTarget[k] = AuditTarget[m] => k = m
    /\ AuditRequests \subseteq RequestType /\ ~ HasDecisionStore

VARIABLES
    step,      \* where each task stands
    told,      \* what its application was told
    created,   \* the todos that exist at the provider
    seen,      \* AuditResult.side_effect_observed of each audit() call
    queue,     \* the rows of pending() reconcile() has yet to look up
    findings,  \* what it has found
    reconcile, \* where its run stands
    settled    \* history: the tasks that were over when the run began

sagas == <<step, told, created, seen>>
run   == <<queue, findings, reconcile, settled>>
gvars == <<vars, sagas, run>>

UnderWay(k) == step[k] \notin {"new", "end", "crashed"}

GInit ==
    /\ Init
    /\ step = [k \in Task |-> "new"]
    /\ told = [k \in Task |-> "none"]
    /\ created = {}
    /\ seen = [a \in Audited |-> "none"]
    /\ queue = {} /\ findings = <<>> /\ reconcile = "idle"
    /\ settled = {}

-----------------------------------------------------------------------------
(* KoguchiTodoAuditGate and the application                                 *)

GoOn(k, where) == step' = [step EXCEPT ![k] = where]

Finish(k, what) == GoOn(k, "end") /\ told' = [told EXCEPT ![k] = what]

\* write_file is called; the audit directory exists since the constructor ran.
WriteFile(c, r) == RefuseOutsideWorkspace(c, r) \/ RejectAtGate(c, r) \/ Admit(c, r)

envelope(k, content) ==
    [action_id |-> RecordOf[k], op |-> "write_file", tool |-> "todo.create",
     target |-> AuditTarget[k], content |-> content, intent |-> TRUE, timeout |-> FALSE]

\* A request of audit(), which draws the record id itself.
audit_envelope(a, r) == [r EXCEPT !.action_id = RecordOf[a]]

\* What the gates hand to ToolProxy are requests a caller may make.  The name of an
\* audit file holds the fresh id of its todo, so nobody else names it, and it is not
\* there before.
ASSUME GateRequestsAssumption ==
    /\ \A k \in Todo : \A text \in {"todo", "created", "error"} :
          envelope(k, text) \in Request
    /\ \A a \in Audited : \A r \in AuditRequests :
          /\ audit_envelope(a, r) \in Request /\ r.op = "write_file"
          /\ \A k \in Todo : r.target # AuditTarget[k]
    /\ \A k \in Todo : InitialFiles[AuditTarget[k]] = "absent"

before_create_todo(k) ==
    /\ step[k] = "new"
    /\ WriteFile(before(k), envelope(k, "todo"))
    /\ GoOn(k, "before")
    /\ UNCHANGED <<told, created, seen, run>>

\* Mutant: a refusal is logged, the record id returned.
ReturnIdAlways(k) ==
    /\ step[k] = "before" /\ pc[before(k)] = "done"
    /\ GoOn(k, "create")
    /\ UNCHANGED <<vars, told, created, seen, run>>

\* Mutant: whatever is not a success is reported as a denial.
DenyUnlessSuccess(k) ==
    /\ step[k] = "before" /\ pc[before(k)] = "done"
    /\ IF result[before(k)] # "SUCCESS"
       THEN Finish(k, "denied")
       ELSE GoOn(k, "create") /\ UNCHANGED told
    /\ UNCHANGED <<vars, created, seen, run>>

\* REJECTED raises PermissionError; SUCCESS, FAILURE and UNCONFIRMED return the
\* record id, and the application calls its provider.
before_returns(k) ==
    /\ step[k] = "before" /\ pc[before(k)] = "done"
    /\ IF result[before(k)] = "REJECTED"
       THEN Finish(k, "denied")
       ELSE GoOn(k, "create") /\ UNCHANGED told
    /\ UNCHANGED <<vars, created, seen, run>>

\* provider.create_todo answered.
ProviderCreates(k) ==
    /\ step[k] = "create"
    /\ created' = created \cup {k}
    /\ GoOn(k, "created")
    /\ UNCHANGED <<vars, told, seen, run>>

\* It raised; a timeout or a lost answer may hide a todo that was created.
ProviderRaises(k) ==
    /\ step[k] = "create"
    /\ created' \in {created, created \cup {k}}
    /\ GoOn(k, "error")
    /\ UNCHANGED <<vars, told, seen, run>>

\* Mutant: the record of the success is written before the provider is called.
CommitEarly(k) ==
    /\ step[k] \in {"create", "created"} /\ pc[after(k)] = "new"
    /\ WriteFile(after(k), envelope(k, "created"))
    /\ GoOn(k, "commit")
    /\ UNCHANGED <<told, created, seen, run>>

after_create_todo_success(k) ==
    /\ step[k] = "created"
    /\ WriteFile(after(k), envelope(k, "created"))
    /\ GoOn(k, "commit")
    /\ UNCHANGED <<told, created, seen, run>>

\* Only UNCONFIRMED raises; a write that failed or was refused passes for success.
success_returns(k) ==
    /\ step[k] = "commit" /\ pc[after(k)] = "done"
    /\ Finish(k, IF result[after(k)] = "UNCONFIRMED" THEN "unconfirmed" ELSE "success")
    /\ UNCHANGED <<vars, created, seen, run>>

after_create_todo_failure(k) ==
    /\ step[k] = "error"
    /\ WriteFile(after(k), envelope(k, "error"))
    /\ GoOn(k, "record")
    /\ UNCHANGED <<told, created, seen, run>>

\* The result is not looked at; the application raises the provider's error.
failure_returns(k) ==
    /\ step[k] = "record" /\ pc[after(k)] = "done"
    /\ Finish(k, "failed")
    /\ UNCHANGED <<vars, created, seen, run>>

-----------------------------------------------------------------------------
(* KoguchiAuditGate                                                         *)

audit_begins(a) ==
    /\ step[a] = "new"
    /\ \E r \in AuditRequests :
          WriteFile(audit(a), audit_envelope(a, r))
    /\ GoOn(a, "audit")
    /\ UNCHANGED <<told, created, seen, run>>

\* Mutant: the last closing event is asked for, which a lost one leaves out.
ObservedAtClosing(id) ==
    LET rows == {i \in events_for(events, id) : events[i].type \in ClosingTypes}
    IN IF rows = {} THEN "None" ELSE events[first(rows)].side_effect_observed

\* events[0] if events else None.
ObservedOf(id) ==
    LET rows == events_for(events, id)
    IN IF rows = {} THEN "None" ELSE events[first(rows)].side_effect_observed

\* An exception of write_file leaves audit(), and so does one of events_for.
audit_returns(a) ==
    /\ step[a] = "audit" /\ pc[audit(a)] = "done"
    /\ \/ /\ result[audit(a)] # "Raised"
          /\ seen' = [seen EXCEPT ![a] = ObservedOf(RecordOf[a])]
          /\ Finish(a, result[audit(a)])
       \/ Finish(a, "raised") /\ UNCHANGED seen
    /\ UNCHANGED <<vars, created, run>>

-----------------------------------------------------------------------------
(* The process dies; while the provider is being called, its todo may exist.*)

Die(k) ==
    /\ UnderWay(k)
    /\ GoOn(k, "crashed")
    /\ pc' = [c \in Call |-> IF c \in CallsOf(k) /\ Active(c) THEN "crashed" ELSE pc[c]]
    /\ \/ UNCHANGED created
       \/ step[k] = "create" /\ created' = created \cup {k}
    /\ UNCHANGED <<stores, world, req, prev, observed, result, told, seen, run>>

-----------------------------------------------------------------------------
(* ProviderReconciler.reconcile                                             *)

\* Mutant: the records of todos are left to the other reconciler.
TodosAreFiles(tool) == tool \in FilesystemTools \cup {"todo.create"}

\* What reconcile() leaves to the filesystem's own reconciliation.
Skipped(tool) == tool \in FilesystemTools

StartReconcile ==
    /\ reconcile = "idle"
    /\ queue' = {i \in pending(events) : ~ Skipped(events[i].envelope.tool)}
    /\ reconcile' = "running"
    /\ settled' = {k \in Task : step[k] \in {"end", "crashed"}}
    /\ UNCHANGED <<vars, sagas, findings>>

\* Mutant: a diagnosis that belongs to the filesystem's reconciliation.
DiagnoseDiverged(id) == "committed_diverged"

\* What find_by_audit_record_id answers now, as a diagnosis.
Diagnose(id) == IF \E k \in created : RecordOf[k] = id
                THEN "pending_executed_unconfirmed" ELSE "pending_not_executed"

LookUp ==
    /\ reconcile = "running" /\ queue # {}
    /\ LET id == events[first(queue)].record_id IN
          findings' = Append(findings, [record_id |-> id, diagnosis |-> Diagnose(id)])
    /\ queue' = queue \ {first(queue)}
    /\ UNCHANGED <<vars, sagas, reconcile, settled>>

\* The provider raised: the findings so far are lost with the exception.
LookUpFails ==
    /\ reconcile = "running" /\ queue # {}
    /\ reconcile' = "raised" /\ findings' = <<>> /\ queue' = {}
    /\ UNCHANGED <<vars, sagas, settled>>

EndReconcile ==
    /\ reconcile = "running" /\ queue = {}
    /\ reconcile' = "done"
    /\ UNCHANGED <<vars, sagas, queue, findings, settled>>

-----------------------------------------------------------------------------
(* The system                                                               *)

TodoStep(k) == \/ before_create_todo(k) \/ before_returns(k)
               \/ ProviderCreates(k) \/ ProviderRaises(k)
               \/ after_create_todo_success(k) \/ success_returns(k)
               \/ after_create_todo_failure(k) \/ failure_returns(k)

AuditStep(a) == audit_begins(a) \/ audit_returns(a)

GNext == \/ \E k \in Todo : TodoStep(k)
         \/ \E a \in Audited : AuditStep(a)
         \/ \E c \in Call : Proceed(c) /\ UNCHANGED <<sagas, run>>
         \/ \E k \in Task : Die(k)
         \/ StartReconcile \/ LookUp \/ LookUpFails \/ EndReconcile

GSpec == GInit /\ [][GNext]_gvars

-----------------------------------------------------------------------------
(* Properties                                                               *)

TodoIsPending(k) == \E i \in DOMAIN events : /\ events[i].record_id = RecordOf[k]
                                               /\ IsOpenIntent(events, events[i])

Finding == [record_id : ActionId,
            diagnosis : {"pending_executed_unconfirmed", "pending_not_executed"}]

GatesTypeOK ==
    /\ step \in [Task -> {"new", "before", "create", "created", "error", "commit", "record",
                          "audit", "end", "crashed"}]
    /\ told \in [Task -> Result \cup {"none", "denied", "success", "unconfirmed", "failed",
                                      "raised"}]
    /\ created \subseteq Todo
    /\ seen \in [Audited -> Observation \cup {"None"}]
    /\ queue \subseteq DOMAIN events /\ findings \in Seq(Finding)
    /\ reconcile \in {"idle", "running", "raised", "done"} /\ settled \subseteq Task

\* A todo exists at the provider only when its intent is in the log: a before call
\* that the policy or the store refused keeps the provider from being called, and
\* a crash at any point does not change that.
CreatedWasIntended ==
    \A k \in created : /\ Logged(before(k), "intent_pending")
                       /\ result[before(k)] # "REJECTED"

\* The application is told of a success, or of an unconfirmed one, only when the
\* todo exists, and of a denial only when it does not and nothing was recorded.
TodoAnswersAreTrue ==
    \A k \in Todo :
        /\ told[k] \in {"success", "unconfirmed"} => k \in created
        /\ told[k] = "denied" => k \notin created /\ ~ Logged(before(k), "intent_pending")
        /\ told[k] = "unconfirmed" => ~ CallClosed(after(k))

\* The audit file names an outcome only once the provider has had it: it says
\* "created" of todos that exist, and what the last commit record of its record id
\* digests is what it holds, with two calls sharing one temporary file.
AuditFileTellsOutcome ==
    \A k \in Todo :
        /\ fs[AuditTarget[k]] = "created" => k \in created
        /\ Logged(after(k), "execution_committed") =>
              fs[AuditTarget[k]] = req[after(k)].content

\* A finished run told the truth.  "Executed" is always so; and every todo that was
\* over when the run began, and whose record is pending, is found executed exactly
\* when it exists.
FindingsAreTrue ==
    reconcile = "done" =>
        /\ \A i \in DOMAIN findings, k \in Todo :
              /\ findings[i].record_id = RecordOf[k]
              /\ findings[i].diagnosis = "pending_executed_unconfirmed"
              => k \in created
        /\ \A k \in settled \cap Todo : TodoIsPending(k) =>
              \E i \in DOMAIN findings :
                  /\ findings[i].record_id = RecordOf[k]
                  /\ findings[i].diagnosis = (IF k \in created
                        THEN "pending_executed_unconfirmed" ELSE "pending_not_executed")

\* AuditResult: side_effect_observed is None exactly when nothing was recorded,
\* which is when the result is REJECTED, whatever the store lost afterwards.
NothingSeenMeansRejected ==
    \A a \in Audited : step[a] = "end" /\ told[a] # "raised" =>
        (seen[a] = "None" <=> told[a] = "REJECTED")

-----------------------------------------------------------------------------
(* What the guide says of the gate, and it does not do                      *)

\* docs/dev/joujou-integration.md: after UnconfirmedSideEffectError the store still
\* has the intent_pending, and reconciliation finds it later.
UnconfirmedStaysPending ==
    \A k \in Todo : told[k] = "unconfirmed" => TodoIsPending(k)
=============================================================================
