-------------------------- MODULE AuditGatesProofs --------------------------
(***************************************************************************)
(* Theorems about the gates, for every set of todos and audited calls, and  *)
(* every interleaving, store failure and crash.  The gates use ToolProxy as *)
(* any caller does, so what is proved of ToolProxy holds here; on it rest   *)
(* the promises about the provider, the audit files and the findings.       *)
(***************************************************************************)
EXTENDS AuditGates, ToolProxyRecordProofs

-----------------------------------------------------------------------------
(* Where a task stands, and which of its calls may run there                *)

TodoPlace == {"new", "before", "create", "created", "error", "commit", "record",
              "end", "crashed"}

TodoPlaced(k) ==
    /\ step[k] \in TodoPlace
    /\ step[k] = "new" => pc[before(k)] = "new"
    /\ step[k] \in {"new", "before", "create", "created", "error"} => pc[after(k)] = "new"
    /\ step[k] \notin {"new", "before"} => ~ Active(before(k))
    /\ step[k] \in {"end", "crashed"} => ~ Active(after(k))

AuditPlaced(a) ==
    /\ step[a] \in {"new", "audit", "end", "crashed"}
    /\ step[a] = "new" => pc[audit(a)] = "new"
    /\ step[a] \in {"end", "crashed"} => ~ Active(audit(a))

PlaceInv == /\ DOMAIN step = Task /\ step = [k \in Task |-> step[k]]
            /\ \A k \in Todo : TodoPlaced(k)
            /\ \A a \in Audited : AuditPlaced(a)

\* The calls of the tasks are all the calls there are, and no two tasks share one.
LEMMA CallNames ==
    /\ \A k \in Todo : k \in Task /\ before(k) \in Call /\ after(k) \in Call
    /\ \A a \in Audited : a \in Task /\ audit(a) \in Call
    /\ \A c \in Call : \/ \E k \in Todo : c = before(k) \/ c = after(k)
                       \/ \E a \in Audited : c = audit(a)
    /\ \A k, m \in Todo : /\ before(k) # after(m)
                          /\ before(k) = before(m) => k = m
                          /\ after(k) = after(m) => k = m
    /\ \A a, b \in Audited : audit(a) = audit(b) => a = b
    /\ \A k \in Todo, a \in Audited : audit(a) # before(k) /\ audit(a) # after(k) /\ a # k
    /\ \A k \in Todo : CallsOf(k) = {before(k), after(k)}
    /\ \A a \in Audited : CallsOf(a) = {audit(a)}
<1>1. /\ \A k \in Todo : k \in Task /\ before(k) \in Call /\ after(k) \in Call
      /\ \A a \in Audited : a \in Task /\ audit(a) \in Call
    BY CallsAssumption DEF Task, before, after, audit
<1>2. \A c \in Call : \/ \E k \in Todo : c = before(k) \/ c = after(k)
                      \/ \E a \in Audited : c = audit(a)
    BY CallsAssumption DEF before, after, audit
<1>3. /\ \A k, m \in Todo : /\ before(k) # after(m)
                            /\ before(k) = before(m) => k = m
                            /\ after(k) = after(m) => k = m
      /\ \A a, b \in Audited : audit(a) = audit(b) => a = b
      /\ \A k \in Todo, a \in Audited : audit(a) # before(k) /\ audit(a) # after(k) /\ a # k
    BY TaskAssumption DEF before, after, audit
<1>4. ASSUME NEW k \in Todo PROVE CallsOf(k) = {before(k), after(k)}
    <2>1. \A c \in Call : c[1] = k <=> c = before(k) \/ c = after(k)
        BY <1>1, <1>2, TaskAssumption DEF before, after, audit
    <2>2. QED
        BY <1>1, <2>1 DEF CallsOf
<1>5. ASSUME NEW a \in Audited PROVE CallsOf(a) = {audit(a)}
    <2>1. \A c \in Call : c[1] = a <=> c = audit(a)
        BY <1>1, <1>2, TaskAssumption DEF before, after, audit
    <2>2. QED
        BY <1>1, <2>1 DEF CallsOf
<1>6. QED
    BY <1>1, <1>2, <1>3, <1>4, <1>5

\* A call that goes on is active, is one of a task that is there, and does not return
\* to the beginning.
LEMMA ProceedIsActive ==
    ASSUME TypeInv, NEW c \in Call, Proceed(c)
    PROVE  Active(c) /\ pc'[c] # "new" /\ pc'[c] # "crashed" /\ req'[c] = req[c]
<1> USE DEF Goto, Return, Observe, TypeInv, TypeOK, Active, ActivePC
<1>1. CASE Prepare(c)
    BY <1>1 DEF Prepare, ReadDecisionHash, RecordDecision, ReadIntentHash,
        RejectUnrecorded, AppendIntent
<1>2. CASE Execute(c)
    BY <1>2 DEF Execute, Executing, WriteTmp, WriteTmpFails, ReplaceTarget, ReplaceFails,
        UnlinkTmp, MakeOneDirectory, DirectoryExists, MkdirFails, ShellCompletes, ShellTimesOut,
        ShellFailsToStart, HttpAnswers, HttpFails, HttpEscapes
<1>3. CASE Close(c)
    BY <1>3 DEF Close, ReadClosingHash, AppendClosing, LoseClosing
<1>4. QED
    BY <1>1, <1>2, <1>3 DEF Proceed

-----------------------------------------------------------------------------
(* Every step of the gates is a step of ToolProxy or leaves it alone        *)

\* A task that dies takes the one call it has running with it, if it has any.
LEMMA DieIsCrash ==
    ASSUME TypeInv, PlaceInv, NEW k \in Task, Die(k)
    PROVE  UNCHANGED vars \/ \E c \in CallsOf(k) : Crash(c)
<1>1. CallsOf(k) \subseteq Call
    BY DEF CallsOf
<1>2. \A c, d \in CallsOf(k) : Active(c) /\ Active(d) => c = d
    <2>1. CASE k \in Todo
        <3>1. CallsOf(k) = {before(k), after(k)} /\ TodoPlaced(k)
            BY <2>1, CallNames DEF PlaceInv
        <3>2. ~ (Active(before(k)) /\ Active(after(k)))
            BY <3>1 DEF TodoPlaced, TodoPlace, Active, ActivePC
        <3>3. QED
            BY <3>1, <3>2
    <2>2. CASE k \in Audited
        BY <2>2, CallNames
    <2>3. QED
        BY <2>1, <2>2 DEF Task
<1>3. pc = [c \in Call |-> pc[c]]
    BY DEF TypeInv, TypeOK
<1>4. CASE \A c \in CallsOf(k) : ~ Active(c)
    BY <1>1, <1>3, <1>4 DEF Die, vars, stores, world
<1>5. ASSUME NEW c \in CallsOf(k), Active(c) PROVE Crash(c)
    <2>1. pc' = [pc EXCEPT ![c] = "crashed"]
        <3>1. \A d \in Call : (d \in CallsOf(k) /\ Active(d)) <=> d = c
            BY <1>1, <1>2, <1>5
        <3>2. QED
            BY <1>1, <1>3, <3>1 DEF Die
    <2>2. QED
        BY <1>5, <2>1 DEF Die, Crash, Goto
<1>6. QED
    BY <1>4, <1>5

\* The requests of the gates are among those a caller may make, and a file inside the
\* workspace is written.
LEMMA GateRequests ==
    /\ \A k \in Todo : \A text \in {"todo", "created", "error"} :
          /\ envelope(k, text) \in Request
          /\ envelope(k, text).op = "write_file" /\ envelope(k, text).content = text
          /\ envelope(k, text).target = AuditTarget[k] /\ AuditTarget[k] \in Workspace
          /\ envelope(k, text).tool = "todo.create"
          /\ envelope(k, text).action_id = RecordOf[k]
    /\ \A a \in Audited : \A r \in AuditRequests :
          /\ audit_envelope(a, r) \in Request
          /\ audit_envelope(a, r).op = "write_file"
          /\ audit_envelope(a, r).action_id = RecordOf[a]
          /\ audit_envelope(a, r).target = r.target
          /\ \A k \in Todo : audit_envelope(a, r).target # AuditTarget[k]
<1>1. \A r \in AuditRequests : r \in RequestType
    BY RecordsAssumption
<1>2. \A a \in Audited : \A r \in AuditRequests :
          /\ audit_envelope(a, r).op = r.op
          /\ audit_envelope(a, r).action_id = RecordOf[a]
          /\ audit_envelope(a, r).target = r.target
    BY <1>1 DEF audit_envelope, RequestType
<1>3. QED
    BY <1>2, GateRequestsAssumption, RecordsAssumption DEF envelope

LEMMA WriteFileBegins ==
    ASSUME NEW c \in Call, NEW r \in Request, WriteFile(c, r)
    PROVE  Begin(c) /\ Step(c)
BY DEF WriteFile, Begin, Step

\* The gates use ToolProxy and change nothing of it themselves.
LEMMA GatesUseToolProxy ==
    ASSUME TypeInv, PlaceInv, [GNext]_gvars
    PROVE  UNCHANGED vars \/ \E c \in Call : Step(c)
<1>1. CASE UNCHANGED gvars
    BY <1>1 DEF gvars
<1>2. ASSUME NEW k \in Todo, TodoStep(k) PROVE UNCHANGED vars \/ \E c \in Call : Step(c)
    BY <1>2, WriteFileBegins, GateRequests, CallNames
       DEF TodoStep, before_create_todo, before_returns, ProviderCreates, ProviderRaises,
           after_create_todo_success, success_returns, after_create_todo_failure,
           failure_returns
<1>3. ASSUME NEW a \in Audited, AuditStep(a) PROVE UNCHANGED vars \/ \E c \in Call : Step(c)
    BY <1>3, WriteFileBegins, GateRequests, CallNames
       DEF AuditStep, audit_begins, audit_returns
<1>4. ASSUME NEW c \in Call, Proceed(c) PROVE Step(c)
    BY <1>4 DEF Step
<1>5. ASSUME NEW k \in Task, Die(k) PROVE UNCHANGED vars \/ \E c \in Call : Step(c)
    BY <1>5, DieIsCrash DEF Step, CallsOf
<1>6. CASE StartReconcile \/ LookUp \/ LookUpFails \/ EndReconcile
    BY <1>6 DEF StartReconcile, LookUp, LookUpFails, EndReconcile
<1>7. QED
    BY <1>1, <1>2, <1>3, <1>4, <1>5, <1>6 DEF GNext

\* What a call of write_file does when it begins: it is refused, or it is under way.
LEMMA WriteFileStep ==
    ASSUME TypeInv, NEW c \in Call, NEW r, WriteFile(c, r)
    PROVE  /\ pc[c] = "new" /\ pc'[c] # "new" /\ req'[c] = r
           /\ pc'[c] \notin {"replace", "closing_hash", "closing_append"}
           /\ \A d \in Call : d # c => pc'[d] = pc[d] /\ req'[d] = req[d] /\ result'[d] = result[d]
           /\ UNCHANGED <<stores, world, prev, observed>>
           /\ \/ result'[c] = result[c] /\ pc'[c] # "done"
              \/ result'[c] = "REJECTED" /\ pc'[c] = "done"
              \/ result'[c] = "Raised" /\ pc'[c] = "done" /\ OutsideWorkspace(r)
BY DEF WriteFile, RefuseOutsideWorkspace, RejectAtGate, Admit, Submit, MayBegin, Return, Goto,
    TypeInv, TypeOK

\* The places change in the steps of the tasks alone.
LEMMA GoneOn ==
    ASSUME NEW k \in Task, NEW where, PlaceInv, GoOn(k, where)
    PROVE  /\ step'[k] = where /\ \A m \in Task : m # k => step'[m] = step[m]
           /\ DOMAIN step' = Task /\ step' = [m \in Task |-> step'[m]]
BY DEF GoOn, PlaceInv

\* One task moves: the others keep their places, if their calls do.
LEMMA OtherPlaces ==
    ASSUME PlaceInv, NEW k \in Task,
           \A m \in Task : m # k => step'[m] = step[m],
           DOMAIN step' = Task, step' = [m \in Task |-> step'[m]],
           \A c \in Call : c \notin CallsOf(k) => pc'[c] = pc[c],
           k \in Todo => TodoPlaced(k)', k \in Audited => AuditPlaced(k)'
    PROVE  PlaceInv'
<1>1. ASSUME NEW m \in Todo, m # k PROVE TodoPlaced(m)'
    <2>1. before(m) \notin CallsOf(k) /\ after(m) \notin CallsOf(k)
        BY <1>1, CallNames DEF Task
    <2>2. step'[m] = step[m] /\ pc'[before(m)] = pc[before(m)] /\ pc'[after(m)] = pc[after(m)]
        BY <1>1, <2>1, CallNames
    <2>3. QED
        BY <2>2 DEF PlaceInv, TodoPlaced, Active
<1>2. ASSUME NEW m \in Audited, m # k PROVE AuditPlaced(m)'
    <2>1. audit(m) \notin CallsOf(k)
        BY <1>2, CallNames DEF Task
    <2>2. step'[m] = step[m] /\ pc'[audit(m)] = pc[audit(m)]
        BY <1>2, <2>1, CallNames
    <2>3. QED
        BY <2>2 DEF PlaceInv, AuditPlaced, Active
<1>3. QED
    BY <1>1, <1>2 DEF PlaceInv

LEMMA InitPlaceInv == GInit => PlaceInv
BY CallNames DEF GInit, Init, PlaceInv, TodoPlaced, AuditPlaced, TodoPlace, Active, ActivePC

\* The steps a todo takes between its calls.
LEMMA TodoMoves ==
    ASSUME TypeInv, PlaceInv, NEW k \in Todo, TodoStep(k)
    PROVE  PlaceInv'
<1> USE CallNames
<1>0. TodoPlaced(k) /\ k \in Task
    BY DEF PlaceInv
<1>1. /\ \A m \in Task : m # k => step'[m] = step[m]
      /\ DOMAIN step' = Task /\ step' = [m \in Task |-> step'[m]]
    BY <1>0, GoneOn DEF TodoStep, before_create_todo, before_returns, ProviderCreates,
        ProviderRaises, after_create_todo_success, success_returns, after_create_todo_failure,
        failure_returns, Finish
<1>2. \A c \in Call : c \notin CallsOf(k) => pc'[c] = pc[c]
    BY WriteFileStep DEF TodoStep, before_create_todo, before_returns, ProviderCreates,
        ProviderRaises, after_create_todo_success, success_returns, after_create_todo_failure,
        failure_returns, vars
<1>3. TodoPlaced(k)'
    <2> USE DEF TodoPlaced, TodoPlace, Active, ActivePC
    <2>1. CASE before_create_todo(k)
        BY <1>0, <2>1, GoneOn, WriteFileStep DEF before_create_todo
    <2>2. CASE before_returns(k)
        BY <1>0, <2>2, GoneOn DEF before_returns, Finish, vars
    <2>3. CASE ProviderCreates(k) \/ ProviderRaises(k)
        BY <1>0, <2>3, GoneOn DEF ProviderCreates, ProviderRaises, vars
    <2>4. CASE after_create_todo_success(k) \/ after_create_todo_failure(k)
        BY <1>0, <2>4, GoneOn, WriteFileStep
           DEF after_create_todo_success, after_create_todo_failure
    <2>5. CASE success_returns(k) \/ failure_returns(k)
        BY <1>0, <2>5, GoneOn DEF success_returns, failure_returns, Finish, vars
    <2>6. QED
        BY <2>1, <2>2, <2>3, <2>4, <2>5 DEF TodoStep
<1>4. k \in Audited => AuditPlaced(k)'
    BY TaskAssumption
<1>5. QED
    BY <1>0, <1>1, <1>2, <1>3, <1>4, OtherPlaces

LEMMA AuditMoves ==
    ASSUME TypeInv, PlaceInv, NEW a \in Audited, AuditStep(a)
    PROVE  PlaceInv'
<1> USE CallNames
<1>0. AuditPlaced(a) /\ a \in Task
    BY DEF PlaceInv
<1>1. /\ \A m \in Task : m # a => step'[m] = step[m]
      /\ DOMAIN step' = Task /\ step' = [m \in Task |-> step'[m]]
    BY <1>0, GoneOn DEF AuditStep, audit_begins, audit_returns, Finish
<1>2. \A c \in Call : c \notin CallsOf(a) => pc'[c] = pc[c]
    BY WriteFileStep DEF AuditStep, audit_begins, audit_returns, vars
<1>3. AuditPlaced(a)'
    <2> USE DEF AuditPlaced, Active, ActivePC
    <2>1. CASE audit_begins(a)
        BY <1>0, <2>1, GoneOn, WriteFileStep DEF audit_begins
    <2>2. CASE audit_returns(a)
        BY <1>0, <2>2, GoneOn DEF audit_returns, Finish, vars
    <2>3. QED
        BY <2>1, <2>2 DEF AuditStep
<1>4. a \in Todo => TodoPlaced(a)'
    BY TaskAssumption
<1>5. QED
    BY <1>0, <1>1, <1>2, <1>3, <1>4, OtherPlaces

LEMMA PlaceStep ==
    ASSUME TypeInv, PlaceInv, [GNext]_gvars
    PROVE  PlaceInv'
<1> USE CallNames
<1>1. CASE UNCHANGED <<vars, step>>
    BY <1>1 DEF vars, PlaceInv, TodoPlaced, AuditPlaced, Active
<1>2. ASSUME NEW c \in Call, Proceed(c), UNCHANGED <<sagas, run>> PROVE PlaceInv'
    <2>1. Active(c) /\ pc'[c] \notin {"new", "crashed"} /\ \A d \in Call : d # c => pc'[d] = pc[d]
        BY <1>2, ProceedIsActive, OthersStay DEF Step
    <2>2. step' = step
        BY <1>2 DEF sagas
    <2>3. ASSUME NEW k \in Todo PROVE TodoPlaced(k)'
        <3>1. TodoPlaced(k)
            BY DEF PlaceInv
        <3>2. QED
            BY <2>1, <2>2, <3>1 DEF TodoPlaced, TodoPlace, Active, ActivePC
    <2>4. ASSUME NEW a \in Audited PROVE AuditPlaced(a)'
        <3>1. AuditPlaced(a)
            BY DEF PlaceInv
        <3>2. QED
            BY <2>1, <2>2, <3>1 DEF AuditPlaced, Active, ActivePC
    <2>5. QED
        BY <2>2, <2>3, <2>4 DEF PlaceInv
<1>3. ASSUME NEW k \in Task, Die(k) PROVE PlaceInv'
    <2>1. /\ step'[k] = "crashed" /\ \A m \in Task : m # k => step'[m] = step[m]
          /\ DOMAIN step' = Task /\ step' = [m \in Task |-> step'[m]]
        BY <1>3, GoneOn DEF Die
    <2>2. \A c \in Call : c \notin CallsOf(k) => pc'[c] = pc[c]
        BY <1>3 DEF Die
    <2>3. \A c \in CallsOf(k) : ~ Active(c)'
        BY <1>3 DEF Die, CallsOf, Active, ActivePC
    <2>4. k \in Todo => TodoPlaced(k)'
        BY <2>1, <2>3 DEF TodoPlaced, TodoPlace, Active
    <2>5. k \in Audited => AuditPlaced(k)'
        BY <2>1, <2>3 DEF AuditPlaced, Active
    <2>6. QED
        BY <2>1, <2>2, <2>4, <2>5, OtherPlaces
<1>4. CASE StartReconcile \/ LookUp \/ LookUpFails \/ EndReconcile
    BY <1>1, <1>4 DEF StartReconcile, LookUp, LookUpFails, EndReconcile, sagas
<1>5. QED
    BY <1>1, <1>2, <1>3, <1>4, TodoMoves, AuditMoves DEF GNext, gvars, sagas

-----------------------------------------------------------------------------
(* The gates implement ToolProxy: its invariant holds in their histories    *)

\* Whatever ToolProxy promises its callers, it promises the gates.
THEOREM GatesAreCallers == GSpec => Spec
<1>1. GInit => TypeInv /\ PlaceInv /\ Init
    BY InitTypeInv, InitPlaceInv DEF GInit
<1>2. TypeInv /\ PlaceInv /\ [GNext]_gvars => [Next]_vars
    BY GatesUseToolProxy DEF Next, Step
<1>3. TypeInv /\ PlaceInv /\ [GNext]_gvars => TypeInv' /\ PlaceInv'
    BY <1>2, TypeStep, PlaceStep
<1>4. QED
    BY <1>1, <1>2, <1>3, PTL DEF GSpec, Spec

-----------------------------------------------------------------------------
(* What a call was asked and what it answered                               *)

\* A call has an answer when it is done, one that got past the store has its intent in
\* the log, and the calls are not the reconciliation.
Answered(c) ==
    /\ result[c] # "none" <=> pc[c] = "done"
    /\ result[c] \in {"SUCCESS", "FAILURE", "UNCONFIRMED"} => Logged(c, "intent_pending")
    /\ ~ Logged(c, "reconciliation_observed")

AnswerInv == \A c \in Call : Answered(c)

LEMMA AnswerStep ==
    ASSUME TypeInv, ProtocolInv, AnswerInv, [Next]_vars
    PROVE  AnswerInv'
<1>0. {"intent_pending", "reconciliation_observed"} \subseteq EventType
    BY DEF EventType
<1>1. CASE UNCHANGED vars
    BY <1>1 DEF vars, AnswerInv, Answered, Logged
<1>2. ASSUME NEW c \in Call, Step(c), NEW d \in Call PROVE Answered(d)'
    <2>1. Answered(d) /\ CallInv(d)
        BY DEF AnswerInv, ProtocolInv
    <2>2. CASE d # c
        <3>1. pc'[d] = pc[d] /\ result'[d] = result[d]
            BY <1>2, <2>2, OthersStay
        <3>2. /\ Logged(d, "intent_pending") => Logged(d, "intent_pending")'
              /\ Logged(d, "reconciliation_observed")' => Logged(d, "reconciliation_observed")
            BY <1>0, <1>2, <2>2, CallStep, LogStep DEF Prepares, Performs, Closes, Crashes
        <3>3. QED
            BY <2>1, <3>1, <3>2 DEF Answered
    <2>3. CASE d = c
        <3>1. /\ events' = events => (Logged(c, "intent_pending")' <=> Logged(c, "intent_pending"))
              /\ Closes(c) => (Logged(c, "intent_pending") => Logged(c, "intent_pending")')
              /\ events' = events \/ RecordsIntent(c) \/ Closes(c) =>
                    (Logged(c, "reconciliation_observed")' => Logged(c, "reconciliation_observed"))
            BY <1>0, <1>2, LogStep DEF ClosingType
        <3>2. CASE Prepares(c)
            BY <2>1, <2>3, <3>1, <3>2
               DEF Prepares, Answered, CallInv, FirstPhaseIsClean, BeforeIntent
        <3>3. CASE RecordsIntent(c)
            BY <2>1, <2>3, <3>1, <3>3
               DEF RecordsIntent, Answered, CallInv, FirstPhaseIsClean, BeforeIntent
        <3>4. CASE Performs(c)
            BY <2>1, <2>3, <3>1, <3>4
               DEF Performs, Answered, CallInv, SecondPhaseIsOpen, Performing, Closing
        <3>5. CASE Closes(c)
            BY <2>1, <2>3, <3>1, <3>5
               DEF Closes, Answered, CallInv, SecondPhaseIsOpen, Performing, Closing,
                   ClosingResult
        <3>6. CASE Crashes(c)
            BY <2>1, <2>3, <3>1, <3>6
               DEF Crashes, Answered, Active, ActivePC
        <3>7. QED
            BY <1>2, <3>2, <3>3, <3>4, <3>5, <3>6, CallStep
    <2>4. QED
        BY <2>2, <2>3
<1>3. QED
    BY <1>1, <1>2 DEF AnswerInv, Next, AllEnded, Step

LEMMA InitAnswerInv == Init => AnswerInv
BY DEF Init, AnswerInv, Answered, Logged

\* Writing a file without a decision store raises nothing once it is under way.
LEMMA FileWritesDoNotRaise ==
    ASSUME TypeInv, NEW c \in Call, Proceed(c), req[c].op = "write_file",
           pc[c] # "decision_hash"
    PROVE  /\ result'[c] = "Raised" => result[c] = "Raised"
           /\ pc'[c] # "decision_hash"
<1> USE DEF Goto, Return, Observe, TypeInv, TypeOK
<1>1. CASE Prepare(c)
    BY <1>1 DEF Prepare, ReadDecisionHash, RecordDecision, ReadIntentHash,
        RejectUnrecorded, AppendIntent
<1>2. CASE Execute(c)
    BY <1>2 DEF Execute, Executing, WriteTmp, WriteTmpFails, ReplaceTarget, ReplaceFails,
        UnlinkTmp, MakeOneDirectory, DirectoryExists, MkdirFails, ShellCompletes, ShellTimesOut,
        ShellFailsToStart, HttpAnswers, HttpFails, HttpEscapes
<1>3. CASE Close(c)
    BY <1>3 DEF Close, ReadClosingHash, AppendClosing, LoseClosing, ClosingResult
<1>4. QED
    BY <1>1, <1>2, <1>3 DEF Proceed

TodoAsked(k) ==
    /\ pc[before(k)] # "new" => req[before(k)] = envelope(k, "todo")
    /\ pc[after(k)] # "new" => \E text \in {"created", "error"} : req[after(k)] = envelope(k, text)
    /\ \A c \in CallsOf(k) : result[c] # "Raised" /\ pc[c] # "decision_hash"

AuditAsked(a) ==
    pc[audit(a)] # "new" => \E r \in AuditRequests : req[audit(a)] = audit_envelope(a, r)

AskedInv == (\A k \in Todo : TodoAsked(k)) /\ (\A a \in Audited : AuditAsked(a))

\* The ways ToolProxy moves under the gates.
Writes(c) ==
    \/ \E k \in Todo : c = before(k) /\ WriteFile(c, envelope(k, "todo"))
    \/ \E k \in Todo : c = after(k) /\
          \E text \in {"created", "error"} : WriteFile(c, envelope(k, text))
    \/ \E a \in Audited : c = audit(a) /\
          \E r \in AuditRequests : WriteFile(c, audit_envelope(a, r))

LEMMA CallMoves ==
    ASSUME TypeInv, PlaceInv, [GNext]_gvars
    PROVE  UNCHANGED vars \/ \E c \in Call : Proceed(c) \/ Crash(c) \/ Writes(c)
<1>1. CASE UNCHANGED gvars
    BY <1>1 DEF gvars
<1>2. ASSUME NEW k \in Todo, TodoStep(k) PROVE UNCHANGED vars \/ \E c \in Call : Writes(c)
    BY <1>2, CallNames
       DEF TodoStep, before_create_todo, before_returns, ProviderCreates, ProviderRaises,
           after_create_todo_success, success_returns, after_create_todo_failure,
           failure_returns, Writes
<1>3. ASSUME NEW a \in Audited, AuditStep(a) PROVE UNCHANGED vars \/ \E c \in Call : Writes(c)
    BY <1>3, CallNames DEF AuditStep, audit_begins, audit_returns, Writes
<1>4. ASSUME NEW k \in Task, Die(k) PROVE UNCHANGED vars \/ \E c \in Call : Crash(c)
    BY <1>4, DieIsCrash DEF CallsOf
<1>5. CASE StartReconcile \/ LookUp \/ LookUpFails \/ EndReconcile
    BY <1>5 DEF StartReconcile, LookUp, LookUpFails, EndReconcile
<1>6. QED
    BY <1>1, <1>2, <1>3, <1>4, <1>5 DEF GNext

LEMMA InitAskedInv == Init => AskedInv
BY CallNames DEF Init, AskedInv, TodoAsked, AuditAsked

\* A step of one call, seen by the task of another.
LEMMA OtherTaskAsked ==
    ASSUME AskedInv, NEW c \in Call,
           \A d \in Call : d # c => pc'[d] = pc[d] /\ req'[d] = req[d] /\ result'[d] = result[d],
           \A k \in Todo : c \in CallsOf(k) => TodoAsked(k)',
           \A a \in Audited : c \in CallsOf(a) => AuditAsked(a)'
    PROVE  AskedInv'
<1> USE CallNames
<1>1. ASSUME NEW k \in Todo, c \notin CallsOf(k) PROVE TodoAsked(k)'
    <2>1. \A d \in CallsOf(k) : pc'[d] = pc[d] /\ req'[d] = req[d] /\ result'[d] = result[d]
        BY <1>1 DEF CallsOf
    <2>2. QED
        BY <2>1 DEF AskedInv, TodoAsked, CallsOf
<1>2. ASSUME NEW a \in Audited, c \notin CallsOf(a) PROVE AuditAsked(a)'
    BY <1>2 DEF AskedInv, AuditAsked
<1>3. QED
    BY <1>1, <1>2 DEF AskedInv

LEMMA AskedStep ==
    ASSUME TypeInv, PlaceInv, AskedInv, [GNext]_gvars
    PROVE  AskedInv'
<1> USE CallNames
<1>1. CASE UNCHANGED vars
    BY <1>1 DEF vars, AskedInv, TodoAsked, AuditAsked, CallsOf
<1>2. ASSUME NEW c \in Call, Proceed(c) \/ Crash(c) PROVE AskedInv'
    <2>1. \A d \in Call : d # c => pc'[d] = pc[d] /\ req'[d] = req[d] /\ result'[d] = result[d]
        BY <1>2, OthersStay DEF Step
    <2>2. /\ pc[c] # "new" /\ req'[c] = req[c]
          /\ Crash(c) => result'[c] = result[c] /\ pc'[c] = "crashed"
        BY <1>2, ProceedIsActive DEF Crash, Active, ActivePC, Goto, TypeInv, TypeOK
    <2>3. ASSUME NEW k \in Todo, c \in CallsOf(k) PROVE TodoAsked(k)'
        <3>1. TodoAsked(k) /\ c \in {before(k), after(k)}
            BY <2>3 DEF AskedInv
        <3>2. req[c].op = "write_file"
            BY <2>2, <3>1, GateRequests DEF TodoAsked
        <3>3. result'[c] # "Raised" /\ pc'[c] # "decision_hash"
            BY <1>2, <2>2, <3>1, <3>2, FileWritesDoNotRaise DEF TodoAsked
        <3>4. QED
            BY <2>1, <2>2, <3>1, <3>3 DEF TodoAsked
    <2>4. ASSUME NEW a \in Audited, c \in CallsOf(a) PROVE AuditAsked(a)'
        <3>1. AuditAsked(a) /\ c = audit(a)
            BY <2>4 DEF AskedInv
        <3>2. QED
            BY <2>2, <3>1 DEF AuditAsked
    <2>5. QED
        BY <2>1, <2>3, <2>4, OtherTaskAsked
<1>3. ASSUME NEW c \in Call, Writes(c) PROVE AskedInv'
    <2>1. PICK r : /\ WriteFile(c, r)
                   /\ \/ \E k \in Todo : c = before(k) /\ r = envelope(k, "todo")
                      \/ \E k \in Todo : c = after(k) /\
                            \E text \in {"created", "error"} : r = envelope(k, text)
                      \/ \E a \in Audited : c = audit(a) /\
                            \E x \in AuditRequests : r = audit_envelope(a, x)
        BY <1>3 DEF Writes
    <2>2. /\ pc[c] = "new" /\ pc'[c] # "new" /\ req'[c] = r
          /\ \A d \in Call : d # c => pc'[d] = pc[d] /\ req'[d] = req[d] /\ result'[d] = result[d]
          /\ result'[c] = "Raised" /\ result[c] # "Raised" => OutsideWorkspace(r)
        BY <2>1, WriteFileStep
    <2>3. pc'[c] # "decision_hash"
        BY <2>1, RecordsAssumption
           DEF WriteFile, RefuseOutsideWorkspace, RejectAtGate, Admit, Return, Goto, TypeInv, TypeOK
    <2>4. ASSUME NEW k \in Todo, c \in CallsOf(k) PROVE TodoAsked(k)'
        <3>1. TodoAsked(k) /\ c \in {before(k), after(k)}
            BY <2>4 DEF AskedInv
        <3>2. /\ c = before(k) => r = envelope(k, "todo")
              /\ c = after(k) => \E text \in {"created", "error"} : r = envelope(k, text)
            BY <2>1, <3>1
        <3>3. ~ OutsideWorkspace(r)
            BY <3>1, <3>2, GateRequests DEF OutsideWorkspace
        <3>4. QED
            BY <2>2, <2>3, <3>1, <3>2, <3>3 DEF TodoAsked
    <2>5. ASSUME NEW a \in Audited, c \in CallsOf(a) PROVE AuditAsked(a)'
        <3>1. c = audit(a) /\ \E x \in AuditRequests : r = audit_envelope(a, x)
            BY <2>1, <2>5
        <3>2. QED
            BY <2>2, <3>1 DEF AuditAsked
    <2>6. QED
        BY <2>2, <2>4, <2>5, OtherTaskAsked
<1>4. QED
    BY <1>1, <1>2, <1>3, CallMoves

-----------------------------------------------------------------------------
(* The todo at the provider                                                 *)

\* Done is done: a call that has answered does not answer again, and no row is lost.
LEMMA DoneStays ==
    ASSUME TypeInv, [Next]_vars, NEW c \in Call
    PROVE  /\ pc[c] = "done" => pc'[c] = "done" /\ result'[c] = result[c]
           /\ \A type \in EventType : Logged(c, type) => Logged(c, type)'
           /\ pc[c] = "done" => \A type \in EventType : Logged(c, type)' <=> Logged(c, type)
<1>1. CASE UNCHANGED vars
    BY <1>1 DEF vars, Logged
<1>2. ASSUME NEW d \in Call, Step(d)
      PROVE  /\ pc[c] = "done" => pc'[c] = "done" /\ result'[c] = result[c] /\ c # d
             /\ \A type \in EventType : Logged(c, type) => Logged(c, type)'
             /\ pc[c] = "done" => \A type \in EventType : Logged(c, type)' <=> Logged(c, type)
    <2>1. pc[d] # "done"
        BY <1>2, CallStep DEF Prepares, RecordsIntent, Performs, Closes, Crashes, BeforeIntent,
            Performing, Closing, Active, ActivePC
    <2>2. c # d => pc'[c] = pc[c] /\ result'[c] = result[c]
        BY <1>2, OthersStay
    <2>3. /\ \A type \in EventType : Logged(c, type) => Logged(c, type)'
          /\ c # d => \A type \in EventType : Logged(c, type)' <=> Logged(c, type)
        BY <1>2, CallStep, LogStep DEF Prepares, Performs, Closes, Crashes
    <2>4. QED
        BY <2>1, <2>2, <2>3
<1>3. QED
    BY <1>1, <1>2 DEF Next, AllEnded, Step

\* The provider is called after the intent was recorded and the gates were passed.
Intended(k) == /\ pc[before(k)] = "done"
               /\ result[before(k)] \in {"SUCCESS", "FAILURE", "UNCONFIRMED"}

SagaHolds(k) ==
    /\ step[k] \in {"create", "created", "error", "commit", "record"} => Intended(k)
    /\ step[k] \in {"created", "commit"} => k \in created
    /\ k \in created => Intended(k) /\ step[k] \notin {"new", "before", "create"}
    /\ told[k] \in {"none", "denied", "success", "unconfirmed", "failed"}
    /\ told[k] # "none" => step[k] = "end"
    /\ told[k] \in {"success", "unconfirmed"} => k \in created
    /\ told[k] = "unconfirmed" => pc[after(k)] = "done" /\ result[after(k)] = "UNCONFIRMED"
    /\ told[k] = "denied" => /\ k \notin created
                             /\ pc[before(k)] = "done" /\ result[before(k)] = "REJECTED"

SagaInv == /\ created \subseteq Todo
           /\ DOMAIN told = Task /\ told = [k \in Task |-> told[k]]
           /\ \A k \in Todo : SagaHolds(k)

LEMMA InitSagaInv == GInit => SagaInv
BY CallNames DEF GInit, SagaInv, SagaHolds

\* A todo that does not move keeps what is true of it, whatever the calls do.
LEMMA SagaStays ==
    ASSUME TypeInv, [Next]_vars, NEW k \in Todo, SagaHolds(k),
           step'[k] = step[k], told'[k] = told[k], k \in created' <=> k \in created
    PROVE  SagaHolds(k)'
<1>1. \A c \in CallsOf(k) : pc[c] = "done" => pc'[c] = "done" /\ result'[c] = result[c]
    BY DoneStays DEF CallsOf
<1>2. /\ pc[before(k)] = "done" => pc'[before(k)] = "done" /\ result'[before(k)] = result[before(k)]
      /\ pc[after(k)] = "done" => pc'[after(k)] = "done" /\ result'[after(k)] = result[after(k)]
    BY <1>1, CallNames
<1>3. QED
    BY <1>2 DEF SagaHolds, Intended

LEMMA SagaStep ==
    ASSUME TypeInv, PlaceInv, AskedInv, AnswerInv, SagaInv, [GNext]_gvars
    PROVE  SagaInv'
<1> USE CallNames
<1>0. [Next]_vars
    BY GatesUseToolProxy DEF Next, Step
<1>1. CASE UNCHANGED sagas
    BY <1>0, <1>1, SagaStays DEF sagas, SagaInv
<1>2. ASSUME NEW k \in Todo, TodoStep(k) PROVE SagaInv'
    <2>0. SagaHolds(k) /\ k \in Task
        BY DEF SagaInv
    <2>1. /\ \A m \in Task : m # k => step'[m] = step[m] /\ told'[m] = told[m]
          /\ DOMAIN told' = Task /\ told' = [m \in Task |-> told'[m]]
          /\ created' \in {created, created \cup {k}}
        BY <1>2, <2>0, GoneOn
           DEF SagaInv, TodoStep, before_create_todo, before_returns, ProviderCreates,
               ProviderRaises, after_create_todo_success, success_returns,
               after_create_todo_failure, failure_returns, Finish
    <2>2. \A m \in Todo : m # k => SagaHolds(m)'
        BY <1>0, <2>1, SagaStays DEF SagaInv
    <2>3. SagaHolds(k)'
        <3> USE <2>0 DEF SagaHolds, Intended
        <3>1. CASE before_create_todo(k)
            BY <3>1, GoneOn, WriteFileStep, DoneStays, <1>0 DEF before_create_todo
        <3>2. CASE before_returns(k)
            <4>1. Answered(before(k)) /\ TodoAsked(k) /\ before(k) \in CallsOf(k)
                BY DEF AnswerInv, AskedInv
            <4>2. result[before(k)] \in {"REJECTED", "SUCCESS", "FAILURE", "UNCONFIRMED"}
                BY <3>2, <4>1 DEF before_returns, Answered, TodoAsked, TypeInv, TypeOK, Result
            <4>3. QED
                BY <3>2, <4>2, GoneOn DEF before_returns, Finish, vars, SagaInv
        <3>3. CASE ProviderCreates(k) \/ ProviderRaises(k)
            BY <3>3, GoneOn DEF ProviderCreates, ProviderRaises, vars
        <3>4. CASE after_create_todo_success(k) \/ after_create_todo_failure(k)
            BY <3>4, GoneOn, DoneStays, <1>0
               DEF after_create_todo_success, after_create_todo_failure
        <3>5. CASE success_returns(k) \/ failure_returns(k)
            BY <3>5, GoneOn DEF success_returns, failure_returns, Finish, vars, SagaInv
        <3>6. QED
            BY <1>2, <3>1, <3>2, <3>3, <3>4, <3>5 DEF TodoStep
    <2>4. QED
        BY <2>1, <2>2, <2>3 DEF SagaInv
<1>3. ASSUME NEW a \in Audited, AuditStep(a) PROVE SagaInv'
    <2>1. /\ \A m \in Task : m # a => step'[m] = step[m] /\ told'[m] = told[m]
          /\ DOMAIN told' = Task /\ told' = [m \in Task |-> told'[m]]
          /\ created' = created
        BY <1>3, GoneOn DEF SagaInv, AuditStep, audit_begins, audit_returns, Finish
    <2>2. QED
        BY <1>0, <2>1, SagaStays DEF SagaInv
<1>4. ASSUME NEW k \in Task, Die(k) PROVE SagaInv'
    <2>1. /\ \A m \in Task : m # k => step'[m] = step[m]
          /\ step'[k] = "crashed" /\ told' = told /\ created' \in {created, created \cup {k}}
          /\ created' # created => step[k] = "create"
        BY <1>4, GoneOn DEF Die
    <2>2. \A m \in Todo : m # k => SagaHolds(m)'
        BY <1>0, <2>1, SagaStays DEF SagaInv
    <2>3. ASSUME k \in Todo PROVE SagaHolds(k)'
        <3>1. SagaHolds(k) /\ step[k] # "end"
            BY <1>4, <2>3 DEF SagaInv, Die, UnderWay
        <3>2. pc[before(k)] = "done" => pc'[before(k)] = "done" /\ result'[before(k)] = result[before(k)]
            BY <1>0, <2>3, DoneStays
        <3>3. QED
            BY <2>1, <3>1, <3>2 DEF SagaHolds, Intended
    <2>4. k \in Audited => created' = created
        <3>1. k \in Audited => step[k] # "create"
            BY DEF PlaceInv, AuditPlaced
        <3>2. QED
            BY <2>1, <3>1
    <2>5. QED
        BY <2>1, <2>2, <2>3, <2>4 DEF SagaInv, Task
<1>5. QED
    BY <1>1, <1>2, <1>3, <1>4 DEF GNext, gvars, StartReconcile, LookUp, LookUpFails, EndReconcile

GatesInv == IInv /\ OnlyCallsWrite /\ PlaceInv /\ AskedInv /\ AnswerInv /\ SagaInv

LEMMA GatesInvStep ==
    ASSUME GatesInv, [GNext]_gvars
    PROVE  GatesInv' /\ [Next]_vars
<1>1. TypeInv /\ ProtocolInv /\ [Next]_vars
    BY GatesUseToolProxy DEF GatesInv, IInv, Next, Step
<1>2. QED
    BY <1>1, IInvStep, OnlyCallsStep, PlaceStep, AskedStep, AnswerStep, SagaStep DEF GatesInv, IInv

LEMMA InitGatesInv == GInit => GatesInv
BY InitIInv, InitPlaceInv, InitAskedInv, InitAnswerInv, InitSagaInv
   DEF GInit, GatesInv, OnlyCallsWrite, Init

LEMMA GatesInvHolds == GSpec => []GatesInv
BY InitGatesInv, GatesInvStep, PTL DEF GSpec

\* No todo exists at the provider whose intent is not in the log: the provider is not
\* called when the policy, the workspace boundary or the store refused, for any number of
\* todos and wherever their processes die.
THEOREM CreatedAfterIntent == GSpec => []CreatedWasIntended
<1>1. GatesInv => CreatedWasIntended
    <2>1. ASSUME GatesInv, NEW k \in created
          PROVE  Logged(before(k), "intent_pending") /\ result[before(k)] # "REJECTED"
        <3>1. k \in Todo /\ Intended(k)
            BY <2>1 DEF GatesInv, SagaInv, SagaHolds
        <3>2. Answered(before(k))
            BY <2>1, <3>1, CallNames DEF GatesInv, AnswerInv
        <3>3. QED
            BY <3>1, <3>2 DEF Intended, Answered
    <2>2. QED
        BY <2>1 DEF CreatedWasIntended
<1>2. QED
    BY <1>1, GatesInvHolds, PTL

\* What the application is told of its todo is true: a success and an unconfirmed one of
\* todos that exist, a denial of one that does not and left no record.
THEOREM TodoAnswersHold == GSpec => []TodoAnswersAreTrue
<1>1. GatesInv => TodoAnswersAreTrue
    <2>1. ASSUME GatesInv, NEW k \in Todo
          PROVE  /\ told[k] \in {"success", "unconfirmed"} => k \in created
                 /\ told[k] = "denied" => k \notin created /\ ~ Logged(before(k), "intent_pending")
                 /\ told[k] = "unconfirmed" => ~ CallClosed(after(k))
        <3>1. SagaHolds(k) /\ CallInv(before(k)) /\ CallInv(after(k))
            BY <2>1, CallNames DEF GatesInv, IInv, ProtocolInv, SagaInv
        <3>2. QED
            BY <3>1 DEF SagaHolds, CallInv, ResultIsTrue
    <2>2. QED
        BY <2>1 DEF TodoAnswersAreTrue
<1>2. QED
    BY <1>1, GatesInvHolds, PTL

-----------------------------------------------------------------------------
(* The audit files                                                          *)

AuditPath(k) == <<AuditTarget[k], RecordOf[k]>>

\* The record after is about to replace the file, or has done so.
Rewrites(k) == pc[after(k)] = "replace"
Rewrote(k) == \/ pc[after(k)] \in Closing /\ observed[after(k)] = "confirmed"
              \/ Logged(after(k), "execution_committed")

FileTells(k) ==
    /\ tmp[AuditPath(k)] = "created" => k \in created
    /\ fs[AuditTarget[k]] = "created" => k \in created
    /\ pc[after(k)] # "new" => (req[after(k)].content = "created" => k \in created)
    /\ Rewrites(k) => tmp[AuditPath(k)] = req[after(k)].content
    /\ Rewrote(k) => fs[AuditTarget[k]] = req[after(k)].content

FileInv == \A k \in Todo : FileTells(k)

LEMMA AuditPaths ==
    /\ \A k \in Todo : AuditPath(k) \in TmpPath /\ AuditTarget[k] \in Target
    /\ \A k, m \in Todo : AuditTarget[k] = AuditTarget[m] => k = m
    /\ \A k \in Todo : \A text \in {"todo", "created", "error"} :
          tmp_path(envelope(k, text)) = AuditPath(k)
<1>1. \A k \in Todo : \A text \in {"todo", "created", "error"} :
          tmp_path(envelope(k, text)) = AuditPath(k)
    BY DEF tmp_path, envelope, AuditPath
<1>2. \A k \in Todo : AuditPath(k) \in TmpPath
    BY <1>1, GateRequests DEF TmpPath
<1>3. QED
    BY <1>1, <1>2, FilesAssumption, RecordsAssumption

LEMMA InitFileInv == GInit => FileInv
BY AuditPaths, CallNames, GateRequestsAssumption, ContentAssumption
   DEF GInit, Init, FileInv, FileTells, Rewrites, Rewrote, Closing, Logged

\* What is at the provider stays there.
LEMMA CreatedStays ==
    ASSUME [GNext]_gvars
    PROVE  created \subseteq created'
BY DEF GNext, gvars, sagas, TodoStep, before_create_todo, before_returns, ProviderCreates,
    ProviderRaises, after_create_todo_success, success_returns, after_create_todo_failure,
    failure_returns, AuditStep, audit_begins, audit_returns, Die, StartReconcile, LookUp,
    LookUpFails, EndReconcile

\* The record after of a success is asked for when the provider has answered.
LEMMA AfterBegins ==
    ASSUME GatesInv, [GNext]_gvars, NEW k \in Todo,
           pc[after(k)] = "new", pc'[after(k)] # "new", req'[after(k)].content = "created"
    PROVE  k \in created
<1> USE CallNames
<1>0. TypeInv /\ PlaceInv /\ pc'[after(k)] # pc[after(k)]
    BY DEF GatesInv, IInv
<1>1. ASSUME NEW m \in Todo, TodoStep(m) PROVE k \in created
    <2>1. CASE before_create_todo(m)
        BY <1>0, <2>1, WriteFileStep DEF before_create_todo
    <2>2. CASE after_create_todo_success(m)
        <3>1. m = k
            BY <1>0, <2>2, WriteFileStep DEF after_create_todo_success
        <3>2. QED
            BY <2>2, <3>1 DEF after_create_todo_success, GatesInv, SagaInv, SagaHolds
    <2>3. CASE after_create_todo_failure(m)
        <3>1. m = k
            BY <1>0, <2>3, WriteFileStep DEF after_create_todo_failure
        <3>2. req'[after(k)] = envelope(k, "error")
            BY <1>0, <2>3, <3>1, WriteFileStep DEF after_create_todo_failure
        <3>3. QED
            BY <3>2, GateRequests
    <2>4. QED
        BY <1>0, <1>1, <2>1, <2>2, <2>3
           DEF TodoStep, before_returns, ProviderCreates, ProviderRaises, success_returns,
               failure_returns, vars
<1>2. ASSUME NEW a \in Audited, AuditStep(a) PROVE k \in created
    BY <1>0, <1>2, WriteFileStep DEF AuditStep, audit_begins, audit_returns, vars
<1>3. ASSUME NEW c \in Call, Proceed(c) PROVE k \in created
    <2>1. c # after(k)
        BY <1>0, <1>3, ProceedIsActive DEF Active, ActivePC
    <2>2. QED
        BY <1>0, <1>3, <2>1, OthersStay DEF Step
<1>4. ASSUME NEW m \in Task, Die(m) PROVE k \in created
    BY <1>0, <1>4 DEF Die, Active, ActivePC
<1>5. QED
    BY <1>0, <1>1, <1>2, <1>3, <1>4
       DEF GNext, gvars, vars, StartReconcile, LookUp, LookUpFails, EndReconcile

\* A call that writes a file changes its target by the rename alone.
LEMMA FileStep ==
    ASSUME TypeInv, NEW c \in Call, Proceed(c), req[c].op = "write_file"
    PROVE  fs' = fs \/ ReplaceTarget(c)
<1>1. CASE Prepare(c)
    BY <1>1 DEF Prepare, ReadDecisionHash, RecordDecision, ReadIntentHash, RejectUnrecorded,
        AppendIntent, world
<1>2. CASE Execute(c)
    BY <1>2 DEF Execute, Executing, WriteTmp, WriteTmpFails, ReplaceFails, UnlinkTmp,
        MakeOneDirectory, DirectoryExists, MkdirFails, ShellCompletes, ShellTimesOut,
        ShellFailsToStart, HttpAnswers, HttpFails, HttpEscapes, world
<1>3. CASE Close(c)
    BY <1>3 DEF Close, ReadClosingHash, AppendClosing, LoseClosing, world
<1>4. QED
    BY <1>1, <1>2, <1>3 DEF Proceed

\* Calls of other tasks leave the audit file of a todo, and its temporary file, alone.
LEMMA OthersLeaveFile ==
    ASSUME GatesInv, NEW c \in Call, Proceed(c), NEW k \in Todo, c \notin CallsOf(k)
    PROVE  /\ tmp'[AuditPath(k)] = tmp[AuditPath(k)]
           /\ fs'[AuditTarget[k]] = fs[AuditTarget[k]]
<1> USE CallNames
<1>0. TypeInv /\ AskedInv
    BY DEF GatesInv, IInv
<1>1. pc[c] # "new"
    BY <1>0, ProceedIsActive DEF Active, ActivePC
<1>2. req[c].op = "write_file" /\ req[c].target # AuditTarget[k]
    <2>1. ASSUME NEW m \in Todo, c \in CallsOf(m) PROVE req[c].op = "write_file" /\ req[c].target # AuditTarget[k]
        <3>1. \E text \in {"todo", "created", "error"} : req[c] = envelope(m, text)
            BY <1>0, <1>1, <2>1 DEF AskedInv, TodoAsked
        <3>2. m # k
            BY <2>1
        <3>3. QED
            BY <3>1, <3>2, GateRequests, AuditPaths
    <2>2. ASSUME NEW a \in Audited, c = audit(a) PROVE req[c].op = "write_file" /\ req[c].target # AuditTarget[k]
        <3>1. \E r \in AuditRequests : req[c] = audit_envelope(a, r)
            BY <1>0, <1>1, <2>2 DEF AskedInv, AuditAsked
        <3>2. QED
            BY <3>1, GateRequests
    <2>3. QED
        BY <2>1, <2>2
<1>3. AuditPath(k) # tmp_path(req[c])
    BY <1>2 DEF AuditPath, tmp_path
<1>4. tmp'[AuditPath(k)] = tmp[AuditPath(k)]
    BY <1>0, <1>3, TmpIsOwn, AuditPaths DEF Step
<1>5. fs'[AuditTarget[k]] = fs[AuditTarget[k]]
    <2>1. CASE fs' = fs
        BY <2>1
    <2>2. CASE ReplaceTarget(c)
        BY <1>0, <1>2, <2>2, AuditPaths DEF ReplaceTarget, TypeInv, TypeOK
    <2>3. QED
        BY <1>0, <1>2, <2>1, <2>2, FileStep
<1>6. QED
    BY <1>4, <1>5

\* What a call that writes a file does to its target and its temporary file.
LEMMA OwnFileStep ==
    ASSUME IInv, NEW c \in Call, Proceed(c), req[c].op = "write_file",
           NEW path, path = tmp_path(req[c]), NEW t, t = req[c].target
    PROVE  /\ tmp'[path] \in {tmp[path], req[c].content, "absent"}
           /\ fs'[t] \in {fs[t], tmp[path]}
           /\ pc'[c] = "replace" => tmp'[path] = req[c].content
           /\ pc'[c] \in Closing /\ observed'[c] = "confirmed" =>
                 \/ pc[c] = "replace" /\ fs'[t] = tmp[path]
                 \/ pc[c] \in Closing /\ observed[c] = "confirmed" /\ fs' = fs
           /\ Logged(c, "execution_committed")' =>
                 pc[c] \in Closing /\ observed[c] = "confirmed" /\ fs' = fs
<1> USE DEF Goto, Return, Observe, TypeInv, TypeOK, Closing
<1>0. /\ TypeInv /\ Active(c) /\ path \in TmpPath /\ t \in Target
      /\ "execution_committed" \in EventType
    BY ProceedIsActive, RequestIsTyped DEF IInv, EventType
<1>1. ~ Logged(c, "execution_committed")
    BY <1>0 DEF IInv, ProtocolInv, CallInv, FirstPhaseIsClean, SecondPhaseIsOpen, CallClosed,
        BeforeIntent, Performing, Active, ActivePC
<1>2. CASE Prepare(c)
    <2>1. UNCHANGED world /\ pc'[c] \notin {"replace", "closing_hash", "closing_append"}
        BY <1>0, <1>2 DEF Prepare, ReadDecisionHash, RecordDecision, ReadIntentHash,
            RejectUnrecorded, AppendIntent, world
    <2>2. ~ Logged(c, "execution_committed")'
        <3>1. pc[c] \in BeforeIntent
            BY <1>2 DEF Prepare, ReadDecisionHash, RecordDecision, ReadIntentHash,
                RejectUnrecorded, AppendIntent, BeforeIntent
        <3>2. Prepares(c) \/ RecordsIntent(c) \/ Crashes(c)
            BY <1>0, <3>1, CallStep DEF Step, Performs, Closes, BeforeIntent, Performing
        <3>3. QED
            BY <1>0, <1>1, <3>2, LogStep DEF Step, Prepares, Crashes, EventType
    <2>3. QED
        BY <2>1, <2>2 DEF world
<1>3. CASE Execute(c)
    <2>1. events' = events
        BY <1>3 DEF Execute, WriteTmp, WriteTmpFails, ReplaceTarget, ReplaceFails, UnlinkTmp,
            MakeOneDirectory, DirectoryExists, MkdirFails, ShellCompletes, ShellTimesOut,
            ShellFailsToStart, HttpAnswers, HttpFails, HttpEscapes, stores
    <2>2. ~ Logged(c, "execution_committed")'
        BY <1>1, <2>1 DEF Logged
    <2>3. WriteTmp(c) \/ WriteTmpFails(c) \/ ReplaceTarget(c) \/ ReplaceFails(c) \/ UnlinkTmp(c)
        BY <1>3 DEF Execute, Executing, MakeOneDirectory, DirectoryExists, MkdirFails,
            ShellCompletes, ShellTimesOut, ShellFailsToStart, HttpAnswers, HttpFails, HttpEscapes
    <2>4. CASE WriteTmp(c)
        BY <1>0, <2>2, <2>4 DEF WriteTmp
    <2>5. CASE WriteTmpFails(c)
        BY <1>0, <2>2, <2>5 DEF WriteTmpFails
    <2>6. CASE ReplaceTarget(c)
        BY <1>0, <2>2, <2>6 DEF ReplaceTarget
    <2>7. CASE ReplaceFails(c)
        BY <1>0, <2>2, <2>7 DEF ReplaceFails, world
    <2>8. CASE UnlinkTmp(c)
        BY <1>0, <2>2, <2>8 DEF UnlinkTmp
    <2>9. QED
        BY <2>3, <2>4, <2>5, <2>6, <2>7, <2>8
<1>4. CASE Close(c)
    <2>1. /\ pc[c] \in Closing /\ UNCHANGED world /\ observed'[c] = observed[c]
          /\ pc'[c] # "replace"
        BY <1>0, <1>4 DEF Close, ReadClosingHash, AppendClosing, LoseClosing, world
    <2>2. Closes(c)
        BY <1>0, <1>4, <2>1, CallStep DEF Step, Proceed, Prepares, RecordsIntent, Performs, Crashes,
            BeforeIntent, Performing, Close, ReadClosingHash, AppendClosing, LoseClosing
    <2>3. Logged(c, "execution_committed")' => observed[c] = "confirmed"
        BY <1>0, <1>1, <1>4, <2>2, LogStep DEF Step, Proceed, ClosingType
    <2>4. QED
        BY <2>1, <2>3 DEF world
<1>5. QED
    BY <1>2, <1>3, <1>4 DEF Proceed

LEMMA OwnTells ==
    ASSUME GatesInv, FileInv, NEW c \in Call, Proceed(c), NEW k \in Todo, c \in CallsOf(k),
           created \subseteq created', step' = step
    PROVE  FileTells(k)'
<1> USE CallNames
<1>0. TypeInv /\ IInv /\ FileTells(k) /\ TodoPlaced(k) /\ TodoAsked(k)
    BY DEF GatesInv, IInv, FileInv, PlaceInv, AskedInv
<1>1. Active(c) /\ pc[c] # "new" /\ pc'[c] # "new" /\ req'[c] = req[c]
    BY <1>0, ProceedIsActive DEF Active, ActivePC
<1>2. \E text \in {"todo", "created", "error"} : req[c] = envelope(k, text)
    BY <1>0, <1>1 DEF TodoAsked
<1>3. /\ req[c].op = "write_file" /\ req[c].target = AuditTarget[k]
      /\ tmp_path(req[c]) = AuditPath(k)
    BY <1>2, GateRequests, AuditPaths
<1>4. /\ tmp'[AuditPath(k)] \in {tmp[AuditPath(k)], req[c].content, "absent"}
      /\ fs'[AuditTarget[k]] \in {fs[AuditTarget[k]], tmp[AuditPath(k)]}
      /\ pc'[c] = "replace" => tmp'[AuditPath(k)] = req[c].content
      /\ pc'[c] \in Closing /\ observed'[c] = "confirmed" =>
            \/ pc[c] = "replace" /\ fs'[AuditTarget[k]] = tmp[AuditPath(k)]
            \/ pc[c] \in Closing /\ observed[c] = "confirmed" /\ fs' = fs
      /\ Logged(c, "execution_committed")' =>
            pc[c] \in Closing /\ observed[c] = "confirmed" /\ fs' = fs
    BY <1>0, <1>3, OwnFileStep
<1>5. CASE c = before(k)
    <2>1. pc[after(k)] = "new" /\ pc'[after(k)] = "new" /\ after(k) \in Call
        BY <1>0, <1>1, <1>5, OthersStay DEF TodoPlaced, TodoPlace, Step
    <2>2. ~ Logged(after(k), "execution_committed")'
        <3>1. ~ Logged(after(k), "execution_committed")
            BY <1>0, <2>1 DEF IInv, ProtocolInv, CallInv, FirstPhaseIsClean, BeforeIntent, EventType
        <3>2. QED
            BY <1>0, <1>5, <2>1, <3>1, CallStep, LogStep
               DEF Step, EventType, Prepares, Performs, Closes, Crashes
    <2>3. req[c].content = "todo"
        BY <1>0, <1>1, <1>5, GateRequests DEF TodoAsked
    <2>4. QED
        BY <1>0, <1>4, <2>1, <2>2, <2>3 DEF FileTells, Rewrites, Rewrote, Closing
<1>6. CASE c = after(k)
    BY <1>0, <1>1, <1>4, <1>6 DEF FileTells, Rewrites, Rewrote
<1>7. QED
    BY <1>5, <1>6

LEMMA FileInvStep ==
    ASSUME GatesInv, FileInv, [GNext]_gvars
    PROVE  FileInv'
<1> USE CallNames
<1>0. TypeInv /\ PlaceInv /\ created \subseteq created'
    BY CreatedStays DEF GatesInv, IInv
<1> SUFFICES ASSUME NEW k \in Todo PROVE FileTells(k)'
    BY DEF FileInv
<1>1. FileTells(k)
    BY DEF FileInv
<1>2. CASE UNCHANGED vars
    BY <1>0, <1>1, <1>2 DEF vars, FileTells, Rewrites, Rewrote, Logged
<1>3. ASSUME NEW c \in Call, Proceed(c), UNCHANGED <<sagas, run>> PROVE FileTells(k)'
    <2>1. CASE c \in CallsOf(k)
        BY <1>0, <1>3, <2>1, OwnTells DEF sagas
    <2>2. CASE c \notin CallsOf(k)
        <3>1. /\ pc'[after(k)] = pc[after(k)] /\ req'[after(k)] = req[after(k)]
              /\ observed'[after(k)] = observed[after(k)]
            BY <1>0, <1>3, <2>2, OthersStay DEF Step
        <3>2. Logged(after(k), "execution_committed")' <=> Logged(after(k), "execution_committed")
            <4>1. after(k) \in Call /\ after(k) # c /\ "execution_committed" \in EventType
                BY <2>2 DEF EventType
            <4>2. Step(c)
                BY <1>3 DEF Step
            <4>3. QED
                BY <1>0, <4>1, <4>2, CallStep, LogStep DEF Prepares, Performs, Closes, Crashes
        <3>3. /\ tmp'[AuditPath(k)] = tmp[AuditPath(k)]
              /\ fs'[AuditTarget[k]] = fs[AuditTarget[k]]
            BY <1>3, <2>2, OthersLeaveFile
        <3>4. QED
            BY <1>0, <1>1, <3>1, <3>2, <3>3 DEF FileTells, Rewrites, Rewrote
    <2>3. QED
        BY <2>1, <2>2
<1>4. ASSUME NEW m \in Task, Die(m) PROVE FileTells(k)'
    <2>1. /\ UNCHANGED <<events, fs, tmp, req, observed>>
          /\ pc'[after(k)] \in {pc[after(k)], "crashed"}
          /\ pc'[after(k)] # pc[after(k)] => pc[after(k)] # "new"
        BY <1>4 DEF Die, stores, world, Active, ActivePC
    <2>2. QED
        BY <1>0, <1>1, <2>1 DEF FileTells, Rewrites, Rewrote, Logged, Closing
<1>5. ASSUME NEW c \in Call, NEW r, WriteFile(c, r) PROVE FileTells(k)'
    <2>1. /\ UNCHANGED <<events, fs, tmp, observed>>
          /\ pc'[c] \notin {"replace", "closing_hash", "closing_append"}
          /\ pc[c] = "new" /\ pc'[c] # "new"
          /\ \A d \in Call : d # c => pc'[d] = pc[d] /\ req'[d] = req[d]
        BY <1>0, <1>5, WriteFileStep DEF stores, world
    <2>2. CASE c # after(k)
        BY <1>0, <1>1, <2>1, <2>2 DEF FileTells, Rewrites, Rewrote, Logged
    <2>3. CASE c = after(k)
        <3>1. req'[c].content = "created" => k \in created
            BY <2>1, <2>3, AfterBegins
        <3>2. ~ Logged(c, "execution_committed")
            BY <2>1 DEF GatesInv, IInv, ProtocolInv, CallInv, FirstPhaseIsClean, BeforeIntent,
                EventType
        <3>3. QED
            BY <1>0, <1>1, <2>1, <2>3, <3>1, <3>2 DEF FileTells, Rewrites, Rewrote, Logged, Closing
    <2>4. QED
        BY <2>2, <2>3
<1>6. ASSUME NEW m \in Todo, TodoStep(m) PROVE FileTells(k)'
    BY <1>2, <1>5, <1>6
       DEF TodoStep, before_create_todo, before_returns, ProviderCreates, ProviderRaises,
           after_create_todo_success, success_returns, after_create_todo_failure, failure_returns
<1>7. ASSUME NEW a \in Audited, AuditStep(a) PROVE FileTells(k)'
    BY <1>2, <1>5, <1>7 DEF AuditStep, audit_begins, audit_returns
<1>8. CASE StartReconcile \/ LookUp \/ LookUpFails \/ EndReconcile \/ UNCHANGED gvars
    BY <1>2, <1>8 DEF StartReconcile, LookUp, LookUpFails, EndReconcile, gvars
<1>9. QED
    BY <1>3, <1>4, <1>6, <1>7, <1>8 DEF GNext

\* An audit file says "created" of todos that exist, and it holds what the last commit
\* record of its record id digests, though two calls share a temporary file.
THEOREM AuditFilesTell == GSpec => []AuditFileTellsOutcome
<1>1. GInit => GatesInv /\ FileInv
    BY InitGatesInv, InitFileInv
<1>2. GatesInv /\ FileInv /\ [GNext]_gvars => GatesInv' /\ FileInv'
    BY GatesInvStep, FileInvStep
<1>3. FileInv => AuditFileTellsOutcome
    BY DEF FileInv, FileTells, Rewrote, AuditFileTellsOutcome
<1>4. QED
    BY <1>1, <1>2, <1>3, PTL DEF GSpec

-----------------------------------------------------------------------------
(* What audit() says of the log                                             *)

\* A call that has begun works under the record id of its own task.
LEMMA CallOfRecord ==
    ASSUME GatesInv, NEW c \in Call, pc[c] # "new", NEW k \in Task, req[c].action_id = RecordOf[k]
    PROVE  c \in CallsOf(k)
<1> USE CallNames
<1>1. \E m \in Task : c \in CallsOf(m) /\ req[c].action_id = RecordOf[m]
    <2>1. ASSUME NEW m \in Todo, c \in CallsOf(m) PROVE req[c].action_id = RecordOf[m]
        BY <2>1, GateRequests DEF GatesInv, AskedInv, TodoAsked
    <2>2. ASSUME NEW a \in Audited, c = audit(a) PROVE req[c].action_id = RecordOf[a]
        BY <2>2, GateRequests DEF GatesInv, AskedInv, AuditAsked
    <2>3. QED
        BY <2>1, <2>2
<1>2. QED
    BY <1>1, RecordsAssumption

\* A row under the record id of a task was written by a call of that task.
LEMMA RowsOfTask ==
    ASSUME GatesInv, NEW k \in Task, NEW i \in DOMAIN events, events[i].record_id = RecordOf[k]
    PROVE  \E c \in CallsOf(k), type \in EventType :
               /\ type # "reconciliation_observed" /\ events[i].hash = <<c, type>>
               /\ events[i].type = type /\ events[i].envelope = req[c] /\ pc[c] # "new"
<1> USE CallNames
<1>1. PICK c \in Call, type \in EventType : events[i].hash = <<c, type>>
    BY DEF GatesInv, OnlyCallsWrite, CallEvent, CallEventType, IInv, RowInv, RowsHaveCalls
<1>2. /\ events[i].record_id = req[c].action_id /\ events[i].type = type
      /\ events[i].envelope = req[c] /\ Logged(c, type)
    BY <1>1 DEF GatesInv, IInv, RowInv, RowsMatchRequests, Logged
<1>3. type # "reconciliation_observed"
    BY <1>2 DEF GatesInv, AnswerInv, Answered
<1>4. pc[c] # "new"
    BY <1>2 DEF GatesInv, IInv, ProtocolInv, CallInv, FirstPhaseIsClean, BeforeIntent
<1>5. c \in CallsOf(k)
    BY <1>2, <1>4, CallOfRecord
<1>6. QED
    BY <1>1, <1>2, <1>3, <1>4, <1>5

\* audit() finds no event exactly when the call was rejected.
LEMMA ObservedTells ==
    ASSUME GatesInv, NEW a \in Audited, pc[audit(a)] = "done", result[audit(a)] # "Raised"
    PROVE  /\ result[audit(a)] \in {"SUCCESS", "FAILURE", "REJECTED", "UNCONFIRMED"}
           /\ ObservedOf(RecordOf[a]) \in Observation \cup {"None"}
           /\ ObservedOf(RecordOf[a]) = "None" <=> result[audit(a)] = "REJECTED"
<1> USE CallNames
<1> DEFINE c == audit(a)
           rows == events_for(events, RecordOf[a])
<1>1. result[c] \in {"SUCCESS", "FAILURE", "REJECTED", "UNCONFIRMED"}
    BY DEF GatesInv, IInv, TypeInv, TypeOK, Result, AnswerInv, Answered
<1>2. rows = {} => result[c] = "REJECTED"
    <2>1. ASSUME Logged(c, "intent_pending") PROVE rows # {}
        <3>1. PICK i \in DOMAIN events : events[i].hash = <<c, "intent_pending">>
            BY <2>1 DEF Logged
        <3>2. events[i].record_id = req[c].action_id
            BY <3>1 DEF GatesInv, IInv, RowInv, RowsMatchRequests, EventType
        <3>3. req[c].action_id = RecordOf[a]
            BY GateRequests DEF GatesInv, AskedInv, AuditAsked
        <3>4. QED
            BY <3>2, <3>3 DEF events_for
    <2>2. QED
        BY <1>1, <2>1 DEF GatesInv, AnswerInv, Answered
<1>3. rows # {} => result[c] # "REJECTED"
    <2>1. ASSUME NEW i \in rows PROVE Logged(c, "intent_pending") \/ CallClosed(c)
        <3>1. i \in DOMAIN events /\ events[i].record_id = RecordOf[a]
            BY DEF events_for
        <3>2. PICK type \in EventType : /\ type # "reconciliation_observed"
                                        /\ events[i].hash = <<c, type>>
            BY <3>1, RowsOfTask
        <3>3. Logged(c, type)
            BY <3>1, <3>2 DEF Logged
        <3>4. QED
            BY <3>2, <3>3 DEF EventType, CallClosed
    <2>2. QED
        BY <2>1 DEF GatesInv, IInv, ProtocolInv, CallInv, ResultIsTrue
<1>4. rows # {} => ObservedOf(RecordOf[a]) \in Observation
    <2>1. rows \in SUBSET Nat /\ rows \subseteq DOMAIN events
        BY DEF events_for, GatesInv, IInv, TypeInv, TypeOK
    <2>2. \A i \in DOMAIN events : events[i] \in CallEvent
        BY DEF GatesInv, OnlyCallsWrite
    <2>3. ASSUME rows # {} PROVE ObservedOf(RecordOf[a]) \in Observation
        <3>1. first(rows) \in rows
            BY <2>1, <2>3, FirstRow
        <3>2. events[first(rows)].side_effect_observed \in Observation
            BY <2>1, <2>2, <3>1 DEF CallEvent
        <3>3. QED
            BY <2>3, <3>2 DEF ObservedOf
    <2>4. QED
        BY <2>3
<1>5. rows = {} => ObservedOf(RecordOf[a]) = "None"
    BY DEF ObservedOf
<1>6. QED
    BY <1>1, <1>2, <1>3, <1>4, <1>5 DEF Observation

AuditHolds(a) ==
    /\ told[a] \in Result \cup {"none", "raised"}
    /\ seen[a] \in Observation \cup {"None"}
    /\ step[a] = "end" /\ told[a] # "raised" =>
          /\ told[a] \in {"SUCCESS", "FAILURE", "REJECTED", "UNCONFIRMED"}
          /\ seen[a] = "None" <=> told[a] = "REJECTED"

SeenInv == /\ DOMAIN seen = Audited /\ seen = [a \in Audited |-> seen[a]]
           /\ \A a \in Audited : AuditHolds(a)

LEMMA InitSeenInv == GInit => SeenInv
BY CallNames DEF GInit, SeenInv, AuditHolds, Observation

LEMMA SeenStep ==
    ASSUME GatesInv, SeenInv, [GNext]_gvars
    PROVE  SeenInv'
<1> USE CallNames
<1>0. /\ PlaceInv /\ \A a \in Audited : AuditHolds(a) /\ AuditPlaced(a)
      /\ DOMAIN told = Task
    BY DEF GatesInv, SeenInv, PlaceInv, SagaInv
<1>1. CASE UNCHANGED sagas
    BY <1>0, <1>1 DEF SeenInv, AuditHolds, sagas
<1>2. ASSUME NEW k \in Todo, TodoStep(k) PROVE SeenInv'
    <2>1. /\ seen' = seen
          /\ \A a \in Audited : step'[a] = step[a] /\ told'[a] = told[a]
        BY <1>0, <1>2, GoneOn
           DEF TodoStep, before_create_todo, before_returns, ProviderCreates, ProviderRaises,
               after_create_todo_success, success_returns, after_create_todo_failure,
               failure_returns, Finish
    <2>2. QED
        BY <2>1 DEF SeenInv, AuditHolds
<1>3. ASSUME NEW a \in Audited, audit_begins(a) PROVE SeenInv'
    <2>1. /\ seen' = seen /\ told' = told /\ step'[a] = "audit"
          /\ \A b \in Audited : b # a => step'[b] = step[b]
        BY <1>0, <1>3, GoneOn DEF audit_begins
    <2>2. QED
        BY <2>1 DEF SeenInv, AuditHolds
<1>4. ASSUME NEW a \in Audited, audit_returns(a) PROVE SeenInv'
    <2>1. \A b \in Audited : b # a => /\ step'[b] = step[b] /\ told'[b] = told[b]
                                      /\ seen'[b] = seen[b]
        BY <1>0, <1>4, GoneOn DEF audit_returns, Finish, SeenInv
    <2>2. DOMAIN seen' = Audited /\ seen' = [b \in Audited |-> seen'[b]]
        BY <1>4 DEF audit_returns, SeenInv
    <2>3. AuditHolds(a)'
        <3>1. CASE /\ result[audit(a)] # "Raised"
                   /\ seen' = [seen EXCEPT ![a] = ObservedOf(RecordOf[a])]
                   /\ Finish(a, result[audit(a)])
            <4>1. /\ told'[a] = result[audit(a)] /\ seen'[a] = ObservedOf(RecordOf[a])
                BY <1>0, <3>1 DEF Finish, SeenInv
            <4>2. pc[audit(a)] = "done"
                BY <1>4 DEF audit_returns
            <4>3. QED
                BY <3>1, <4>1, <4>2, ObservedTells DEF AuditHolds, Result
        <3>2. CASE Finish(a, "raised") /\ UNCHANGED seen
            BY <1>0, <3>2 DEF Finish, AuditHolds
        <3>3. QED
            BY <1>4, <3>1, <3>2 DEF audit_returns
    <2>4. QED
        BY <2>1, <2>2, <2>3 DEF SeenInv, AuditHolds
<1>5. ASSUME NEW k \in Task, Die(k) PROVE SeenInv'
    <2>1. /\ seen' = seen /\ told' = told /\ step'[k] = "crashed"
          /\ \A m \in Task : m # k => step'[m] = step[m]
        BY <1>0, <1>5, GoneOn DEF Die
    <2>2. QED
        BY <2>1 DEF SeenInv, AuditHolds
<1>6. QED
    BY <1>1, <1>2, <1>3, <1>4, <1>5
       DEF GNext, gvars, AuditStep, StartReconcile, LookUp, LookUpFails, EndReconcile

\* side_effect_observed is None of a rejected call and of no other.
THEOREM NothingSeenHolds == GSpec => []NothingSeenMeansRejected
<1>1. GInit => GatesInv /\ SeenInv
    BY InitGatesInv, InitSeenInv
<1>2. GatesInv /\ SeenInv /\ [GNext]_gvars => GatesInv' /\ SeenInv'
    BY GatesInvStep, SeenStep
<1>3. SeenInv => NothingSeenMeansRejected
    BY DEF SeenInv, AuditHolds, NothingSeenMeansRejected
<1>4. QED
    BY <1>1, <1>2, <1>3, PTL DEF GSpec

-----------------------------------------------------------------------------
(* What the provider's reconciliation finds                                 *)

\* A todo's record has been looked up, with the right answer.
Settled(k) ==
    \E i \in DOMAIN findings :
        /\ findings[i].record_id = RecordOf[k]
        /\ findings[i].diagnosis = (IF k \in created
              THEN "pending_executed_unconfirmed" ELSE "pending_not_executed")

Queued(k) == \E i \in queue : events[i].record_id = RecordOf[k]

ExecutedIsTrue ==
    \A i \in DOMAIN findings, k \in Todo :
        /\ findings[i].record_id = RecordOf[k]
        /\ findings[i].diagnosis = "pending_executed_unconfirmed"
        => k \in created

\* Of the todos that were over when the run began, none is forgotten.
NoneForgotten ==
    reconcile \in {"running", "done"} =>
        \A k \in settled \cap Todo : TodoIsPending(k) => Settled(k) \/ Queued(k)

RunTypes ==
    /\ queue \subseteq DOMAIN events /\ findings \in Seq(Finding)
    /\ reconcile \in {"idle", "running", "raised", "done"} /\ settled \subseteq Task
    /\ reconcile = "idle" => findings = <<>>
    /\ reconcile = "done" => queue = {}
    /\ \A k \in settled : step[k] \in {"end", "crashed"}

FindingInv == RunTypes /\ ExecutedIsTrue /\ NoneForgotten

LEMMA InitFindingInv == GInit => FindingInv
BY DEF GInit, FindingInv, RunTypes, ExecutedIsTrue, NoneForgotten

\* A task that is over stays over, and nothing happens to its todo or its record.
LEMMA OverStays ==
    ASSUME GatesInv, [GNext]_gvars, NEW k \in Task, step[k] \in {"end", "crashed"}
    PROVE  /\ step'[k] = step[k]
           /\ k \in created' <=> k \in created
           /\ \A c \in CallsOf(k) : ~ Active(c)
<1> USE CallNames
<1>0. PlaceInv /\ TypeInv /\ created \subseteq Todo
    BY DEF GatesInv, IInv, SagaInv
<1>1. \A c \in CallsOf(k) : ~ Active(c)
    <2>1. CASE k \in Todo
        BY <1>0, <2>1 DEF PlaceInv, TodoPlaced
    <2>2. CASE k \in Audited
        BY <1>0, <2>2 DEF PlaceInv, AuditPlaced
    <2>3. QED
        BY <2>1, <2>2 DEF Task
<1>2. ASSUME NEW m \in Todo, TodoStep(m)
      PROVE  step'[k] = step[k] /\ (k \in created' <=> k \in created)
    <2>1. m # k
        BY <1>2 DEF TodoStep, before_create_todo, before_returns, ProviderCreates,
            ProviderRaises, after_create_todo_success, success_returns,
            after_create_todo_failure, failure_returns
    <2>2. \E where : GoOn(m, where)
        BY <1>2 DEF TodoStep, before_create_todo, before_returns, ProviderCreates,
            ProviderRaises, after_create_todo_success, success_returns,
            after_create_todo_failure, failure_returns, Finish
    <2>3. created' \in {created, created \cup {m}}
        BY <1>2 DEF TodoStep, before_create_todo, before_returns, ProviderCreates,
            ProviderRaises, after_create_todo_success, success_returns,
            after_create_todo_failure, failure_returns
    <2>4. QED
        BY <1>0, <2>1, <2>2, <2>3, GoneOn
<1>3. ASSUME NEW a \in Audited, AuditStep(a)
      PROVE  step'[k] = step[k] /\ (k \in created' <=> k \in created)
    <2>1. a # k /\ (\E where : GoOn(a, where)) /\ created' = created
        BY <1>3 DEF AuditStep, audit_begins, audit_returns, Finish
    <2>2. QED
        BY <1>0, <2>1, GoneOn
<1>4. ASSUME NEW m \in Task, Die(m)
      PROVE  step'[k] = step[k] /\ (k \in created' <=> k \in created)
    <2>1. m # k /\ GoOn(m, "crashed") /\ created' \in {created, created \cup {m}}
        BY <1>4 DEF Die, UnderWay
    <2>2. QED
        BY <1>0, <2>1, GoneOn
<1>5. CASE UNCHANGED sagas
    BY <1>1, <1>5 DEF sagas
<1>6. QED
    BY <1>1, <1>2, <1>3, <1>4, <1>5
       DEF GNext, gvars, StartReconcile, LookUp, LookUpFails, EndReconcile

\* Rows stay where they are, and new ones come from calls that are active.
LEMMA RowsStay ==
    ASSUME TypeInv, PlaceInv, [GNext]_gvars
    PROVE  /\ \A i \in DOMAIN events : i \in DOMAIN events' /\ events'[i] = events[i]
           /\ \A i \in DOMAIN events' : i \in DOMAIN events
                 \/ (\E c \in Call : Active(c) /\ events'[i].record_id = req[c].action_id)
<1>1. CASE UNCHANGED vars
    BY <1>1 DEF vars
<1>2. ASSUME NEW c \in Call, Step(c)
      PROVE  /\ \A i \in DOMAIN events : i \in DOMAIN events' /\ events'[i] = events[i]
             /\ \A i \in DOMAIN events' : i \in DOMAIN events
                   \/ (Active(c) /\ events'[i].record_id = req[c].action_id)
    <2>1. \A i \in DOMAIN events : i \in DOMAIN events' /\ events'[i] = events[i]
        <3>1. CASE events' = events
            BY <3>1
        <3>2. ASSUME NEW row, events' = Append(events, row)
              PROVE  \A i \in DOMAIN events : i \in DOMAIN events' /\ events'[i] = events[i]
            BY <3>2, AppendShape DEF TypeInv, TypeOK
        <3>3. QED
            BY <1>2, <3>1, <3>2, LogGrows
    <2>2. QED
        BY <1>2, <2>1, NewRows DEF make_event
<1>3. QED
    BY <1>1, <1>2, GatesUseToolProxy

\* The record of a todo that is over does not become pending.
LEMMA OverIsPending ==
    ASSUME GatesInv, [GNext]_gvars, NEW k \in Todo, step[k] \in {"end", "crashed"},
           TodoIsPending(k)'
    PROVE  TodoIsPending(k)
<1> USE CallNames
<1>0. TypeInv /\ PlaceInv
    BY DEF GatesInv, IInv
<1>1. PICK i \in DOMAIN events' : /\ events'[i].record_id = RecordOf[k]
                                  /\ IsOpenIntent(events', events'[i])
    BY DEF TodoIsPending
<1>2. i \in DOMAIN events
    <2>1. ASSUME NEW c \in Call, Active(c), req[c].action_id = RecordOf[k] PROVE FALSE
        <3>1. c \in CallsOf(k)
            BY <2>1, CallOfRecord DEF Active, ActivePC
        <3>2. QED
            BY <2>1, <3>1, OverStays
    <2>2. QED
        BY <1>0, <1>1, <2>1, RowsStay
<1>3. events'[i] = events[i]
    BY <1>0, <1>2, RowsStay
<1>4. ~ Closed(events, events[i].record_id)
    BY <1>0, <1>1, <1>3, RowsStay DEF IsOpenIntent, Closed
<1>5. QED
    BY <1>1, <1>2, <1>3, <1>4 DEF TodoIsPending, IsOpenIntent

\* A step of the applications, seen by a run in progress.
LEMMA RunStays ==
    ASSUME GatesInv, FindingInv, [GNext]_gvars, UNCHANGED run
    PROVE  FindingInv'
<1> USE DEF run
<1>0. TypeInv /\ PlaceInv /\ created \subseteq created' /\ settled \subseteq Task
    BY CreatedStays DEF GatesInv, IInv, FindingInv, RunTypes
<1>1. RunTypes'
    <2>1. \A k \in settled : step'[k] = step[k]
        BY <1>0, OverStays DEF FindingInv, RunTypes
    <2>2. queue \subseteq DOMAIN events'
        BY <1>0, RowsStay DEF FindingInv, RunTypes
    <2>3. QED
        BY <2>1, <2>2 DEF FindingInv, RunTypes
<1>2. ExecutedIsTrue'
    BY <1>0 DEF FindingInv, ExecutedIsTrue
<1>3. NoneForgotten'
    <2>1. ASSUME NEW k \in settled \cap Todo, TodoIsPending(k)', reconcile \in {"running", "done"}
          PROVE  Settled(k)' \/ Queued(k)'
        <3>1. /\ k \in Task /\ step[k] \in {"end", "crashed"}
            BY <1>0 DEF FindingInv, RunTypes
        <3>2. TodoIsPending(k) /\ (k \in created' <=> k \in created)
            BY <2>1, <3>1, OverIsPending, OverStays
        <3>3. Settled(k) \/ Queued(k)
            BY <2>1, <3>2 DEF FindingInv, NoneForgotten
        <3>4. Settled(k) => Settled(k)'
            BY <3>2 DEF Settled
        <3>5. Queued(k) => Queued(k)'
            BY <1>0, RowsStay DEF Queued, FindingInv, RunTypes
        <3>6. QED
            BY <3>3, <3>4, <3>5
    <2>2. QED
        BY <2>1 DEF NoneForgotten
<1>4. QED
    BY <1>1, <1>2, <1>3 DEF FindingInv

\* Rows of a todo's record carry the gate's envelope, which the run does not skip.
LEMMA TodoRowsAreLookedUp ==
    ASSUME GatesInv, NEW k \in Todo, NEW i \in DOMAIN events, events[i].record_id = RecordOf[k]
    PROVE  ~ Skipped(events[i].envelope.tool)
<1> USE CallNames
<1>1. PICK c \in CallsOf(k) : events[i].envelope = req[c] /\ pc[c] # "new"
    BY RowsOfTask
<1>2. \E text \in {"todo", "created", "error"} : req[c] = envelope(k, text)
    BY <1>1 DEF GatesInv, AskedInv, TodoAsked
<1>3. events[i].envelope.tool = "todo.create"
    BY <1>1, <1>2, GateRequests
<1>4. QED
    BY <1>3 DEF Skipped, FilesystemTools

LEMMA StartStep ==
    ASSUME GatesInv, FindingInv, StartReconcile
    PROVE  FindingInv'
<1> USE DEF StartReconcile, vars, sagas
<1>1. findings' = <<>> /\ DOMAIN findings' = {}
    BY DEF FindingInv, RunTypes
<1>2. RunTypes'
    BY DEF FindingInv, RunTypes, pending
<1>3. ExecutedIsTrue'
    BY <1>1 DEF ExecutedIsTrue
<1>4. ASSUME NEW k \in Todo, TodoIsPending(k)' PROVE Queued(k)'
    <2>1. PICK i \in DOMAIN events : /\ events[i].record_id = RecordOf[k]
                                     /\ IsOpenIntent(events, events[i])
        BY <1>4 DEF TodoIsPending
    <2>2. i \in queue'
        BY <2>1, TodoRowsAreLookedUp DEF pending
    <2>3. QED
        BY <2>1, <2>2 DEF Queued
<1>5. QED
    BY <1>2, <1>3, <1>4 DEF FindingInv, NoneForgotten

LEMMA LookUpStep ==
    ASSUME GatesInv, FindingInv, LookUp
    PROVE  FindingInv'
<1> DEFINE now == first(queue)
           id == events[now].record_id
           finding == [record_id |-> id, diagnosis |-> Diagnose(id)]
<1>0. /\ reconcile = "running" /\ reconcile' = "running" /\ queue' = queue \ {now}
      /\ findings' = Append(findings, finding) /\ UNCHANGED <<vars, sagas, settled>>
    BY DEF LookUp
<1>1. now \in queue /\ now \in DOMAIN events
    <2>1. queue \in SUBSET Nat /\ queue # {}
        BY DEF LookUp, FindingInv, RunTypes, GatesInv, IInv, TypeInv, TypeOK
    <2>2. QED
        BY <2>1, FirstRow DEF FindingInv, RunTypes
<1>2. id \in ActionId
    <2>1. events[now] \in CallEvent
        BY <1>1 DEF GatesInv, OnlyCallsWrite
    <2>2. \A e \in CallEvent : e.record_id \in ActionId
        BY DEF CallEvent
    <2>3. QED
        BY <2>1, <2>2
<1>3. finding \in Finding /\ findings \in Seq(Finding)
    BY <1>2 DEF Finding, Diagnose, FindingInv, RunTypes
<1>4. /\ Len(findings) \in Nat /\ DOMAIN findings' = DOMAIN findings \cup {Len(findings) + 1}
      /\ findings'[Len(findings) + 1] = finding
      /\ \A i \in DOMAIN findings : findings'[i] = findings[i]
    BY <1>0, <1>3
<1>5. \A k \in Todo : id = RecordOf[k] =>
          Diagnose(id) = (IF k \in created
              THEN "pending_executed_unconfirmed" ELSE "pending_not_executed")
    <2>1. created \subseteq Todo
        BY DEF GatesInv, SagaInv
    <2>2. QED
        BY <2>1, RecordsAssumption DEF Diagnose, Task
<1>6. RunTypes'
    BY <1>0, <1>3 DEF FindingInv, RunTypes, vars, sagas
<1>7. ExecutedIsTrue'
    BY <1>0, <1>4, <1>5 DEF FindingInv, ExecutedIsTrue, sagas
<1>8. ASSUME NEW k \in settled \cap Todo, TodoIsPending(k) PROVE Settled(k)' \/ Queued(k)'
    <2>1. Settled(k) \/ Queued(k)
        BY <1>0, <1>8 DEF FindingInv, NoneForgotten
    <2>2. Settled(k) => Settled(k)'
        BY <1>0, <1>4 DEF Settled, sagas
    <2>3. CASE id = RecordOf[k]
        BY <1>0, <1>4, <1>5, <2>3 DEF Settled, sagas
    <2>4. CASE id # RecordOf[k]
        <3>1. Queued(k) => Queued(k)'
            BY <1>0, <2>4 DEF Queued, vars
        <3>2. QED
            BY <2>1, <2>2, <3>1
    <2>5. QED
        BY <2>3, <2>4
<1>9. NoneForgotten'
    <2>1. \A k \in Todo : TodoIsPending(k)' <=> TodoIsPending(k)
        BY <1>0 DEF TodoIsPending, vars
    <2>2. QED
        BY <1>0, <1>8, <2>1 DEF NoneForgotten
<1>10. QED
    BY <1>6, <1>7, <1>9 DEF FindingInv

LEMMA FindingStep ==
    ASSUME GatesInv, FindingInv, [GNext]_gvars
    PROVE  FindingInv'
<1>1. CASE LookUpFails
    BY <1>1 DEF LookUpFails, FindingInv, RunTypes, ExecutedIsTrue, NoneForgotten, vars, sagas
<1>2. CASE EndReconcile
    BY <1>2 DEF EndReconcile, FindingInv, RunTypes, ExecutedIsTrue, NoneForgotten, vars, sagas,
        Settled, Queued, TodoIsPending
<1>3. CASE UNCHANGED run
    BY <1>3, RunStays
<1>4. QED
    BY <1>1, <1>2, <1>3, StartStep, LookUpStep
       DEF GNext, gvars, run, TodoStep, before_create_todo, before_returns, ProviderCreates,
           ProviderRaises, after_create_todo_success, success_returns, after_create_todo_failure,
           failure_returns, AuditStep, audit_begins, audit_returns, Die

LEMMA FindingInvHolds == GSpec => [](GatesInv /\ FindingInv)
<1>1. GInit => GatesInv /\ FindingInv
    BY InitGatesInv, InitFindingInv
<1>2. GatesInv /\ FindingInv /\ [GNext]_gvars => GatesInv' /\ FindingInv'
    BY GatesInvStep, FindingStep
<1>3. QED
    BY <1>1, <1>2, PTL DEF GSpec

\* The provider's reconciliation calls executed only what was executed, and it has the
\* right finding for every pending todo that was over when it began.
THEOREM FindingsHold == GSpec => []FindingsAreTrue
<1>1. FindingInv => FindingsAreTrue
    <2>1. ASSUME FindingInv, reconcile = "done"
          PROVE  /\ ExecutedIsTrue
                 /\ \A k \in settled \cap Todo : TodoIsPending(k) => Settled(k)
        BY <2>1 DEF FindingInv, RunTypes, NoneForgotten, Queued
    <2>2. QED
        BY <2>1 DEF FindingsAreTrue, ExecutedIsTrue, Settled
<1>2. QED
    BY <1>1, FindingInvHolds, PTL

THEOREM GatesTypeCorrect == GSpec => []GatesTypeOK
<1>1. GatesInv /\ SeenInv /\ FindingInv => GatesTypeOK
    <2> SUFFICES ASSUME GatesInv, SeenInv, FindingInv PROVE GatesTypeOK
        OBVIOUS
    <2>1. step \in [Task -> {"new", "before", "create", "created", "error", "commit", "record",
                             "audit", "end", "crashed"}]
        BY DEF GatesInv, PlaceInv, TodoPlaced, AuditPlaced, TodoPlace, Task
    <2>2. told \in [Task -> Result \cup {"none", "denied", "success", "unconfirmed", "failed",
                                         "raised"}]
        BY DEF GatesInv, SagaInv, SagaHolds, SeenInv, AuditHolds, Task
    <2>3. seen \in [Audited -> Observation \cup {"None"}]
        BY DEF SeenInv, AuditHolds
    <2>4. QED
        BY <2>1, <2>2, <2>3 DEF GatesTypeOK, GatesInv, SagaInv, FindingInv, RunTypes
<1>2. GInit => SeenInv
    BY InitSeenInv
<1>3. GatesInv /\ SeenInv /\ [GNext]_gvars => SeenInv'
    BY SeenStep
<1>4. QED
    BY <1>1, <1>2, <1>3, FindingInvHolds, PTL DEF GSpec

=============================================================================
