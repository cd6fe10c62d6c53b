----------------------------- MODULE ToolProxy -----------------------------
(***************************************************************************)
(* ToolProxy (proxy.py): the chokepoint every managed side effect passes.   *)
(*                                                                         *)
(* Each element of Call is one invocation of write_file, make_directory,    *)
(* execute_shell or http_get, by one thread or process.  Its `pc` walks the *)
(* two-phase protocol: gates, decision record, intent_pending, the side     *)
(* effect, the closing event.  Reading last_hash() and appending are two    *)
(* steps because the code holds no lock or transaction across them, so      *)
(* other calls run in between; a call may crash between any two steps.      *)
(*                                                                         *)
(* The store is the abstract one of the ExecutionStore protocol: append     *)
(* either adds the row or raises and adds nothing.                          *)
(***************************************************************************)
EXTENDS ExecutionLog, ExecutionPolicy, FiniteSets

CONSTANTS
    Call,              \* the invocations of one history
    ActionId,          \* envelope.action_id values, chosen by the caller
    Target,            \* paths (for shell and http, what the envelope names)
    Workspace,         \* the paths inside workspace_dir
    Root,              \* workspace_dir itself
    Parent,            \* the parent directory of each path
    Content,           \* file contents
    InitialFiles,      \* the workspace as the history finds it
    Request,           \* the invocations callers may make
    NoRequest,         \* a call not made yet, or made with envelope = None
    HasDecisionStore,  \* a DecisionStore was injected
    Serial,            \* one caller at a time: no two calls overlap
    FreshIds           \* callers never use an action_id twice

FileState == Content \cup {"absent", "directory"}

\* The methods of ToolProxy.  The envelope's `tool` is what the gates look at; the
\* caller chooses it, and nothing ties it to the method called.
Operation == {"write_file", "make_directory", "execute_shell", "http_get"}

FilesystemOperations == {"write_file", "make_directory"}

RequestType == [action_id : ActionId, op : Operation, tool : Tool, target : Target,
                content : Content, intent : BOOLEAN, timeout : BOOLEAN]

ASSUME ContentAssumption == {"absent", "directory", "nothing", "something"} \cap Content = {}

ASSUME RequestAssumption == Request \subseteq RequestType /\ NoRequest \notin RequestType

ASSUME FilesAssumption ==
    /\ Root \in Workspace /\ Workspace \subseteq Target
    /\ Parent \in [Target -> Target]
    /\ InitialFiles \in [Target -> FileState]
    /\ InitialFiles[Root] = "directory"

ASSUME SettingAssumption == /\ HasDecisionStore \in BOOLEAN
                            /\ Serial \in BOOLEAN
                            /\ FreshIds \in BOOLEAN

\* Mutant: one temporary name per target.
TmpPathOfTarget(r) == <<r.target, CHOOSE id \in ActionId : TRUE>>

tmp_path(r) == <<r.target, r.action_id>>

TmpPath == {tmp_path(r) : r \in Request}

VARIABLES
    events,     \* the execution log
    decisions,  \* the decision log
    fs,         \* what each path holds
    tmp,        \* the temporary files `<target>.tmp.<record_id>`
    pc,         \* where each call stands
    req,        \* what each call was asked to do
    prev,       \* the last_hash() each call has read
    observed,   \* side_effect_observed of each call, once execution ended
    result,     \* what each call returned or raised
    effect      \* history: what each call really did to the world

stores == <<events, decisions>>
world  == <<fs, tmp, effect>>
vars   == <<events, decisions, fs, tmp, pc, req, prev, observed, result, effect>>

ActivePC == {"decision_hash", "decision_record", "intent_hash", "intent_append",
             "execute", "replace", "unlink", "closing_hash", "closing_append"}

Result == {"SUCCESS", "FAILURE", "REJECTED", "UNCONFIRMED", "Raised"}

\* A call's events are told by their call and type; an observation of reconcile(),
\* which shares the log, by the number of rows it found.
Hash == {GENESIS_HASH} \cup (Call \X EventType) \cup (Nat \X {"reconciliation_observed"})

DecisionHash == {GENESIS_HASH} \cup (Call \X {"decision"})

CallEventType == EventType \ {"reconciliation_observed"}

CallEvent == [hash : Hash, previous_hash : Hash, record_id : ActionId, type : CallEventType,
              envelope : RequestType, side_effect_observed : Observation, decided : BOOLEAN]

ObservedEvent == [hash : Hash, previous_hash : Hash, record_id : ActionId \cup {"reconcile"},
                  type : {"reconciliation_observed"}, envelope : {NoRequest},
                  side_effect_observed : {"none"}, decided : {FALSE}]

Event == CallEvent \cup ObservedEvent

Decision == [hash : DecisionHash, previous_hash : DecisionHash, action_id : ActionId]

Active(c) == pc[c] \in ActivePC
Ended(c)  == pc[c] \in {"done", "crashed"}

-----------------------------------------------------------------------------
(* Steps every operation is built from                                      *)

Goto(c, where) == pc' = [pc EXCEPT ![c] = where]

Return(c, r) == Goto(c, "done") /\ result' = [result EXCEPT ![c] = r]

\* Execution ended with observation o; what follows is the closing event.
Observe(c, o) == Goto(c, "closing_hash") /\ observed' = [observed EXCEPT ![c] = o]

Affect(c, what) == effect' = [effect EXCEPT ![c] = what]

\* The world may have been changed, the code cannot tell.
MayAffect(c) == Affect(c, "something") \/ UNCHANGED effect

Decides(c) == HasDecisionStore /\ req[c].intent

\* _make_event: hash and identity in one, see ExecutionLog.
make_event(c, type, o) ==
    [hash |-> <<c, type>>, previous_hash |-> prev[c], record_id |-> req[c].action_id,
     type |-> type, envelope |-> req[c], side_effect_observed |-> o,
     decided |-> Decides(c)]

Init ==
    /\ events = <<>> /\ decisions = <<>>
    /\ fs = InitialFiles
    /\ tmp = [path \in TmpPath |-> "absent"]
    /\ pc = [c \in Call |-> "new"]
    /\ req = [c \in Call |-> NoRequest]
    /\ prev = [c \in Call |-> GENESIS_HASH]
    /\ observed = [c \in Call |-> "none"]
    /\ result = [c \in Call |-> "none"]
    /\ effect = [c \in Call |-> "nothing"]

-----------------------------------------------------------------------------
(* Entering a call: validation and gates, nothing recorded yet              *)

MayBegin(c) == pc[c] = "new" /\ (Serial => \A d \in Call : ~ Active(d))

IdIsFresh(id) == \A d \in Call : req[d] # NoRequest => req[d].action_id # id

OutsideWorkspace(r) == r.op \in FilesystemOperations /\ r.target \notin Workspace

ParentMissing(r) == r.op = "write_file" /\ fs[Parent[r.target]] = "absent"

\* envelope = None: EnvelopeRequiredError.
CallWithoutEnvelope(c) ==
    /\ MayBegin(c)
    /\ Return(c, "Raised")
    /\ UNCHANGED <<stores, world, req, prev, observed>>

Submit(c, r) ==
    /\ MayBegin(c)
    /\ FreshIds => IdIsFresh(r.action_id)
    /\ req' = [req EXCEPT ![c] = r]
    /\ UNCHANGED <<stores, world, prev, observed>>

\* WorkspaceBoundaryError comes before the gates.
RefuseOutsideWorkspace(c, r) ==
    /\ Submit(c, r)
    /\ OutsideWorkspace(r)
    /\ Return(c, "Raised")

RejectAtGate(c, r) ==
    /\ Submit(c, r)
    /\ ~ OutsideWorkspace(r)
    /\ ParentMissing(r) \/ GateRejects(r.tool)
    /\ Return(c, "REJECTED")

Admit(c, r) ==
    /\ Submit(c, r)
    /\ ~ OutsideWorkspace(r) /\ ~ ParentMissing(r) /\ ~ GateRejects(r.tool)
    /\ Goto(c, IF HasDecisionStore /\ r.intent THEN "decision_hash" ELSE "intent_hash")
    /\ UNCHANGED result

Begin(c) ==
    \/ CallWithoutEnvelope(c)
    \/ \E r \in Request :
          RefuseOutsideWorkspace(c, r) \/ RejectAtGate(c, r) \/ Admit(c, r)

-----------------------------------------------------------------------------
(* _prepare_execution: the decision record, then intent_pending             *)

\* last_hash() of the decision store is read outside the try block: an error
\* there reaches the caller as an exception.
ReadDecisionHash(c) ==
    /\ pc[c] = "decision_hash"
    /\ \/ /\ prev' = [prev EXCEPT ![c] = last_hash(decisions)]
          /\ Goto(c, "decision_record")
          /\ UNCHANGED result
       \/ Return(c, "Raised") /\ UNCHANGED prev
    /\ UNCHANGED <<stores, world, req, observed>>

RecordDecision(c) ==
    /\ pc[c] = "decision_record"
    /\ decisions' = Append(decisions, [hash |-> <<c, "decision">>,
                                       previous_hash |-> prev[c],
                                       action_id |-> req[c].action_id])
    /\ Goto(c, "intent_hash")
    /\ UNCHANGED <<events, world, req, prev, observed, result>>

ReadIntentHash(c) ==
    /\ pc[c] = "intent_hash"
    /\ prev' = [prev EXCEPT ![c] = last_hash(events)]
    /\ Goto(c, "intent_append")
    /\ UNCHANGED <<stores, world, req, observed, result>>

\* Mutant: an intent that could not be written is only logged, and the call
\* goes on to the side effect.
ExecuteUnrecorded(c) ==
    /\ pc[c] \in {"decision_record", "intent_hash", "intent_append"}
    /\ Goto(c, "execute")
    /\ UNCHANGED <<stores, world, req, prev, observed, result>>

\* Mutant: a decision that could not be recorded does not stop the call.
ProceedUndecided(c) ==
    /\ pc[c] \in {"decision_record", "intent_hash", "intent_append"}
    /\ IF pc[c] = "decision_record"
       THEN Goto(c, "intent_hash") /\ UNCHANGED result
       ELSE Return(c, "REJECTED")
    /\ UNCHANGED <<stores, world, req, prev, observed>>

\* Recording the decision or the intent failed: None, which every operation
\* turns into REJECTED.  A decision already recorded stays.
RejectUnrecorded(c) ==
    /\ pc[c] \in {"decision_record", "intent_hash", "intent_append"}
    /\ Return(c, "REJECTED")
    /\ UNCHANGED <<stores, world, req, prev, observed>>

AppendIntent(c) ==
    /\ pc[c] = "intent_append"
    /\ events' = Append(events, make_event(c, "intent_pending", "none"))
    /\ Goto(c, "execute")
    /\ UNCHANGED <<decisions, world, req, prev, observed, result>>

-----------------------------------------------------------------------------
(* The side effects                                                         *)

Executing(c, op) == pc[c] = "execute" /\ req[c].op = op

WriteTmp(c) ==
    /\ Executing(c, "write_file")
    /\ fs[Parent[req[c].target]] = "directory"
    /\ tmp' = [tmp EXCEPT ![tmp_path(req[c])] = req[c].content]
    /\ Goto(c, "replace")
    /\ UNCHANGED <<stores, fs, effect, req, prev, observed, result>>

\* write_bytes raised, before or after it created the temporary file.
WriteTmpFails(c) ==
    /\ Executing(c, "write_file")
    /\ \/ UNCHANGED tmp
       \/ /\ fs[Parent[req[c].target]] = "directory"
          /\ tmp' = [tmp EXCEPT ![tmp_path(req[c])] = req[c].content]
    /\ Goto(c, "unlink")
    /\ UNCHANGED <<stores, fs, effect, req, prev, observed, result>>

\* The atomic rename: the target now holds what the temporary file held.
ReplaceTarget(c) ==
    LET r == req[c] IN
    /\ pc[c] = "replace"
    /\ tmp[tmp_path(r)] # "absent" /\ fs[r.target] # "directory"
    /\ fs' = [fs EXCEPT ![r.target] = tmp[tmp_path(r)]]
    /\ tmp' = [tmp EXCEPT ![tmp_path(r)] = "absent"]
    /\ Affect(c, tmp[tmp_path(r)])
    /\ Observe(c, "confirmed")
    /\ UNCHANGED <<stores, req, prev, result>>

\* Mutant: a failed rename starts the recorded call over.
RetryFromIntent(c) ==
    /\ pc[c] = "replace"
    /\ Goto(c, "intent_hash")
    /\ UNCHANGED <<stores, world, req, prev, observed, result>>

\* fsync or rename raised.
ReplaceFails(c) ==
    /\ pc[c] = "replace"
    /\ Goto(c, "unlink")
    /\ UNCHANGED <<stores, world, req, prev, observed, result>>

\* The handler removes the temporary file; an OSError of unlink is suppressed.
UnlinkTmp(c) ==
    /\ pc[c] = "unlink"
    /\ \/ tmp' = [tmp EXCEPT ![tmp_path(req[c])] = "absent"]
       \/ UNCHANGED tmp
    /\ Observe(c, "none")
    /\ UNCHANGED <<stores, fs, effect, req, prev, result>>

\* A path and its ancestors.
Lineage(t) == {d \in Target : \A S \in SUBSET Target :
                  (t \in S /\ \A x \in S : Parent[x] \in S) => d \in S}

\* mkdir(parents=True) creates the missing ancestors one at a time, from the top.
MakeOneDirectory(c) ==
    /\ Executing(c, "make_directory")
    /\ \E d \in Lineage(req[c].target) :
          /\ fs[d] = "absent" /\ fs[Parent[d]] = "directory"
          /\ fs' = [fs EXCEPT ![d] = "directory"]
          /\ IF d = req[c].target THEN Observe(c, "confirmed")
                                  ELSE UNCHANGED <<pc, observed>>
    /\ Affect(c, "something")
    /\ UNCHANGED <<stores, tmp, req, prev, result>>

\* exist_ok=True: the directory asked for is there, which counts as the effect.
DirectoryExists(c) ==
    /\ Executing(c, "make_directory")
    /\ fs[req[c].target] = "directory"
    /\ Affect(c, "something")
    /\ Observe(c, "confirmed")
    /\ UNCHANGED <<stores, fs, tmp, req, prev, result>>

MkdirFails(c) ==
    /\ Executing(c, "make_directory")
    /\ Observe(c, "none")
    /\ UNCHANGED <<stores, world, req, prev, result>>

\* The process ran to its end, whatever its exit code.
ShellCompletes(c) ==
    /\ Executing(c, "execute_shell")
    /\ Affect(c, "something")
    /\ Observe(c, "confirmed")
    /\ UNCHANGED <<stores, fs, tmp, req, prev, result>>

\* Mutant: a timeout is taken for a process that did nothing.
TimeoutMeansNothing == "none"

\* Mutant: an observation the Literal type does not list.
UndeclaredObservation == "timeout"

\* What a timeout says of the side effect.
TimeoutObservation == "unknown"

\* subprocess.TimeoutExpired: the killed process may or may not have acted.
ShellTimesOut(c) ==
    /\ Executing(c, "execute_shell")
    /\ req[c].timeout
    /\ MayAffect(c)
    /\ Observe(c, TimeoutObservation)
    /\ UNCHANGED <<stores, fs, tmp, req, prev, result>>

ShellFailsToStart(c) ==
    /\ Executing(c, "execute_shell")
    /\ Observe(c, "none")
    /\ UNCHANGED <<stores, world, req, prev, result>>

\* A response, or an HTTPError whose body was read; IncompleteRead.
HttpAnswers(c) ==
    /\ Executing(c, "http_get")
    /\ Affect(c, "something")
    /\ \E o \in {"confirmed", "partial"} : Observe(c, o)
    /\ UNCHANGED <<stores, fs, tmp, req, prev, result>>

\* TimeoutError, or URLError: the first may follow a request that arrived, and
\* so may the second, when a redirect it answered leads to a host that refuses.
HttpFails(c) ==
    /\ Executing(c, "http_get")
    /\ MayAffect(c)
    /\ \/ req[c].timeout /\ Observe(c, TimeoutObservation)
       \/ Observe(c, "none")
    /\ UNCHANGED <<stores, fs, tmp, req, prev, result>>

\* Any other exception (connection reset while reading, a malformed answer, a
\* bad url, an HTTPError whose body cannot be read) is caught by no handler.
HttpEscapes(c) ==
    /\ Executing(c, "http_get")
    /\ MayAffect(c)
    /\ Return(c, "Raised")
    /\ UNCHANGED <<stores, fs, tmp, req, prev, observed>>

-----------------------------------------------------------------------------
(* The closing event                                                        *)

ClosingType(o) == IF o = "confirmed" THEN "execution_committed" ELSE "execution_failed"

\* Mutant: the answer follows the side effect alone.
AnswerWithoutRecord(o, recorded) == IF o = "confirmed" THEN "SUCCESS" ELSE "FAILURE"

\* What the caller is told: SUCCESS needs the commit record.
ClosingResult(o, recorded) ==
    CASE o # "confirmed" -> "FAILURE"
      [] o = "confirmed" /\ recorded -> "SUCCESS"
      [] OTHER -> "UNCONFIRMED"

ReadClosingHash(c) ==
    /\ pc[c] = "closing_hash"
    /\ prev' = [prev EXCEPT ![c] = last_hash(events)]
    /\ Goto(c, "closing_append")
    /\ UNCHANGED <<stores, world, req, observed, result>>

AppendClosing(c) ==
    /\ pc[c] = "closing_append"
    /\ events' = Append(events, make_event(c, ClosingType(observed[c]), observed[c]))
    /\ Return(c, ClosingResult(observed[c], TRUE))
    /\ UNCHANGED <<decisions, world, req, prev, observed>>

\* Mutant: the handler tries again until the store takes the event.
RetryClosing(c) ==
    /\ pc[c] \in {"closing_hash", "closing_append"}
    /\ Goto(c, "closing_hash")
    /\ UNCHANGED <<stores, world, req, prev, observed, result>>

\* last_hash() or append() raised; the exception is suppressed.
LoseClosing(c) ==
    /\ pc[c] \in {"closing_hash", "closing_append"}
    /\ Return(c, ClosingResult(observed[c], FALSE))
    /\ UNCHANGED <<stores, world, req, prev, observed>>

-----------------------------------------------------------------------------
(* The system                                                               *)

\* The process dies: its files and its committed rows stay.
Crash(c) ==
    /\ Active(c)
    /\ Goto(c, "crashed")
    /\ UNCHANGED <<stores, world, req, prev, observed, result>>

Prepare(c) == \/ ReadDecisionHash(c) \/ RecordDecision(c) \/ ReadIntentHash(c)
              \/ RejectUnrecorded(c) \/ AppendIntent(c)

Execute(c) == \/ WriteTmp(c) \/ WriteTmpFails(c) \/ ReplaceTarget(c)
              \/ ReplaceFails(c) \/ UnlinkTmp(c)
              \/ MakeOneDirectory(c) \/ DirectoryExists(c) \/ MkdirFails(c)
              \/ ShellCompletes(c) \/ ShellTimesOut(c) \/ ShellFailsToStart(c)
              \/ HttpAnswers(c) \/ HttpFails(c) \/ HttpEscapes(c)

Close(c) == ReadClosingHash(c) \/ AppendClosing(c) \/ LoseClosing(c)

Proceed(c) == Prepare(c) \/ Execute(c) \/ Close(c)

AllEnded == (\A c \in Call : Ended(c)) /\ UNCHANGED vars

Next == (\E c \in Call : Begin(c) \/ Proceed(c) \/ Crash(c)) \/ AllEnded

Spec == Init /\ [][Next]_vars

\* Executions that end by themselves: file operations, and a process with a
\* timeout.  A process without one may run forever, and http's timeout bounds
\* each socket operation, not the transfer.
Bounded(c) == \/ req[c].op \in FilesystemOperations
              \/ req[c].op = "execute_shell" /\ req[c].timeout

\* A running thread takes its next step; no caller is bound to call, no process
\* is bound to crash.
FairSpec ==
    Spec /\ \A c \in Call :
              WF_vars(Proceed(c) /\ (pc[c] = "execute" => Bounded(c)))

-----------------------------------------------------------------------------
(* Properties                                                               *)

TypeOK ==
    /\ events \in Seq(Event)
    /\ decisions \in Seq(Decision)
    /\ fs \in [Target -> FileState]
    /\ tmp \in [TmpPath -> Content \cup {"absent"}]
    /\ pc \in [Call -> ActivePC \cup {"new", "done", "crashed"}]
    /\ req \in [Call -> Request \cup {NoRequest}]
    /\ prev \in [Call -> Hash \cup DecisionHash]
    /\ observed \in [Call -> Observation]
    /\ result \in [Call -> Result \cup {"none"}]
    /\ effect \in [Call -> Content \cup {"nothing", "something"}]

\* The call has written this event.
Logged(c, type) == \E i \in DOMAIN events : events[i].hash = <<c, type>>

CallClosed(c) == Logged(c, "execution_committed") \/ Logged(c, "execution_failed")

CallIsPending(c) == \E i \in DOMAIN events : /\ events[i].hash = <<c, "intent_pending">>
                                            /\ IsOpenIntent(events, events[i])

\* INV-1b, first phase (ADR-002): no call changes the world, not even by a
\* temporary file, before its intent_pending is in the log; and it passed the
\* gates and the workspace boundary before that.
IntentBeforeEffect ==
    /\ \A c \in Call : effect[c] # "nothing" => Logged(c, "intent_pending")
    /\ \A path \in TmpPath : tmp[path] # "absent" =>
          \E i \in DOMAIN events : tmp_path(events[i].envelope) = path

\* A tool that some rule denies, or that the boundary's denied list names, never
\* reaches the log as an intent, and no file operation outside the workspace does.
OnlyGatedIntents ==
    \A i \in DOMAIN events :
        LET r == events[i].envelope IN
        /\ \A rule \in Rules : rule[r.tool] # "deny"
        /\ HasBoundary => r.tool \notin DeniedTools
        /\ r.op \in FilesystemOperations => r.target \in Workspace

\* INV-1b, second phase, and the meaning ProxyResult gives its values: SUCCESS
\* only with the effect and the commit record, UNCONFIRMED only with the effect
\* and no closing event, REJECTED only with neither effect nor event, FAILURE
\* never with a commit record.
ResultsAreTrue ==
    \A c \in Call :
        /\ result[c] = "SUCCESS" =>
              effect[c] # "nothing" /\ Logged(c, "execution_committed")
        /\ result[c] = "UNCONFIRMED" =>
              effect[c] # "nothing" /\ ~ CallClosed(c)
        /\ result[c] = "REJECTED" =>
              effect[c] = "nothing" /\ ~ Logged(c, "intent_pending") /\ ~ CallClosed(c)
        /\ result[c] = "FAILURE" => ~ Logged(c, "execution_committed")

\* The log tells the truth: a commit record means the effect took place, and for
\* the file write and the shell a closing event that observed "none" means that
\* nothing happened.
ObservationsAreTrue ==
    \A c \in Call, i \in DOMAIN events :
        /\ events[i].hash = <<c, "execution_committed">> => effect[c] # "nothing"
        /\ (/\ events[i].hash = <<c, "execution_failed">>
            /\ events[i].side_effect_observed = "none"
            /\ events[i].envelope.op \in {"write_file", "execute_shell"})
           => effect[c] = "nothing"

\* What a committed write left at its target is the content its own record
\* digests, even when calls on the same target overlap.
CommittedContent ==
    \A c \in Call, i \in DOMAIN events :
        /\ events[i].hash = <<c, "execution_committed">>
        /\ events[i].envelope.op = "write_file"
        => effect[c] = events[i].envelope.content

\* At every moment, after any crash or store failure, an effect is accounted for:
\* its call has a closing event, or its intent is in pending(), where reconcile
\* finds it.
EffectsAreAccounted ==
    \A c \in Call : effect[c] # "nothing" => CallClosed(c) \/ CallIsPending(c)

\* A record groups the events of one side effect (events.py): one intent, then at
\* most one closing event.
RecordShape ==
    \A j \in DOMAIN events :
        LET e == events[j]
            earlier == {i \in 1..(j - 1) : events[i].record_id = e.record_id}
        IN  \/ earlier = {} /\ e.type = "intent_pending"
            \/ /\ e.type \in {"execution_committed", "execution_failed"}
               /\ \E i \in earlier : earlier = {i} /\ events[i].envelope = e.envelope

\* Both hash chains verify: verify_chain() of a log nobody altered is empty.
ChainsAreIntact == /\ previous_hash_mismatch(events) = {}
                   /\ previous_hash_mismatch(decisions) = {}

\* decision_ref of an event names a decision in the decision log, and its call's
\* decision was there before the intent.
DecisionRefsResolve ==
    \A c \in Call, i \in DOMAIN events :
        events[i].hash[1] = c /\ events[i].decided =>
            \E j \in DOMAIN decisions : /\ decisions[j].hash = <<c, "decision">>
                                        /\ decisions[j].action_id = events[i].record_id

\* A file operation, or a process with a timeout, ends by returning or raising,
\* or dies with its process, whatever the store does.
BoundedCallsEnd ==
    \A c \in Call : (Active(c) /\ Bounded(c)) ~> Ended(c)

\* The protocol implements the promise: the intent in the log is the promise, the
\* world the performance, the closing event in the log the record.
CallsPromised == {c \in Call : Logged(c, "intent_pending")}
CallsPerformed == {c \in Call : effect[c] # "nothing"}
CallRecords == [c \in Call |->
    IF Logged(c, "execution_committed") THEN "committed"
    ELSE IF Logged(c, "execution_failed") THEN "failed" ELSE "open"]

Contract == INSTANCE AccountableExecution WITH
    promised <- CallsPromised, performed <- CallsPerformed,
    record <- CallRecords, answer <- result

\* Every behaviour of the protocol, crashes and store failures included, is a
\* behaviour of AccountableExecution.
KeepsContract == Contract!Spec
=============================================================================
