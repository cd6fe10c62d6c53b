-------------------------- MODULE ToolProxyProofs --------------------------
(***************************************************************************)
(* Theorems about ToolProxy, for every set of calls, requests, files and    *)
(* rules, and every interleaving, store failure and crash.                  *)
(***************************************************************************)
EXTENDS ToolProxy, TLAPS

-----------------------------------------------------------------------------
(* Type correctness                                                         *)

\* A call that has passed the gates knows what it was asked.
ActiveCallsHaveRequests == \A c \in Call : Active(c) => req[c] \in Request

\* The hash a call has read is one of the chain it is about to extend.
ReadHashesFit ==
    \A c \in Call :
        /\ pc[c] = "decision_record" => prev[c] \in DecisionHash
        /\ pc[c] \in {"intent_append", "closing_append"} => prev[c] \in Hash

TypeInv == TypeOK /\ ActiveCallsHaveRequests /\ ReadHashesFit

LEMMA InitTypeInv == Init => TypeInv
BY FilesAssumption DEF Init, TypeInv, TypeOK, ActiveCallsHaveRequests, ReadHashesFit,
    Active, ActivePC, Hash, DecisionHash, Observation, GENESIS_HASH

\* The last row of a nonempty log is one of its rows.
LEMMA LastRow ==
    ASSUME NEW S, NEW log \in Seq(S), log # <<>>
    PROVE  log[Len(log)] \in S
OBVIOUS

LEMMA LastHashType ==
    ASSUME TypeOK
    PROVE  last_hash(events) \in Hash /\ last_hash(decisions) \in DecisionHash
<1>1. last_hash(events) \in Hash
    <2>1. events # <<>> => events[Len(events)] \in Event
        BY LastRow DEF TypeOK
    <2>2. QED
        BY <2>1 DEF last_hash, Event, CallEvent, ObservedEvent, Hash
<1>2. last_hash(decisions) \in DecisionHash
    <2>1. decisions # <<>> => decisions[Len(decisions)] \in Decision
        BY LastRow DEF TypeOK
    <2>2. QED
        BY <2>1 DEF last_hash, Decision, DecisionHash
<1>3. QED BY <1>1, <1>2

LEMMA RequestIsTyped ==
    ASSUME TypeInv, NEW c \in Call, Active(c)
    PROVE  /\ req[c] \in Request /\ req[c] \in RequestType
           /\ req[c].tool \in Tool /\ req[c].target \in Target
           /\ req[c].content \in Content /\ req[c].action_id \in ActionId
           /\ tmp_path(req[c]) \in TmpPath
           /\ req[c].intent \in BOOLEAN
BY RequestAssumption DEF TypeInv, ActiveCallsHaveRequests, RequestType, TmpPath

\* Every event the protocol makes is an Event, every decision a Decision.
LEMMA MadeEventType ==
    ASSUME TypeInv, NEW c \in Call, Active(c), prev[c] \in Hash,
           NEW type \in CallEventType, NEW o \in Observation
    PROVE  make_event(c, type, o) \in Event
BY RequestIsTyped, SettingAssumption
   DEF make_event, Event, CallEvent, CallEventType, Hash, Decides

LEMMA TypeStep ==
    ASSUME TypeInv, [Next]_vars
    PROVE  TypeInv'
<1> USE DEF Goto, Return, Observe, Affect
<1>0. CASE UNCHANGED vars
    BY <1>0 DEF vars, TypeInv, TypeOK, ActiveCallsHaveRequests, ReadHashesFit, Active
<1>1. ASSUME NEW c \in Call, Begin(c) PROVE TypeInv'
    <2>1. CASE CallWithoutEnvelope(c)
        BY <2>1 DEF CallWithoutEnvelope, stores, world, TypeInv, TypeOK,
            ActiveCallsHaveRequests, ReadHashesFit, Active, ActivePC, Result
    <2>2. ASSUME NEW r \in Request, RefuseOutsideWorkspace(c, r) PROVE TypeInv'
        BY <2>2 DEF RefuseOutsideWorkspace, Submit, stores, world, TypeInv, TypeOK,
            ActiveCallsHaveRequests, ReadHashesFit, Active, ActivePC, Result
    <2>3. ASSUME NEW r \in Request, RejectAtGate(c, r) PROVE TypeInv'
        BY <2>3 DEF RejectAtGate, Submit, stores, world, TypeInv, TypeOK,
            ActiveCallsHaveRequests, ReadHashesFit, Active, ActivePC, Result
    <2>4. ASSUME NEW r \in Request, Admit(c, r) PROVE TypeInv'
        BY <2>4 DEF Admit, Submit, stores, world, TypeInv, TypeOK,
            ActiveCallsHaveRequests, ReadHashesFit, Active, ActivePC, Result
    <2>5. QED BY <1>1, <2>1, <2>2, <2>3, <2>4 DEF Begin
<1>2. ASSUME NEW c \in Call, Prepare(c) PROVE TypeInv'
    <2>0. Active(c)
        BY <1>2 DEF Prepare, ReadDecisionHash, RecordDecision, ReadIntentHash,
            RejectUnrecorded, AppendIntent, Active, ActivePC
    <2>1. CASE ReadDecisionHash(c)
        BY <2>1, LastHashType DEF ReadDecisionHash, stores, world, TypeInv, TypeOK,
            ActiveCallsHaveRequests, ReadHashesFit, Active, ActivePC, Result
    <2>2. CASE RecordDecision(c)
        <3>1. decisions' \in Seq(Decision)
            BY <2>0, <2>2, RequestIsTyped
               DEF RecordDecision, TypeInv, TypeOK, ReadHashesFit, Decision, DecisionHash
        <3>2. QED
            BY <2>2, <3>1 DEF RecordDecision, world, TypeInv, TypeOK,
                ActiveCallsHaveRequests, ReadHashesFit, Active, ActivePC, Result
    <2>3. CASE ReadIntentHash(c)
        BY <2>3, LastHashType DEF ReadIntentHash, stores, world, TypeInv, TypeOK,
            ActiveCallsHaveRequests, ReadHashesFit, Active, ActivePC, Result
    <2>4. CASE RejectUnrecorded(c)
        BY <2>4 DEF RejectUnrecorded, stores, world, TypeInv, TypeOK,
            ActiveCallsHaveRequests, ReadHashesFit, Active, ActivePC, Result
    <2>5. CASE AppendIntent(c)
        <3>1. make_event(c, "intent_pending", "none") \in Event
            BY <2>0, <2>5, MadeEventType
               DEF AppendIntent, TypeInv, ReadHashesFit, CallEventType, EventType, Observation
        <3>2. QED
            BY <2>5, <3>1 DEF AppendIntent, world, TypeInv, TypeOK,
                ActiveCallsHaveRequests, ReadHashesFit, Active, ActivePC, Result
    <2>6. QED BY <1>2, <2>1, <2>2, <2>3, <2>4, <2>5 DEF Prepare
<1>3. ASSUME NEW c \in Call, Execute(c) PROVE TypeInv'
    <2>0. Active(c)
        BY <1>3 DEF Execute, Executing, WriteTmp, WriteTmpFails, ReplaceTarget,
            ReplaceFails, UnlinkTmp, MakeOneDirectory, DirectoryExists, MkdirFails,
            ShellCompletes, ShellTimesOut, ShellFailsToStart, HttpAnswers, HttpFails,
            HttpEscapes, Active, ActivePC
    <2> USE <2>0, RequestIsTyped DEF Executing, Observation, TimeoutObservation
    <2>1. CASE WriteTmp(c)
        BY <2>1 DEF WriteTmp, stores, world, TypeInv, TypeOK,
            ActiveCallsHaveRequests, ReadHashesFit, Active, ActivePC, Result, FileState
    <2>2. CASE WriteTmpFails(c)
        BY <2>2 DEF WriteTmpFails, stores, world, TypeInv, TypeOK,
            ActiveCallsHaveRequests, ReadHashesFit, Active, ActivePC, Result, FileState
    <2>3. CASE ReplaceTarget(c)
        BY <2>3 DEF ReplaceTarget, stores, world, TypeInv, TypeOK,
            ActiveCallsHaveRequests, ReadHashesFit, Active, ActivePC, Result, FileState
    <2>4. CASE ReplaceFails(c)
        BY <2>4 DEF ReplaceFails, stores, world, TypeInv, TypeOK,
            ActiveCallsHaveRequests, ReadHashesFit, Active, ActivePC, Result, FileState
    <2>5. CASE UnlinkTmp(c)
        BY <2>5 DEF UnlinkTmp, stores, world, TypeInv, TypeOK,
            ActiveCallsHaveRequests, ReadHashesFit, Active, ActivePC, Result, FileState
    <2>6. CASE MakeOneDirectory(c)
        <3>1. PICK d \in Target : fs' = [fs EXCEPT ![d] = "directory"]
            BY <2>6 DEF MakeOneDirectory, Lineage
        <3>2. fs' \in [Target -> FileState]
            BY <3>1 DEF TypeInv, TypeOK, FileState
        <3>3. /\ pc' \in [Call -> ActivePC \cup {"new", "done", "crashed"}]
              /\ observed' \in [Call -> Observation]
              /\ \A x \in Call : pc'[x] = pc[x] \/ (x = c /\ pc'[x] = "closing_hash")
            <4>1. Observe(c, "confirmed") \/ UNCHANGED <<pc, observed>>
                BY <2>6 DEF MakeOneDirectory
            <4>2. QED
                BY <4>1 DEF TypeInv, TypeOK, ActivePC
        <3>5. QED
            BY <2>6, <3>2, <3>3 DEF MakeOneDirectory, stores, TypeInv, TypeOK,
                ActiveCallsHaveRequests, ReadHashesFit, Active, ActivePC
    <2>7. CASE DirectoryExists(c)
        BY <2>7 DEF DirectoryExists, stores, world, TypeInv, TypeOK,
            ActiveCallsHaveRequests, ReadHashesFit, Active, ActivePC, Result, FileState
    <2>8. CASE MkdirFails(c)
        BY <2>8 DEF MkdirFails, stores, world, TypeInv, TypeOK,
            ActiveCallsHaveRequests, ReadHashesFit, Active, ActivePC, Result, FileState
    <2>9. CASE ShellCompletes(c)
        BY <2>9 DEF ShellCompletes, stores, world, TypeInv, TypeOK,
            ActiveCallsHaveRequests, ReadHashesFit, Active, ActivePC, Result, FileState
    <2>10. CASE ShellTimesOut(c)
        BY <2>10 DEF ShellTimesOut, MayAffect, stores, world, TypeInv, TypeOK,
            ActiveCallsHaveRequests, ReadHashesFit, Active, ActivePC, Result, FileState
    <2>11. CASE ShellFailsToStart(c)
        BY <2>11 DEF ShellFailsToStart, stores, world, TypeInv, TypeOK,
            ActiveCallsHaveRequests, ReadHashesFit, Active, ActivePC, Result, FileState
    <2>12. CASE HttpAnswers(c)
        BY <2>12 DEF HttpAnswers, stores, world, TypeInv, TypeOK,
            ActiveCallsHaveRequests, ReadHashesFit, Active, ActivePC, Result, FileState
    <2>13. CASE HttpFails(c)
        <3>1. PICK o \in Observation : Observe(c, o)
            BY <2>13 DEF HttpFails
        <3>2. effect' \in [Call -> Content \cup {"nothing", "something"}]
            BY <2>13 DEF HttpFails, MayAffect, TypeInv, TypeOK
        <3>3. QED
            BY <2>13, <3>1, <3>2 DEF HttpFails, stores, TypeInv, TypeOK,
                ActiveCallsHaveRequests, ReadHashesFit, Active, ActivePC
    <2>14. CASE HttpEscapes(c)
        BY <2>14 DEF HttpEscapes, MayAffect, stores, world, TypeInv, TypeOK,
            ActiveCallsHaveRequests, ReadHashesFit, Active, ActivePC, Result, FileState
    <2>15. QED BY <1>3, <2>1, <2>2, <2>3, <2>4, <2>5, <2>6, <2>7, <2>8, <2>9, <2>10,
            <2>11, <2>12, <2>13, <2>14 DEF Execute
<1>4. ASSUME NEW c \in Call, Close(c) PROVE TypeInv'
    <2>0. Active(c)
        BY <1>4 DEF Close, ReadClosingHash, AppendClosing, LoseClosing, Active, ActivePC
    <2>1. CASE ReadClosingHash(c)
        BY <2>1, LastHashType DEF ReadClosingHash, stores, world, TypeInv, TypeOK,
            ActiveCallsHaveRequests, ReadHashesFit, Active, ActivePC, Result
    <2>2. CASE AppendClosing(c)
        <3>1. make_event(c, ClosingType(observed[c]), observed[c]) \in Event
            <4>1. observed[c] \in Observation /\ prev[c] \in Hash
                BY <2>2 DEF AppendClosing, TypeInv, TypeOK, ReadHashesFit
            <4>2. ClosingType(observed[c]) \in CallEventType
                BY DEF ClosingType, CallEventType, EventType
            <4>3. QED
                BY <2>0, <4>1, <4>2, MadeEventType
        <3>2. ClosingResult(observed[c], TRUE) \in Result
            BY DEF ClosingResult, Result
        <3>3. events' \in Seq(Event)
            BY <2>2, <3>1 DEF AppendClosing, TypeInv, TypeOK
        <3>4. result' \in [Call -> Result \cup {"none"}]
            BY <2>2, <3>2 DEF AppendClosing, TypeInv, TypeOK
        <3>5. pc' = [pc EXCEPT ![c] = "done"] /\ UNCHANGED <<decisions, world, req, prev, observed>>
            BY <2>2 DEF AppendClosing
        <3>6. QED
            BY <3>3, <3>4, <3>5 DEF world, TypeInv, TypeOK,
                ActiveCallsHaveRequests, ReadHashesFit, Active, ActivePC
    <2>3. CASE LoseClosing(c)
        <3>1. ClosingResult(observed[c], FALSE) \in Result
            BY DEF ClosingResult, Result
        <3>2. QED
            BY <2>3, <3>1 DEF LoseClosing, stores, world, TypeInv, TypeOK,
                ActiveCallsHaveRequests, ReadHashesFit, Active, ActivePC
    <2>4. QED BY <1>4, <2>1, <2>2, <2>3 DEF Close
<1>5. ASSUME NEW c \in Call, Crash(c) PROVE TypeInv'
    BY <1>5 DEF Crash, stores, world, TypeInv, TypeOK,
        ActiveCallsHaveRequests, ReadHashesFit, Active, ActivePC
<1>6. QED
    BY <1>0, <1>1, <1>2, <1>3, <1>4, <1>5 DEF Next, Proceed, AllEnded

\* Every reachable state has its type: the log holds events only, of the types and
\* observations events.py lists, and a call's state is one the code can be in.
THEOREM TypeCorrect == Spec => []TypeOK
<1>1. Spec => []TypeInv
    BY InitTypeInv, TypeStep, PTL DEF Spec
<1>2. TypeInv => TypeOK
    BY DEF TypeInv
<1>3. QED
    BY <1>1, <1>2, PTL

-----------------------------------------------------------------------------
(* What one step of a call does, in the terms of the two-phase protocol     *)

Step(c) == Begin(c) \/ Proceed(c) \/ Crash(c)

BeforeIntent == {"new", "decision_hash", "decision_record", "intent_hash", "intent_append"}
Performing   == {"execute", "replace", "unlink"}
Closing      == {"closing_hash", "closing_append"}

\* The call moves on within or out of the first phase, nothing recorded.
Prepares(c) ==
    /\ pc[c] \in BeforeIntent
    /\ \/ pc'[c] \in BeforeIntent /\ result'[c] = result[c]
       \/ pc'[c] = "done" /\ result'[c] \in {"REJECTED", "Raised"}
    /\ events' = events /\ effect'[c] = effect[c]

RecordsIntent(c) ==
    /\ pc[c] = "intent_append" /\ pc'[c] = "execute"
    /\ events' = Append(events, make_event(c, "intent_pending", "none"))
    /\ effect'[c] = effect[c] /\ result'[c] = result[c]

Performs(c) ==
    /\ pc[c] \in Performing /\ events' = events
    /\ effect'[c] = effect[c] \/ effect'[c] # "nothing"
    /\ \/ pc'[c] \in Performing /\ result'[c] = result[c]
       \/ pc'[c] = "done" /\ result'[c] = "Raised"
       \/ /\ pc'[c] = "closing_hash" /\ result'[c] = result[c]
          /\ observed'[c] = "confirmed" => effect'[c] # "nothing"

Closes(c) ==
    /\ pc[c] \in Closing /\ effect'[c] = effect[c] /\ observed'[c] = observed[c]
    /\ \/ pc'[c] = "closing_append" /\ events' = events /\ result'[c] = result[c]
       \/ /\ pc'[c] = "done"
          /\ events' = Append(events, make_event(c, ClosingType(observed[c]), observed[c]))
          /\ result'[c] = ClosingResult(observed[c], TRUE)
       \/ /\ pc'[c] = "done" /\ events' = events
          /\ result'[c] = ClosingResult(observed[c], FALSE)

Crashes(c) ==
    /\ Active(c) /\ pc'[c] = "crashed"
    /\ events' = events /\ effect'[c] = effect[c] /\ result'[c] = result[c]

LEMMA CallStep ==
    ASSUME TypeInv, NEW c \in Call, Step(c)
    PROVE  Prepares(c) \/ RecordsIntent(c) \/ Performs(c) \/ Closes(c) \/ Crashes(c)
<1> USE DEF Goto, Return, Observe, Affect, MayAffect, TypeInv, TypeOK, BeforeIntent,
           Performing, Closing
<1>1. CASE Begin(c)
    BY <1>1 DEF Begin, CallWithoutEnvelope, RefuseOutsideWorkspace, RejectAtGate, Admit,
        Submit, MayBegin, stores, world, Prepares
<1>2. CASE Prepare(c)
    BY <1>2 DEF Prepare, ReadDecisionHash, RecordDecision, ReadIntentHash,
        RejectUnrecorded, AppendIntent, stores, world, Prepares, RecordsIntent
<1>3. CASE Execute(c)
    <2>0. Active(c)
        BY <1>3 DEF Execute, Executing, WriteTmp, WriteTmpFails, ReplaceTarget, ReplaceFails,
            UnlinkTmp, MakeOneDirectory, DirectoryExists, MkdirFails, ShellCompletes,
            ShellTimesOut, ShellFailsToStart, HttpAnswers, HttpFails, HttpEscapes,
            Active, ActivePC
    <2>1. CASE ReplaceTarget(c)
        <3>1. tmp[tmp_path(req[c])] \in Content
            BY <2>0, <2>1, RequestIsTyped DEF ReplaceTarget
        <3>2. tmp[tmp_path(req[c])] # "nothing"
            BY <3>1, ContentAssumption
        <3>3. QED
            BY <2>1, <3>2 DEF ReplaceTarget, stores, Performs
    <2>2. CASE MakeOneDirectory(c)
        BY <2>2 DEF MakeOneDirectory, Executing, stores, Performs
    <2>3. CASE WriteTmp(c) \/ WriteTmpFails(c) \/ ReplaceFails(c) \/ UnlinkTmp(c)
        BY <2>3 DEF WriteTmp, WriteTmpFails, ReplaceFails, UnlinkTmp, Executing,
            stores, world, Performs
    <2>4. CASE DirectoryExists(c) \/ MkdirFails(c) \/ ShellCompletes(c) \/ ShellFailsToStart(c)
        BY <2>4 DEF DirectoryExists, MkdirFails, ShellCompletes, ShellFailsToStart,
            Executing, stores, world, Performs
    <2>5. CASE ShellTimesOut(c) \/ HttpAnswers(c)
        BY <2>5 DEF ShellTimesOut, HttpAnswers, TimeoutObservation,
            Executing, stores, world, Performs
    <2>6. CASE HttpFails(c) \/ HttpEscapes(c)
        BY <2>6 DEF HttpFails, HttpEscapes, TimeoutObservation,
            Executing, stores, world, Performs
    <2>7. QED BY <1>3, <2>1, <2>2, <2>3, <2>4, <2>5, <2>6 DEF Execute
<1>4. CASE Close(c)
    BY <1>4 DEF Close, ReadClosingHash, AppendClosing, LoseClosing, stores, world, Closes
<1>5. CASE Crash(c)
    BY <1>5 DEF Crash, stores, world, Crashes
<1>6. QED BY <1>1, <1>2, <1>3, <1>4, <1>5 DEF Step, Proceed

\* A step of one call leaves every other call where it is.
LEMMA OthersStay ==
    ASSUME TypeInv, NEW c \in Call, Step(c), NEW d \in Call, d # c
    PROVE  /\ pc'[d] = pc[d] /\ result'[d] = result[d] /\ effect'[d] = effect[d]
           /\ observed'[d] = observed[d] /\ req'[d] = req[d] /\ prev'[d] = prev[d]
<1> USE DEF Goto, Return, Observe, Affect, MayAffect, TypeInv, TypeOK
<1>1. CASE Begin(c)
    BY <1>1 DEF Begin, CallWithoutEnvelope, RefuseOutsideWorkspace, RejectAtGate, Admit,
        Submit, MayBegin, stores, world
<1>2. CASE Prepare(c)
    BY <1>2 DEF Prepare, ReadDecisionHash, RecordDecision, ReadIntentHash,
        RejectUnrecorded, AppendIntent, stores, world
<1>3. CASE Execute(c)
    BY <1>3 DEF Execute, Executing, WriteTmp, WriteTmpFails, ReplaceTarget, ReplaceFails,
        UnlinkTmp, MakeOneDirectory, DirectoryExists, MkdirFails, ShellCompletes,
        ShellTimesOut, ShellFailsToStart, HttpAnswers, HttpFails, HttpEscapes, stores, world
<1>4. CASE Close(c)
    BY <1>4 DEF Close, ReadClosingHash, AppendClosing, LoseClosing, stores, world
<1>5. CASE Crash(c)
    BY <1>5 DEF Crash, stores, world
<1>6. QED BY <1>1, <1>2, <1>3, <1>4, <1>5 DEF Step, Proceed

\* Appending an event logs that event and forgets none.
LEMMA AppendLogs ==
    ASSUME TypeOK, NEW e, events' = Append(events, e), NEW d, NEW type
    PROVE  Logged(d, type)' <=> Logged(d, type) \/ e.hash = <<d, type>>
<1>1. /\ Len(events') = Len(events) + 1 /\ Len(events) \in Nat
      /\ events'[Len(events) + 1] = e
      /\ \A i \in 1..Len(events) : events'[i] = events[i]
      /\ DOMAIN events = 1..Len(events) /\ DOMAIN events' = 1..(Len(events) + 1)
    BY DEF TypeOK
<1>2. QED
    BY <1>1 DEF Logged

\* What one step of call c does to the log, seen by any call.
LEMMA LogStep ==
    ASSUME TypeInv, NEW c \in Call, Step(c)
    PROVE  /\ RecordsIntent(c) => \A d \in Call, type \in EventType :
                Logged(d, type)' <=> Logged(d, type) \/ (d = c /\ type = "intent_pending")
           /\ (Closes(c) /\ events' # events) => \A d \in Call, type \in EventType :
                Logged(d, type)' <=>
                    Logged(d, type) \/ (d = c /\ type = ClosingType(observed[c]))
           /\ events' = events => \A d \in Call, type \in EventType :
                Logged(d, type)' <=> Logged(d, type)
<1>1. ASSUME NEW type \in EventType, NEW o,
             events' = Append(events, make_event(c, type, o)), NEW d \in Call, NEW t \in EventType
      PROVE  Logged(d, t)' <=> Logged(d, t) \/ (d = c /\ t = type)
    <2>1. make_event(c, type, o).hash = <<c, type>>
        BY DEF make_event
    <2>2. Logged(d, t)' <=> Logged(d, t) \/ <<c, type>> = <<d, t>>
        BY <1>1, <2>1, AppendLogs DEF TypeInv
    <2>3. QED BY <2>2
<1>2. "intent_pending" \in EventType /\ ClosingType(observed[c]) \in EventType
    BY DEF EventType, ClosingType
<1>3. events' = events => \A d \in Call, type \in EventType : Logged(d, type)' <=> Logged(d, type)
    BY DEF Logged
<1>4. QED
    BY <1>1, <1>2, <1>3 DEF RecordsIntent, Closes

-----------------------------------------------------------------------------
(* INV-1b: the inductive invariant of the two-phase protocol                *)

\* In the first phase nothing is recorded and nothing is done.
FirstPhaseIsClean(c) ==
    pc[c] \in BeforeIntent =>
        /\ effect[c] = "nothing" /\ result[c] = "none"
        /\ \A type \in EventType : ~ Logged(c, type)

\* From the intent to the closing event, exactly the intent is recorded.
SecondPhaseIsOpen(c) ==
    pc[c] \in Performing \cup Closing =>
        Logged(c, "intent_pending") /\ ~ CallClosed(c) /\ result[c] = "none"

\* What the code observed as confirmed did happen.
ConfirmedHappened(c) ==
    pc[c] \in Closing /\ observed[c] = "confirmed" => effect[c] # "nothing"

EffectNeedsIntent(c) == effect[c] # "nothing" => Logged(c, "intent_pending")

ResultIsTrue(c) ==
    /\ result[c] = "SUCCESS" =>
          effect[c] # "nothing" /\ Logged(c, "execution_committed")
    /\ result[c] = "UNCONFIRMED" => effect[c] # "nothing" /\ ~ CallClosed(c)
    /\ result[c] = "REJECTED" =>
          effect[c] = "nothing" /\ ~ Logged(c, "intent_pending") /\ ~ CallClosed(c)
    /\ result[c] = "FAILURE" => ~ Logged(c, "execution_committed")

CallInv(c) == /\ FirstPhaseIsClean(c) /\ SecondPhaseIsOpen(c) /\ ConfirmedHappened(c)
              /\ EffectNeedsIntent(c) /\ ResultIsTrue(c)

ProtocolInv == \A c \in Call : CallInv(c)

LEMMA InitProtocolInv == Init => ProtocolInv
BY DEF Init, ProtocolInv, CallInv, FirstPhaseIsClean, SecondPhaseIsOpen, ConfirmedHappened,
    EffectNeedsIntent, ResultIsTrue, Logged, CallClosed, Performing, Closing

\* A call that does not step keeps its invariant, whatever the other one appends.
LEMMA OtherCallInv ==
    ASSUME TypeInv, NEW c \in Call, Step(c), NEW d \in Call, d # c, CallInv(d)
    PROVE  CallInv(d)'
<1>1. \A type \in EventType : Logged(d, type)' <=> Logged(d, type)
    BY CallStep, LogStep DEF Prepares, RecordsIntent, Performs, Closes, Crashes
<1>2. QED
    BY <1>1, OthersStay DEF CallInv, FirstPhaseIsClean, SecondPhaseIsOpen, ConfirmedHappened,
        EffectNeedsIntent, ResultIsTrue, CallClosed, EventType

LEMMA OwnCallInv ==
    ASSUME TypeInv, NEW c \in Call, Step(c), CallInv(c)
    PROVE  CallInv(c)'
<1> USE DEF CallInv, FirstPhaseIsClean, SecondPhaseIsOpen, ConfirmedHappened,
        EffectNeedsIntent, ResultIsTrue, CallClosed, BeforeIntent, Performing, Closing
<1>0. {"intent_pending", "execution_committed", "execution_failed"} \subseteq EventType
    BY DEF EventType
<1>1. CASE Prepares(c)
    BY <1>0, <1>1, LogStep DEF Prepares
<1>2. CASE RecordsIntent(c)
    BY <1>0, <1>2, LogStep DEF RecordsIntent
<1>3. CASE Performs(c)
    BY <1>0, <1>3, LogStep DEF Performs
<1>4. CASE Closes(c)
    <2>1. ClosingType(observed[c]) = "execution_committed" <=> observed[c] = "confirmed"
        BY DEF ClosingType
    <2>2. QED
        BY <1>0, <1>4, <2>1, LogStep DEF Closes, ClosingResult, ClosingType
<1>5. CASE Crashes(c)
    BY <1>0, <1>5, LogStep DEF Crashes, Active, ActivePC
<1>6. QED
    BY <1>1, <1>2, <1>3, <1>4, <1>5, CallStep

LEMMA ProtocolStep ==
    ASSUME TypeInv, ProtocolInv, [Next]_vars
    PROVE  ProtocolInv'
<1>1. CASE UNCHANGED vars
    BY <1>1 DEF vars, ProtocolInv, CallInv, FirstPhaseIsClean, SecondPhaseIsOpen,
        ConfirmedHappened, EffectNeedsIntent, ResultIsTrue, Logged, CallClosed
<1>2. ASSUME NEW c \in Call, Step(c) PROVE ProtocolInv'
    BY <1>2, OwnCallInv, OtherCallInv DEF ProtocolInv
<1>3. QED
    BY <1>1, <1>2 DEF Next, AllEnded, Step

-----------------------------------------------------------------------------
(* Rows carry the request of the call that wrote them                       *)

\* Only the call that a row names can have written it, with its own request.
RowsMatchRequests ==
    \A i \in DOMAIN events : \A c \in Call : \A type \in EventType :
        events[i].hash = <<c, type>> =>
            /\ events[i].envelope = req[c] /\ events[i].record_id = req[c].action_id
            /\ events[i].type = type /\ req[c] \in Request

\* Every row that is not an observation was written by a call.
RowsHaveCalls ==
    \A i \in DOMAIN events : events[i].type # "reconciliation_observed" =>
        \E c \in Call, type \in EventType : events[i].hash = <<c, type>>

\* A temporary file belongs to a recorded intent.
TmpNeedsIntent ==
    \A path \in TmpPath : tmp[path] # "absent" =>
        \E i \in DOMAIN events : tmp_path(events[i].envelope) = path

RowInv == RowsMatchRequests /\ RowsHaveCalls /\ TmpNeedsIntent

\* Two actions write to the log.
LEMMA OnlyTwoAppend ==
    ASSUME NEW c \in Call, Step(c)
    PROVE  events' = events \/ AppendIntent(c) \/ AppendClosing(c)
<1>1. CASE Begin(c)
    BY <1>1 DEF Begin, CallWithoutEnvelope, RefuseOutsideWorkspace, RejectAtGate, Admit,
        Submit, stores
<1>2. CASE Prepare(c)
    BY <1>2 DEF Prepare, ReadDecisionHash, RecordDecision, ReadIntentHash,
        RejectUnrecorded, stores
<1>3. CASE Execute(c)
    BY <1>3 DEF Execute, WriteTmp, WriteTmpFails, ReplaceTarget, ReplaceFails, UnlinkTmp,
        MakeOneDirectory, DirectoryExists, MkdirFails, ShellCompletes, ShellTimesOut,
        ShellFailsToStart, HttpAnswers, HttpFails, HttpEscapes, stores
<1>4. CASE Close(c)
    BY <1>4 DEF Close, ReadClosingHash, LoseClosing, stores
<1>5. CASE Crash(c)
    BY <1>5 DEF Crash, stores
<1>6. QED
    BY <1>1, <1>2, <1>3, <1>4, <1>5 DEF Step, Proceed

\* The log grows by at most one row, made by the stepping call for its own request.
LEMMA LogGrows ==
    ASSUME TypeInv, NEW c \in Call, Step(c)
    PROVE  \/ events' = events
           \/ /\ Active(c) /\ req' = req /\ tmp' = tmp
              /\ \E type \in CallEventType, o \in Observation :
                    events' = Append(events, make_event(c, type, o))
<1>1. CASE AppendIntent(c)
    BY <1>1 DEF AppendIntent, world, Active, ActivePC, CallEventType, EventType, Observation
<1>2. CASE AppendClosing(c)
    <2>1. observed[c] \in Observation /\ ClosingType(observed[c]) \in CallEventType
        BY DEF TypeInv, TypeOK, ClosingType, CallEventType, EventType
    <2>2. QED
        BY <1>2, <2>1 DEF AppendClosing, world, Active, ActivePC
<1>3. QED
    BY <1>1, <1>2, OnlyTwoAppend

\* A request is given when a call is new, and kept.
LEMMA RequestsAreKept ==
    ASSUME TypeInv, NEW c \in Call, Step(c), NEW d \in Call, req'[d] # req[d]
    PROVE  d = c /\ pc[c] = "new"
<1>1. d = c
    BY OthersStay
<1>2. CASE Begin(c)
    BY <1>1, <1>2 DEF Begin, CallWithoutEnvelope, RefuseOutsideWorkspace, RejectAtGate, Admit,
        Submit, MayBegin
<1>3. CASE Prepare(c)
    BY <1>3 DEF Prepare, ReadDecisionHash, RecordDecision, ReadIntentHash,
        RejectUnrecorded, AppendIntent
<1>4. CASE Execute(c)
    BY <1>4 DEF Execute, WriteTmp, WriteTmpFails, ReplaceTarget, ReplaceFails, UnlinkTmp,
        MakeOneDirectory, DirectoryExists, MkdirFails, ShellCompletes, ShellTimesOut,
        ShellFailsToStart, HttpAnswers, HttpFails, HttpEscapes
<1>5. CASE Close(c)
    BY <1>5 DEF Close, ReadClosingHash, AppendClosing, LoseClosing
<1>6. CASE Crash(c)
    BY <1>6 DEF Crash
<1>7. QED
    BY <1>1, <1>2, <1>3, <1>4, <1>5, <1>6 DEF Step, Proceed

\* A temporary file appears only under a call that executes, at its own path.
LEMMA TmpStep ==
    ASSUME TypeInv, NEW c \in Call, Step(c), NEW path \in TmpPath,
           tmp'[path] # "absent", tmp[path] = "absent"
    PROVE  pc[c] = "execute" /\ path = tmp_path(req[c])
<1>1. CASE WriteTmp(c)
    BY <1>1 DEF WriteTmp, Executing, TypeInv, TypeOK
<1>2. CASE WriteTmpFails(c)
    BY <1>2 DEF WriteTmpFails, Executing, TypeInv, TypeOK
<1>3. CASE ReplaceTarget(c)
    BY <1>3 DEF ReplaceTarget, TypeInv, TypeOK
<1>4. CASE UnlinkTmp(c)
    BY <1>4 DEF UnlinkTmp, TypeInv, TypeOK
<1>5. CASE tmp' = tmp
    BY <1>5
<1>6. ~ WriteTmp(c) /\ ~ WriteTmpFails(c) /\ ~ ReplaceTarget(c) /\ ~ UnlinkTmp(c) => tmp' = tmp
    BY DEF Step, Begin, CallWithoutEnvelope, RefuseOutsideWorkspace, RejectAtGate, Admit,
        Submit, Proceed, Prepare, ReadDecisionHash, RecordDecision, ReadIntentHash,
        RejectUnrecorded, AppendIntent, Execute, ReplaceFails, MakeOneDirectory,
        DirectoryExists, MkdirFails, ShellCompletes, ShellTimesOut, ShellFailsToStart,
        HttpAnswers, HttpFails, HttpEscapes, Close, ReadClosingHash, AppendClosing,
        LoseClosing, Crash, stores, world
<1>7. QED
    BY <1>1, <1>2, <1>3, <1>4, <1>5, <1>6

LEMMA RowStep ==
    ASSUME TypeInv, ProtocolInv, RowInv, [Next]_vars
    PROVE  RowInv'
<1>1. CASE UNCHANGED vars
    BY <1>1 DEF vars, RowInv, RowsMatchRequests, RowsHaveCalls, TmpNeedsIntent
<1>2. ASSUME NEW c \in Call, Step(c) PROVE RowInv'
    <2>1. \A d \in Call : \A i \in DOMAIN events : \A type \in EventType :
              events[i].hash = <<d, type>> => req'[d] = req[d]
        BY <1>2, RequestsAreKept DEF ProtocolInv, CallInv, FirstPhaseIsClean, BeforeIntent, Logged
    <2>2. CASE events' = events
        <3>1. RowsMatchRequests' /\ RowsHaveCalls'
            BY <2>1, <2>2 DEF RowInv, RowsMatchRequests, RowsHaveCalls
        <3>2. ASSUME NEW path \in TmpPath, tmp'[path] # "absent"
              PROVE  \E i \in DOMAIN events : tmp_path(events[i].envelope) = path
            <4>1. CASE tmp[path] # "absent"
                BY <4>1 DEF RowInv, TmpNeedsIntent
            <4>2. CASE tmp[path] = "absent"
                <5>1. pc[c] = "execute" /\ path = tmp_path(req[c])
                    BY <1>2, <3>2, <4>2, TmpStep
                <5>2. Logged(c, "intent_pending")
                    BY <5>1 DEF ProtocolInv, CallInv, SecondPhaseIsOpen, Performing
                <5>3. QED
                    BY <5>1, <5>2 DEF Logged, RowInv, RowsMatchRequests, EventType
            <4>3. QED BY <4>1, <4>2
        <3>3. QED
            BY <2>2, <3>1, <3>2 DEF RowInv, TmpNeedsIntent
    <2>3. ASSUME NEW type \in EventType, NEW o \in Observation, Active(c), req' = req, tmp' = tmp,
                 events' = Append(events, make_event(c, type, o))
          PROVE  RowInv'
        <3>1. /\ DOMAIN events = 1..Len(events) /\ DOMAIN events' = 1..(Len(events) + 1)
              /\ events'[Len(events) + 1] = make_event(c, type, o)
              /\ \A i \in DOMAIN events : events'[i] = events[i]
              /\ Len(events) \in Nat
            BY <2>3 DEF TypeInv, TypeOK
        <3>2. \A i \in DOMAIN events' : i \in DOMAIN events \/ events'[i] = make_event(c, type, o)
            BY <3>1
        <3>3. RowsMatchRequests'
            <4>1. req[c] \in Request
                BY <2>3, RequestIsTyped
            <4>2. QED
                BY <2>3, <3>1, <3>2, <4>1 DEF RowInv, RowsMatchRequests, make_event
        <3>4. RowsHaveCalls'
            BY <2>3, <3>1, <3>2 DEF RowInv, RowsHaveCalls, make_event
        <3>5. TmpNeedsIntent'
            BY <2>3, <3>1 DEF RowInv, TmpNeedsIntent
        <3>6. QED
            BY <3>3, <3>4, <3>5 DEF RowInv
    <2>4. QED
        BY <1>2, <2>2, <2>3, LogGrows DEF CallEventType
<1>3. QED
    BY <1>1, <1>2 DEF Next, AllEnded, Step

-----------------------------------------------------------------------------
(* The theorems of the two-phase protocol                                   *)

IInv == TypeInv /\ ProtocolInv /\ RowInv

LEMMA InitIInv == Init => IInv
<1>1. Init => RowInv
    BY DEF Init, RowInv, RowsMatchRequests, RowsHaveCalls, TmpNeedsIntent
<1>2. QED
    BY <1>1, InitTypeInv, InitProtocolInv DEF IInv

LEMMA IInvStep == IInv /\ [Next]_vars => IInv'
BY TypeStep, ProtocolStep, RowStep DEF IInv

LEMMA IInvHolds == Spec => []IInv
BY InitIInv, IInvStep, PTL DEF Spec

\* INV-1b, first phase: no side effect and no temporary file before its intent is
\* in the log, for any number of callers and whatever fails.
THEOREM IntentFirst == Spec => []IntentBeforeEffect
<1>1. IInv => IntentBeforeEffect
    BY DEF IInv, ProtocolInv, CallInv, EffectNeedsIntent, RowInv, TmpNeedsIntent,
        IntentBeforeEffect
<1>2. QED
    BY <1>1, IInvHolds, PTL

\* INV-1b, second phase: what a caller is told is true of the world and of the log.
THEOREM ResultsHold == Spec => []ResultsAreTrue
<1>1. IInv => ResultsAreTrue
    BY DEF IInv, ProtocolInv, CallInv, ResultIsTrue, ResultsAreTrue
<1>2. QED
    BY <1>1, IInvHolds, PTL

-----------------------------------------------------------------------------
(* ToolProxy implements AccountableExecution                                *)

LEMMA InitContract == Init => Contract!Init
BY DEF Init, Contract!Init, CallsPromised, CallsPerformed, CallRecords, Logged

\* How the abstract state moves with a step of call c: only c's part of it.
LEMMA AbstractStep ==
    ASSUME IInv, NEW c \in Call, Step(c)
    PROVE  /\ CallsPromised' = IF Logged(c, "intent_pending")' THEN CallsPromised \cup {c}
                               ELSE CallsPromised
           /\ CallsPerformed' = IF effect'[c] # "nothing" THEN CallsPerformed \cup {c}
                                ELSE CallsPerformed \ {c}
           /\ CallRecords' = [CallRecords EXCEPT ![c] =
                  IF Logged(c, "execution_committed")' THEN "committed"
                  ELSE IF Logged(c, "execution_failed")' THEN "failed" ELSE "open"]
           /\ result' = [result EXCEPT ![c] = result'[c]]
<1>0. {"intent_pending", "execution_committed", "execution_failed"} \subseteq EventType
    BY DEF EventType
<1>1. TypeInv /\ TypeInv'
    BY TypeStep DEF IInv, Step, Next
<1>2. \A d \in Call \ {c} : \A type \in EventType : Logged(d, type)' <=> Logged(d, type)
    BY <1>1, CallStep, LogStep DEF Prepares, RecordsIntent, Performs, Closes, Crashes
<1>3. \A type \in EventType : Logged(c, type) => Logged(c, type)'
    BY <1>1, CallStep, LogStep DEF Prepares, RecordsIntent, Performs, Closes, Crashes
<1>4. \A d \in Call \ {c} : effect'[d] = effect[d] /\ result'[d] = result[d]
    BY <1>1, OthersStay
<1>5. CallsPromised' = IF Logged(c, "intent_pending")' THEN CallsPromised \cup {c}
                       ELSE CallsPromised
    BY <1>0, <1>2, <1>3 DEF CallsPromised
<1>6. CallsPerformed' = IF effect'[c] # "nothing" THEN CallsPerformed \cup {c}
                        ELSE CallsPerformed \ {c}
    BY <1>4 DEF CallsPerformed
<1>7. CallRecords' = [CallRecords EXCEPT ![c] =
          IF Logged(c, "execution_committed")' THEN "committed"
          ELSE IF Logged(c, "execution_failed")' THEN "failed" ELSE "open"]
    BY <1>0, <1>2 DEF CallRecords
<1>8. result' = [result EXCEPT ![c] = result'[c]]
    BY <1>1, <1>4 DEF TypeInv, TypeOK
<1>9. QED BY <1>5, <1>6, <1>7, <1>8

\* Where a call stands in the contract, read off its part of the invariant.
LEMMA AbstractState ==
    ASSUME IInv, NEW c \in Call
    PROVE  /\ c \in CallsPromised <=> Logged(c, "intent_pending")
           /\ c \in CallsPerformed <=> effect[c] # "nothing"
           /\ CallRecords[c] = "open" <=> ~ CallClosed(c)
           /\ CallRecords = [CallRecords EXCEPT ![c] = CallRecords[c]]
BY DEF CallsPromised, CallsPerformed, CallRecords, CallClosed

\* A step of c that writes no row leaves every promise and every record as it is.
LEMMA QuietStep ==
    ASSUME IInv, NEW c \in Call, Step(c), events' = events
    PROVE  CallsPromised' = CallsPromised /\ CallRecords' = CallRecords
BY DEF CallsPromised, CallRecords, Logged

LEMMA QuietPerformed ==
    ASSUME IInv, NEW c \in Call, Step(c), effect'[c] = effect[c]
    PROVE  CallsPerformed' = CallsPerformed
BY AbstractStep DEF CallsPerformed

LEMMA QuietAnswers ==
    ASSUME IInv, NEW c \in Call, Step(c), result'[c] = result[c]
    PROVE  result' = result
BY AbstractStep DEF IInv, TypeInv, TypeOK

LEMMA ContractStep ==
    ASSUME IInv, [Next]_vars
    PROVE  [Contract!Next]_(Contract!vars)
<1>1. CASE UNCHANGED vars
    BY <1>1 DEF vars, Contract!vars, CallsPromised, CallsPerformed, CallRecords, Logged
<1>2. ASSUME NEW c \in Call, Step(c)
      PROVE  [Contract!Next]_(Contract!vars)
    <2> USE <1>2
    <2>0. TypeInv /\ CallInv(c)
        BY DEF IInv, ProtocolInv
    <2>1. result' = [result EXCEPT ![c] = result'[c]]
        BY AbstractStep
    <2>2. /\ c \in CallsPromised <=> Logged(c, "intent_pending")
          /\ c \in CallsPerformed <=> effect[c] # "nothing"
          /\ CallRecords[c] = "open" <=> ~ CallClosed(c)
        BY AbstractState
    <2>3. events' = events => CallsPromised' = CallsPromised /\ CallRecords' = CallRecords
        BY QuietStep
    <2>4. effect'[c] = effect[c] => CallsPerformed' = CallsPerformed
        BY QuietPerformed
    <2>5. result'[c] = result[c] => result' = result
        BY QuietAnswers
    <2>6. effect'[c] # "nothing" => CallsPerformed' = CallsPerformed \cup {c}
        BY AbstractStep
    <2>7. {"intent_pending", "execution_committed", "execution_failed"} \subseteq EventType
        BY DEF EventType
    <2>8. pc[c] \in BeforeIntent =>
              /\ c \notin CallsPromised /\ c \notin CallsPerformed
              /\ result[c] = "none" /\ CallRecords[c] = "open"
        BY <2>0, <2>2, <2>7 DEF CallInv, FirstPhaseIsClean, CallClosed
    <2>9. pc[c] \in Performing \cup Closing =>
              c \in CallsPromised /\ result[c] = "none" /\ CallRecords[c] = "open"
        BY <2>0, <2>2 DEF CallInv, SecondPhaseIsOpen
    <2>10. CASE Prepares(c)
        <3>1. /\ CallsPromised' = CallsPromised /\ CallRecords' = CallRecords
              /\ CallsPerformed' = CallsPerformed /\ pc[c] \in BeforeIntent
            BY <2>3, <2>4, <2>10 DEF Prepares
        <3>2. CASE result'[c] = result[c]
            BY <2>5, <3>1, <3>2 DEF Contract!vars
        <3>3. CASE result'[c] \in {"REJECTED", "Raised"}
            <4>1. Contract!Refuse(c)
                BY <2>1, <2>8, <3>1, <3>3 DEF Contract!Refuse, Contract!Tell
            <4>2. QED BY <4>1 DEF Contract!Next
        <3>4. QED BY <2>10, <3>2, <3>3 DEF Prepares
    <2>11. CASE RecordsIntent(c)
        <3>1. Logged(c, "intent_pending")'
            BY <2>0, <2>7, <2>11, LogStep
        <3>2. ~ Logged(c, "execution_committed")' /\ ~ Logged(c, "execution_failed")'
            <4>1. pc[c] \in BeforeIntent
                BY <2>11 DEF RecordsIntent, BeforeIntent
            <4>2. ~ Logged(c, "execution_committed") /\ ~ Logged(c, "execution_failed")
                BY <2>0, <2>7, <4>1 DEF CallInv, FirstPhaseIsClean
            <4>3. QED BY <2>0, <2>7, <2>11, <4>2, LogStep
        <3>3. CallsPromised' = CallsPromised \cup {c}
            BY <3>1, AbstractStep
        <3>4. CallRecords' = CallRecords
            BY <2>8, <2>11, <3>2, AbstractStep, AbstractState DEF RecordsIntent, BeforeIntent
        <3>5. result' = result /\ CallsPerformed' = CallsPerformed /\ pc[c] \in BeforeIntent
            BY <2>4, <2>5, <2>11 DEF RecordsIntent, BeforeIntent
        <3>6. Contract!Promise(c)
            BY <2>8, <3>3, <3>4, <3>5 DEF Contract!Promise
        <3>7. QED BY <3>6 DEF Contract!Next
    <2>12. CASE Performs(c)
        <3>1. /\ CallsPromised' = CallsPromised /\ CallRecords' = CallRecords
              /\ pc[c] \in Performing \cup Closing
              /\ CallsPerformed' = CallsPerformed \/ CallsPerformed' = CallsPerformed \cup {c}
            BY <2>3, <2>4, <2>6, <2>12 DEF Performs
        <3>2. Contract!Running(c)
            BY <2>9, <3>1 DEF Contract!Running
        <3>3. CASE result'[c] = result[c]
            <4>1. result' = result
                BY <2>5, <3>3
            <4>2. CASE CallsPerformed' = CallsPerformed
                BY <3>1, <4>1, <4>2 DEF Contract!vars
            <4>3. CASE CallsPerformed' = CallsPerformed \cup {c}
                <5>1. Contract!Perform(c)
                    BY <3>1, <3>2, <4>1, <4>3 DEF Contract!Perform
                <5>2. QED BY <5>1 DEF Contract!Next
            <4>4. QED BY <3>1, <4>2, <4>3
        <3>4. CASE result'[c] = "Raised"
            <4>1. Contract!Abort(c)
                BY <2>1, <2>9, <3>1, <3>2, <3>4 DEF Contract!Abort, Contract!Tell
            <4>2. QED BY <4>1 DEF Contract!Next
        <3>5. QED BY <2>12, <3>3, <3>4 DEF Performs
    <2>13. CASE Closes(c)
        <3>1. /\ CallsPerformed' = CallsPerformed /\ pc[c] \in Performing \cup Closing
              /\ pc[c] \in Closing
            BY <2>4, <2>13 DEF Closes
        <3>2. Contract!Running(c) /\ result[c] = "none"
            BY <2>9, <3>1 DEF Contract!Running
        <3>3. observed[c] = "confirmed" => c \in CallsPerformed
            BY <2>0, <2>2, <3>1 DEF CallInv, ConfirmedHappened
        <3>4. CASE events' = events /\ result'[c] = result[c]
            BY <2>3, <2>5, <3>1, <3>4 DEF Contract!vars
        <3>5. CASE events' = events /\ result'[c] = ClosingResult(observed[c], FALSE)
            <4>1. CallsPromised' = CallsPromised /\ CallRecords' = CallRecords
                BY <2>3, <3>5
            <4>2. \/ c \in CallsPerformed /\ result'[c] = "UNCONFIRMED"
                  \/ result'[c] = "FAILURE"
                BY <3>3, <3>5 DEF ClosingResult
            <4>3. Contract!LeaveOpen(c)
                BY <2>1, <3>1, <3>2, <4>1, <4>2 DEF Contract!LeaveOpen, Contract!Tell
            <4>4. QED BY <4>3 DEF Contract!Next
        <3>6. CASE /\ events' = Append(events, make_event(c, ClosingType(observed[c]), observed[c]))
                   /\ result'[c] = ClosingResult(observed[c], TRUE)
            <4>1. events' # events
                BY <2>0, <3>6 DEF TypeInv, TypeOK
            <4>2. \A type \in EventType :
                      Logged(c, type)' <=> Logged(c, type) \/ type = ClosingType(observed[c])
                BY <2>0, <2>13, <4>1, LogStep
            <4>3. /\ Logged(c, "intent_pending") /\ ~ Logged(c, "execution_committed")
                  /\ ~ Logged(c, "execution_failed")
                BY <2>0, <3>1 DEF CallInv, SecondPhaseIsOpen, CallClosed
            <4>4. CallsPromised' = CallsPromised
                BY <2>7, <4>2, <4>3, AbstractStep, AbstractState
            <4>5. CASE observed[c] = "confirmed"
                <5>1. Logged(c, "execution_committed")' /\ result'[c] = "SUCCESS"
                    BY <2>7, <3>6, <4>2, <4>5 DEF ClosingType, ClosingResult
                <5>2. CallRecords' = [CallRecords EXCEPT ![c] = "committed"]
                    BY <5>1, AbstractStep
                <5>3. Contract!Confirm(c)
                    BY <2>1, <3>1, <3>2, <3>3, <4>4, <4>5, <5>1, <5>2
                       DEF Contract!Confirm, Contract!Tell
                <5>4. QED BY <5>3 DEF Contract!Next
            <4>6. CASE observed[c] # "confirmed"
                <5>1. /\ Logged(c, "execution_failed")' /\ ~ Logged(c, "execution_committed")'
                      /\ result'[c] = "FAILURE"
                    BY <2>7, <3>6, <4>2, <4>3, <4>6 DEF ClosingType, ClosingResult
                <5>2. CallRecords' = [CallRecords EXCEPT ![c] = "failed"]
                    BY <5>1, AbstractStep
                <5>3. Contract!Fail(c)
                    BY <2>1, <3>1, <3>2, <4>4, <5>1, <5>2 DEF Contract!Fail, Contract!Tell
                <5>4. QED BY <5>3 DEF Contract!Next
            <4>7. QED BY <4>5, <4>6
        <3>7. QED BY <2>13, <3>4, <3>5, <3>6 DEF Closes
    <2>14. CASE Crashes(c)
        BY <2>3, <2>4, <2>5, <2>14 DEF Crashes, Contract!vars
    <2>15. QED BY <2>0, <2>10, <2>11, <2>12, <2>13, <2>14, CallStep
<1>3. QED
    BY <1>1, <1>2 DEF Next, AllEnded, Step

\* The protocol implements its contract, for every number of callers, request set,
\* crash and store failure.
THEOREM ContractKept == Spec => KeepsContract
BY InitContract, ContractStep, IInvHolds, PTL DEF Spec, KeepsContract, Contract!Spec
=============================================================================
