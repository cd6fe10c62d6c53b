------------------------ MODULE ToolProxyRecordProofs ------------------------
(***************************************************************************)
(* What the two logs say of the calls, for every set of calls, requests,    *)
(* files and rules: records are gated, true, complete and well shaped, the  *)
(* decisions they cite exist, and the chains of callers that take turns     *)
(* verify.  All of it rests on the invariant IInv of ToolProxyProofs.       *)
(***************************************************************************)
EXTENDS ToolProxyProofs, WellFoundedInduction

-----------------------------------------------------------------------------
(* How calls become active, and what moves the decision log                 *)

\* A call becomes active by being admitted, and by nothing else.
LEMMA ActiveByAdmission ==
    ASSUME TypeInv, NEW c \in Call, Step(c), Active(c)', ~ Active(c)
    PROVE  \E r \in Request : Admit(c, r)
<1> USE DEF Goto, Return, Observe, TypeInv, TypeOK, Active, ActivePC
<1>1. CASE Begin(c)
    BY <1>1 DEF Begin, CallWithoutEnvelope, RefuseOutsideWorkspace, RejectAtGate, Submit, MayBegin
<1>2. CASE Proceed(c)
    BY <1>2 DEF Proceed, Prepare, ReadDecisionHash, RecordDecision, ReadIntentHash,
        RejectUnrecorded, AppendIntent, Execute, Executing, WriteTmp, WriteTmpFails,
        ReplaceTarget, ReplaceFails, UnlinkTmp, MakeOneDirectory, DirectoryExists, MkdirFails,
        ShellCompletes, ShellTimesOut, ShellFailsToStart, HttpAnswers, HttpFails, HttpEscapes,
        Close, ReadClosingHash, AppendClosing, LoseClosing
<1>3. CASE Crash(c)
    BY <1>3 DEF Crash
<1>4. QED
    BY <1>1, <1>2, <1>3 DEF Step

\* A request changes only when a call that has none is given one.
LEMMA RequestGiven ==
    ASSUME TypeInv, NEW c \in Call, Step(c)
    PROVE  req' = req \/ \E r \in Request : Submit(c, r)
<1>1. CASE Begin(c)
    BY <1>1 DEF Begin, CallWithoutEnvelope, RefuseOutsideWorkspace, RejectAtGate, Admit
<1>2. CASE Prepare(c)
    BY <1>2 DEF Prepare, ReadDecisionHash, RecordDecision, ReadIntentHash,
        RejectUnrecorded, AppendIntent
<1>3. CASE Execute(c)
    BY <1>3 DEF Execute, WriteTmp, WriteTmpFails, ReplaceTarget, ReplaceFails, UnlinkTmp,
        MakeOneDirectory, DirectoryExists, MkdirFails, ShellCompletes, ShellTimesOut,
        ShellFailsToStart, HttpAnswers, HttpFails, HttpEscapes
<1>4. CASE Close(c)
    BY <1>4 DEF Close, ReadClosingHash, AppendClosing, LoseClosing
<1>5. CASE Crash(c)
    BY <1>5 DEF Crash
<1>6. QED
    BY <1>1, <1>2, <1>3, <1>4, <1>5 DEF Step, Proceed

\* A call whose program counter or result is past "new" keeps its request.
LEMMA StartedKeepsRequest ==
    ASSUME TypeInv, NEW c \in Call, Step(c), NEW d \in Call, pc[d] # "new"
    PROVE  req'[d] = req[d]
BY RequestsAreKept

\* One action writes to the decision log.
LEMMA OnlyOneDecides ==
    ASSUME NEW c \in Call, Step(c)
    PROVE  decisions' = decisions \/ RecordDecision(c)
<1>1. CASE Begin(c)
    BY <1>1 DEF Begin, CallWithoutEnvelope, RefuseOutsideWorkspace, RejectAtGate, Admit,
        Submit, stores
<1>2. CASE Prepare(c)
    BY <1>2 DEF Prepare, ReadDecisionHash, ReadIntentHash, RejectUnrecorded, AppendIntent, stores
<1>3. CASE Execute(c)
    BY <1>3 DEF Execute, WriteTmp, WriteTmpFails, ReplaceTarget, ReplaceFails, UnlinkTmp,
        MakeOneDirectory, DirectoryExists, MkdirFails, ShellCompletes, ShellTimesOut,
        ShellFailsToStart, HttpAnswers, HttpFails, HttpEscapes, stores
<1>4. CASE Close(c)
    BY <1>4 DEF Close, ReadClosingHash, AppendClosing, LoseClosing, stores
<1>5. CASE Crash(c)
    BY <1>5 DEF Crash, stores
<1>6. QED
    BY <1>1, <1>2, <1>3, <1>4, <1>5 DEF Step, Proceed

\* What appending does to a sequence, in the form the proofs below use.
LEMMA AppendShape ==
    ASSUME NEW S, NEW log \in Seq(S), NEW row, NEW longer, longer = Append(log, row)
    PROVE  /\ Len(log) \in Nat /\ Len(longer) = Len(log) + 1
           /\ DOMAIN log = 1..Len(log) /\ DOMAIN longer = 1..(Len(log) + 1)
           /\ longer[Len(log) + 1] = row
           /\ \A i \in DOMAIN log : i \in DOMAIN longer /\ longer[i] = log[i]
           /\ \A i \in DOMAIN longer : i \in DOMAIN log \/ i = Len(log) + 1
OBVIOUS

\* An invariant of rows survives a step when it survives the row the step adds.
LEMMA NewRows ==
    ASSUME TypeInv, NEW c \in Call, Step(c)
    PROVE  \A i \in DOMAIN events' :
               \/ i \in DOMAIN events /\ events'[i] = events[i]
               \/ /\ i = Len(events) + 1 /\ Active(c) /\ req' = req
                  /\ \E type \in CallEventType, o \in Observation :
                        events'[i] = make_event(c, type, o)
<1>1. CASE events' = events
    BY <1>1
<1>2. ASSUME NEW type \in CallEventType, NEW o \in Observation, Active(c), req' = req,
             events' = Append(events, make_event(c, type, o))
      PROVE  \A i \in DOMAIN events' :
                 \/ i \in DOMAIN events /\ events'[i] = events[i]
                 \/ i = Len(events) + 1 /\ events'[i] = make_event(c, type, o)
    BY <1>2, AppendShape DEF TypeInv, TypeOK
<1>3. QED
    BY <1>1, <1>2, LogGrows

\* A set of rows that is not empty has a first one.
LEMMA FirstRow ==
    ASSUME NEW rows \in SUBSET Nat, rows # {}
    PROVE  first(rows) \in rows
<1>1. PICK m \in rows : \A k \in rows : ~ (<<k, m>> \in OpToRel(<, Nat))
    BY WFMin, NatLessThanWellFounded
<1>2. \A k \in rows : ~ (k < m)
    BY <1>1 DEF OpToRel
<1>3. \A k \in rows : m <= k
    BY <1>2
<1>4. QED
    BY <1>3 DEF first

\* Where nobody reconciles, no row is an observation.
OnlyCallsWrite == \A i \in DOMAIN events : events[i] \in CallEvent

LEMMA OnlyCallsStep ==
    ASSUME TypeInv, OnlyCallsWrite, [Next]_vars
    PROVE  OnlyCallsWrite'
<1>1. CASE UNCHANGED vars
    BY <1>1 DEF vars, OnlyCallsWrite
<1>2. ASSUME NEW c \in Call, Step(c), NEW i \in DOMAIN events' PROVE events'[i] \in CallEvent
    <2>1. CASE i \in DOMAIN events /\ events'[i] = events[i]
        BY <2>1 DEF OnlyCallsWrite
    <2>2. ASSUME NEW type \in CallEventType, NEW o, events'[i] = make_event(c, type, o)
          PROVE  events'[i] \in CallEvent
        <3>1. events'[i] \in Event
            BY TypeStep DEF TypeInv, TypeOK
        <3>2. events'[i].type # "reconciliation_observed"
            BY <2>2 DEF make_event, CallEventType
        <3>3. QED
            BY <3>1, <3>2 DEF Event, ObservedEvent
    <2>3. QED
        BY <1>2, <2>1, <2>2, NewRows
<1>3. QED
    BY <1>1, <1>2 DEF Next, AllEnded, Step, OnlyCallsWrite

-----------------------------------------------------------------------------
(* Gates                                                                    *)

\* What a request must satisfy before anything is recorded of it.
Gated(r) == ~ OutsideWorkspace(r) /\ ~ GateRejects(r.tool)

GateInv ==
    /\ \A c \in Call : Active(c) => Gated(req[c])
    /\ \A i \in DOMAIN events : Gated(events[i].envelope)

LEMMA GateStep ==
    ASSUME TypeInv, GateInv, [Next]_vars
    PROVE  GateInv'
<1>1. CASE UNCHANGED vars
    BY <1>1 DEF vars, GateInv, Active
<1>2. ASSUME NEW c \in Call, Step(c) PROVE GateInv'
    <2>1. ASSUME NEW d \in Call, Active(d)' PROVE Gated(req'[d])
        <3>1. CASE Active(d)
            BY <1>2, <3>1, StartedKeepsRequest DEF GateInv, Active, ActivePC
        <3>2. CASE ~ Active(d)
            <4>1. d = c
                BY <1>2, <2>1, <3>2, OthersStay DEF Active
            <4>2. PICK r \in Request : Admit(c, r)
                BY <1>2, <2>1, <3>2, <4>1, ActiveByAdmission
            <4>3. QED
                BY <4>1, <4>2 DEF Admit, Submit, Gated, TypeInv, TypeOK
        <3>3. QED BY <3>1, <3>2
    <2>2. ASSUME NEW i \in DOMAIN events' PROVE Gated(events'[i].envelope)
        BY <1>2, NewRows DEF GateInv, make_event
    <2>3. QED BY <2>1, <2>2 DEF GateInv, Gated, OutsideWorkspace
<1>3. QED
    BY <1>1, <1>2 DEF Next, AllEnded, Step

\* A tool some rule or the boundary denies never reaches the log as an intent, and
\* neither does a file operation outside the workspace, in any interleaving.
THEOREM IntentsAreGated == Spec => []OnlyGatedIntents
<1>1. Init => GateInv
    BY DEF Init, GateInv, Active, ActivePC
<1>2. TypeInv /\ GateInv /\ [Next]_vars => GateInv'
    BY GateStep
<1>3. GateInv => OnlyGatedIntents
    <2>1. ASSUME NEW tool, ~ GateRejects(tool)
          PROVE  /\ \A rule \in Rules : rule[tool] # "deny"
                 /\ HasBoundary => tool \notin DeniedTools
        BY <2>1 DEF GateRejects, PolicyDenies, evaluate_tool, Denied
    <2>2. QED
        BY <2>1 DEF GateInv, Gated, OutsideWorkspace, OnlyGatedIntents
<1>4. QED
    BY <1>1, <1>2, <1>3, InitTypeInv, TypeStep, PTL DEF Spec

-----------------------------------------------------------------------------
(* Records tell the truth                                                   *)

\* While a file write or a shell command runs, it has done nothing yet; and when
\* it observed "none", it never will have.
NothingDoneYet(c) ==
    /\ pc[c] \in {"replace", "unlink"} => req[c].op = "write_file"
    /\ pc[c] \in Performing /\ req[c].op \in {"write_file", "execute_shell"} =>
          effect[c] = "nothing"
    /\ (/\ pc[c] \in Closing /\ observed[c] = "none"
        /\ req[c].op \in {"write_file", "execute_shell"}) => effect[c] = "nothing"

CommitsHappened ==
    \A c \in Call : Logged(c, "execution_committed") => effect[c] # "nothing"

NoneMeansNothing ==
    \A c \in Call, i \in DOMAIN events :
        (/\ events[i].hash = <<c, "execution_failed">>
         /\ events[i].side_effect_observed = "none"
         /\ events[i].envelope.op \in {"write_file", "execute_shell"})
        => effect[c] = "nothing"

TruthInv == (\A c \in Call : NothingDoneYet(c)) /\ CommitsHappened /\ NoneMeansNothing

LEMMA OwnNothingDone ==
    ASSUME TypeInv, NEW c \in Call, Step(c), CallInv(c), NothingDoneYet(c)
    PROVE  NothingDoneYet(c)'
<1> USE DEF Goto, Return, Observe, Affect, MayAffect, TypeInv, TypeOK, NothingDoneYet,
        Performing, Closing
<1>1. CASE Begin(c)
    BY <1>1 DEF Begin, CallWithoutEnvelope, RefuseOutsideWorkspace, RejectAtGate, Admit,
        Submit, world
<1>2. CASE Prepare(c)
    BY <1>2 DEF Prepare, ReadDecisionHash, RecordDecision, ReadIntentHash, RejectUnrecorded,
        AppendIntent, world, CallInv, FirstPhaseIsClean, BeforeIntent
<1>3. CASE Execute(c)
    <2>1. CASE WriteTmp(c) \/ WriteTmpFails(c) \/ ReplaceFails(c) \/ UnlinkTmp(c)
        BY <2>1 DEF WriteTmp, WriteTmpFails, ReplaceFails, UnlinkTmp, Executing, world
    <2>2. CASE ReplaceTarget(c)
        BY <2>2 DEF ReplaceTarget
    <2>3. CASE MakeOneDirectory(c)
        BY <2>3 DEF MakeOneDirectory, Executing
    <2>4. CASE DirectoryExists(c) \/ MkdirFails(c) \/ ShellCompletes(c) \/ ShellFailsToStart(c)
        BY <2>4 DEF DirectoryExists, MkdirFails, ShellCompletes, ShellFailsToStart,
            Executing, world
    <2>5. CASE ShellTimesOut(c)
        BY <2>5 DEF ShellTimesOut, TimeoutObservation, Executing
    <2>6. CASE HttpAnswers(c)
        BY <2>6 DEF HttpAnswers, Executing
    <2>7. CASE HttpFails(c) \/ HttpEscapes(c)
        BY <2>7 DEF HttpFails, HttpEscapes, Executing
    <2>8. QED BY <1>3, <2>1, <2>2, <2>3, <2>4, <2>5, <2>6, <2>7 DEF Execute
<1>4. CASE Close(c)
    BY <1>4 DEF Close, ReadClosingHash, AppendClosing, LoseClosing, world
<1>5. CASE Crash(c)
    BY <1>5 DEF Crash
<1>6. QED
    BY <1>1, <1>2, <1>3, <1>4, <1>5 DEF Step, Proceed

\* The effect of a call is settled once its record is closed.
LEMMA ClosedIsSettled ==
    ASSUME IInv, NEW c \in Call, Step(c), NEW d \in Call, CallClosed(d)
    PROVE  effect'[d] = effect[d]
<1>1. CASE d # c
    BY <1>1, OthersStay DEF IInv
<1>2. CASE d = c
    <2>1. pc[c] \notin Performing
        BY <1>2 DEF IInv, ProtocolInv, CallInv, SecondPhaseIsOpen
    <2>2. QED
        BY <1>2, <2>1, CallStep DEF IInv, Prepares, RecordsIntent, Performs, Closes, Crashes
<1>3. QED BY <1>1, <1>2

\* The row a step adds says what its call observed.
LEMMA NewRowIsFirstOrClosing ==
    ASSUME TypeInv, NEW c \in Call, Step(c), NEW i \in DOMAIN events', i \notin DOMAIN events
    PROVE  /\ i = Len(events) + 1
           /\ \/ RecordsIntent(c) /\ events'[i] = make_event(c, "intent_pending", "none")
              \/ /\ Closes(c) /\ events' # events
                 /\ events'[i] = make_event(c, ClosingType(observed[c]), observed[c])
                 /\ result'[c] = ClosingResult(observed[c], TRUE)
<1>1. events' # events
    OBVIOUS
<1>2. \/ RecordsIntent(c) /\ events' = Append(events, make_event(c, "intent_pending", "none"))
      \/ /\ Closes(c)
         /\ events' = Append(events, make_event(c, ClosingType(observed[c]), observed[c]))
         /\ result'[c] = ClosingResult(observed[c], TRUE)
    BY <1>1, CallStep DEF Prepares, RecordsIntent, Performs, Closes, Crashes
<1>3. ASSUME NEW row, events' = Append(events, row)
      PROVE  i = Len(events) + 1 /\ events'[i] = row
    BY <1>3, AppendShape DEF TypeInv, TypeOK
<1>4. QED
    BY <1>1, <1>2, <1>3

LEMMA TruthStep ==
    ASSUME IInv, TruthInv, [Next]_vars
    PROVE  TruthInv'
<1>1. CASE UNCHANGED vars
    BY <1>1 DEF vars, TruthInv, NothingDoneYet, CommitsHappened, NoneMeansNothing, Logged
<1>2. ASSUME NEW c \in Call, Step(c) PROVE TruthInv'
    <2> USE <1>2
    <2>0. TypeInv /\ CallInv(c) /\ NothingDoneYet(c)
        BY DEF IInv, ProtocolInv, TruthInv
    <2>1. ASSUME NEW d \in Call PROVE NothingDoneYet(d)'
        BY <2>0, OwnNothingDone, OthersStay DEF TruthInv, NothingDoneYet
    <2>2. ASSUME NEW d \in Call, Logged(d, "execution_committed")' PROVE effect'[d] # "nothing"
        <3>1. CASE Logged(d, "execution_committed")
            BY <3>1, ClosedIsSettled DEF TruthInv, CommitsHappened, CallClosed
        <3>2. CASE ~ Logged(d, "execution_committed")
            <4>1. "execution_committed" \in EventType
                BY DEF EventType
            <4>2. d = c /\ Closes(c) /\ ClosingType(observed[c]) = "execution_committed"
                BY <2>0, <2>2, <3>2, <4>1, CallStep, LogStep
                   DEF Prepares, RecordsIntent, Performs, Closes, Crashes
            <4>3. observed[c] = "confirmed" /\ pc[c] \in Closing /\ effect'[c] = effect[c]
                BY <4>2 DEF ClosingType, Closes
            <4>4. QED
                BY <2>0, <4>2, <4>3 DEF CallInv, ConfirmedHappened
        <3>3. QED BY <3>1, <3>2
    <2>3. ASSUME NEW d \in Call, NEW i \in DOMAIN events',
                 events'[i].hash = <<d, "execution_failed">>,
                 events'[i].side_effect_observed = "none",
                 events'[i].envelope.op \in {"write_file", "execute_shell"}
          PROVE  effect'[d] = "nothing"
        <3>1. CASE i \in DOMAIN events
            <4>1. events'[i] = events[i]
                BY <2>0, <3>1, NewRows DEF TypeInv, TypeOK
            <4>2. CallClosed(d)
                BY <2>3, <3>1, <4>1 DEF CallClosed, Logged
            <4>3. QED
                BY <2>3, <3>1, <4>1, <4>2, ClosedIsSettled DEF TruthInv, NoneMeansNothing
        <3>2. CASE i \notin DOMAIN events
            <4>1. /\ d = c /\ Closes(c) /\ observed[c] = "none"
                  /\ events'[i].envelope = req[c]
                <5>1. CASE events'[i] = make_event(c, "intent_pending", "none")
                    BY <2>3, <5>1 DEF make_event
                <5>2. CASE /\ Closes(c)
                           /\ events'[i] = make_event(c, ClosingType(observed[c]), observed[c])
                    <6>1. events'[i].hash = <<c, ClosingType(observed[c])>>
                        BY <5>2 DEF make_event
                    <6>2. d = c
                        BY <2>3, <6>1
                    <6>3. QED
                        BY <2>3, <5>2, <6>2 DEF make_event
                <5>3. QED
                    BY <2>0, <3>2, <5>1, <5>2, NewRowIsFirstOrClosing
            <4>2. pc[c] \in Closing /\ effect'[c] = effect[c]
                BY <4>1 DEF Closes
            <4>3. QED
                BY <2>0, <2>3, <4>1, <4>2 DEF NothingDoneYet
        <3>3. QED BY <3>1, <3>2
    <2>4. QED
        BY <2>1, <2>2, <2>3 DEF TruthInv, CommitsHappened, NoneMeansNothing
<1>3. QED
    BY <1>1, <1>2 DEF Next, AllEnded, Step

LEMMA TruthInvHolds == Spec => []TruthInv
<1>1. Init => TruthInv
    BY DEF Init, TruthInv, NothingDoneYet, CommitsHappened, NoneMeansNothing, Logged
<1>2. IInv /\ TruthInv /\ [Next]_vars => TruthInv'
    BY TruthStep
<1>3. QED
    BY <1>1, <1>2, IInvHolds, PTL DEF Spec

\* A commit record means that the effect took place; for the file write and the shell
\* a closing record that observed "none" means that nothing happened.
THEOREM ObservationsHold == Spec => []ObservationsAreTrue
<1>1. TruthInv => ObservationsAreTrue
    BY DEF TruthInv, CommitsHappened, NoneMeansNothing, Logged, ObservationsAreTrue
<1>2. QED
    BY <1>1, TruthInvHolds, PTL

-----------------------------------------------------------------------------
(* Callers that never use an action_id twice                                *)

IdsAreFresh ==
    \A c, d \in Call :
        c # d /\ req[c] # NoRequest /\ req[d] # NoRequest =>
            req[c].action_id # req[d].action_id

\* What the assumption on the callers gives in every state.
FreshInv == FreshIds => IdsAreFresh

LEMMA InitFreshInv == Init => FreshInv
BY DEF Init, FreshInv, IdsAreFresh

LEMMA FreshStep ==
    ASSUME TypeInv, FreshInv, [Next]_vars
    PROVE  FreshInv'
<1>1. CASE UNCHANGED vars
    BY <1>1 DEF vars, FreshInv, IdsAreFresh
<1>2. ASSUME NEW c \in Call, Step(c) PROVE FreshInv'
    <2>1. CASE req' = req
        BY <2>1 DEF FreshInv, IdsAreFresh
    <2>2. CASE \E r \in Request : Submit(c, r)
        <3>1. PICK r \in Request : Submit(c, r)
            BY <2>2
        <3>2. \A d \in Call : req'[d] = IF d = c THEN r ELSE req[d]
            BY <3>1 DEF Submit, TypeInv, TypeOK
        <3>3. QED
            BY <3>1, <3>2 DEF Submit, IdIsFresh, FreshInv, IdsAreFresh
    <2>3. QED
        BY <1>2, <2>1, <2>2, RequestGiven
<1>3. QED
    BY <1>1, <1>2 DEF Next, AllEnded, Step

LEMMA FreshInvHolds == Spec => [](IInv /\ FreshInv)
<1>1. IInv => TypeInv
    BY DEF IInv
<1>2. TypeInv /\ FreshInv /\ [Next]_vars => FreshInv'
    BY FreshStep
<1>3. QED
    BY <1>1, <1>2, InitFreshInv, IInvHolds, PTL DEF Spec

\* A call that has written a row, or is past the gates, was given a request.
LEMMA HasRequest ==
    ASSUME IInv, NEW c \in Call,
           Active(c) \/ \E i \in DOMAIN events, type \in EventType : events[i].hash = <<c, type>>
    PROVE  req[c] \in Request /\ req[c] # NoRequest
BY RequestAssumption DEF IInv, TypeInv, ActiveCallsHaveRequests, RowInv, RowsMatchRequests

\* Distinct calls that have written rows wrote them under distinct records.
LEMMA RecordsAreOwn ==
    ASSUME IInv, FreshIds, FreshInv,
           NEW i \in DOMAIN events, NEW j \in DOMAIN events,
           NEW c \in Call, NEW d \in Call, NEW t \in EventType, NEW u \in EventType,
           events[i].hash = <<c, t>>, events[j].hash = <<d, u>>,
           events[i].record_id = events[j].record_id
    PROVE  c = d
<1>1. req[c] # NoRequest /\ req[d] # NoRequest
    BY HasRequest
<1>2. events[i].record_id = req[c].action_id /\ events[j].record_id = req[d].action_id
    BY DEF IInv, RowInv, RowsMatchRequests
<1>3. QED
    BY <1>1, <1>2 DEF FreshInv, IdsAreFresh

-----------------------------------------------------------------------------
(* Every effect is accounted for                                            *)

LEMMA EffectIsAccounted ==
    ASSUME IInv, FreshIds, FreshInv, NEW c \in Call, effect[c] # "nothing", ~ CallClosed(c)
    PROVE  CallIsPending(c)
<1>0. {"intent_pending", "execution_committed", "execution_failed"} \subseteq EventType
    BY DEF EventType
<1>1. PICK i \in DOMAIN events : events[i].hash = <<c, "intent_pending">>
    BY DEF IInv, ProtocolInv, CallInv, EffectNeedsIntent, Logged
<1>2. events[i].type = "intent_pending"
    BY <1>0, <1>1 DEF IInv, RowInv, RowsMatchRequests
<1>3. ASSUME NEW j \in DOMAIN events, events[j].record_id = events[i].record_id,
             events[j].type \in ClosingTypes
      PROVE  FALSE
    <2>1. PICK d \in Call, type \in EventType : events[j].hash = <<d, type>>
        BY <1>3 DEF IInv, RowInv, RowsHaveCalls, ClosingTypes
    <2>2. d = c
        BY <1>0, <1>1, <1>3, <2>1, RecordsAreOwn
    <2>3. events[j].type = type
        BY <2>1 DEF IInv, RowInv, RowsMatchRequests
    <2>4. CallClosed(c)
        BY <1>3, <2>1, <2>2, <2>3 DEF ClosingTypes, CallClosed, Logged
    <2>5. QED BY <2>4
<1>4. QED
    BY <1>1, <1>2, <1>3 DEF CallIsPending, IsOpenIntent, Closed

\* At every moment an effect has its closing record, or its intent is among those
\* reconcile() looks at: whatever crashed or failed in between.
THEOREM EffectsAccounted ==
    ASSUME FreshIds
    PROVE  Spec => []EffectsAreAccounted
<1>1. IInv /\ FreshInv => EffectsAreAccounted
    BY EffectIsAccounted DEF EffectsAreAccounted
<1>2. QED
    BY <1>1, FreshInvHolds, PTL

-----------------------------------------------------------------------------
(* A committed write left its own content                                   *)

\* The content a write is about to put in place, has put there, or has recorded.
WritesOwnContent(c) ==
    /\ pc[c] = "replace" => tmp[tmp_path(req[c])] = req[c].content
    /\ (/\ pc[c] \in Closing /\ observed[c] = "confirmed"
        /\ req[c].op = "write_file") => effect[c] = req[c].content
    /\ Logged(c, "execution_committed") /\ req[c].op = "write_file" =>
          effect[c] = req[c].content

ContentInv == \A c \in Call : WritesOwnContent(c)

\* A call touches no temporary file but its own.
LEMMA TmpIsOwn ==
    ASSUME TypeInv, NEW c \in Call, Step(c), NEW path \in TmpPath, tmp'[path] # tmp[path]
    PROVE  path = tmp_path(req[c]) /\ pc[c] \in Performing
<1>1. CASE WriteTmp(c)
    BY <1>1 DEF WriteTmp, Executing, TypeInv, TypeOK, Performing
<1>2. CASE WriteTmpFails(c)
    BY <1>2 DEF WriteTmpFails, Executing, TypeInv, TypeOK, Performing
<1>3. CASE ReplaceTarget(c)
    BY <1>3 DEF ReplaceTarget, TypeInv, TypeOK, Performing
<1>4. CASE UnlinkTmp(c)
    BY <1>4 DEF UnlinkTmp, TypeInv, TypeOK, Performing
<1>5. ~ WriteTmp(c) /\ ~ WriteTmpFails(c) /\ ~ ReplaceTarget(c) /\ ~ UnlinkTmp(c) => tmp' = tmp
    BY DEF Step, Begin, CallWithoutEnvelope, RefuseOutsideWorkspace, RejectAtGate, Admit,
        Submit, Proceed, Prepare, ReadDecisionHash, RecordDecision, ReadIntentHash,
        RejectUnrecorded, AppendIntent, Execute, ReplaceFails, MakeOneDirectory,
        DirectoryExists, MkdirFails, ShellCompletes, ShellTimesOut, ShellFailsToStart,
        HttpAnswers, HttpFails, HttpEscapes, Close, ReadClosingHash, AppendClosing,
        LoseClosing, Crash, stores, world
<1>6. QED
    BY <1>1, <1>2, <1>3, <1>4, <1>5

\* The part of the stepping call.
LEMMA OwnContent ==
    ASSUME TypeInv, NEW c \in Call, Step(c), CallInv(c), NothingDoneYet(c), WritesOwnContent(c)
    PROVE  WritesOwnContent(c)'
<1> USE DEF Performing, Closing
<1>0. "execution_committed" \in EventType
    BY DEF EventType
<1>1. Logged(c, "execution_committed")' /\ ~ Logged(c, "execution_committed") =>
          pc[c] \in Closing /\ observed[c] = "confirmed" /\ effect'[c] = effect[c]
    BY <1>0, CallStep, LogStep
       DEF Prepares, RecordsIntent, Performs, Closes, Crashes, ClosingType
<1>2. pc[c] \in Performing => ~ Logged(c, "execution_committed")
    BY DEF CallInv, SecondPhaseIsOpen, CallClosed
<1>3. pc[c] \in BeforeIntent => ~ Logged(c, "execution_committed")
    BY <1>0 DEF CallInv, FirstPhaseIsClean
<1> USE DEF Goto, Return, Observe, Affect, MayAffect, TypeInv, TypeOK, WritesOwnContent
<1>4. CASE Begin(c)
    <2>1. pc[c] = "new" /\ pc'[c] \notin {"replace"} \cup Closing /\ events' = events
        BY <1>4 DEF Begin, CallWithoutEnvelope, RefuseOutsideWorkspace, RejectAtGate, Admit,
            Submit, MayBegin, stores
    <2>2. QED
        BY <1>1, <1>3, <2>1 DEF BeforeIntent
<1>5. CASE Prepare(c)
    <2>1. pc[c] \in BeforeIntent /\ pc'[c] \notin {"replace"} \cup Closing
        BY <1>5 DEF Prepare, ReadDecisionHash, RecordDecision, ReadIntentHash,
            RejectUnrecorded, AppendIntent, BeforeIntent
    <2>2. QED
        BY <1>1, <1>3, <2>1 DEF BeforeIntent
<1>6. CASE Execute(c)
    <2>0. pc[c] \in Performing /\ ~ Logged(c, "execution_committed")'
        BY <1>1, <1>2, <1>6 DEF Execute, Executing, WriteTmp, WriteTmpFails, ReplaceTarget,
            ReplaceFails, UnlinkTmp, MakeOneDirectory, DirectoryExists, MkdirFails,
            ShellCompletes, ShellTimesOut, ShellFailsToStart, HttpAnswers, HttpFails, HttpEscapes
    <2>1. CASE WriteTmp(c)
        <3>1. tmp_path(req[c]) \in TmpPath
            BY <2>0, RequestIsTyped DEF Active, ActivePC
        <3>2. QED
            BY <2>0, <2>1, <3>1 DEF WriteTmp, Executing
    <2>2. CASE WriteTmpFails(c) \/ ReplaceFails(c) \/ UnlinkTmp(c)
        BY <2>0, <2>2 DEF WriteTmpFails, ReplaceFails, UnlinkTmp, Executing
    <2>3. CASE ReplaceTarget(c)
        BY <2>0, <2>3 DEF ReplaceTarget
    <2>4. CASE MakeOneDirectory(c)
        BY <2>0, <2>4 DEF MakeOneDirectory, Executing
    <2>5. CASE \/ DirectoryExists(c) \/ MkdirFails(c) \/ ShellCompletes(c) \/ ShellTimesOut(c)
               \/ ShellFailsToStart(c)
        BY <2>0, <2>5 DEF DirectoryExists, MkdirFails, ShellCompletes, ShellTimesOut,
            ShellFailsToStart, Executing
    <2>6. CASE HttpAnswers(c) \/ HttpFails(c) \/ HttpEscapes(c)
        BY <2>0, <2>6 DEF HttpAnswers, HttpFails, HttpEscapes, Executing
    <2>7. QED BY <1>6, <2>1, <2>2, <2>3, <2>4, <2>5, <2>6 DEF Execute
<1>7. CASE Close(c)
    BY <1>1, <1>7 DEF Close, ReadClosingHash, AppendClosing, LoseClosing, world
<1>8. CASE Crash(c)
    BY <1>1, <1>8 DEF Crash, world
<1>9. QED
    BY <1>4, <1>5, <1>6, <1>7, <1>8 DEF Step, Proceed

\* The part of every other call: its temporary file is another one.
LEMMA OtherContent ==
    ASSUME IInv, FreshIds, FreshInv, NEW c \in Call, Step(c), NEW d \in Call, d # c,
           WritesOwnContent(d)
    PROVE  WritesOwnContent(d)'
<1>0. TypeInv /\ "execution_committed" \in EventType
    BY DEF IInv, EventType
<1>1. pc'[d] = pc[d] /\ req'[d] = req[d] /\ observed'[d] = observed[d] /\ effect'[d] = effect[d]
    BY <1>0, OthersStay
<1>2. Logged(d, "execution_committed")' <=> Logged(d, "execution_committed")
    BY <1>0, CallStep, LogStep DEF Prepares, RecordsIntent, Performs, Closes, Crashes
<1>3. CASE pc[d] = "replace"
    <2>1. Active(d) /\ req[d] # NoRequest /\ tmp_path(req[d]) \in TmpPath
        BY <1>0, <1>3, HasRequest, RequestIsTyped DEF Active, ActivePC
    <2>2. tmp'[tmp_path(req[d])] = tmp[tmp_path(req[d])]
        <3>1. SUFFICES ASSUME tmp'[tmp_path(req[d])] # tmp[tmp_path(req[d])] PROVE FALSE
            OBVIOUS
        <3>2. tmp_path(req[d]) = tmp_path(req[c]) /\ pc[c] \in Performing
            BY <1>0, <2>1, <3>1, TmpIsOwn
        <3>3. req[c] # NoRequest
            BY <3>2, HasRequest DEF Active, ActivePC, Performing
        <3>4. QED
            BY <2>1, <3>2, <3>3 DEF tmp_path, FreshInv, IdsAreFresh
    <2>3. QED
        BY <1>1, <1>2, <2>2 DEF WritesOwnContent
<1>4. CASE pc[d] # "replace"
    BY <1>1, <1>2, <1>4 DEF WritesOwnContent
<1>5. QED BY <1>3, <1>4

\* What a committed write left at its target is the content its own record digests,
\* even when calls on the same target overlap: the temporary name holds the record's
\* identity, and no two calls share one.
THEOREM CommittedContentHolds ==
    ASSUME FreshIds
    PROVE  Spec => []CommittedContent
<1>1. Init => ContentInv
    BY DEF Init, ContentInv, WritesOwnContent, Closing, Logged
<1>2. IInv /\ FreshInv /\ TruthInv /\ ContentInv /\ [Next]_vars => ContentInv'
    <2> SUFFICES ASSUME IInv, FreshInv, TruthInv, ContentInv, [Next]_vars
                 PROVE  ContentInv'
        OBVIOUS
    <2>1. CASE UNCHANGED vars
        BY <2>1 DEF vars, ContentInv, WritesOwnContent, Logged
    <2>2. ASSUME NEW c \in Call, Step(c) PROVE ContentInv'
        BY <2>2, OwnContent, OtherContent DEF IInv, ProtocolInv, TruthInv, ContentInv
    <2>3. QED
        BY <2>1, <2>2 DEF Next, AllEnded, Step
<1>3. IInv /\ ContentInv => CommittedContent
    BY DEF IInv, RowInv, RowsMatchRequests, ContentInv, WritesOwnContent, CommittedContent,
        Logged, EventType
<1>4. QED
    BY <1>1, <1>2, <1>3, TruthInvHolds, FreshInvHolds, PTL DEF Spec

-----------------------------------------------------------------------------
(* The shape of a record                                                    *)

\* The rows of an active call's record are the rows it wrote itself.
LEMMA RowsOfRecord ==
    ASSUME IInv, FreshIds, FreshInv, NEW c \in Call, Active(c),
           NEW i \in DOMAIN events, events[i].record_id = req[c].action_id,
           events[i].type # "reconciliation_observed"
    PROVE  /\ events[i].type \in EventType /\ events[i].hash = <<c, events[i].type>>
           /\ events[i].envelope = req[c]
<1>1. PICK d \in Call, type \in EventType : events[i].hash = <<d, type>>
    BY DEF IInv, RowInv, RowsHaveCalls
<1>2. /\ events[i].record_id = req[d].action_id /\ events[i].type = type
      /\ events[i].envelope = req[d]
    BY <1>1 DEF IInv, RowInv, RowsMatchRequests
<1>3. req[d] # NoRequest /\ req[c] # NoRequest
    BY <1>1, HasRequest
<1>4. d = c
    BY <1>2, <1>3 DEF FreshInv, IdsAreFresh
<1>5. QED BY <1>1, <1>2, <1>4

\* One row fits the log before it; RecordShape says it of every row.
RowFits(log, j) ==
    LET earlier == {i \in 1..(j - 1) : log[i].record_id = log[j].record_id}
    IN  \/ earlier = {} /\ log[j].type = "intent_pending"
        \/ /\ log[j].type \in {"execution_committed", "execution_failed"}
           /\ \E i \in earlier : earlier = {i} /\ log[i].envelope = log[j].envelope

LEMMA ShapeByRow == RecordShape <=> \A j \in DOMAIN events : RowFits(events, j)
BY DEF RecordShape, RowFits

\* A record has one intent.
LEMMA OneIntent ==
    ASSUME TypeOK, RecordShape, NEW i \in DOMAIN events, NEW k \in DOMAIN events,
           events[i].record_id = events[k].record_id,
           events[i].type = "intent_pending", events[k].type = "intent_pending"
    PROVE  i = k
<1>1. DOMAIN events = 1..Len(events) /\ Len(events) \in Nat
    BY DEF TypeOK
<1>2. ASSUME NEW a \in DOMAIN events, NEW b \in DOMAIN events, a < b,
             events[a].record_id = events[b].record_id, events[b].type = "intent_pending"
      PROVE  FALSE
    <2>1. a \in {n \in 1..(b - 1) : events[n].record_id = events[b].record_id}
        BY <1>1, <1>2
    <2>2. QED
        BY <1>2, <2>1, ShapeByRow DEF RowFits
<1>3. QED
    BY <1>1, <1>2

LEMMA ShapeStep ==
    ASSUME IInv, FreshIds, FreshInv, RecordShape, [Next]_vars
    PROVE  RecordShape'
<1>0. TypeInv /\ TypeOK
    BY DEF IInv, TypeInv
<1>1. CASE UNCHANGED vars
    BY <1>1 DEF vars, RecordShape
<1>2. ASSUME NEW c \in Call, Step(c), NEW j \in DOMAIN events' PROVE RowFits(events', j)
    <2>0. /\ DOMAIN events = 1..Len(events) /\ Len(events) \in Nat
          /\ \A i \in DOMAIN events : events'[i] = events[i]
          /\ j \notin DOMAIN events => j = Len(events) + 1
        <3>1. CASE events' = events
            BY <1>0, <3>1 DEF TypeOK
        <3>2. CASE \E row : events' = Append(events, row)
            BY <1>0, <3>2, AppendShape DEF TypeOK
        <3>3. QED BY <1>0, <1>2, <3>1, <3>2, LogGrows
    <2>1. CASE j \in DOMAIN events
        <3>1. RowFits(events, j)
            BY <2>1, ShapeByRow
        <3>2. \A i \in 1..j : events'[i] = events[i]
            BY <2>0, <2>1
        <3>3. {i \in 1..(j - 1) : events'[i].record_id = events'[j].record_id} =
              {i \in 1..(j - 1) : events[i].record_id = events[j].record_id}
            BY <2>0, <2>1, <3>2
        <3>4. QED
            BY <2>0, <2>1, <3>1, <3>2, <3>3 DEF RowFits
    <2>2. CASE j \notin DOMAIN events
        <3> DEFINE earlier == {i \in 1..(j - 1) : events'[i].record_id = events'[j].record_id}
        <3>1. earlier \subseteq DOMAIN events
            BY <2>0, <2>2
        <3>2. ASSUME Active(c), events'[j].record_id = req[c].action_id, NEW i \in earlier
              PROVE  /\ events[i].type \in EventType /\ events[i].hash = <<c, events[i].type>>
                     /\ events[i].envelope = req[c] /\ events'[i] = events[i]
            <4>1. i \in DOMAIN events /\ events'[i] = events[i]
                BY <2>0, <3>1
            <4>2. events[i].record_id = req[c].action_id
                BY <3>2, <4>1
            <4>3. events[i].type # "reconciliation_observed"
                BY <4>1, ShapeByRow DEF RowFits
            <4>4. QED BY <3>2, <4>1, <4>2, <4>3, RowsOfRecord
        <3>3. CASE RecordsIntent(c) /\ events'[j] = make_event(c, "intent_pending", "none")
            <4>1. /\ Active(c) /\ events'[j].record_id = req[c].action_id
                  /\ events'[j].type = "intent_pending" /\ pc[c] \in BeforeIntent
                BY <3>3 DEF RecordsIntent, make_event, Active, ActivePC, BeforeIntent
            <4>2. \A type \in EventType : ~ Logged(c, type)
                BY <4>1 DEF IInv, ProtocolInv, CallInv, FirstPhaseIsClean
            <4>3. earlier = {}
                BY <3>1, <3>2, <4>1, <4>2 DEF Logged
            <4>4. QED
                BY <4>1, <4>3 DEF RowFits
        <3>4. CASE Closes(c) /\ events'[j] = make_event(c, ClosingType(observed[c]), observed[c])
            <4>1. /\ Active(c) /\ events'[j].record_id = req[c].action_id
                  /\ events'[j].type \in {"execution_committed", "execution_failed"}
                  /\ events'[j].envelope = req[c]
                BY <3>4 DEF Closes, Closing, make_event, Active, ActivePC, ClosingType
            <4>2. Logged(c, "intent_pending") /\ ~ CallClosed(c)
                BY <3>4 DEF Closes, IInv, ProtocolInv, CallInv, SecondPhaseIsOpen
            <4>3. PICK i \in DOMAIN events : events[i].hash = <<c, "intent_pending">>
                BY <4>2 DEF Logged
            <4>4. /\ events[i].record_id = req[c].action_id /\ events[i].envelope = req[c]
                  /\ events[i].type = "intent_pending"
                BY <4>3 DEF IInv, RowInv, RowsMatchRequests, EventType
            <4>5. i \in earlier
                BY <2>0, <2>2, <4>1, <4>4
            <4>6. ASSUME NEW k \in earlier PROVE k = i
                <5>1. /\ k \in DOMAIN events /\ events[k].hash = <<c, events[k].type>>
                      /\ events'[k] = events[k]
                    BY <3>1, <3>2, <4>1
                <5>2. events[k].type \notin {"execution_committed", "execution_failed"}
                    BY <4>2, <5>1 DEF CallClosed, Logged
                <5>3. events[k].type = "intent_pending"
                    BY <5>1, <5>2, ShapeByRow DEF RowFits
                <5>4. events[k].record_id = events[i].record_id
                    BY <4>1, <4>4, <5>1
                <5>5. QED
                    BY <1>0, <4>4, <5>1, <5>3, <5>4, OneIntent
            <4>7. earlier = {i} /\ events'[i] = events[i]
                BY <2>0, <4>5, <4>6
            <4>8. QED
                BY <4>1, <4>4, <4>5, <4>7 DEF RowFits
        <3>5. QED
            BY <1>0, <1>2, <2>2, <3>3, <3>4, NewRowIsFirstOrClosing
    <2>3. QED BY <2>1, <2>2
<1>3. RecordShape' <=> \A j \in DOMAIN events' : RowFits(events', j)
    BY DEF RecordShape, RowFits
<1>4. QED
    BY <1>1, <1>2, <1>3 DEF Next, AllEnded, Step

\* A record is one intent and then at most one closing event, of the same envelope.
THEOREM RecordShapeHolds ==
    ASSUME FreshIds
    PROVE  Spec => []RecordShape
<1>1. Init => RecordShape
    BY DEF Init, RecordShape
<1>2. IInv /\ FreshInv /\ RecordShape /\ [Next]_vars => RecordShape'
    BY ShapeStep
<1>3. QED
    BY <1>1, <1>2, FreshInvHolds, PTL DEF Spec

-----------------------------------------------------------------------------
(* Decisions                                                                *)

HasDecision(c) == \E j \in DOMAIN decisions : /\ decisions[j].hash = <<c, "decision">>
                                              /\ decisions[j].action_id = req[c].action_id

Deciding == {"decision_hash", "decision_record"}

\* A call that records its decision has done so when it goes on to the intent, and
\* so has the call of every row that cites one.
DecisionInv ==
    /\ \A c \in Call : Active(c) /\ pc[c] \notin Deciding /\ Decides(c) => HasDecision(c)
    /\ \A c \in Call, i \in DOMAIN events :
          events[i].hash[1] = c /\ events[i].decided => HasDecision(c)

LEMMA DecisionsStay ==
    ASSUME TypeInv, NEW c \in Call, Step(c), NEW d \in Call, HasDecision(d), pc[d] # "new"
    PROVE  HasDecision(d)'
<1>1. req'[d] = req[d]
    BY StartedKeepsRequest
<1>2. CASE decisions' = decisions
    BY <1>1, <1>2 DEF HasDecision
<1>3. CASE RecordDecision(c)
    <2>1. \A j \in DOMAIN decisions : j \in DOMAIN decisions' /\ decisions'[j] = decisions[j]
        BY <1>3, AppendShape DEF RecordDecision, TypeInv, TypeOK
    <2>2. QED
        BY <1>1, <2>1 DEF HasDecision
<1>4. QED BY <1>2, <1>3, OnlyOneDecides

\* Where a call comes from when it is past its decision.
LEMMA PastDecision ==
    ASSUME TypeInv, NEW c \in Call, Step(c), Active(c)', pc'[c] \notin Deciding, Decides(c)'
    PROVE  \/ Active(c) /\ pc[c] \notin Deciding
           \/ RecordDecision(c)
<1> USE DEF Goto, Return, Observe, TypeInv, TypeOK, Active, ActivePC, Deciding
<1>1. CASE Begin(c)
    BY <1>1 DEF Begin, CallWithoutEnvelope, RefuseOutsideWorkspace, RejectAtGate, Admit,
        Submit, Decides
<1>2. CASE Prepare(c)
    BY <1>2 DEF Prepare, ReadDecisionHash, ReadIntentHash, RejectUnrecorded, AppendIntent
<1>3. CASE Execute(c)
    BY <1>3 DEF Execute, Executing, WriteTmp, WriteTmpFails, ReplaceTarget, ReplaceFails,
        UnlinkTmp, MakeOneDirectory, DirectoryExists, MkdirFails, ShellCompletes,
        ShellTimesOut, ShellFailsToStart, HttpAnswers, HttpFails, HttpEscapes
<1>4. CASE Close(c)
    BY <1>4 DEF Close, ReadClosingHash, AppendClosing, LoseClosing
<1>5. CASE Crash(c)
    BY <1>5 DEF Crash
<1>6. QED
    BY <1>1, <1>2, <1>3, <1>4, <1>5 DEF Step, Proceed

\* The state in which a call appends a row.
LEMMA WriterIsPastDecision ==
    ASSUME TypeInv, NEW c \in Call, Step(c), events' # events
    PROVE  Active(c) /\ pc[c] \notin Deciding /\ pc[c] # "new"
BY OnlyTwoAppend DEF AppendIntent, AppendClosing, Active, ActivePC, Deciding

\* An event that cites a decision is no observation.
LEMMA DeciderIsCall ==
    ASSUME IInv, NEW i \in DOMAIN events, events[i].decided
    PROVE  \E d \in Call, type \in EventType : events[i].hash = <<d, type>>
<1>1. events[i] \in Event
    BY DEF IInv, TypeInv, TypeOK
<1>2. events[i].type # "reconciliation_observed"
    BY <1>1 DEF Event, CallEvent, CallEventType, ObservedEvent
<1>3. QED
    BY <1>2 DEF IInv, RowInv, RowsHaveCalls

\* A call that has cited a decision is not new.
LEMMA WriterIsNotNew ==
    ASSUME IInv, NEW c \in Call, NEW i \in DOMAIN events, events[i].hash[1] = c,
           events[i].decided
    PROVE  pc[c] # "new"
<1>1. PICK d \in Call, type \in EventType : events[i].hash = <<d, type>>
    BY DeciderIsCall
<1>2. Logged(c, type)
    BY <1>1 DEF Logged
<1>3. QED
    BY <1>2 DEF IInv, ProtocolInv, CallInv, FirstPhaseIsClean, BeforeIntent

LEMMA DecisionStep ==
    ASSUME IInv, DecisionInv, [Next]_vars
    PROVE  DecisionInv'
<1>1. CASE UNCHANGED vars
    BY <1>1 DEF vars, DecisionInv, HasDecision, Active, Decides
<1>2. ASSUME NEW c \in Call, Step(c) PROVE DecisionInv'
    <2> USE <1>2
    <2>0. TypeInv
        BY DEF IInv
    <2>1. ASSUME NEW d \in Call, Active(d)', pc'[d] \notin Deciding, Decides(d)'
          PROVE  HasDecision(d)'
        <3>1. CASE Active(d) /\ pc[d] \notin Deciding
            <4>1. pc[d] # "new" /\ req'[d] = req[d]
                BY <2>0, <3>1, StartedKeepsRequest DEF Active, ActivePC
            <4>2. HasDecision(d)
                BY <2>1, <3>1, <4>1 DEF DecisionInv, Decides
            <4>3. QED
                BY <2>0, <4>1, <4>2, DecisionsStay
        <3>2. CASE ~ (Active(d) /\ pc[d] \notin Deciding)
            <4>1. d = c
                BY <2>0, <2>1, <3>2, OthersStay DEF Active
            <4>2. RecordDecision(c)
                BY <2>0, <2>1, <3>2, <4>1, PastDecision
            <4>3. LET n == Len(decisions) + 1 IN
                  n \in DOMAIN decisions' /\ decisions'[n] =
                      [hash |-> <<c, "decision">>, previous_hash |-> prev[c],
                       action_id |-> req[c].action_id]
                BY <2>0, <4>2, AppendShape DEF RecordDecision, TypeInv, TypeOK
            <4>4. req' = req
                BY <4>2 DEF RecordDecision
            <4>5. QED
                BY <4>1, <4>3, <4>4 DEF HasDecision
        <3>3. QED BY <3>1, <3>2
    <2>2. ASSUME NEW d \in Call, NEW i \in DOMAIN events',
                 events'[i].hash[1] = d, events'[i].decided
          PROVE  HasDecision(d)'
        <3>1. CASE i \in DOMAIN events /\ events'[i] = events[i]
            BY <2>0, <2>2, <3>1, WriterIsNotNew, DecisionsStay DEF DecisionInv
        <3>2. CASE ~ (i \in DOMAIN events /\ events'[i] = events[i])
            <4>1. PICK type \in CallEventType, o \in Observation :
                      events'[i] = make_event(c, type, o)
                BY <2>0, <3>2, NewRows
            <4>2. d = c /\ Decides(c)
                BY <2>2, <4>1 DEF make_event
            <4>3. events' # events
                BY <3>2
            <4>4. Active(c) /\ pc[c] \notin Deciding /\ pc[c] # "new"
                BY <2>0, <4>3, WriterIsPastDecision
            <4>5. QED
                BY <2>0, <4>2, <4>4, DecisionsStay DEF DecisionInv
        <3>3. QED BY <3>1, <3>2
    <2>3. QED BY <2>1, <2>2 DEF DecisionInv
<1>3. QED
    BY <1>1, <1>2 DEF Next, AllEnded, Step

\* decision_ref of an event names a decision of the same record that is in the
\* decision log, in any interleaving and whatever failed.
THEOREM DecisionRefsHold == Spec => []DecisionRefsResolve
<1>1. Init => DecisionInv
    BY DEF Init, DecisionInv, Active, ActivePC
<1>2. IInv /\ DecisionInv /\ [Next]_vars => DecisionInv'
    BY DecisionStep
<1>3. IInv /\ DecisionInv => DecisionRefsResolve
    <2> SUFFICES ASSUME IInv, DecisionInv, NEW c \in Call, NEW i \in DOMAIN events,
                        events[i].hash[1] = c, events[i].decided
                 PROVE  \E j \in DOMAIN decisions :
                            /\ decisions[j].hash = <<c, "decision">>
                            /\ decisions[j].action_id = events[i].record_id
        BY DEF DecisionRefsResolve
    <2>1. PICK d \in Call, type \in EventType : events[i].hash = <<d, type>>
        BY DeciderIsCall
    <2>2. events[i].record_id = req[c].action_id
        BY <2>1 DEF IInv, RowInv, RowsMatchRequests
    <2>3. HasDecision(c)
        BY DEF DecisionInv
    <2>4. QED
        BY <2>2, <2>3 DEF HasDecision
<1>4. QED
    BY <1>1, <1>2, <1>3, IInvHolds, PTL DEF Spec

-----------------------------------------------------------------------------
(* Chains of callers that take turns                                        *)

\* When no two calls overlap, the hash a call has read is still the last one.
ChainInv ==
    /\ \A c, d \in Call : Active(c) /\ Active(d) => c = d
    /\ \A c \in Call :
          /\ pc[c] \in {"intent_append", "closing_append"} => prev[c] = last_hash(events)
          /\ pc[c] = "decision_record" => prev[c] = last_hash(decisions)
    /\ ChainsAreIntact

\* A row that cites the last hash extends an intact chain.
LEMMA ExtendedChain ==
    ASSUME NEW S, NEW log \in Seq(S), previous_hash_mismatch(log) = {},
           NEW row, row.previous_hash = last_hash(log)
    PROVE  previous_hash_mismatch(Append(log, row)) = {}
<1> DEFINE longer == Append(log, row)
<1>1. /\ Len(log) \in Nat
      /\ DOMAIN log = 1..Len(log) /\ DOMAIN longer = 1..(Len(log) + 1)
      /\ longer[Len(log) + 1] = row
      /\ \A i \in DOMAIN log : longer[i] = log[i]
      /\ log = <<>> <=> Len(log) = 0
    OBVIOUS
<1>2. ASSUME NEW i \in DOMAIN longer
      PROVE  longer[i].previous_hash = PrecedingHash(longer, i)
    <2>1. CASE i \in DOMAIN log
        <3>1. i # 1 => i - 1 \in DOMAIN log
            BY <1>1, <2>1
        <3>2. log[i].previous_hash = PrecedingHash(log, i)
            BY <2>1 DEF previous_hash_mismatch
        <3>3. QED
            BY <1>1, <2>1, <3>1, <3>2 DEF PrecedingHash
    <2>2. CASE i = Len(log) + 1
        <3>1. CASE log = <<>>
            BY <1>1, <2>2, <3>1 DEF PrecedingHash, last_hash
        <3>2. CASE log # <<>>
            <4>1. Len(log) \in DOMAIN log /\ i # 1 /\ i - 1 = Len(log)
                BY <1>1, <2>2, <3>2
            <4>2. longer[i - 1] = log[Len(log)] /\ longer[i] = row
                BY <1>1, <2>2, <4>1
            <4>3. QED
                BY <3>2, <4>1, <4>2 DEF PrecedingHash, last_hash
        <3>3. QED BY <3>1, <3>2
    <2>3. QED BY <1>1, <1>2, <2>1, <2>2
<1>3. QED
    BY <1>2 DEF previous_hash_mismatch

\* What a step does to the hash its call has read, and to the two logs.
LEMMA ReadHashStep ==
    ASSUME TypeInv, NEW c \in Call, Step(c)
    PROVE  /\ pc'[c] \in {"intent_append", "closing_append"} =>
                 prev'[c] = last_hash(events) /\ events' = events
           /\ pc'[c] = "decision_record" =>
                 prev'[c] = last_hash(decisions) /\ decisions' = decisions
           /\ events' # events =>
                 /\ pc[c] \in {"intent_append", "closing_append"} /\ decisions' = decisions
                 /\ \E row : events' = Append(events, row) /\ row.previous_hash = prev[c]
           /\ decisions' # decisions =>
                 /\ pc[c] = "decision_record" /\ events' = events
                 /\ \E row : decisions' = Append(decisions, row) /\ row.previous_hash = prev[c]
<1> USE DEF Goto, Return, Observe, TypeInv, TypeOK
<1>1. CASE Begin(c)
    BY <1>1 DEF Begin, CallWithoutEnvelope, RefuseOutsideWorkspace, RejectAtGate, Admit,
        Submit, stores
<1>2. CASE ReadDecisionHash(c) \/ ReadIntentHash(c) \/ RejectUnrecorded(c)
    BY <1>2 DEF ReadDecisionHash, ReadIntentHash, RejectUnrecorded, stores
<1>3. CASE RecordDecision(c)
    <2>1. \E row : decisions' = Append(decisions, row) /\ row.previous_hash = prev[c]
        <3>1. [hash |-> <<c, "decision">>, previous_hash |-> prev[c],
               action_id |-> req[c].action_id].previous_hash = prev[c]
            OBVIOUS
        <3>2. QED BY <1>3, <3>1 DEF RecordDecision
    <2>2. QED
        BY <1>3, <2>1 DEF RecordDecision
<1>4. CASE AppendIntent(c) \/ AppendClosing(c)
    <2>1. \A type, o : make_event(c, type, o).previous_hash = prev[c]
        BY DEF make_event
    <2>2. \E row : events' = Append(events, row) /\ row.previous_hash = prev[c]
        <3>1. \E type, o : events' = Append(events, make_event(c, type, o))
            BY <1>4 DEF AppendIntent, AppendClosing
        <3>2. QED BY <2>1, <3>1
    <2>3. pc[c] \in {"intent_append", "closing_append"} /\ pc'[c] \in {"execute", "done"}
        BY <1>4 DEF AppendIntent, AppendClosing
    <2>4. decisions' = decisions
        BY <1>4 DEF AppendIntent, AppendClosing
    <2>5. QED
        BY <2>2, <2>3, <2>4
<1>5. CASE Execute(c)
    BY <1>5 DEF Execute, Executing, WriteTmp, WriteTmpFails, ReplaceTarget, ReplaceFails,
        UnlinkTmp, MakeOneDirectory, DirectoryExists, MkdirFails, ShellCompletes,
        ShellTimesOut, ShellFailsToStart, HttpAnswers, HttpFails, HttpEscapes, stores
<1>6. CASE ReadClosingHash(c) \/ LoseClosing(c) \/ Crash(c)
    BY <1>6 DEF ReadClosingHash, LoseClosing, Crash, stores
<1>7. QED
    BY <1>1, <1>2, <1>3, <1>4, <1>5, <1>6 DEF Step, Proceed, Prepare, Close

LEMMA ChainStep ==
    ASSUME Serial, TypeInv, ChainInv, [Next]_vars
    PROVE  ChainInv'
<1>1. CASE UNCHANGED vars
    BY <1>1 DEF vars, ChainInv, Active, ChainsAreIntact
<1>2. ASSUME NEW c \in Call, Step(c) PROVE ChainInv'
    <2> USE <1>2
    <2>1. ASSUME NEW d \in Call, Active(d), d # c PROVE ~ Active(c)'
        <3>1. ~ Active(c)
            BY <2>1 DEF ChainInv
        <3>2. QED
            BY <2>1, <3>1, ActiveByAdmission DEF Admit, Submit, MayBegin
    <2>2. ASSUME NEW d \in Call, NEW e \in Call, Active(d)', Active(e)' PROVE d = e
        <3>1. \A x \in Call : x # c => (Active(x)' <=> Active(x))
            BY OthersStay DEF Active
        <3>2. QED
            BY <2>1, <2>2, <3>1 DEF ChainInv
    <2>3. ASSUME NEW d \in Call
          PROVE  /\ pc'[d] \in {"intent_append", "closing_append"} => prev'[d] = last_hash(events')
                 /\ pc'[d] = "decision_record" => prev'[d] = last_hash(decisions')
        <3>1. CASE d = c
            BY <3>1, ReadHashStep
        <3>2. CASE d # c
            <4>1. pc'[d] = pc[d] /\ prev'[d] = prev[d]
                BY <3>2, OthersStay
            <4>2. CASE Active(d)
                <5>1. ~ Active(c)
                    BY <3>2, <4>2 DEF ChainInv
                <5>2. events' = events /\ decisions' = decisions
                    BY <5>1, ReadHashStep DEF Active, ActivePC
                <5>3. QED
                    BY <4>1, <5>2 DEF ChainInv
            <4>3. CASE ~ Active(d)
                BY <4>1, <4>3 DEF Active, ActivePC
            <4>4. QED BY <4>2, <4>3
        <3>3. QED BY <3>1, <3>2
    <2>4. ChainsAreIntact'
        <3>1. CASE events' = events /\ decisions' = decisions
            BY <3>1 DEF ChainInv, ChainsAreIntact
        <3>2. CASE events' # events
            <4>1. PICK row : events' = Append(events, row) /\ row.previous_hash = prev[c]
                BY <3>2, ReadHashStep
            <4>2. row.previous_hash = last_hash(events) /\ decisions' = decisions
                BY <3>2, <4>1, ReadHashStep DEF ChainInv
            <4>3. previous_hash_mismatch(events') = {}
                BY <4>1, <4>2, ExtendedChain DEF ChainInv, ChainsAreIntact, TypeInv, TypeOK
            <4>4. QED
                BY <4>2, <4>3 DEF ChainInv, ChainsAreIntact
        <3>3. CASE decisions' # decisions
            <4>1. PICK row : decisions' = Append(decisions, row) /\ row.previous_hash = prev[c]
                BY <3>3, ReadHashStep
            <4>2. row.previous_hash = last_hash(decisions) /\ events' = events
                BY <3>3, <4>1, ReadHashStep DEF ChainInv
            <4>3. previous_hash_mismatch(decisions') = {}
                BY <4>1, <4>2, ExtendedChain DEF ChainInv, ChainsAreIntact, TypeInv, TypeOK
            <4>4. QED
                BY <4>2, <4>3 DEF ChainInv, ChainsAreIntact
        <3>4. QED BY <3>1, <3>2, <3>3
    <2>5. QED BY <2>2, <2>3, <2>4 DEF ChainInv
<1>3. QED
    BY <1>1, <1>2 DEF Next, AllEnded, Step

\* verify_chain() of an unaltered log is empty as long as no two calls overlap: the
\* hash a call read is then still the last one when it appends, whatever failed or
\* crashed in between.
THEOREM ChainsHold ==
    ASSUME Serial
    PROVE  Spec => []ChainsAreIntact
<1>1. Init => ChainInv
    BY DEF Init, ChainInv, Active, ActivePC, ChainsAreIntact, previous_hash_mismatch
<1>2. TypeInv /\ ChainInv /\ [Next]_vars => ChainInv'
    BY ChainStep
<1>3. ChainInv => ChainsAreIntact
    BY DEF ChainInv
<1>4. QED
    BY <1>1, <1>2, <1>3, InitTypeInv, TypeStep, PTL DEF Spec

=============================================================================
