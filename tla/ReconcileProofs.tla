--------------------------- MODULE ReconcileProofs ---------------------------
(***************************************************************************)
(* Theorems about reconcile() beside ToolProxy and others who change files, *)
(* for every set of calls, requests and files.  The log is shared, so the   *)
(* invariant of ToolProxy, which allows for rows that no call wrote, is     *)
(* carried through the steps of reconcile() first.                          *)
(***************************************************************************)
EXTENDS Reconcile, ToolProxyRecordProofs

-----------------------------------------------------------------------------
(* What a step of reconcile() and its neighbours does to ToolProxy's state  *)

ProxyMoves(c) ==
    /\ Step(c) /\ (Exclusive => Idle)
    /\ owner' = [p \in Target |-> IF fs'[p] # fs[p] THEN "managed" ELSE owner[p]]
    /\ UNCHANGED <<scanning, report, runs, bypasses>>

\* A step is a call's, a bypass, an observation, or leaves ToolProxy's state alone.
LEMMA StepsOfReconcile ==
    ASSUME [RNext]_allvars
    PROVE  \/ \E c \in Call : ProxyMoves(c)
           \/ Bypass
           \/ AppendObservation
           \/ UNCHANGED <<vars, owner>>
<1>1. CASE ProxyStep
    BY <1>1 DEF ProxyStep, ProxyMoves, Step
<1>2. CASE UNCHANGED allvars
    BY <1>2 DEF allvars, rvars
<1>3. CASE StartReconcile \/ AbortReconcile
    BY <1>3 DEF StartReconcile, AbortReconcile
<1>4. CASE ReconcileStep
    BY <1>4 DEF ReconcileStep, LookAtPending, ReadObservationHash, ReadCommitted, LookAtCommitted,
        StartScan, ScanPath, FinishReconcile
<1>5. QED
    BY <1>1, <1>2, <1>3, <1>4 DEF RNext

\* A bypass touches files only.
LEMMA BypassStep ==
    ASSUME TypeInv, Bypass
    PROVE  /\ UNCHANGED <<events, decisions, tmp, pc, req, prev, observed, result, effect>>
           /\ UNCHANGED <<scanning, report, runs>>
           /\ \E p \in Workspace : \E v \in Content \cup {"absent"} :
                 /\ fs[p] # "directory" /\ fs' = [fs EXCEPT ![p] = v]
                 /\ owner' = [owner EXCEPT ![p] = "external"]
           /\ fs' \in [Target -> FileState]
<1>1. PICK p \in Workspace, v \in Content \cup {"absent"} :
          /\ fs[p] # "directory" /\ fs' = [fs EXCEPT ![p] = v]
          /\ owner' = [owner EXCEPT ![p] = "external"]
    BY DEF Bypass
<1>2. fs' \in [Target -> FileState]
    BY <1>1, FilesAssumption DEF TypeInv, TypeOK, FileState
<1>3. QED
    BY <1>1, <1>2 DEF Bypass, stores

\* What is typed while a run is under way.
RTypes ==
    /\ RTypeOK
    /\ \A i \in queue : events[i].type \in CallEventType
    /\ rstep \in {"hash", "append"} => subject \in ActionId \cup {"reconcile"}

\* The observation that is about to be appended.
LEMMA ObservationRow ==
    ASSUME TypeInv, RTypes, AppendObservation
    PROVE  /\ observation \in ObservedEvent /\ observation.type = "reconciliation_observed"
           /\ \A c \in Call : \A type \in EventType : observation.hash # <<c, type>>
<1>1. Len(events) \in Nat
    BY DEF TypeInv, TypeOK
<1>2. <<Len(events), "reconciliation_observed">> \in Hash
    BY <1>1 DEF Hash
<1>3. observation \in ObservedEvent
    BY <1>2 DEF AppendObservation, observation, ObservationType, ObservedEvent, RTypes, RTypeOK
<1>4. \A c \in Call : c # Len(events)
    BY <1>1, ReconcileAssumption
<1>5. QED
    BY <1>3, <1>4 DEF observation, ObservationType

\* ToolProxy's invariant says nothing of what the files hold.
LEMMA FilesAreFree ==
    ASSUME IInv, fs' \in [Target -> FileState],
           UNCHANGED <<events, decisions, tmp, pc, req, prev, observed, result, effect>>
    PROVE  IInv'
<1>1. TypeInv'
    BY DEF IInv, TypeInv, TypeOK, ActiveCallsHaveRequests, ReadHashesFit, Active
<1>2. ProtocolInv'
    BY DEF IInv, ProtocolInv, CallInv, FirstPhaseIsClean, SecondPhaseIsOpen, ConfirmedHappened,
        EffectNeedsIntent, ResultIsTrue, Logged, CallClosed
<1>3. RowInv'
    BY DEF IInv, RowInv, RowsMatchRequests, RowsHaveCalls, TmpNeedsIntent
<1>4. QED
    BY <1>1, <1>2, <1>3 DEF IInv

\* An observation changes nothing that ToolProxy's invariant says.
LEMMA ObservationKeepsIInv ==
    ASSUME IInv, RTypes, AppendObservation
    PROVE  IInv'
<1>0. TypeInv /\ TypeOK
    BY DEF IInv, TypeInv
<1>1. CASE UNCHANGED events
    BY <1>0, <1>1, FilesAreFree DEF AppendObservation, world, TypeOK
<1>2. CASE events' = Append(events, observation)
    <2>0. UNCHANGED <<decisions, fs, tmp, effect, pc, req, prev, observed, result>>
        BY DEF AppendObservation, world
    <2>1. /\ observation \in Event /\ observation.type = "reconciliation_observed"
          /\ \A c \in Call : \A type \in EventType : observation.hash # <<c, type>>
        BY <1>0, ObservationRow DEF Event
    <2>2. TypeInv'
        BY <1>0, <1>2, <2>0, <2>1
           DEF TypeInv, TypeOK, ActiveCallsHaveRequests, ReadHashesFit, Active
    <2>3. \A c \in Call : \A type \in EventType : Logged(c, type)' <=> Logged(c, type)
        BY <1>0, <1>2, <2>1, AppendLogs
    <2>4. ProtocolInv'
        BY <2>0, <2>3 DEF IInv, ProtocolInv, CallInv, FirstPhaseIsClean, SecondPhaseIsOpen,
            ConfirmedHappened, EffectNeedsIntent, ResultIsTrue, CallClosed, EventType
    <2>5. /\ \A i \in DOMAIN events : i \in DOMAIN events' /\ events'[i] = events[i]
          /\ \A i \in DOMAIN events' : i \in DOMAIN events \/ events'[i] = observation
        BY <1>0, <1>2, AppendShape DEF TypeOK
    <2>6. RowInv'
        BY <2>0, <2>1, <2>5 DEF IInv, RowInv, RowsMatchRequests, RowsHaveCalls, TmpNeedsIntent
    <2>7. QED
        BY <2>2, <2>4, <2>6 DEF IInv
<1>3. QED
    BY <1>1, <1>2 DEF AppendObservation

LEMMA BypassKeepsIInv ==
    ASSUME IInv, Bypass
    PROVE  IInv'
<1>0. TypeInv
    BY DEF IInv
<1>1. QED
    BY <1>0, BypassStep, FilesAreFree

LEMMA SharedLogStep ==
    ASSUME IInv, RTypes, [RNext]_allvars
    PROVE  IInv'
<1>1. ASSUME NEW c \in Call, ProxyMoves(c) PROVE IInv'
    BY <1>1, IInvStep DEF ProxyMoves, Next, Step
<1>2. CASE UNCHANGED vars
    BY <1>2, IInvStep
<1>3. QED
    BY <1>1, <1>2, ObservationKeepsIInv, BypassKeepsIInv, StepsOfReconcile

-----------------------------------------------------------------------------
(* Type correctness                                                         *)

\* Rows stay where they are.
LEMMA SharedRowsStay ==
    ASSUME TypeInv, [RNext]_allvars
    PROVE  \A i \in DOMAIN events : i \in DOMAIN events' /\ events'[i] = events[i]
<1>1. ASSUME NEW c \in Call, ProxyMoves(c), events' # events
      PROVE  \A i \in DOMAIN events : i \in DOMAIN events' /\ events'[i] = events[i]
    <2>1. PICK type \in CallEventType, o \in Observation :
              events' = Append(events, make_event(c, type, o))
        BY <1>1, LogGrows DEF ProxyMoves
    <2>2. QED
        BY <2>1, AppendShape DEF TypeInv, TypeOK
<1>2. CASE Bypass
    BY <1>2, BypassStep
<1>3. CASE AppendObservation
    BY <1>3, AppendShape DEF AppendObservation, TypeInv, TypeOK
<1>4. QED
    BY <1>1, <1>2, <1>3, StepsOfReconcile DEF vars

\* The rows of a query.
LEMMA QueriedRows ==
    /\ pending(events) \subseteq DOMAIN events
    /\ \A i \in pending(events) : events[i].type = "intent_pending"
    /\ committed_by_record(events) \subseteq committed(events)
    /\ committed(events) \subseteq DOMAIN events
    /\ \A i \in committed(events) : events[i].type = "execution_committed"
BY DEF pending, IsOpenIntent, committed, committed_by_record

\* The row a loop looks at is one of the queue, written by a call.
LEMMA RowLookedAt ==
    ASSUME TypeInv, RTypes, queue # {}
    PROVE  LET e == events[first(queue)] IN
           /\ first(queue) \in queue /\ first(queue) \in DOMAIN events
           /\ e \in CallEvent /\ e.record_id \in ActionId
           /\ e.envelope \in RequestType /\ e.envelope.target \in Target
<1>1. queue \in SUBSET Nat /\ queue \subseteq DOMAIN events
    BY DEF RTypes, RTypeOK, TypeInv, TypeOK
<1>2. first(queue) \in queue
    BY <1>1, FirstRow
<1>3. ASSUME NEW i \in DOMAIN events, events[i].type \in CallEventType
      PROVE  events[i] \in CallEvent
    <2>1. events[i] \in Event
        BY DEF TypeInv, TypeOK
    <2>2. events[i] \notin ObservedEvent
        BY <1>3 DEF ObservedEvent, CallEventType
    <2>3. QED
        BY <2>1, <2>2 DEF Event
<1>4. events[first(queue)] \in CallEvent
    BY <1>1, <1>2, <1>3 DEF RTypes
<1>5. QED
    BY <1>1, <1>2, <1>4 DEF CallEvent, RequestType

LEMMA RunTypes ==
    ASSUME TypeInv, RTypes, StartReconcile \/ ReconcileStep \/ AbortReconcile
    PROVE  RTypes'
<1> USE DEF RTypes, RTypeOK
<1>0. Workspace \subseteq Target /\ GENESIS_HASH \in Hash
    BY FilesAssumption DEF Hash
<1>1. CASE StartReconcile
    BY <1>1, QueriedRows, ReconcileAssumption
       DEF StartReconcile, vars, CallEventType, EventType
<1>2. CASE LookAtPending
    <2> DEFINE e == events[first(queue)]
               f == [diagnosis |-> PendingDiagnosis(e.envelope), record_id |-> e.record_id,
                     target |-> e.envelope.target]
    <2>1. /\ e.record_id \in ActionId /\ e.envelope.target \in Target
        BY <1>2, RowLookedAt DEF LookAtPending
    <2>2. f \in Finding
        BY <2>1 DEF Finding, Diagnosis, PendingDiagnosis
    <2>3. findings' = findings \cup {f} /\ known' = known \cup {e.envelope.target}
          /\ subject' = e.record_id /\ queue' \subseteq queue /\ rstep' = "hash"
          /\ UNCHANGED <<vars, phase, unscanned, rprev, began, report, runs, owner, bypasses>>
        BY <1>2 DEF LookAtPending, Found
    <2>4. QED
        BY <2>1, <2>2, <2>3 DEF vars
<1>3. CASE ReadObservationHash
    BY <1>3, LastHashType DEF ReadObservationHash, vars, TypeInv
<1>4. CASE AppendObservation
    <2>1. \A i \in DOMAIN events : i \in DOMAIN events' /\ events'[i] = events[i]
        BY <1>4, AppendShape DEF AppendObservation, TypeInv, TypeOK
    <2>2. QED
        BY <1>4, <2>1 DEF AppendObservation
<1>5. CASE AbortReconcile
    BY <1>0, <1>5 DEF AbortReconcile, LeaveReconcile, vars
<1>6. CASE ReadCommitted
    BY <1>6, QueriedRows DEF ReadCommitted, vars, CallEventType, EventType
<1>7. CASE LookAtCommitted
    <2> DEFINE e == events[first(queue)]
               f == [diagnosis |-> CommittedDiagnosis(e.envelope), record_id |-> e.record_id,
                     target |-> e.envelope.target]
    <2>1. /\ e.record_id \in ActionId /\ e.envelope.target \in Target
        BY <1>7, RowLookedAt DEF LookAtCommitted
    <2>2. f \in Finding
        BY <2>1 DEF Finding, Diagnosis, CommittedDiagnosis
    <2>3. findings' = findings \cup {f} /\ known' = known \cup {e.envelope.target}
          /\ queue' \subseteq queue
          /\ UNCHANGED <<vars, phase, rstep, unscanned, subject, rprev, began, report, runs,
                         owner, bypasses>>
        BY <1>7 DEF LookAtCommitted, Found
    <2>4. QED
        BY <2>1, <2>2, <2>3 DEF vars
<1>8. CASE StartScan
    BY <1>8 DEF StartScan, vars
<1>9. CASE ScanPath
    <2>1. PICK p \in unscanned :
              /\ unscanned' = unscanned \ {p}
              /\ \/ /\ Found("unrecorded_external_change", "none", p)
                    /\ subject' = "reconcile" /\ rstep' = "hash"
                 \/ UNCHANGED <<findings, subject, rstep>>
        BY <1>9 DEF ScanPath
    <2>2. [diagnosis |-> "unrecorded_external_change", record_id |-> "none", target |-> p]
              \in Finding
        BY <1>0, <2>1 DEF Finding, Diagnosis
    <2>3. findings' \subseteq Finding
        BY <2>1, <2>2 DEF Found
    <2>4. /\ subject' \in ActionId \cup {"none", "reconcile"}
          /\ rstep' \in {"idle", "look", "hash", "append"}
          /\ rstep' \in {"hash", "append"} => subject' \in ActionId \cup {"reconcile"}
        BY <2>1
    <2>5. QED
        BY <1>9, <2>1, <2>3, <2>4 DEF ScanPath, vars
<1>10. CASE FinishReconcile
    BY <1>0, <1>10 DEF FinishReconcile, LeaveReconcile, vars
<1>11. QED
    BY <1>1, <1>2, <1>3, <1>4, <1>5, <1>6, <1>7, <1>8, <1>9, <1>10 DEF ReconcileStep

LEMMA RTypesStep ==
    ASSUME TypeInv, RTypes, [RNext]_allvars
    PROVE  RTypes'
<1>0. \A i \in DOMAIN events : i \in DOMAIN events' /\ events'[i] = events[i]
    BY SharedRowsStay
<1>1. CASE ProxyStep
    BY <1>0, <1>1 DEF ProxyStep, scanning, RTypes, RTypeOK
<1>2. CASE Bypass
    <2>1. bypasses' \in 0..MaxBypasses /\ owner' \in [Target -> {"initial", "managed", "external"}]
        BY <1>2, ReconcileAssumption, FilesAssumption DEF Bypass, RTypes, RTypeOK
    <2>2. QED
        BY <1>0, <1>2, <2>1, BypassStep DEF scanning, RTypes, RTypeOK
<1>3. CASE UNCHANGED allvars
    BY <1>3 DEF allvars, vars, rvars, scanning, RTypes, RTypeOK
<1>4. QED
    BY <1>1, <1>2, <1>3, RunTypes DEF RNext

LEMMA InitRTypes == RInit => IInv /\ RTypes
<1>1. RInit => RTypes
    BY ReconcileAssumption DEF RInit, RTypes, RTypeOK, NoReport, Hash
<1>2. QED
    BY <1>1, InitIInv DEF RInit

SharedInv == IInv /\ RTypes

LEMMA SharedInvHolds == RSpec => []SharedInv
<1>1. SharedInv /\ [RNext]_allvars => SharedInv'
    BY SharedLogStep, RTypesStep DEF SharedInv, IInv
<1>2. QED
    BY <1>1, InitRTypes, PTL DEF RSpec, SharedInv

\* The variables of reconcile() and of ToolProxy, the shared log included, keep their
\* types beside each other.
THEOREM ReconcileTypeCorrect == RSpec => [](TypeOK /\ RTypeOK)
BY SharedInvHolds, PTL DEF SharedInv, IInv, TypeInv, RTypes
-----------------------------------------------------------------------------
(* The chain of the shared log                                              *)

\* A run that starts at rest stays at rest.
AtRest == ~ Idle => \A c \in Call : ~ Active(c)

LEMMA RestStep ==
    ASSUME Exclusive, TypeInv, AtRest, [RNext]_allvars
    PROVE  AtRest'
<1>1. CASE StartReconcile
    BY <1>1 DEF StartReconcile, AtRest, Active, vars
<1>2. CASE ProxyStep \/ Bypass
    BY <1>2 DEF ProxyStep, Bypass, scanning, AtRest, Idle
<1>3. CASE UNCHANGED vars
    <2>1. CASE ReconcileStep \/ AbortReconcile \/ UNCHANGED allvars
        BY <1>3, <2>1 DEF ReconcileStep, LookAtPending, ReadObservationHash, AppendObservation,
            ReadCommitted, LookAtCommitted, StartScan, ScanPath, FinishReconcile, AtEnd,
            AbortReconcile, LeaveReconcile, AtRest, Active, Idle, vars, allvars, rvars, scanning
    <2>2. QED
        BY <1>1, <1>2, <2>1 DEF RNext
<1>4. CASE AppendObservation
    BY <1>4 DEF AppendObservation, AtRest, Active, Idle
<1>5. QED
    BY <1>2, <1>3, <1>4, StepsOfReconcile DEF ProxyMoves, scanning, AtRest, Idle

\* The hash of an observation about to be appended is still the last one.
RChainInv ==
    /\ ChainInv /\ AtRest
    /\ rstep = "append" => rprev = last_hash(events)

LEMMA RChainStep ==
    ASSUME Serial, Exclusive, TypeInv, RChainInv, [RNext]_allvars
    PROVE  RChainInv'
<1>1. AtRest'
    BY RestStep DEF RChainInv
<1>2. ASSUME NEW c \in Call, ProxyMoves(c) PROVE RChainInv'
    <2>1. ChainInv'
        BY <1>2, ChainStep DEF RChainInv, ProxyMoves, Next, Step
    <2>2. rstep' # "append"
        BY <1>2 DEF ProxyMoves, Idle, scanning
    <2>3. QED
        BY <1>1, <2>1, <2>2 DEF RChainInv
<1>3. CASE Bypass
    BY <1>1, <1>3, BypassStep DEF RChainInv, ChainInv, Active, ChainsAreIntact, scanning
<1>4. CASE AppendObservation
    <2>1. \A c \in Call : ~ Active(c)
        BY <1>4 DEF AppendObservation, RChainInv, AtRest, Idle
    <2>2. /\ \A c \in Call : ~ Active(c)'
          /\ decisions' = decisions /\ rstep' = "look"
        BY <1>4, <2>1 DEF AppendObservation, Active
    <2>3. previous_hash_mismatch(events') = {}
        <3>1. CASE events' = Append(events, observation)
            <4>1. observation.previous_hash = last_hash(events)
                BY <1>4 DEF AppendObservation, RChainInv, observation
            <4>2. QED
                BY <3>1, <4>1, ExtendedChain DEF RChainInv, ChainInv, ChainsAreIntact, TypeInv, TypeOK
        <3>2. CASE UNCHANGED events
            BY <3>2 DEF RChainInv, ChainInv, ChainsAreIntact
        <3>3. QED BY <1>4, <3>1, <3>2 DEF AppendObservation
    <2>4. ChainInv'
        BY <2>2, <2>3 DEF RChainInv, ChainInv, ChainsAreIntact, Active, ActivePC
    <2>5. QED
        BY <1>1, <2>2, <2>4 DEF RChainInv
<1>5. CASE UNCHANGED vars
    <2>1. ChainInv'
        BY <1>5 DEF vars, RChainInv, ChainInv, Active, ChainsAreIntact
    <2>2. rstep' = "append" => rprev' = last_hash(events')
        BY <1>5 DEF RNext, StartReconcile, ProxyStep, Bypass, ReconcileStep, LookAtPending,
            ReadObservationHash, AppendObservation, ReadCommitted, LookAtCommitted, StartScan,
            ScanPath, FinishReconcile, AbortReconcile, LeaveReconcile, RChainInv, Idle,
            vars, allvars, rvars, scanning
    <2>3. QED
        BY <1>1, <2>1, <2>2 DEF RChainInv
<1>6. QED
    BY <1>2, <1>3, <1>4, <1>5, StepsOfReconcile

\* With callers that take turns and reconcile() run at rest, what it appends leaves
\* verify_chain() empty, however often it is aborted or its appends fail.
THEOREM ObservedChainsHold ==
    ASSUME Serial, Exclusive
    PROVE  RSpec => []ChainsAreIntact
<1>1. RInit => RChainInv
    BY DEF RInit, Init, RChainInv, ChainInv, AtRest, Idle, Active, ActivePC, ChainsAreIntact,
        previous_hash_mismatch
<1>2. SharedInv /\ RChainInv /\ [RNext]_allvars => RChainInv'
    BY RChainStep DEF SharedInv, IInv
<1>3. RChainInv => ChainsAreIntact
    BY DEF RChainInv, ChainInv
<1>4. QED
    BY <1>1, <1>2, <1>3, SharedInvHolds, PTL DEF RSpec

-----------------------------------------------------------------------------
(* Files, and who made them what they are                                   *)

\* The call left its content at the path, and its record does not deny it.
Wrote(c, p) ==
    /\ effect[c] # "nothing" /\ req[c].op = "write_file" /\ req[c].target = p
    /\ ~ Logged(c, "execution_failed")
    /\ \/ pc[c] \in Closing /\ observed[c] = "confirmed"
       \/ pc[c] \in {"done", "crashed"}

\* Behind every file that ToolProxy made there is a call that says so or has yet to.
ManagedFiles ==
    \A p \in Target : owner[p] = "managed" /\ IsFile(p) => \E c \in Call : Wrote(c, p)

\* What a write has left does not go away by itself.
WritesStay ==
    \A c \in Call :
        /\ effect[c] # "nothing" /\ req[c].op = "write_file"
        /\ owner[req[c].target] # "external"
        => fs[req[c].target] # "absent"

\* A call commits its record once.
CommitsOnce ==
    \A i, j \in DOMAIN events : \A c \in Call :
        /\ events[i].hash = <<c, "execution_committed">>
        /\ events[j].hash = <<c, "execution_committed">>
        => i = j

FilesInv == TruthInv /\ ManagedFiles /\ WritesStay /\ CommitsOnce

\* Two actions of ToolProxy change files: a rename and the making of a directory.
LEMMA FilesStep ==
    ASSUME TypeInv, NEW c \in Call, Step(c), NEW p \in Target, fs'[p] # fs[p]
    PROVE  (ReplaceTarget(c) /\ p = req[c].target) \/ fs'[p] = "directory"
<1>1. CASE ReplaceTarget(c)
    BY <1>1 DEF ReplaceTarget, TypeInv, TypeOK
<1>2. CASE MakeOneDirectory(c)
    BY <1>2 DEF MakeOneDirectory, Lineage, TypeInv, TypeOK
<1>3. ~ ReplaceTarget(c) /\ ~ MakeOneDirectory(c) => fs' = fs
    BY DEF Step, Begin, CallWithoutEnvelope, RefuseOutsideWorkspace, RejectAtGate, Admit,
        Submit, Proceed, Prepare, ReadDecisionHash, RecordDecision, ReadIntentHash,
        RejectUnrecorded, AppendIntent, Execute, WriteTmp, WriteTmpFails, ReplaceFails,
        UnlinkTmp, DirectoryExists, MkdirFails, ShellCompletes, ShellTimesOut,
        ShellFailsToStart, HttpAnswers, HttpFails, HttpEscapes, Close, ReadClosingHash,
        AppendClosing, LoseClosing, Crash, world
<1>4. QED
    BY <1>1, <1>2, <1>3

\* The effect of a file write is its rename.
LEMMA WriteIsRename ==
    ASSUME TypeInv, NEW c \in Call, Step(c), effect'[c] # effect[c],
           req'[c].op = "write_file"
    PROVE  ReplaceTarget(c)
<1>1. CASE Begin(c)
    BY <1>1 DEF Begin, CallWithoutEnvelope, RefuseOutsideWorkspace, RejectAtGate, Admit,
        Submit, world
<1>2. CASE Prepare(c)
    BY <1>2 DEF Prepare, ReadDecisionHash, RecordDecision, ReadIntentHash,
        RejectUnrecorded, AppendIntent, world
<1>3. CASE Execute(c)
    BY <1>3 DEF Execute, Executing, WriteTmp, WriteTmpFails, ReplaceFails, UnlinkTmp,
        MakeOneDirectory, DirectoryExists, MkdirFails, ShellCompletes, ShellTimesOut,
        ShellFailsToStart, HttpAnswers, HttpFails, HttpEscapes, world
<1>4. CASE Close(c) \/ Crash(c)
    BY <1>4 DEF Close, ReadClosingHash, AppendClosing, LoseClosing, Crash, world
<1>5. QED
    BY <1>1, <1>2, <1>3, <1>4 DEF Step, Proceed

\* What a rename does.
LEMMA RenameDoes ==
    ASSUME TypeInv, NEW c \in Call, ReplaceTarget(c), NothingDoneYet(c)
    PROVE  /\ req[c].op = "write_file" /\ req' = req /\ events' = events
           /\ req[c].target \in Target /\ fs'[req[c].target] \in Content
           /\ effect'[c] # "nothing" /\ pc'[c] = "closing_hash" /\ observed'[c] = "confirmed"
<1>1. /\ pc[c] = "replace" /\ tmp[tmp_path(req[c])] # "absent"
      /\ fs' = [fs EXCEPT ![req[c].target] = tmp[tmp_path(req[c])]]
      /\ effect' = [effect EXCEPT ![c] = tmp[tmp_path(req[c])]]
      /\ pc' = [pc EXCEPT ![c] = "closing_hash"]
      /\ observed' = [observed EXCEPT ![c] = "confirmed"]
      /\ req' = req /\ events' = events
    BY DEF ReplaceTarget, Affect, Observe, Goto, stores
<1>2. req[c].target \in Target /\ tmp_path(req[c]) \in TmpPath
    BY <1>1, RequestIsTyped DEF Active, ActivePC
<1>3. tmp[tmp_path(req[c])] \in Content /\ tmp[tmp_path(req[c])] # "nothing"
    BY <1>1, <1>2, ContentAssumption DEF TypeInv, TypeOK
<1>4. QED
    BY <1>1, <1>2, <1>3 DEF TypeInv, TypeOK, NothingDoneYet

\* A call that has written goes on having written.
LEMMA WroteStays ==
    ASSUME IInv, TruthInv, NEW c \in Call, Step(c), NEW d \in Call, NEW p, Wrote(d, p)
    PROVE  Wrote(d, p)'
<1>0. TypeInv /\ "execution_failed" \in EventType
    BY DEF IInv, EventType
<1>1. CASE d # c
    <2>1. Logged(d, "execution_failed")' <=> Logged(d, "execution_failed")
        BY <1>0, <1>1, CallStep, LogStep DEF Prepares, RecordsIntent, Performs, Closes, Crashes
    <2>2. QED
        BY <1>0, <1>1, <2>1, OthersStay DEF Wrote
<1>2. CASE d = c
    <2>1. pc[c] \in Closing /\ observed[c] = "confirmed"
        BY <1>0, <1>2, CallStep DEF Wrote, Prepares, RecordsIntent, Performs, Closes, Crashes,
            BeforeIntent, Performing, Closing, Active, ActivePC
    <2>2. Closes(c) \/ Crashes(c)
        BY <1>0, <2>1, CallStep DEF Prepares, RecordsIntent, Performs, BeforeIntent, Performing,
            Closing
    <2>3. /\ effect'[c] = effect[c]
          /\ \/ pc'[c] \in Closing /\ observed'[c] = "confirmed"
             \/ pc'[c] \in {"done", "crashed"}
        BY <2>1, <2>2 DEF Closes, Crashes, Closing
    <2>4. Logged(c, "execution_failed")' <=> Logged(c, "execution_failed")
        BY <1>0, <2>1, <2>2, LogStep DEF Closes, Crashes, ClosingType
    <2>5. req'[c] = req[c]
        BY <1>0, <2>1, StartedKeepsRequest DEF Closing
    <2>6. QED
        BY <1>2, <2>3, <2>4, <2>5 DEF Wrote
<1>3. QED BY <1>1, <1>2

LEMMA ManagedStep ==
    ASSUME IInv, FilesInv, NEW c \in Call, ProxyMoves(c)
    PROVE  ManagedFiles' /\ WritesStay'
<1>0. /\ TypeInv /\ Step(c) /\ TruthInv /\ NothingDoneYet(c)
      /\ \A p \in Target : owner'[p] = IF fs'[p] # fs[p] THEN "managed" ELSE owner[p]
      /\ {"execution_failed", "execution_committed"} \subseteq EventType
    BY DEF IInv, ProxyMoves, FilesInv, TruthInv, EventType
<1>1. ASSUME NEW p \in Target, owner'[p] = "managed", IsFile(p)'
      PROVE  \E d \in Call : Wrote(d, p)'
    <2>1. CASE fs'[p] = fs[p]
        <3>1. PICK d \in Call : Wrote(d, p)
            BY <1>0, <1>1, <2>1 DEF FilesInv, ManagedFiles, IsFile
        <3>2. QED
            BY <1>0, <3>1, WroteStays
    <2>2. CASE fs'[p] # fs[p]
        <3>1. ReplaceTarget(c) /\ p = req[c].target
            BY <1>0, <1>1, <2>2, FilesStep, ContentAssumption DEF IsFile
        <3>2. /\ req[c].op = "write_file" /\ req' = req /\ events' = events
              /\ effect'[c] # "nothing" /\ pc'[c] = "closing_hash" /\ observed'[c] = "confirmed"
            BY <1>0, <3>1, RenameDoes
        <3>3. ~ Logged(c, "execution_failed")
            <4>1. pc[c] \in Performing
                BY <3>1 DEF ReplaceTarget, Performing
            <4>2. QED
                BY <4>1 DEF IInv, ProtocolInv, CallInv, SecondPhaseIsOpen, CallClosed
        <3>4. QED
            BY <3>1, <3>2, <3>3 DEF Wrote, Logged, Closing
    <2>3. QED BY <2>1, <2>2
<1>2. ASSUME NEW d \in Call, effect'[d] # "nothing", req'[d].op = "write_file",
             owner'[req'[d].target] # "external"
      PROVE  fs'[req'[d].target] # "absent"
    <2>1. req'[d] \in Request /\ req'[d].target \in Target
        <3>1. IInv'
            BY <1>0, IInvStep DEF Next, Step
        <3>2. Logged(d, "intent_pending")'
            BY <1>2, <3>1 DEF IInv, ProtocolInv, CallInv, EffectNeedsIntent
        <3>3. req'[d] \in Request
            BY <3>1, <3>2 DEF Logged, IInv, RowInv, RowsMatchRequests, EventType
        <3>4. QED
            BY <3>3, RequestAssumption DEF RequestType
    <2>2. CASE effect'[d] # effect[d]
        <3>1. d = c
            BY <1>0, <2>2, OthersStay
        <3>2. ReplaceTarget(c)
            BY <1>0, <1>2, <2>2, <3>1, WriteIsRename
        <3>3. QED
            BY <1>0, <3>1, <3>2, RenameDoes, ContentAssumption
    <2>3. CASE effect'[d] = effect[d]
        <3>1. pc[d] # "new"
            BY <1>2, <2>3 DEF IInv, ProtocolInv, CallInv, FirstPhaseIsClean, BeforeIntent
        <3>2. req'[d] = req[d]
            BY <1>0, <3>1, StartedKeepsRequest
        <3>3. CASE fs'[req[d].target] = fs[req[d].target]
            BY <1>0, <1>2, <2>1, <2>3, <3>2, <3>3 DEF FilesInv, WritesStay
        <3>4. CASE fs'[req[d].target] # fs[req[d].target]
            <4>1. \/ ReplaceTarget(c) /\ req[d].target = req[c].target
                  \/ fs'[req[d].target] = "directory"
                BY <1>0, <2>1, <3>2, <3>4, FilesStep
            <4>2. QED
                BY <1>0, <3>2, <4>1, RenameDoes, ContentAssumption
        <3>5. QED BY <3>3, <3>4
    <2>4. QED BY <2>2, <2>3
<1>3. QED
    BY <1>1, <1>2 DEF ManagedFiles, WritesStay

LEMMA CommitsStep ==
    ASSUME IInv, CommitsOnce, NEW c \in Call, Step(c)
    PROVE  CommitsOnce'
<1>0. TypeInv /\ TypeOK
    BY DEF IInv, TypeInv
<1>1. ASSUME NEW i \in DOMAIN events', NEW d \in Call,
             events'[i].hash = <<d, "execution_committed">>, i \notin DOMAIN events
      PROVE  d = c /\ ~ Logged(c, "execution_committed") /\ i = Len(events) + 1
    <2>1. /\ i = Len(events) + 1
          /\ \/ events'[i] = make_event(c, "intent_pending", "none")
             \/ /\ Closes(c)
                /\ events'[i] = make_event(c, ClosingType(observed[c]), observed[c])
        BY <1>0, <1>1, NewRowIsFirstOrClosing
    <2>2. d = c /\ Closes(c)
        BY <1>1, <2>1 DEF make_event
    <2>3. QED
        BY <2>1, <2>2 DEF Closes, IInv, ProtocolInv, CallInv, SecondPhaseIsOpen, CallClosed
<1>2. \A i \in DOMAIN events' : i \in DOMAIN events => events'[i] = events[i]
    BY <1>0, NewRows DEF TypeOK
<1>3. QED
    BY <1>1, <1>2 DEF CommitsOnce, Logged

LEMMA InitFilesInv == RInit => FilesInv
BY DEF RInit, Init, FilesInv, TruthInv, NothingDoneYet, CommitsHappened, NoneMeansNothing,
    Logged, ManagedFiles, WritesStay, CommitsOnce

LEMMA FilesInvStep ==
    ASSUME IInv, RTypes, FilesInv, [RNext]_allvars
    PROVE  FilesInv'
<1>0. TypeInv /\ TypeOK /\ "execution_committed" \in EventType /\ "execution_failed" \in EventType
    BY DEF IInv, TypeInv, EventType
<1>1. ASSUME NEW c \in Call, ProxyMoves(c) PROVE FilesInv'
    <2>1. TruthInv'
        BY <1>1, TruthStep DEF ProxyMoves, FilesInv, Next, Step
    <2>2. QED
        BY <1>1, <2>1, ManagedStep, CommitsStep DEF FilesInv, ProxyMoves
<1>2. ASSUME UNCHANGED <<pc, req, effect, observed>>,
             /\ \A i \in DOMAIN events : i \in DOMAIN events' /\ events'[i] = events[i]
             /\ \A i \in DOMAIN events' : \A c \in Call : \A type \in EventType :
                    i \in DOMAIN events \/ events'[i].hash # <<c, type>>
      PROVE  TruthInv' /\ CommitsOnce' /\ \A c \in Call : \A p : Wrote(c, p) => Wrote(c, p)'
    <2>1. \A c \in Call, type \in EventType : Logged(c, type)' <=> Logged(c, type)
        BY <1>2 DEF Logged
    <2>2. TruthInv'
        <3>1. NoneMeansNothing'
            BY <1>0, <1>2 DEF FilesInv, TruthInv, NoneMeansNothing
        <3>2. QED
            BY <1>0, <1>2, <2>1, <3>1 DEF FilesInv, TruthInv, NothingDoneYet, CommitsHappened
    <2>3. CommitsOnce'
        BY <1>0, <1>2 DEF FilesInv, CommitsOnce
    <2>4. QED
        BY <1>0, <1>2, <2>1, <2>2, <2>3 DEF Wrote
<1>3. CASE Bypass
    <2>1. PICK p \in Workspace, v \in Content \cup {"absent"} :
              /\ fs' = [fs EXCEPT ![p] = v] /\ owner' = [owner EXCEPT ![p] = "external"]
        BY <1>0, <1>3, BypassStep
    <2>2. \A q \in Target : \/ owner'[q] = "external"
                            \/ owner'[q] = owner[q] /\ fs'[q] = fs[q]
        BY <1>0, <2>1 DEF TypeOK, RTypes, RTypeOK
    <2>3. TruthInv' /\ CommitsOnce' /\ \A c \in Call : \A q : Wrote(c, q) => Wrote(c, q)'
        BY <1>0, <1>2, <1>3, BypassStep
    <2>4. ManagedFiles'
        BY <2>2, <2>3 DEF FilesInv, ManagedFiles, IsFile
    <2>5. WritesStay'
        <3>1. ASSUME NEW c \in Call, effect[c] # "nothing" PROVE req[c].target \in Target
            <4>1. Logged(c, "intent_pending")
                BY <3>1 DEF IInv, ProtocolInv, CallInv, EffectNeedsIntent
            <4>2. req[c] \in Request
                BY <4>1 DEF Logged, IInv, RowInv, RowsMatchRequests, EventType
            <4>3. QED
                BY <4>2, RequestAssumption DEF RequestType
        <3>2. QED
            BY <1>0, <1>3, <2>2, <3>1, BypassStep DEF FilesInv, WritesStay
    <2>6. QED
        BY <2>3, <2>4, <2>5 DEF FilesInv
<1>4. CASE AppendObservation
    <2>1. UNCHANGED <<fs, pc, req, effect, observed, owner>>
        BY <1>4 DEF AppendObservation, world
    <2>2. /\ \A i \in DOMAIN events : i \in DOMAIN events' /\ events'[i] = events[i]
          /\ \A i \in DOMAIN events' : i \in DOMAIN events \/ events'[i] = observation
        <3>1. CASE events' = Append(events, observation)
            BY <1>0, <3>1, AppendShape DEF TypeOK
        <3>2. CASE UNCHANGED events
            BY <3>2
        <3>3. QED BY <1>4, <3>1, <3>2 DEF AppendObservation
    <2>3. TruthInv' /\ CommitsOnce' /\ \A c \in Call : \A q : Wrote(c, q) => Wrote(c, q)'
        BY <1>0, <1>2, <1>4, <2>1, <2>2, ObservationRow
    <2>4. QED
        BY <2>1, <2>3 DEF FilesInv, ManagedFiles, WritesStay, IsFile
<1>5. CASE UNCHANGED <<vars, owner>>
    <2>1. TruthInv' /\ CommitsOnce' /\ \A c \in Call : \A q : Wrote(c, q) => Wrote(c, q)'
        BY <1>2, <1>5 DEF vars
    <2>2. QED
        BY <1>5, <2>1 DEF vars, FilesInv, ManagedFiles, WritesStay, IsFile
<1>6. QED
    BY <1>1, <1>3, <1>4, <1>5, <1>0, StepsOfReconcile

-----------------------------------------------------------------------------
(* What a run has found, while the system is at rest                        *)

Known(i) == events[i].envelope.target \in known

PendingFinding(i) ==
    [diagnosis |-> PendingDiagnosis(events[i].envelope), record_id |-> events[i].record_id,
     target |-> events[i].envelope.target]

CommittedFinding(i) ==
    [diagnosis |-> CommittedDiagnosis(events[i].envelope), record_id |-> events[i].record_id,
     target |-> events[i].envelope.target]

ScanFinding(p) ==
    [diagnosis |-> "unrecorded_external_change", record_id |-> "none", target |-> p]

\* What the loops have left behind is known and found.
PendingSeen ==
    \A i \in pending(events) :
        \/ phase = "pending" /\ i \in queue
        \/ Known(i) /\ PendingFinding(i) \in findings

CommittedSeen ==
    FreshIds => \A i \in committed(events) :
        \/ phase = "pending"
        \/ phase = "committed" /\ i \in queue
        \/ Known(i) /\ CommittedFinding(i) \in findings

PathsSeen ==
    phase = "scan" => \A p \in Workspace :
        p \in unscanned \/ p \in known \/ ~ IsFile(p) \/ ScanFinding(p) \in findings

QueueIsAnswer ==
    /\ phase = "pending" => queue \subseteq pending(events)
    /\ phase = "committed" => queue \subseteq committed(events)

\* Nothing is known, and nothing alarming found, without a reason in log and files.
FindingsHaveReasons ==
    /\ \A p \in known : \E i \in pending(events) \cup committed(events) :
          events[i].envelope.target = p
    /\ \A f \in findings :
          /\ f.diagnosis = "unrecorded_external_change" =>
                phase = "scan" /\ f.target \notin known /\ IsFile(f.target)
          /\ f.diagnosis = "pending_not_executed" => fs[f.target] = "absent"

RunInv == ~ Idle => /\ PendingSeen /\ CommittedSeen /\ PathsSeen
                    /\ QueueIsAnswer /\ FindingsHaveReasons

\* With fresh ids a record is committed once, so the dict keeps every commit.
LEMMA DictKeepsAll ==
    ASSUME IInv, FreshIds, FreshInv, CommitsOnce
    PROVE  committed_by_record(events) = committed(events)
<1>0. "execution_committed" \in EventType /\ DOMAIN events \subseteq Nat
    BY DEF EventType, IInv, TypeInv, TypeOK
<1>1. ASSUME NEW i \in committed(events)
      PROVE  i \in DOMAIN events /\ \E c \in Call : events[i].hash = <<c, "execution_committed">>
    <2>1. i \in DOMAIN events /\ events[i].type = "execution_committed"
        BY <1>1, QueriedRows
    <2>2. PICK c \in Call, type \in EventType : events[i].hash = <<c, type>>
        BY <2>1 DEF IInv, RowInv, RowsHaveCalls
    <2>3. type = "execution_committed"
        BY <2>1, <2>2 DEF IInv, RowInv, RowsMatchRequests
    <2>4. QED BY <2>1, <2>2, <2>3
<1>2. ASSUME NEW i \in committed(events), NEW j \in committed(events),
             events[j].record_id = events[i].record_id
      PROVE  i = j
    <2>1. PICK c \in Call : events[i].hash = <<c, "execution_committed">>
        BY <1>1
    <2>2. PICK d \in Call : events[j].hash = <<d, "execution_committed">>
        BY <1>1
    <2>3. c = d
        BY <1>0, <1>1, <1>2, <2>1, <2>2, RecordsAreOwn
    <2>4. QED
        BY <1>1, <2>1, <2>2, <2>3 DEF CommitsOnce
<1>3. ASSUME NEW i \in committed(events), NEW j \in committed(events),
             events[j].record_id = events[i].record_id
      PROVE  j <= i
    <2>1. i = j /\ i \in Nat
        BY <1>0, <1>1, <1>2, <1>3
    <2>2. QED BY <2>1
<1>4. QED
    BY <1>3 DEF committed_by_record

\* An observation answers no query.
LEMMA ObservationIsNoAnswer ==
    ASSUME TypeInv, RTypes, AppendObservation
    PROVE  /\ pending(events') = pending(events) /\ committed(events') = committed(events)
           /\ \A i \in DOMAIN events : events'[i] = events[i]
<1>1. CASE UNCHANGED events
    BY <1>1
<1>2. CASE events' = Append(events, observation)
    <2>1. /\ \A i \in DOMAIN events : i \in DOMAIN events' /\ events'[i] = events[i]
          /\ \A i \in DOMAIN events' : i \in DOMAIN events \/ events'[i] = observation
        BY <1>2, AppendShape DEF TypeInv, TypeOK
    <2>2. observation.type = "reconciliation_observed"
        BY ObservationRow
    <2>3. \A rid : Closed(events', rid) <=> Closed(events, rid)
        BY <2>1, <2>2 DEF Closed, ClosingTypes
    <2>4. pending(events') = pending(events)
        BY <2>1, <2>2, <2>3 DEF pending, IsOpenIntent
    <2>5. committed(events') = committed(events)
        BY <2>1, <2>2 DEF committed
    <2>6. QED BY <2>1, <2>4, <2>5
<1>3. QED BY <1>1, <1>2 DEF AppendObservation

\* What every step of a run keeps.
LEMMA RunKeeps ==
    ASSUME Exclusive, IInv, RTypes, FreshInv, FilesInv, RunInv, ~ Idle, UNCHANGED vars,
           StartReconcile \/ ReconcileStep \/ AbortReconcile
    PROVE  RunInv'
<1> USE DEF vars, Found
<1>0. ~ StartReconcile
    BY DEF StartReconcile
<1>1. CASE AbortReconcile \/ FinishReconcile
    BY <1>1 DEF AbortReconcile, FinishReconcile, LeaveReconcile, RunInv, Idle
<1>2. /\ \A r : PendingDiagnosis(r)' = PendingDiagnosis(r)
      /\ \A r : CommittedDiagnosis(r)' = CommittedDiagnosis(r)
      /\ \A p : IsFile(p)' <=> IsFile(p)
    BY DEF PendingDiagnosis, CommittedDiagnosis, IsFile
<1>3. PendingSeen /\ CommittedSeen /\ PathsSeen /\ QueueIsAnswer /\ FindingsHaveReasons
    BY DEF RunInv
<1>4. CASE LookAtPending
    <2> DEFINE i == first(queue)
    <2>1. /\ phase = "pending" /\ phase' = phase /\ queue' = queue \ {i}
          /\ known' = known \cup {events[i].envelope.target}
          /\ findings' = findings \cup {PendingFinding(i)}
        BY <1>4 DEF LookAtPending, PendingFinding
    <2>2. i \in pending(events)
        BY <1>3, <1>4, <2>1, RowLookedAt DEF LookAtPending, QueueIsAnswer, IInv
    <2>3. PendingSeen'
        BY <1>2, <1>3, <2>1 DEF PendingSeen, Known, PendingFinding
    <2>4. QueueIsAnswer' /\ CommittedSeen' /\ PathsSeen'
        BY <1>3, <2>1 DEF QueueIsAnswer, CommittedSeen, PathsSeen
    <2>5. FindingsHaveReasons'
        <3>1. /\ PendingFinding(i).diagnosis # "unrecorded_external_change"
              /\ PendingFinding(i).diagnosis = "pending_not_executed" =>
                    fs[PendingFinding(i).target] = "absent"
            BY DEF PendingFinding, PendingDiagnosis
        <3>2. QED
            BY <1>2, <1>3, <2>1, <2>2, <3>1 DEF FindingsHaveReasons
    <2>6. QED BY <2>3, <2>4, <2>5 DEF RunInv
<1>5. CASE ReadObservationHash
    BY <1>2, <1>3, <1>5 DEF ReadObservationHash, RunInv, PendingSeen, CommittedSeen, PathsSeen,
        QueueIsAnswer, FindingsHaveReasons, Known, PendingFinding, CommittedFinding, ScanFinding
<1>6. CASE ReadCommitted
    <2>1. FreshIds => committed_by_record(events) = committed(events)
        BY DictKeepsAll DEF FilesInv
    <2>2. /\ phase = "pending" /\ queue = {} /\ phase' = "committed"
          /\ queue' = committed_by_record(events) /\ UNCHANGED <<known, findings>>
        BY <1>6 DEF ReadCommitted
    <2>3. PendingSeen'
        BY <1>2, <1>3, <2>2 DEF PendingSeen, Known, PendingFinding
    <2>4. CommittedSeen' /\ PathsSeen'
        BY <2>1, <2>2 DEF CommittedSeen, PathsSeen
    <2>5. QueueIsAnswer'
        BY <2>2, QueriedRows DEF QueueIsAnswer
    <2>6. FindingsHaveReasons'
        BY <1>2, <1>3, <2>2 DEF FindingsHaveReasons
    <2>7. QED BY <2>3, <2>4, <2>5, <2>6 DEF RunInv
<1>7. CASE LookAtCommitted
    <2> DEFINE i == first(queue)
    <2>1. /\ phase = "committed" /\ phase' = phase /\ queue' = queue \ {i}
          /\ known' = known \cup {events[i].envelope.target}
          /\ findings' = findings \cup {CommittedFinding(i)}
        BY <1>7 DEF LookAtCommitted, CommittedFinding
    <2>2. i \in committed(events)
        BY <1>3, <1>7, <2>1, RowLookedAt DEF LookAtCommitted, QueueIsAnswer, IInv
    <2>3. PendingSeen'
        BY <1>2, <1>3, <2>1 DEF PendingSeen, Known, PendingFinding
    <2>4. CommittedSeen'
        BY <1>2, <1>3, <2>1 DEF CommittedSeen, Known, CommittedFinding
    <2>5. QueueIsAnswer' /\ PathsSeen'
        BY <1>3, <2>1 DEF QueueIsAnswer, PathsSeen
    <2>6. FindingsHaveReasons'
        <3>1. CommittedFinding(i).diagnosis \notin
                  {"unrecorded_external_change", "pending_not_executed"}
            BY DEF CommittedFinding, CommittedDiagnosis
        <3>2. QED
            BY <1>2, <1>3, <2>1, <2>2, <3>1 DEF FindingsHaveReasons
    <2>7. QED BY <2>3, <2>4, <2>5, <2>6 DEF RunInv
<1>8. CASE StartScan
    <2>1. /\ phase = "committed" /\ queue = {} /\ phase' = "scan" /\ unscanned' = Workspace
          /\ UNCHANGED <<known, findings, queue>>
        BY <1>8 DEF StartScan
    <2>2. PendingSeen'
        BY <1>2, <1>3, <2>1 DEF PendingSeen, Known, PendingFinding
    <2>3. CommittedSeen'
        BY <1>2, <1>3, <2>1 DEF CommittedSeen, Known, CommittedFinding
    <2>4. PathsSeen' /\ QueueIsAnswer'
        BY <2>1 DEF PathsSeen, QueueIsAnswer
    <2>5. FindingsHaveReasons'
        BY <1>2, <1>3, <2>1 DEF FindingsHaveReasons
    <2>6. QED BY <2>2, <2>3, <2>4, <2>5 DEF RunInv
<1>9. CASE ScanPath
    <2>1. PICK p \in unscanned :
              /\ unscanned' = unscanned \ {p}
              /\ \/ IsFile(p) /\ p \notin known /\ findings' = findings \cup {ScanFinding(p)}
                 \/ ~ (IsFile(p) /\ p \notin known) /\ findings' = findings
        BY <1>9 DEF ScanPath, KnownTargets, ScanFinding
    <2>2. phase = "scan" /\ UNCHANGED <<phase, queue, known>>
        BY <1>9 DEF ScanPath
    <2>3. PendingSeen'
        BY <1>2, <1>3, <2>1, <2>2 DEF PendingSeen, Known, PendingFinding
    <2>4. CommittedSeen'
        BY <1>2, <1>3, <2>1, <2>2 DEF CommittedSeen, Known, CommittedFinding
    <2>5. PathsSeen'
        BY <1>2, <1>3, <2>1, <2>2 DEF PathsSeen, ScanFinding
    <2>6. QueueIsAnswer'
        BY <1>3, <2>2 DEF QueueIsAnswer
    <2>7. FindingsHaveReasons'
        BY <1>2, <1>3, <2>1, <2>2 DEF FindingsHaveReasons, ScanFinding
    <2>8. QED BY <2>3, <2>4, <2>5, <2>6, <2>7 DEF RunInv
<1>10. CASE AppendObservation
    BY <1>2, <1>3, <1>10 DEF AppendObservation, RunInv, PendingSeen, CommittedSeen, PathsSeen,
        QueueIsAnswer, FindingsHaveReasons, Known, PendingFinding, CommittedFinding, ScanFinding
<1>11. QED
    BY <1>0, <1>1, <1>4, <1>5, <1>6, <1>7, <1>8, <1>9, <1>10 DEF ReconcileStep

LEMMA RunInvStep ==
    ASSUME Exclusive, IInv, RTypes, FreshInv, FilesInv, RunInv, [RNext]_allvars
    PROVE  RunInv'
<1>1. CASE ProxyStep \/ Bypass
    BY <1>1 DEF ProxyStep, Bypass, scanning, RunInv, Idle
<1>2. CASE StartReconcile
    BY <1>2 DEF StartReconcile, RunInv, PendingSeen, CommittedSeen, PathsSeen, QueueIsAnswer,
        FindingsHaveReasons, vars
<1>3. CASE AppendObservation
    <2>0. TypeInv /\ ~ Idle
        BY <1>3 DEF IInv, AppendObservation, Idle
    <2>1. PendingSeen /\ CommittedSeen /\ PathsSeen /\ QueueIsAnswer /\ FindingsHaveReasons
        BY <2>0 DEF RunInv
    <2>2. UNCHANGED <<fs, phase, queue, known, unscanned, findings>>
        BY <1>3 DEF AppendObservation, world
    <2>3. /\ pending(events') = pending(events) /\ committed(events') = committed(events)
          /\ \A i \in DOMAIN events : events'[i] = events[i]
          /\ pending(events) \subseteq DOMAIN events /\ committed(events) \subseteq DOMAIN events
        BY <1>3, <2>0, ObservationIsNoAnswer, QueriedRows
    <2>4. /\ \A r : PendingDiagnosis(r)' = PendingDiagnosis(r)
          /\ \A r : CommittedDiagnosis(r)' = CommittedDiagnosis(r)
          /\ \A p : IsFile(p)' <=> IsFile(p)
        BY <2>2 DEF PendingDiagnosis, CommittedDiagnosis, IsFile
    <2>5. PendingSeen'
        BY <2>1, <2>2, <2>3, <2>4 DEF PendingSeen, Known, PendingFinding
    <2>6. CommittedSeen'
        BY <2>1, <2>2, <2>3, <2>4 DEF CommittedSeen, Known, CommittedFinding
    <2>7. PathsSeen' /\ QueueIsAnswer'
        BY <2>1, <2>2, <2>3, <2>4 DEF PathsSeen, QueueIsAnswer, ScanFinding
    <2>8. FindingsHaveReasons'
        BY <2>1, <2>2, <2>3, <2>4 DEF FindingsHaveReasons
    <2>9. QED BY <2>5, <2>6, <2>7, <2>8 DEF RunInv
<1>4. CASE UNCHANGED allvars
    BY <1>4 DEF allvars, vars, rvars, scanning, RunInv, PendingSeen, CommittedSeen, PathsSeen,
        QueueIsAnswer, FindingsHaveReasons, Known, PendingFinding, CommittedFinding, ScanFinding,
        PendingDiagnosis, CommittedDiagnosis, IsFile, Idle
<1>5. CASE AbortReconcile
    BY <1>5 DEF AbortReconcile, LeaveReconcile, RunInv, Idle
<1>6. CASE ReconcileStep
    <2>1. ~ Idle
        BY <1>6 DEF ReconcileStep, LookAtPending, ReadObservationHash, AppendObservation,
            ReadCommitted, LookAtCommitted, StartScan, ScanPath, FinishReconcile, AtEnd, Idle
    <2>2. CASE UNCHANGED vars
        BY <1>6, <2>1, <2>2, RunKeeps
    <2>3. ~ AppendObservation => UNCHANGED vars
        BY <1>6 DEF ReconcileStep, LookAtPending, ReadObservationHash, ReadCommitted,
            LookAtCommitted, StartScan, ScanPath, FinishReconcile
    <2>4. QED BY <1>3, <2>2, <2>3
<1>7. QED
    BY <1>1, <1>2, <1>4, <1>5, <1>6 DEF RNext

LEMMA RFreshStep ==
    ASSUME TypeInv, FreshInv, [RNext]_allvars
    PROVE  FreshInv'
<1>1. ASSUME NEW c \in Call, ProxyMoves(c) PROVE FreshInv'
    BY <1>1, FreshStep DEF ProxyMoves, Next, Step
<1>2. CASE UNCHANGED req
    BY <1>2 DEF FreshInv, IdsAreFresh
<1>3. QED
    BY <1>1, <1>2, StepsOfReconcile, BypassStep DEF AppendObservation, vars

-----------------------------------------------------------------------------
(* The promises of a run with the system at rest                            *)

RestInv == SharedInv /\ AtRest /\ FreshInv /\ FilesInv /\ RunInv

LEMMA RestInvHolds ==
    ASSUME Exclusive
    PROVE  RSpec => []RestInv
<1>1. RInit => AtRest /\ FreshInv /\ FilesInv /\ RunInv
    <2> SUFFICES ASSUME RInit PROVE AtRest /\ FreshInv /\ FilesInv /\ RunInv
        OBVIOUS
    <2>1. Init /\ Idle
        BY DEF RInit, Idle
    <2>2. QED
        BY <2>1, InitFilesInv, InitFreshInv DEF AtRest, RunInv
<1>2. SharedInv /\ RestInv /\ [RNext]_allvars => (AtRest /\ FreshInv /\ FilesInv /\ RunInv)'
    BY RestStep, RFreshStep, FilesInvStep, RunInvStep DEF SharedInv, RestInv, IInv
<1>3. QED
    BY <1>1, <1>2, SharedInvHolds, PTL DEF RSpec, RestInv

\* The rows of a call: its intent carries its request.
LEMMA CallRow ==
    ASSUME IInv, NEW c \in Call, NEW type \in EventType, Logged(c, type)
    PROVE  \E i \in DOMAIN events :
               /\ events[i].hash = <<c, type>> /\ events[i].type = type
               /\ events[i].envelope = req[c] /\ events[i].record_id = req[c].action_id
BY DEF Logged, IInv, RowInv, RowsMatchRequests

\* An effect whose record is open has a pending intent.
LEMMA OpenEffectIsPending ==
    ASSUME IInv, FreshIds, FreshInv, NEW c \in Call, effect[c] # "nothing", ~ CallClosed(c)
    PROVE  \E i \in pending(events) :
               events[i].envelope = req[c] /\ events[i].record_id = req[c].action_id
<1>1. PICK i \in DOMAIN events : /\ events[i].hash = <<c, "intent_pending">>
                                /\ IsOpenIntent(events, events[i])
    BY EffectIsAccounted DEF CallIsPending
<1>2. events[i].envelope = req[c] /\ events[i].record_id = req[c].action_id
    BY <1>1 DEF IInv, RowInv, RowsMatchRequests, EventType
<1>3. QED
    BY <1>1, <1>2 DEF pending

\* INV-1c, no false alarm: a file that a run at rest reports as an unrecorded external
\* change was made by somebody else, whatever failed or crashed before.
THEOREM AlarmsAreReal ==
    ASSUME Exclusive, FreshIds
    PROVE  RSpec => []NoFalseAlarm
<1>1. RestInv => NoFalseAlarm
    <2> SUFFICES ASSUME RestInv, ~ Idle, NEW f \in findings,
                        f.diagnosis = "unrecorded_external_change", owner[f.target] = "managed"
                 PROVE  FALSE
        BY DEF NoFalseAlarm
    <2>0. IInv /\ FreshInv /\ {"execution_committed", "execution_failed"} \subseteq EventType
        BY DEF RestInv, SharedInv, EventType
    <2>1. phase = "scan" /\ f.target \notin known /\ IsFile(f.target)
        BY DEF RestInv, RunInv, FindingsHaveReasons
    <2>2. f.target \in Target
        BY DEF RestInv, SharedInv, RTypes, RTypeOK, Finding
    <2>3. PICK c \in Call : Wrote(c, f.target)
        BY <2>1, <2>2 DEF RestInv, FilesInv, ManagedFiles
    <2>4. \A i \in pending(events) \cup committed(events) : events[i].envelope # req[c]
        BY <2>1, <2>3 DEF RestInv, RunInv, PendingSeen, CommittedSeen, Known, Wrote
    <2>5. CASE CallClosed(c)
        <3>1. Logged(c, "execution_committed")
            BY <2>3, <2>5 DEF Wrote, CallClosed
        <3>2. PICK i \in DOMAIN events : events[i].type = "execution_committed"
                                        /\ events[i].envelope = req[c]
            BY <2>0, <3>1, CallRow
        <3>3. QED
            BY <2>4, <3>2 DEF committed
    <2>6. CASE ~ CallClosed(c)
        BY <2>0, <2>3, <2>4, <2>6, OpenEffectIsPending DEF Wrote
    <2>7. QED BY <2>5, <2>6
<1>2. QED
    BY <1>1, RestInvHolds, PTL

\* INV-1c, no miss: a change behind ToolProxy's back that no committed write explains
\* is the target of a finding.
THEOREM ChangesAreSeen ==
    ASSUME Exclusive, FreshIds
    PROVE  RSpec => []BypassesAreReported
<1>1. RestInv => BypassesAreReported
    <2> SUFFICES ASSUME RestInv, AtEnd, NEW p \in Workspace,
                        NEW commits,
                        commits = {i \in DOMAIN events :
                                      /\ events[i].type = "execution_committed"
                                      /\ events[i].envelope.target = p},
                        IsFile(p) \/ commits # {},
                        \A i \in commits : ResultDigest(events[i].envelope) # fs[p]
                 PROVE  \E f \in findings : f.target = p /\ f.diagnosis # "committed_consistent"
        BY DEF BypassesAreReported
    <2>0. /\ ~ Idle /\ phase = "scan" /\ unscanned = {}
          /\ PendingSeen /\ CommittedSeen /\ PathsSeen /\ FindingsHaveReasons
        BY DEF AtEnd, Idle, RestInv, RunInv
    <2>1. CASE commits # {}
        <3>1. PICK i \in commits : TRUE
            BY <2>1
        <3>2. i \in committed(events) /\ events[i].envelope.target = p
            BY <3>1 DEF committed
        <3>3. CommittedFinding(i) \in findings
            BY <2>0, <3>2 DEF CommittedSeen
        <3>4. CommittedFinding(i).target = p /\ CommittedFinding(i).diagnosis = "committed_diverged"
            BY <3>1, <3>2 DEF CommittedFinding, CommittedDiagnosis
        <3>5. QED BY <3>3, <3>4
    <2>2. CASE commits = {}
        <3>1. CASE p \in known
            <4>1. PICK i \in pending(events) : events[i].envelope.target = p
                BY <2>0, <2>2, <3>1 DEF FindingsHaveReasons, committed
            <4>2. PendingFinding(i) \in findings
                BY <2>0, <4>1 DEF PendingSeen
            <4>3. /\ PendingFinding(i).target = p
                  /\ PendingFinding(i).diagnosis # "committed_consistent"
                BY <4>1 DEF PendingFinding, PendingDiagnosis
            <4>4. QED BY <4>2, <4>3
        <3>2. CASE p \notin known
            BY <2>0, <2>2, <3>2 DEF PathsSeen, ScanFinding
        <3>3. QED BY <3>1, <3>2
    <2>3. QED BY <2>1, <2>2
<1>2. QED
    BY <1>1, RestInvHolds, PTL

\* A write that a run at rest diagnoses as not executed was not executed, unless its
\* target was removed behind ToolProxy's back; reused ids included.
THEOREM NotExecutedHolds ==
    ASSUME Exclusive
    PROVE  RSpec => []NotExecutedIsTrue
<1>1. RestInv => NotExecutedIsTrue
    <2> SUFFICES ASSUME RestInv, AtEnd, NEW c \in Call, req[c].op = "write_file",
                        owner[req[c].target] # "external",
                        [diagnosis |-> "pending_not_executed", record_id |-> req[c].action_id,
                         target |-> req[c].target] \in findings
                 PROVE  effect[c] = "nothing"
        BY DEF NotExecutedIsTrue
    <2>1. fs[req[c].target] = "absent"
        BY DEF AtEnd, Idle, RestInv, RunInv, FindingsHaveReasons
    <2>2. QED
        BY <2>1 DEF RestInv, FilesInv, WritesStay
<1>2. QED
    BY <1>1, RestInvHolds, PTL

\* Envelopes name a filesystem tool only for the two file operations.
ToolsFitOperations ==
    \A r \in Request : r.tool \in FilesystemTools => r.op \in FilesystemOperations

\* Whatever crashed or failed, a run at rest reports every side effect whose record is
\* open as executed but unconfirmed, when envelopes name the tool they are used for.
THEOREM OpenEffectsAreSeen ==
    ASSUME Exclusive, FreshIds, ToolsFitOperations
    PROVE  RSpec => []OpenEffectsAreReported
<1>1. RestInv => OpenEffectsAreReported
    <2> SUFFICES ASSUME RestInv, AtEnd, NEW c \in Call, effect[c] # "nothing",
                        req[c].op # "make_directory", ~ CallClosed(c),
                        owner[req[c].target] # "external"
                 PROVE  [diagnosis |-> "pending_executed_unconfirmed",
                         record_id |-> req[c].action_id, target |-> req[c].target] \in findings
        BY DEF OpenEffectsAreReported
    <2>0. IInv /\ FreshInv /\ ~ Idle /\ phase = "scan" /\ PendingSeen
        BY DEF RestInv, SharedInv, AtEnd, Idle, RunInv
    <2>1. PICK i \in pending(events) :
              events[i].envelope = req[c] /\ events[i].record_id = req[c].action_id
        BY <2>0, OpenEffectIsPending
    <2>2. PendingFinding(i) \in findings
        BY <2>0, <2>1 DEF PendingSeen
    <2>3. req[c] \in Request
        <3>1. Logged(c, "intent_pending")
            BY <2>0 DEF IInv, ProtocolInv, CallInv, EffectNeedsIntent
        <3>2. QED
            BY <2>0, <3>1 DEF Logged, IInv, RowInv, RowsMatchRequests, EventType
    <2>4. req[c].tool \in FilesystemTools => fs[req[c].target] # "absent"
        BY <2>3 DEF ToolsFitOperations, FilesystemOperations, RestInv, FilesInv, WritesStay
    <2>5. PendingDiagnosis(req[c]) = "pending_executed_unconfirmed"
        BY <2>4 DEF PendingDiagnosis
    <2>6. QED
        BY <2>1, <2>2, <2>5 DEF PendingFinding
<1>2. QED
    BY <1>1, RestInvHolds, PTL

-----------------------------------------------------------------------------
(* Time: a call only moves on                                               *)

\* The order in which a call passes through the protocol.
Stage(where) ==
    CASE where = "new" -> 0
      [] where = "decision_hash" -> 1
      [] where = "decision_record" -> 2
      [] where = "intent_hash" -> 3
      [] where = "intent_append" -> 4
      [] where = "execute" -> 5
      [] where = "replace" -> 6
      [] where = "unlink" -> 7
      [] where = "closing_hash" -> 8
      [] where = "closing_append" -> 9
      [] where = "done" -> 10
      [] OTHER -> 11

Moment == [fs : [Target -> FileState],
           pc : [Call -> ActivePC \cup {"new", "done", "crashed"}], bypasses : Nat]

now == [fs |-> fs, pc |-> pc, bypasses |-> bypasses]

\* Calls only move on, directories stay, bypasses are counted: what is over does not
\* come back.
IsPast(a, m) ==
    a \in Moment =>
        /\ \A c \in Call : Stage(a.pc[c]) <= Stage(m.pc[c])
        /\ \A p \in Target : a.fs[p] = "directory" => m.fs[p] = "directory"
        /\ a.bypasses <= m.bypasses

LEMMA StagesAdvance ==
    ASSUME TypeInv, NEW c \in Call, Step(c)
    PROVE  /\ Stage(pc[c]) < Stage(pc'[c]) \/
                 \E p \in Target : fs[p] # "directory" /\ fs'[p] = "directory"
           /\ pc'[c] = pc[c] \/ Stage(pc[c]) < Stage(pc'[c])
<1> USE DEF Goto, Return, Observe, TypeInv, TypeOK, Stage
<1>1. CASE Begin(c)
    BY <1>1 DEF Begin, CallWithoutEnvelope, RefuseOutsideWorkspace, RejectAtGate, Admit,
        Submit, MayBegin
<1>2. CASE Prepare(c)
    BY <1>2 DEF Prepare, ReadDecisionHash, RecordDecision, ReadIntentHash,
        RejectUnrecorded, AppendIntent
<1>3. CASE MakeOneDirectory(c)
    BY <1>3 DEF MakeOneDirectory, Executing, Lineage
<1>4. CASE Execute(c) /\ ~ MakeOneDirectory(c)
    BY <1>4 DEF Execute, Executing, WriteTmp, WriteTmpFails, ReplaceTarget, ReplaceFails,
        UnlinkTmp, DirectoryExists, MkdirFails, ShellCompletes, ShellTimesOut,
        ShellFailsToStart, HttpAnswers, HttpFails, HttpEscapes
<1>5. CASE Close(c)
    <2>1. /\ pc[c] \in {"closing_hash", "closing_append"}
          /\ pc'[c] = "done" \/ (pc[c] = "closing_hash" /\ pc'[c] = "closing_append")
        BY <1>5 DEF Close, ReadClosingHash, AppendClosing, LoseClosing
    <2>2. QED BY <2>1
<1>6. CASE Crash(c)
    BY <1>6 DEF Crash, Active, ActivePC
<1>7. QED
    BY <1>1, <1>2, <1>3, <1>4, <1>5, <1>6 DEF Step, Proceed

LEMMA DirectoriesStay ==
    ASSUME TypeInv, NEW c \in Call, Step(c), NEW p \in Target, fs[p] = "directory"
    PROVE  fs'[p] = "directory"
<1>1. ReplaceTarget(c) => p # req[c].target
    BY DEF ReplaceTarget
<1>2. QED
    BY <1>1, FilesStep

\* The present is a moment.
LEMMA NowIsMoment ==
    ASSUME TypeOK, RTypeOK
    PROVE  now \in Moment /\ IsPast(now, now)
<1>1. now \in Moment
    BY ReconcileAssumption DEF now, Moment, TypeOK, RTypeOK
<1>2. \A c \in Call : Stage(pc[c]) \in Nat
    BY DEF Stage
<1>3. bypasses \in Nat
    BY ReconcileAssumption DEF RTypeOK
<1>4. QED
    BY <1>1, <1>2, <1>3 DEF now, IsPast

\* A step of a call or a bypass leaves every past moment behind.
LEMMA CallLeavesPast ==
    ASSUME TypeInv, NEW c \in Call, ProxyMoves(c), NEW a, IsPast(a, now)
    PROVE  IsPast(a, now') /\ (a \in Moment => a # now')
<1> SUFFICES ASSUME a \in Moment PROVE IsPast(a, now') /\ a # now'
    BY DEF IsPast, now
<1>0. Step(c) /\ bypasses' = bypasses
    BY DEF ProxyMoves
<1>1. \A d \in Call : /\ Stage(a.pc[d]) \in Nat /\ Stage(pc[d]) \in Nat
                     /\ Stage(pc'[d]) \in Nat /\ Stage(a.pc[d]) <= Stage(pc[d])
    BY DEF Stage, IsPast, now
<1>2. \A d \in Call : pc'[d] = pc[d] \/ Stage(pc[d]) < Stage(pc'[d])
    BY <1>0, StagesAdvance, OthersStay
<1>3. \A d \in Call : Stage(a.pc[d]) <= Stage(pc'[d])
    BY <1>1, <1>2
<1>4. \A p \in Target : a.fs[p] = "directory" => fs'[p] = "directory"
    BY <1>0, DirectoriesStay DEF IsPast, now
<1>5. IsPast(a, now')
    BY <1>0, <1>3, <1>4 DEF IsPast, now
<1>6. ASSUME a = now' PROVE FALSE
    <2>1. a.fs = fs' /\ a.pc = pc'
        BY <1>6 DEF now
    <2>2. ~ (Stage(pc[c]) < Stage(pc'[c]))
        BY <1>1, <2>1
    <2>3. PICK p \in Target : fs[p] # "directory" /\ fs'[p] = "directory"
        BY <1>0, <2>2, StagesAdvance
    <2>4. QED
        BY <2>1, <2>3 DEF IsPast, now
<1>7. QED BY <1>5, <1>6

LEMMA BypassLeavesPast ==
    ASSUME TypeInv, RTypeOK, Bypass, NEW a, IsPast(a, now)
    PROVE  IsPast(a, now') /\ (a \in Moment => a # now')
<1> SUFFICES ASSUME a \in Moment PROVE IsPast(a, now') /\ a # now'
    BY DEF IsPast, now
<1>1. /\ bypasses' = bypasses + 1 /\ pc' = pc /\ bypasses \in Nat /\ a.bypasses \in Nat
      /\ a.bypasses <= bypasses
    BY ReconcileAssumption DEF Bypass, RTypeOK, Moment, IsPast, now
<1>2. PICK p \in Workspace, v \in Content \cup {"absent"} : fs[p] # "directory" /\ fs' = [fs EXCEPT ![p] = v]
    BY BypassStep
<1>3. \A q \in Target : fs[q] = "directory" => fs'[q] = "directory"
    BY <1>2 DEF TypeInv, TypeOK
<1>4. IsPast(a, now')
    BY <1>1, <1>3 DEF IsPast, now
<1>5. a # now'
    <2>1. a = now' => a.bypasses = bypasses'
        BY DEF now
    <2>2. QED BY <1>1, <2>1
<1>6. QED BY <1>4, <1>5

-----------------------------------------------------------------------------
(* A second run over the same files and calls                               *)

PendingFindings(rows) == {PendingFinding(i) : i \in rows}

CommittedFindings(rows) == {CommittedFinding(i) : i \in rows}

TargetsOf(rows) == {events[i].envelope.target : i \in rows}

Dict == committed_by_record(events)

ScanFindings(paths) ==
    {ScanFinding(p) : p \in {q \in paths : IsFile(q) /\ q \notin TargetsOf(pending(events) \cup Dict)}}

\* What a run finds in a log and a workspace that stay as they are.
Expected ==
    PendingFindings(pending(events)) \cup CommittedFindings(Dict) \cup ScanFindings(Workspace)

\* What a run has found so far, if nothing has happened since it began.
FoundSoFar ==
    /\ phase = "pending" =>
          /\ queue \subseteq pending(events)
          /\ known = TargetsOf(pending(events) \ queue)
          /\ findings = PendingFindings(pending(events) \ queue)
    /\ phase = "committed" =>
          /\ queue \subseteq Dict
          /\ known = TargetsOf(pending(events) \cup (Dict \ queue))
          /\ findings = PendingFindings(pending(events)) \cup CommittedFindings(Dict \ queue)
    /\ phase = "scan" =>
          /\ known = TargetsOf(pending(events) \cup Dict)
          /\ findings = PendingFindings(pending(events)) \cup CommittedFindings(Dict)
                            \cup ScanFindings(Workspace \ unscanned)

SameInv ==
    /\ IsPast(report.began, now) /\ IsPast(began, now)
    /\ ~ Idle /\ report.began = now => began = now
    /\ ~ Idle /\ began = now => FoundSoFar
    /\ report.began = now => report.findings = Expected

\* Nothing of it changes with what no query, no file and no local variable tells.
LEMMA SameAnswers ==
    ASSUME TypeInv, UNCHANGED fs,
           pending(events') = pending(events), committed(events') = committed(events),
           \A i \in DOMAIN events : events'[i] = events[i]
    PROVE  /\ Dict' = Dict /\ Expected' = Expected
           /\ UNCHANGED <<phase, queue, known, unscanned, findings>> =>
                 (FoundSoFar' <=> FoundSoFar)
<1>1. /\ pending(events) \subseteq DOMAIN events /\ committed(events) \subseteq DOMAIN events
      /\ Dict \subseteq committed(events)
    BY QueriedRows DEF Dict
<1>2. Dict' = Dict
    BY <1>1 DEF Dict, committed_by_record
<1>3. \A rows \in SUBSET DOMAIN events :
          /\ PendingFindings(rows)' = PendingFindings(rows)
          /\ CommittedFindings(rows)' = CommittedFindings(rows)
          /\ TargetsOf(rows)' = TargetsOf(rows)
    BY DEF PendingFindings, CommittedFindings, TargetsOf, PendingFinding, CommittedFinding,
        PendingDiagnosis, CommittedDiagnosis, IsFile
<1>4. \A paths : ScanFindings(paths)' = ScanFindings(paths)
    BY <1>1, <1>2, <1>3 DEF ScanFindings, ScanFinding, IsFile
<1>5. Expected' = Expected
    BY <1>1, <1>2, <1>3, <1>4 DEF Expected
<1>6. ASSUME UNCHANGED <<phase, queue, known, unscanned, findings>>
      PROVE  FoundSoFar' <=> FoundSoFar
    BY <1>1, <1>2, <1>3, <1>4, <1>6 DEF FoundSoFar
<1>7. QED BY <1>2, <1>5, <1>6

\* One row more is one finding and one target more.
LEMMA OneRowMore ==
    ASSUME NEW rows, NEW i, NEW more, more = rows \cup {i}
    PROVE  /\ PendingFindings(more) = PendingFindings(rows) \cup {PendingFinding(i)}
           /\ CommittedFindings(more) = CommittedFindings(rows) \cup {CommittedFinding(i)}
           /\ TargetsOf(more) = TargetsOf(rows) \cup {events[i].envelope.target}
BY DEF PendingFindings, CommittedFindings, TargetsOf

LEMMA FoundStep ==
    ASSUME TypeInv, RTypes, FoundSoFar, ReconcileStep, ~ FinishReconcile, UNCHANGED vars
    PROVE  FoundSoFar'
<1>0. /\ UNCHANGED <<events, fs>>
      /\ \A rows : /\ PendingFindings(rows)' = PendingFindings(rows)
                   /\ CommittedFindings(rows)' = CommittedFindings(rows)
                   /\ TargetsOf(rows)' = TargetsOf(rows)
      /\ \A paths : ScanFindings(paths)' = ScanFindings(paths)
      /\ Dict' = Dict
    BY DEF vars, PendingFindings, CommittedFindings, TargetsOf, PendingFinding, CommittedFinding,
        PendingDiagnosis, CommittedDiagnosis, IsFile, ScanFindings, ScanFinding, Dict
<1>1. CASE LookAtPending
    <2> DEFINE i == first(queue)
    <2>1. /\ phase = "pending" /\ phase' = phase /\ queue' = queue \ {i}
          /\ known' = known \cup {events[i].envelope.target}
          /\ findings' = findings \cup {PendingFinding(i)}
        BY <1>1 DEF LookAtPending, PendingFinding, Found
    <2>2. i \in queue /\ queue \subseteq pending(events)
        BY <1>1, <2>1, RowLookedAt DEF LookAtPending, FoundSoFar
    <2>3. pending(events) \ (queue \ {i}) = (pending(events) \ queue) \cup {i}
        BY <2>2
    <2>4. /\ PendingFindings(pending(events) \ queue') =
                PendingFindings(pending(events) \ queue) \cup {PendingFinding(i)}
          /\ TargetsOf(pending(events) \ queue') =
                TargetsOf(pending(events) \ queue) \cup {events[i].envelope.target}
        <3> DEFINE rows == pending(events) \ queue
        <3>1. pending(events) \ queue' = rows \cup {i}
            BY <2>1, <2>3
        <3> HIDE DEF i, rows
        <3>2. /\ PendingFindings(pending(events) \ queue') =
                    PendingFindings(rows) \cup {PendingFinding(i)}
              /\ TargetsOf(pending(events) \ queue') =
                    TargetsOf(rows) \cup {events[i].envelope.target}
            BY <3>1, OneRowMore, Zenon
        <3>3. QED BY <3>2 DEF rows
    <2>5. /\ known' = TargetsOf(pending(events) \ queue')
          /\ findings' = PendingFindings(pending(events) \ queue')
        BY <2>1, <2>4 DEF FoundSoFar
    <2>6. QED
        BY <1>0, <2>1, <2>2, <2>5 DEF FoundSoFar
<1>2. CASE ReadObservationHash
    BY <1>0, <1>2 DEF ReadObservationHash, FoundSoFar
<1>3. CASE AppendObservation
    BY <1>0, <1>3 DEF AppendObservation, FoundSoFar
<1>4. CASE ReadCommitted
    <2>1. /\ phase = "pending" /\ queue = {} /\ phase' = "committed" /\ queue' = Dict
          /\ UNCHANGED <<known, findings>>
        BY <1>4 DEF ReadCommitted, Dict
    <2>2. /\ pending(events) \ queue = pending(events)
          /\ pending(events) \cup (Dict \ Dict) = pending(events)
        BY <2>1
    <2>3. CommittedFindings(Dict \ Dict) = {}
        BY DEF CommittedFindings
    <2>4. QED
        BY <1>0, <2>1, <2>2, <2>3 DEF FoundSoFar
<1>5. CASE LookAtCommitted
    <2> DEFINE i == first(queue)
    <2>1. /\ phase = "committed" /\ phase' = phase /\ queue' = queue \ {i}
          /\ known' = known \cup {events[i].envelope.target}
          /\ findings' = findings \cup {CommittedFinding(i)}
        BY <1>5 DEF LookAtCommitted, CommittedFinding, Found
    <2>2. i \in queue /\ queue \subseteq Dict
        BY <1>5, <2>1, RowLookedAt DEF LookAtCommitted, FoundSoFar
    <2>3. /\ Dict \ (queue \ {i}) = (Dict \ queue) \cup {i}
          /\ pending(events) \cup (Dict \ (queue \ {i})) =
                (pending(events) \cup (Dict \ queue)) \cup {i}
        BY <2>2
    <2>4. /\ CommittedFindings(Dict \ queue') =
                CommittedFindings(Dict \ queue) \cup {CommittedFinding(i)}
          /\ TargetsOf(pending(events) \cup (Dict \ queue')) =
                TargetsOf(pending(events) \cup (Dict \ queue))
                    \cup {events[i].envelope.target}
        <3> DEFINE rows == Dict \ queue
                   all == pending(events) \cup (Dict \ queue)
        <3>1. /\ Dict \ queue' = rows \cup {i}
              /\ pending(events) \cup (Dict \ queue') = all \cup {i}
            BY <2>1, <2>3
        <3> HIDE DEF i, rows, all
        <3>2. CommittedFindings(Dict \ queue') = CommittedFindings(rows) \cup {CommittedFinding(i)}
            BY <3>1, OneRowMore, Zenon
        <3>3. TargetsOf(pending(events) \cup (Dict \ queue')) =
                  TargetsOf(all) \cup {events[i].envelope.target}
            BY <3>1, OneRowMore, Zenon
        <3>4. QED BY <3>2, <3>3 DEF rows, all
    <2>5. /\ known' = TargetsOf(pending(events) \cup (Dict \ queue'))
          /\ findings' = PendingFindings(pending(events)) \cup CommittedFindings(Dict \ queue')
        BY <2>1, <2>4 DEF FoundSoFar
    <2>6. QED
        BY <1>0, <2>1, <2>2, <2>5 DEF FoundSoFar
<1>6. CASE StartScan
    <2>1. /\ phase = "committed" /\ queue = {} /\ phase' = "scan" /\ unscanned' = Workspace
          /\ UNCHANGED <<known, findings>>
        BY <1>6 DEF StartScan
    <2>2. Dict \ queue = Dict /\ ScanFindings(Workspace \ Workspace) = {}
        BY <2>1 DEF ScanFindings
    <2>3. QED
        BY <1>0, <2>1, <2>2 DEF FoundSoFar
<1>7. CASE ScanPath
    <2>1. PICK p \in unscanned :
              /\ unscanned' = unscanned \ {p}
              /\ findings' = IF IsFile(p) /\ p \notin known THEN findings \cup {ScanFinding(p)}
                             ELSE findings
        BY <1>7 DEF ScanPath, KnownTargets, ScanFinding, Found
    <2>2. phase = "scan" /\ phase' = "scan" /\ UNCHANGED <<known, queue>>
        BY <1>7 DEF ScanPath
    <2>3. p \in Workspace /\ Workspace \ unscanned' = (Workspace \ unscanned) \cup {p}
        BY <2>1 DEF RTypes, RTypeOK
    <2>4. known = TargetsOf(pending(events) \cup Dict)
        BY <2>2 DEF FoundSoFar
    <2>5. ScanFindings((Workspace \ unscanned) \cup {p}) =
              IF IsFile(p) /\ p \notin known
              THEN ScanFindings(Workspace \ unscanned) \cup {ScanFinding(p)}
              ELSE ScanFindings(Workspace \ unscanned)
        BY <2>4 DEF ScanFindings
    <2>6. findings' = PendingFindings(pending(events)) \cup CommittedFindings(Dict)
                          \cup ScanFindings(Workspace \ unscanned')
        BY <2>1, <2>2, <2>3, <2>5 DEF FoundSoFar
    <2>7. QED
        BY <1>0, <2>2, <2>4, <2>6 DEF FoundSoFar
<1>8. QED
    BY <1>1, <1>2, <1>3, <1>4, <1>5, <1>6, <1>7 DEF ReconcileStep

\* Before a run has begun there is no moment.
LEMMA NotBegunIsNoMoment == NotBegun \notin Moment /\ \A m : IsPast(NotBegun, m)
<1>1. DOMAIN NotBegun.fs # Target
    BY FilesAssumption DEF NotBegun
<1>2. NotBegun \notin Moment
    BY <1>1 DEF Moment
<1>3. QED BY <1>2 DEF IsPast

\* A step of a run leaves files and calls as they are.
LEMMA RunSame ==
    ASSUME TypeInv, RTypes, SameInv, UNCHANGED vars,
           StartReconcile \/ ReconcileStep \/ AbortReconcile
    PROVE  SameInv'
<1>0. /\ bypasses' = bypasses /\ now' = now
      /\ now \in Moment /\ IsPast(now, now)
      /\ NotBegun # now /\ \A m : IsPast(NotBegun, m)
    <2>1. bypasses' = bypasses
        BY DEF StartReconcile, ReconcileStep, AbortReconcile, LookAtPending, ReadObservationHash,
            AppendObservation, ReadCommitted, LookAtCommitted, StartScan, ScanPath,
            FinishReconcile
    <2>2. now \in Moment /\ IsPast(now, now)
        BY NowIsMoment DEF TypeInv, RTypes
    <2>3. QED
        BY <2>1, <2>2, NotBegunIsNoMoment DEF now, vars
<1>1. Expected' = Expected
    <2>1. /\ pending(events') = pending(events) /\ committed(events') = committed(events)
          /\ \A i \in DOMAIN events : events'[i] = events[i]
          /\ UNCHANGED fs
        BY DEF vars
    <2>2. QED BY <2>1, SameAnswers
<1>2. CASE StartReconcile
    <2>1. /\ began' = now /\ report' = report /\ phase' = "pending" /\ ~ Idle'
          /\ queue' = pending(events) /\ known' = {} /\ findings' = {}
        BY <1>2 DEF StartReconcile, now, Idle
    <2>2. FoundSoFar'
        <3>1. /\ TargetsOf(pending(events) \ pending(events))' = {}
              /\ PendingFindings(pending(events) \ pending(events))' = {}
            BY DEF TargetsOf, PendingFindings
        <3>2. pending(events') = pending(events)
            BY DEF vars
        <3>3. QED BY <2>1, <3>1, <3>2 DEF FoundSoFar
    <2>3. QED
        BY <1>0, <1>1, <2>1, <2>2 DEF SameInv
<1>3. CASE AbortReconcile
    <2>1. began' = NotBegun /\ report' = report /\ Idle'
        BY <1>3 DEF AbortReconcile, LeaveReconcile, Idle
    <2>2. QED
        BY <1>0, <1>1, <2>1 DEF SameInv
<1>4. CASE FinishReconcile
    <2>1. /\ began' = NotBegun /\ Idle'
          /\ report'.began = began /\ report'.findings = findings
          /\ ~ Idle /\ phase = "scan" /\ unscanned = {}
        BY <1>4 DEF FinishReconcile, LeaveReconcile, Idle, AtEnd
    <2>2. began = now => findings = Expected
        BY <2>1 DEF SameInv, FoundSoFar, Expected
    <2>3. QED
        BY <1>0, <1>1, <2>1, <2>2 DEF SameInv
<1>5. CASE ReconcileStep /\ ~ FinishReconcile
    <2>1. UNCHANGED <<began, report>> /\ ~ Idle /\ ~ Idle'
        BY <1>5 DEF ReconcileStep, LookAtPending, ReadObservationHash, AppendObservation,
            ReadCommitted, LookAtCommitted, StartScan, ScanPath, Idle
    <2>2. FoundSoFar => FoundSoFar'
        BY <1>5, FoundStep
    <2>3. QED
        BY <1>0, <1>1, <2>1, <2>2 DEF SameInv
<1>6. QED BY <1>2, <1>3, <1>4, <1>5

LEMMA SameInvStep ==
    ASSUME SharedInv, SameInv, [RNext]_allvars
    PROVE  SameInv'
<1>0. TypeInv /\ RTypes /\ TypeInv' /\ RTypes'
    BY SharedLogStep, RTypesStep DEF SharedInv, IInv
<1>1. ASSUME IsPast(began, now'), IsPast(report.began, now'), UNCHANGED <<began, report>>,
             began \in Moment => began # now', report.began \in Moment => report.began # now'
      PROVE  SameInv'
    <2>1. (now \in Moment)'
        BY <1>0, ReconcileAssumption DEF TypeInv, RTypes, now, Moment, TypeOK, RTypeOK
    <2>2. began' # now' /\ report'.began # now'
        BY <1>1, <2>1
    <2>3. QED
        BY <1>1, <2>2 DEF SameInv
<1>2. ASSUME NEW c \in Call, ProxyMoves(c) PROVE SameInv'
    <2>1. UNCHANGED <<began, report>>
        BY <1>2 DEF ProxyMoves, scanning
    <2>2. QED
        BY <1>0, <1>1, <1>2, <2>1, CallLeavesPast DEF SameInv
<1>3. CASE Bypass
    <2>1. UNCHANGED <<began, report>>
        BY <1>0, <1>3, BypassStep DEF scanning
    <2>2. QED
        BY <1>0, <1>1, <1>3, <2>1, BypassLeavesPast DEF SameInv, RTypes
<1>4. CASE AppendObservation
    <2>1. /\ UNCHANGED <<fs, began, report, phase, queue, known, unscanned, findings>>
          /\ now' = now /\ ~ Idle /\ ~ Idle'
        BY <1>4 DEF AppendObservation, world, now, Idle
    <2>2. Expected' = Expected /\ (FoundSoFar' <=> FoundSoFar)
        BY <1>0, <1>4, <2>1, ObservationIsNoAnswer, SameAnswers
    <2>3. QED
        BY <2>1, <2>2 DEF SameInv
<1>5. CASE (StartReconcile \/ ReconcileStep \/ AbortReconcile) /\ ~ AppendObservation
    <2>1. UNCHANGED vars
        BY <1>5 DEF StartReconcile, ReconcileStep, AbortReconcile, LookAtPending,
            ReadObservationHash, ReadCommitted, LookAtCommitted, StartScan, ScanPath,
            FinishReconcile
    <2>2. QED BY <1>0, <1>5, <2>1, RunSame
<1>6. CASE UNCHANGED allvars
    <2>1. /\ UNCHANGED <<fs, began, report, phase, queue, known, unscanned, findings, rstep>>
          /\ now' = now /\ UNCHANGED events
        BY <1>6 DEF allvars, rvars, scanning, vars, stores, world, now
    <2>2. Expected' = Expected /\ (FoundSoFar' <=> FoundSoFar)
        BY <1>0, <2>1, SameAnswers
    <2>3. QED
        BY <2>1, <2>2 DEF SameInv, Idle
<1>7. QED
    BY <1>2, <1>3, <1>4, <1>5, <1>6 DEF RNext, ProxyStep, ProxyMoves, Step

\* Reconciling decides nothing: a second run over the same files and the same calls,
\* the ones in progress included, finds what the first one found, whatever the first
\* one appended.
THEOREM SecondRunAgrees == RSpec => RunsAgree
<1>1. RInit => SameInv
    <2> SUFFICES ASSUME RInit PROVE SameInv
        OBVIOUS
    <2>1. Idle /\ began = NotBegun /\ report.began = NotBegun
        BY DEF RInit, Idle, NoReport
    <2>2. TypeOK /\ RTypeOK
        BY InitRTypes DEF IInv, TypeInv, RTypes
    <2>3. QED
        BY <2>1, <2>2, NowIsMoment, NotBegunIsNoMoment DEF SameInv
<1>2. SharedInv /\ SameInv /\ [RNext]_allvars => SameInv'
    BY SameInvStep
<1>3. SharedInv /\ SameInv /\ [RNext]_allvars
      => [FinishReconcile /\ report.began = [fs |-> fs, pc |-> pc, bypasses |-> bypasses]
          => report'.findings = report.findings]_allvars
    <2> SUFFICES ASSUME SameInv, FinishReconcile, report.began = now
                 PROVE  report'.findings = report.findings
        BY DEF now
    <2>1. /\ ~ Idle /\ phase = "scan" /\ unscanned = {}
          /\ report'.findings = findings
        BY DEF FinishReconcile, AtEnd, Idle
    <2>2. findings = Expected /\ report.findings = Expected
        BY <2>1 DEF SameInv, FoundSoFar, Expected
    <2>3. QED BY <2>1, <2>2
<1>4. QED
    BY <1>1, <1>2, <1>3, SharedInvHolds, PTL DEF RSpec, RunsAgree

-----------------------------------------------------------------------------
(* What ToolProxy promises, it promises beside reconcile() and bypasses     *)

\* Neither an observation nor a bypass is a step of the contract.
LEMMA OutsideTheContract ==
    ASSUME IInv, RTypes, AppendObservation \/ Bypass
    PROVE  UNCHANGED Contract!vars
<1>0. TypeInv /\ TypeOK
    BY DEF IInv, TypeInv
<1>1. UNCHANGED <<effect, result>>
    BY <1>0, BypassStep DEF AppendObservation, world
<1>2. \A c \in Call : \A type \in EventType : Logged(c, type)' <=> Logged(c, type)
    <2>1. CASE UNCHANGED events
        BY <2>1 DEF Logged
    <2>2. CASE AppendObservation /\ events' = Append(events, observation)
        <3>1. /\ observation \in Event
              /\ \A c \in Call : \A type \in EventType : observation.hash # <<c, type>>
            BY <1>0, <2>2, ObservationRow DEF Event
        <3>2. QED BY <1>0, <2>2, <3>1, AppendLogs
    <2>3. QED BY <1>0, <2>1, <2>2, BypassStep DEF AppendObservation
<1>3. QED
    BY <1>1, <1>2 DEF Contract!vars, CallsPromised, CallsPerformed, CallRecords, EventType

\* ToolProxy keeps its contract although others append to its log and change its files.
THEOREM ContractKeptBeside == RSpec => KeepsContract
<1>1. RInit => Contract!Init
    BY InitContract DEF RInit
<1>2. SharedInv /\ [RNext]_allvars => [Contract!Next]_(Contract!vars)
    <2> SUFFICES ASSUME IInv, RTypes, [RNext]_allvars
                 PROVE  [Contract!Next]_(Contract!vars)
        BY DEF SharedInv
    <2>1. ASSUME NEW c \in Call, ProxyMoves(c) PROVE [Contract!Next]_(Contract!vars)
        BY <2>1, ContractStep DEF ProxyMoves, Next, Step
    <2>2. CASE UNCHANGED vars
        BY <2>2, ContractStep
    <2>3. QED
        BY <2>1, <2>2, OutsideTheContract, StepsOfReconcile
<1>3. QED
    BY <1>1, <1>2, SharedInvHolds, PTL DEF RSpec, KeepsContract, Contract!Spec

\* Nor does what others do make an intent, an answer or a record of a call untrue.
THEOREM PromisesHoldBeside ==
    RSpec => [](IntentBeforeEffect /\ ResultsAreTrue /\ ObservationsAreTrue)
<1>1. RInit => FilesInv
    BY InitFilesInv
<1>2. SharedInv /\ FilesInv /\ [RNext]_allvars => FilesInv'
    BY FilesInvStep DEF SharedInv
<1>3. SharedInv /\ FilesInv => IntentBeforeEffect /\ ResultsAreTrue /\ ObservationsAreTrue
    <2> SUFFICES ASSUME IInv, FilesInv
                 PROVE  IntentBeforeEffect /\ ResultsAreTrue /\ ObservationsAreTrue
        BY DEF SharedInv
    <2>1. IntentBeforeEffect
        BY DEF IInv, ProtocolInv, CallInv, EffectNeedsIntent, RowInv, TmpNeedsIntent,
            IntentBeforeEffect
    <2>2. ResultsAreTrue
        BY DEF IInv, ProtocolInv, CallInv, ResultIsTrue, ResultsAreTrue
    <2>3. ObservationsAreTrue
        BY DEF FilesInv, TruthInv, CommitsHappened, NoneMeansNothing, Logged,
            ObservationsAreTrue
    <2>4. QED BY <2>1, <2>2, <2>3
<1>4. QED
    BY <1>1, <1>2, <1>3, SharedInvHolds, PTL DEF RSpec

\* With fresh ids an effect stays in pending() until its record is closed, whatever
\* reconcile() appends under the same record id.
THEOREM EffectsAccountedBeside ==
    ASSUME FreshIds
    PROVE  RSpec => []EffectsAreAccounted
<1>1. RInit => FreshInv
    BY InitFreshInv DEF RInit
<1>2. SharedInv /\ FreshInv /\ [RNext]_allvars => FreshInv'
    BY RFreshStep DEF SharedInv, IInv
<1>3. SharedInv /\ FreshInv => EffectsAreAccounted
    BY EffectIsAccounted DEF SharedInv, EffectsAreAccounted
<1>4. QED
    BY <1>1, <1>2, <1>3, SharedInvHolds, PTL DEF RSpec

=============================================================================
