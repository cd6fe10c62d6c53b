------------------------ MODULE FilesystemDiffProofs ------------------------
(***************************************************************************)
(* Theorems about the filesystem diff beside other programs, for every set  *)
(* of paths, contents and requests, and every number of runs and changes.   *)
(***************************************************************************)
EXTENDS FilesystemDiff, FiniteSetTheorems, TLAPS

-----------------------------------------------------------------------------
(* Type correctness                                                         *)

\* DiffTypeOK, with the artifact being read as the set of one path it is.
DiffTypes ==
    /\ root \in BOOLEAN /\ files \in [Path -> FileState] /\ changes \in 0..MaxChanges
    /\ pc \in {"idle", "root", "expected", "hash", "scan", "answered"}
    /\ runs \in 0..MaxRuns /\ request \in Requests
    /\ todo \subseteq Path /\ listing \subseteq Path
    /\ current \subseteq Path
    /\ current = {} \/ (pc = "hash" /\ \E p \in Path : current = {p})
    /\ kinds \in [Path -> DiffKind \cup {"none"}] /\ focus \subseteq Path
    /\ output \in Result /\ results \in [ResultId -> Result]
    /\ held \in [Path -> SUBSET FileState] /\ rooted \subseteq BOOLEAN
    /\ missed \in BOOLEAN

\* The histories hold what there is, and are finite.
HistoriesFollow ==
    /\ \A p \in Path : files[p] \in held[p] /\ IsFiniteSet(held[p])
    /\ root \in rooted /\ IsFiniteSet(rooted)

DiffTypeInv == DiffTypes /\ HistoriesFollow

LEMMA RequestsAreTyped ==
    ASSUME NEW r \in Requests
    PROVE  /\ r.expected \in [Path -> Content \cup {"any", "not_expected"}]
           /\ r.ignored \subseteq Path
           /\ Expected(r) \subseteq Path
BY DiffAssumption DEF RequestType, Expected

LEMMA StatusIsTyped == Status \in ReconciliationStatus /\ NoResult \in Result
BY DEF Status, ReconciliationStatus, NoResult, Result

\* A run begins with histories of one entry.
LEMMA FreshHistories ==
    ASSUME NEW f, NEW h, NEW there, h = [p \in Path |-> {f[p]}]
    PROVE  /\ \A p \in Path : f[p] \in h[p] /\ IsFiniteSet(h[p])
           /\ there \in {there} /\ IsFiniteSet({there})
<1>1. \A p \in Path : h[p] = {f[p]}
    OBVIOUS
<1>2. \A x : IsFiniteSet({x})
    BY FS_Singleton
<1>3. QED
    BY <1>1, <1>2

LEMMA InitDiffTypeInv == Init => DiffTypeInv
<1> SUFFICES ASSUME Init PROVE DiffTypeInv
    OBVIOUS
<1>1. request \in Requests
    BY DiffAssumption DEF Init
<1>2. files \in [Path -> FileState]
    BY DiffAssumption DEF Init
<1>3. HistoriesFollow
    BY FreshHistories DEF Init, HistoriesFollow
<1>4. held \in [Path -> SUBSET FileState] /\ rooted \subseteq BOOLEAN
    <2>1. held = [p \in Path |-> {files[p]}] /\ rooted = {root} /\ root \in BOOLEAN
        BY DEF Init
    <2>2. QED BY <1>2, <2>1
<1>5. output \in Result /\ results \in [ResultId -> Result]
    BY StatusIsTyped DEF Init
<1>6. changes \in 0..MaxChanges /\ runs \in 0..MaxRuns
    BY DiffAssumption DEF Init
<1>7. QED
    BY <1>1, <1>2, <1>3, <1>4, <1>5, <1>6 DEF Init, DiffTypeInv, DiffTypes

\* What a change of the world does to the histories.
LEMMA WorldGrows ==
    ASSUME DiffTypeInv, Remember, files' \in [Path -> FileState], root' \in BOOLEAN
    PROVE  /\ HistoriesFollow'
           /\ held' \in [Path -> SUBSET FileState] /\ rooted' \subseteq BOOLEAN
           /\ \A p \in Path : held[p] \subseteq held'[p]
           /\ rooted \subseteq rooted'
<1>1. \A p \in Path : held'[p] = held[p] \cup {files'[p]}
    BY DEF Remember
<1>2. ASSUME NEW p \in Path PROVE files'[p] \in held'[p] /\ IsFiniteSet(held'[p])
    BY <1>1, FS_AddElement DEF DiffTypeInv, HistoriesFollow
<1>3. root' \in rooted' /\ IsFiniteSet(rooted')
    BY FS_AddElement DEF Remember, DiffTypeInv, HistoriesFollow
<1>4. QED
    BY <1>1, <1>2, <1>3 DEF Remember, DiffTypeInv, DiffTypes, HistoriesFollow

\* Other programs' steps leave the run and its results alone.
LEMMA WorldMoves ==
    ASSUME DiffTypeInv, (\E p \in Path : ChangeFile(p)) \/ RemoveRoot
    PROVE  /\ UNCHANGED <<run, results>> /\ Remember
           /\ root' \in BOOLEAN /\ files' \in [Path -> FileState] /\ changes' \in 0..MaxChanges
<1>1. CASE \E p \in Path : ChangeFile(p)
    BY <1>1, DiffAssumption DEF ChangeFile, DiffTypeInv, DiffTypes
<1>2. CASE RemoveRoot
    <2>1. files' \in [Path -> FileState]
        BY <1>2 DEF RemoveRoot, FileState
    <2>2. changes' \in 0..MaxChanges
        BY <1>2, DiffAssumption DEF RemoveRoot, DiffTypeInv, DiffTypes
    <2>3. QED
        BY <1>2, <2>1, <2>2 DEF RemoveRoot
<1>3. QED BY <1>1, <1>2

\* A step of the run, or of Keep, leaves the world and its histories alone.
LEMMA RunStepsKeepWorld ==
    ASSUME RunStep \/ Keep
    PROVE  UNCHANGED <<world, runs, request, held, rooted>>
BY DEF RunStep, RootIsMissing, RootExists, Ignore, ArtifactIsMissing, ArtifactExists,
    ReadArtifact, ListRoot, LookAtEntry, ScanFails, Decide, Keep

LEMMA KindIsTyped ==
    ASSUME NEW expected, NEW found
    PROVE  KindOf(expected, found) \in {"unknown", "unchanged", "modified"}
BY DEF KindOf

LEMMA DiffTypeStep ==
    ASSUME DiffTypeInv, [Next]_dvars
    PROVE  DiffTypeInv'
<1> USE DEF DiffTypeInv
<1>1. CASE UNCHANGED dvars
    BY <1>1 DEF dvars, world, run, DiffTypes, HistoriesFollow
<1>2. ASSUME NEW r \in Requests, RefuseRequest(r) \/ AcceptRequest(r) PROVE DiffTypeInv'
    <2>1. HistoriesFollow'
        BY <1>2, FreshHistories DEF RefuseRequest, AcceptRequest, Handle, world, HistoriesFollow
    <2>2. runs' \in 0..MaxRuns
        BY <1>2, DiffAssumption DEF RefuseRequest, AcceptRequest, Handle, DiffTypes
    <2>3. pc = "idle" /\ pc' \in {"idle", "root"} /\ current = {}
        BY <1>2 DEF RefuseRequest, AcceptRequest, Handle, DiffTypes
    <2>4. kinds' \in [Path -> DiffKind \cup {"none"}] /\ focus' \subseteq Path
        BY <1>2 DEF RefuseRequest, AcceptRequest, Handle
    <2>5. held' \in [Path -> SUBSET FileState] /\ rooted' \subseteq BOOLEAN
        <3>1. held' = [p \in Path |-> {files[p]}] /\ rooted' = {root}
            BY <1>2 DEF RefuseRequest, AcceptRequest, Handle
        <3>2. QED BY <3>1 DEF DiffTypes
    <2>6. output' \in Result /\ missed' \in BOOLEAN /\ request' \in Requests
        BY <1>2, StatusIsTyped DEF RefuseRequest, AcceptRequest, Handle
    <2>7. UNCHANGED <<world, todo, current, listing, results>>
        BY <1>2 DEF RefuseRequest, AcceptRequest
    <2>8. QED
        BY <2>1, <2>2, <2>3, <2>4, <2>5, <2>6, <2>7 DEF world, DiffTypes
<1>3. CASE RunStep \/ Keep
    <2>1. UNCHANGED <<world, runs, request, held, rooted>> /\ HistoriesFollow'
        BY <1>3, RunStepsKeepWorld DEF world, HistoriesFollow
    <2> USE DEF Goto, Record, Flag, DiffKind
    <2>2. CASE RootIsMissing \/ RootExists
        BY <2>1, <2>2, RequestsAreTyped
           DEF RootIsMissing, RootExists, DiffTypes, world, Result, ReconciliationStatus
    <2>3. CASE \E p \in Path : Ignore(p) \/ ArtifactIsMissing(p) \/ ArtifactExists(p)
        BY <2>1, <2>3 DEF Ignore, ArtifactIsMissing, ArtifactExists, DiffTypes, world
    <2>4. CASE ReadArtifact
        BY <2>1, <2>4, KindIsTyped DEF ReadArtifact, DiffTypes, world
    <2>5. CASE ListRoot \/ ScanFails
        BY <2>1, <2>5 DEF ListRoot, ScanFails, DiffTypes, world
    <2>6. CASE \E p \in Path : LookAtEntry(p)
        BY <2>1, <2>6 DEF LookAtEntry, DiffTypes, world
    <2>7. CASE Decide
        BY <2>1, <2>7, StatusIsTyped DEF Decide, DiffTypes, world, Result
    <2>8. CASE Keep
        BY <2>1, <2>8 DEF Keep, put, DiffTypes, world
    <2>9. QED
        BY <1>3, <2>2, <2>3, <2>4, <2>5, <2>6, <2>7, <2>8 DEF RunStep
<1>4. CASE (\E p \in Path : ChangeFile(p)) \/ RemoveRoot
    BY <1>4, WorldMoves, WorldGrows DEF DiffTypes, run
<1>5. QED
    BY <1>1, <1>2, <1>3, <1>4 DEF Next

LEMMA DiffTypeInvHolds == Spec => []DiffTypeInv
BY InitDiffTypeInv, DiffTypeStep, PTL DEF Spec

\* Every reachable state has its type: a report has no kind and no status that the
\* contracts do not list, and one artifact is read at a time.
THEOREM DiffTypeCorrect == Spec => []DiffTypeOK
<1>1. DiffTypeInv => DiffTypeOK
    <2>1. ASSUME DiffTypeInv PROVE Cardinality(current) <= 1
        <3>1. Cardinality({}) = 0 /\ \A x : Cardinality({x}) = 1
            BY FS_EmptySet, FS_Singleton
        <3>2. current = {} \/ \E p \in Path : current = {p}
            BY <2>1 DEF DiffTypeInv, DiffTypes
        <3>3. Cardinality(current) \in {0, 1}
            BY <3>1, <3>2, Zenon
        <3>4. QED BY <3>3, SMT
    <2>2. QED
        BY <2>1 DEF DiffTypeInv, DiffTypes, DiffTypeOK
<1>2. QED
    BY <1>1, DiffTypeInvHolds, PTL

-----------------------------------------------------------------------------
(* What a run has seen: the inductive invariant                             *)

\* The path held such a state at some moment of the run.
Was(p, S) == held[p] \cap S # {}

Fitting(p) == {state \in Content : request.expected[p] \in {"any", state}}
Opaque == {"directory", "unreadable"}
Files == {state \in FileState : IsFile(state)}
Extras == FileState \ Files

\* Each kind recorded has its grounds in what the path has held.
Grounded(p) ==
    /\ kinds[p] \in {"unchanged", "modified", "removed", "unknown"} => p \in Observed(request)
    /\ kinds[p] = "unchanged" => Was(p, Fitting(p))
    /\ kinds[p] = "modified" => Was(p, Content \ Fitting(p))
    /\ kinds[p] = "removed" => Was(p, {"absent"})
    /\ kinds[p] = "unknown" => Was(p, Opaque \cup {"absent"}) /\ Was(p, Present)
    /\ kinds[p] = "added" => p \in Extra(request) /\ Was(p, Files)
    /\ kinds[p] = "ignored" => p \in request.ignored

\* An artifact is looked at once; found to exist, it has existed.
Progress(p) ==
    /\ p \in todo => p \in Expected(request) /\ p \notin current
    /\ p \in current => p \in Observed(request) /\ Was(p, Present)
    /\ p \in todo \cup current => kinds[p] = "none"
    /\ p \in Observed(request) \ (todo \cup current) => kinds[p] # "none"

\* Extra files are listed, recorded, or were not there all along.
Scanned(p) ==
    p \in Extra(request) => missed \/ p \in listing \/ kinds[p] = "added" \/ Was(p, Extras)

NothingRecorded == (\A p \in Path : kinds[p] = "none") /\ focus = {}

Looking == /\ TRUE \in rooted /\ focus = Differing
           /\ \A p \in Path : Grounded(p) /\ Progress(p)

Looked == /\ Looking /\ \A p \in Path : Scanned(p)
          /\ todo = {} /\ current = {}

Answered == \/ /\ output = [status |-> "inconclusive", focus |-> {}]
               /\ FALSE \in rooted /\ NothingRecorded
            \/ /\ output = [status |-> Status, focus |-> focus]
               /\ Looked /\ listing = {}

RunInv ==
    /\ pc = "root" => NothingRecorded /\ ~ missed
    /\ pc \in {"expected", "hash"} => Looking /\ ~ missed
    /\ pc = "scan" => Looked
    /\ pc = "answered" => Answered

\* Grounds do not go away while the run lasts.
LEMMA GroundsStay ==
    ASSUME DiffTypeInv, RunInv, UNCHANGED <<run, results>>, rooted \subseteq rooted',
           \A p \in Path : held[p] \subseteq held'[p]
    PROVE  RunInv'
<1>1. \A p \in Path : \A S : Was(p, S) => Was(p, S)'
    BY DEF Was
<1>2. \A p \in Path : Fitting(p)' = Fitting(p)
    BY DEF Fitting, run
<1>3. \A p \in Path : (Grounded(p) => Grounded(p)') /\ (Progress(p) => Progress(p)')
                      /\ (Scanned(p) => Scanned(p)')
    BY <1>1, <1>2 DEF Grounded, Progress, Scanned, run
<1>4. Status' = Status /\ Differing' = Differing /\ (NothingRecorded => NothingRecorded')
    BY DEF Status, Differing, NothingRecorded, run
<1>5. (Looking => Looking') /\ (Looked => Looked')
    BY <1>3, <1>4 DEF Looking, Looked, run
<1>6. QED
    BY <1>4, <1>5 DEF RunInv, Answered, run

LEMMA AskedStep ==
    ASSUME NEW r \in Requests, RefuseRequest(r) \/ AcceptRequest(r)
    PROVE  RunInv'
BY DEF RefuseRequest, AcceptRequest, Handle, RunInv, NothingRecorded

\* The kinds by what was found.
LEMMA KindFound ==
    ASSUME DiffTypeInv, NEW p \in Observed(request)
    PROVE  LET kind == KindOf(request.expected[p], files[p]) IN
           /\ kind = "unchanged" => files[p] \in Fitting(p)
           /\ kind = "modified" => files[p] \in Content \ Fitting(p)
           /\ kind = "unknown" => files[p] \in Opaque \cup {"absent"}
           /\ kind \in {"unchanged", "modified", "unknown"}
BY DEF DiffTypeInv, DiffTypes, FileState, Present, Observed, Expected, Opaque, KindOf, Readable,
    Fitting

\* Recording a kind for one path disturbs no other path.
LEMMA RecordStep ==
    ASSUME DiffTypeInv, NEW p \in Path, NEW kind \in DiffKind, Record(p, kind),
           UNCHANGED <<request, held, rooted>>, NEW q \in Path, q # p
    PROVE  /\ kinds'[q] = kinds[q] /\ kinds'[p] = kind
           /\ Grounded(q) => Grounded(q)'
BY DEF Record, DiffTypeInv, DiffTypes, Grounded, Was, Fitting

LEMMA DifferingStep ==
    ASSUME DiffTypeInv, NEW p \in Path, NEW kind \in DiffKind, Record(p, kind)
    PROVE  Differing' = IF kind \in {"added", "removed", "modified", "unknown"}
                        THEN Differing \cup {p} ELSE Differing \ {p}
BY DEF Record, DiffTypeInv, DiffTypes, Differing

\* An artifact that is ignored or missing is settled at once.
LEMMA SettleStep ==
    ASSUME DiffTypeInv, Looking, NEW p \in todo, Ignore(p) \/ ArtifactIsMissing(p)
    PROVE  Looking'
<1> DEFINE kind == IF Ignore(p) THEN "ignored" ELSE "removed"
<1>1. /\ p \in Path /\ kind \in DiffKind /\ Record(p, kind) /\ todo' = todo \ {p}
      /\ UNCHANGED <<request, held, rooted, current>>
    BY DEF Ignore, ArtifactIsMissing, DiffTypeInv, DiffTypes, DiffKind
<1>2. p \notin Differing
    BY <1>1 DEF Looking, Progress, Differing
<1>3. focus' = Differing'
    <2>1. CASE Ignore(p)
        BY <1>1, <1>2, <2>1, DifferingStep DEF Ignore, Looking
    <2>2. CASE ~ Ignore(p)
        BY <1>1, <2>2, DifferingStep DEF ArtifactIsMissing, Flag, Looking
    <2>3. QED BY <2>1, <2>2
<1>4. Grounded(p)' /\ Progress(p)'
    <2>1. kinds'[p] = kind /\ held'[p] = held[p] /\ request' = request
        BY <1>1, RecordStep DEF Record, DiffTypeInv, DiffTypes
    <2>2. p \in Expected(request) /\ (p \in current => p \in Observed(request) /\ Was(p, Present))
        BY <1>1 DEF Looking, Progress
    <2>3. kinds[p] = "none" /\ p \notin current
        <3>1. current = {}
            BY DEF Ignore, ArtifactIsMissing, DiffTypeInv, DiffTypes
        <3>2. QED BY <1>1, <3>1 DEF Looking, Progress
    <2>4. CASE Ignore(p)
        BY <1>1, <2>1, <2>2, <2>3, <2>4 DEF Ignore, Grounded, Progress
    <2>5. CASE ~ Ignore(p)
        <3>1. files[p] = "absent" /\ files[p] \in held[p] /\ p \in Observed(request)
            BY <1>1, <2>2, <2>5 DEF ArtifactIsMissing, DiffTypeInv, HistoriesFollow, Observed
        <3>2. Was(p, {"absent"})'
            BY <2>1, <3>1 DEF Was
        <3>3. QED
            BY <1>1, <2>1, <2>2, <2>3, <2>5, <3>1, <3>2 DEF Grounded, Progress, Observed
    <2>6. QED BY <2>4, <2>5
<1>5. ASSUME NEW q \in Path, q # p PROVE Grounded(q)' /\ Progress(q)'
    <2>1. kinds'[q] = kinds[q] /\ Grounded(q)'
        BY <1>1, <1>5, RecordStep DEF Looking
    <2>2. Progress(q)'
        BY <1>1, <1>5, <2>1 DEF Looking, Progress, Was
    <2>3. QED BY <2>1, <2>2
<1>6. QED
    BY <1>1, <1>3, <1>4, <1>5 DEF Looking

LEMMA ExistsStep ==
    ASSUME DiffTypeInv, Looking, NEW p \in todo, ArtifactExists(p)
    PROVE  Looking'
<1>1. /\ p \in Path /\ files[p] \in held[p] /\ files[p] \in Present
      /\ p \in Observed(request)
    BY DEF ArtifactExists, DiffTypeInv, DiffTypes, HistoriesFollow, FileState, Looking, Progress,
        Observed
<1>2. /\ UNCHANGED <<request, held, rooted, kinds, focus>>
      /\ current' = {p} /\ todo' = todo \ {p} /\ current = {}
    BY DEF ArtifactExists, DiffTypeInv, DiffTypes
<1>3. \A q \in Path : Grounded(q)'
    BY <1>2 DEF Looking, Grounded, Was, Fitting
<1>4. ASSUME NEW q \in Path PROVE Progress(q)'
    <2>1. Progress(q)
        BY DEF Looking
    <2>2. CASE q = p
        BY <1>1, <1>2, <2>1, <2>2 DEF Progress, Was
    <2>3. CASE q # p
        BY <1>2, <2>1, <2>3 DEF Progress, Was
    <2>4. QED BY <2>2, <2>3
<1>5. QED
    BY <1>2, <1>3, <1>4 DEF Looking, Differing

LEMMA ReadStep ==
    ASSUME DiffTypeInv, Looking, ReadArtifact
    PROVE  Looking'
<1>1. PICK p \in current : LET kind == KindOf(request.expected[p], files[p]) IN
          Record(p, kind) /\ IF NeedsReview(kind) THEN Flag(p) ELSE UNCHANGED focus
    BY DEF ReadArtifact
<1> DEFINE kind == KindOf(request.expected[p], files[p])
<1>2. /\ UNCHANGED <<request, held, rooted, todo>>
      /\ current' = {} /\ current = {p} /\ p \in Path
    BY DEF ReadArtifact, DiffTypeInv, DiffTypes
<1>3. p \in Observed(request) /\ Was(p, Present) /\ kinds[p] = "none" /\ p \notin Differing
    BY <1>2 DEF Looking, Progress, Differing
<1>4. /\ kind \in {"unchanged", "modified", "unknown"}
      /\ kind = "unchanged" => files[p] \in Fitting(p)
      /\ kind = "modified" => files[p] \in Content \ Fitting(p)
      /\ kind = "unknown" => files[p] \in Opaque \cup {"absent"}
    BY <1>3, KindFound
<1>5. kind \in DiffKind /\ Record(p, kind)
    BY <1>1, <1>4 DEF DiffKind
<1>6. focus' = Differing'
    BY <1>1, <1>2, <1>3, <1>4, <1>5, DifferingStep DEF NeedsReview, Flag, Looking
<1>7. kinds'[p] = kind
    BY <1>2, <1>5 DEF Record, DiffTypeInv, DiffTypes
<1>8. Grounded(p)'
    <2>1. files[p] \in held[p]
        BY <1>2 DEF DiffTypeInv, HistoriesFollow
    <2>2. \A S : files[p] \in S => Was(p, S)'
        BY <1>2, <2>1 DEF Was
    <2>3. Was(p, Present)' /\ Fitting(p)' = Fitting(p)
        BY <1>2, <1>3 DEF Was, Fitting
    <2>4. QED
        BY <1>2, <1>3, <1>4, <1>7, <2>2, <2>3 DEF Grounded
<1>9. Progress(p)'
    BY <1>2, <1>4, <1>7 DEF Looking, Progress
<1>10. ASSUME NEW q \in Path, q # p PROVE Grounded(q)' /\ Progress(q)'
    <2>1. kinds'[q] = kinds[q] /\ Grounded(q)'
        BY <1>2, <1>5, <1>10, RecordStep DEF Looking
    <2>2. Progress(q)'
        BY <1>2, <1>10, <2>1 DEF Looking, Progress
    <2>3. QED BY <2>1, <2>2
<1>11. QED
    BY <1>2, <1>6, <1>8, <1>9, <1>10 DEF Looking

LEMMA ListStep ==
    ASSUME DiffTypeInv, Looking, ListRoot
    PROVE  Looked'
<1>1. /\ UNCHANGED <<request, held, rooted, kinds, focus, todo, current>>
      /\ todo = {} /\ current = {} /\ listing' = {p \in Path : files[p] # "absent"}
    BY DEF ListRoot, DiffTypeInv, DiffTypes
<1>2. Looking'
    BY <1>1 DEF Looking, Grounded, Progress, Was, Fitting, Differing
<1>3. ASSUME NEW p \in Path, p \notin listing' PROVE Was(p, Extras)'
    <2>1. files[p] = "absent" /\ files[p] \in held[p]
        BY <1>1, <1>3 DEF DiffTypeInv, HistoriesFollow
    <2>2. "absent" \in Extras
        BY DiffAssumption DEF Extras, Files, FileState, IsFile
    <2>3. QED
        BY <1>1, <2>1, <2>2 DEF Was
<1>4. QED
    BY <1>1, <1>2, <1>3 DEF Looked, Scanned

LEMMA EntryStep ==
    ASSUME DiffTypeInv, Looked, NEW p \in Path, LookAtEntry(p)
    PROVE  Looked'
<1>1. /\ UNCHANGED <<request, held, rooted, todo, current, missed>>
      /\ listing' = listing \ {p} /\ files[p] \in held[p] /\ files[p] \in FileState
    BY DEF LookAtEntry, DiffTypeInv, DiffTypes, HistoriesFollow
<1>2. CASE IsFile(files[p]) /\ p \notin Expected(request) \cup request.ignored
    <2>1. Record(p, "added") /\ "added" \in DiffKind /\ focus' = focus \cup {p}
        BY <1>2 DEF LookAtEntry, Flag, DiffKind
    <2>2. focus' = Differing'
        BY <2>1, DifferingStep DEF Looked, Looking
    <2>3. kinds'[p] = "added" /\ p \in Extra(request) /\ p \notin Observed(request)
        BY <1>2, <2>1, RequestsAreTyped
           DEF Record, DiffTypeInv, DiffTypes, Extra, Observed
    <2>4. Was(p, Files)' /\ Grounded(p)' /\ Progress(p)' /\ Scanned(p)'
        BY <1>1, <1>2, <2>3 DEF Was, Files, Grounded, Progress, Scanned, Looked
    <2>5. ASSUME NEW q \in Path, q # p PROVE Grounded(q)' /\ Progress(q)' /\ Scanned(q)'
        <3>1. kinds'[q] = kinds[q] /\ Grounded(q)'
            BY <1>1, <2>1, <2>5, RecordStep DEF Looked, Looking
        <3>2. QED
            BY <1>1, <2>5, <3>1 DEF Looked, Looking, Progress, Scanned, Was
    <2>6. QED
        BY <1>1, <2>2, <2>4, <2>5 DEF Looked, Looking
<1>3. CASE ~ (IsFile(files[p]) /\ p \notin Expected(request) \cup request.ignored)
    <2>1. UNCHANGED <<kinds, focus>>
        BY <1>3 DEF LookAtEntry
    <2>2. Looking'
        BY <1>1, <2>1 DEF Looked, Looking, Grounded, Progress, Was, Fitting, Differing
    <2>3. Scanned(p)'
        BY <1>1, <1>3 DEF Scanned, Was, Extras, Files, Extra
    <2>4. \A q \in Path : q # p => Scanned(q)'
        BY <1>1, <2>1 DEF Looked, Scanned, Was
    <2>5. QED
        BY <1>1, <2>2, <2>3, <2>4 DEF Looked
<1>4. QED BY <1>2, <1>3

LEMMA RunInvStep ==
    ASSUME DiffTypeInv, RunInv, [Next]_dvars
    PROVE  RunInv'
<1>1. CASE UNCHANGED dvars
    <2>1. UNCHANGED <<run, results>> /\ held' = held /\ rooted' = rooted
        BY <1>1 DEF dvars
    <2>2. QED BY <2>1, GroundsStay
<1>2. CASE (\E p \in Path : ChangeFile(p)) \/ RemoveRoot
    BY <1>2, WorldMoves, WorldGrows, GroundsStay
<1>3. CASE \E r \in Requests : RefuseRequest(r) \/ AcceptRequest(r)
    BY <1>3, AskedStep
<1>4. CASE RootIsMissing
    <2>1. root \in rooted /\ ~ root /\ FALSE \in rooted
        BY <1>4 DEF RootIsMissing, DiffTypeInv, DiffTypes, HistoriesFollow
    <2>2. QED
        BY <1>4, <2>1 DEF RootIsMissing, RunInv, Answered, NothingRecorded, Goto
<1>5. CASE RootExists
    <2>1. TRUE \in rooted /\ current = {} /\ NothingRecorded /\ ~ missed
        BY <1>5 DEF RootExists, DiffTypeInv, DiffTypes, HistoriesFollow, RunInv
    <2>2. UNCHANGED <<request, held, rooted, kinds, focus, current, missed>>
          /\ todo' = Expected(request)
        BY <1>5 DEF RootExists
    <2>3. \A p \in Path : Grounded(p)' /\ Progress(p)'
        BY <2>1, <2>2 DEF NothingRecorded, Grounded, Progress, Observed
    <2>4. Looking'
        BY <2>1, <2>2, <2>3 DEF Looking, NothingRecorded, Differing
    <2>5. QED
        BY <1>5, <2>1, <2>2, <2>4 DEF RootExists, RunInv, Goto
<1>6. ASSUME NEW p \in Path, Ignore(p) \/ ArtifactIsMissing(p) PROVE RunInv'
    BY <1>6, SettleStep DEF Ignore, ArtifactIsMissing, RunInv
<1>7. ASSUME NEW p \in Path, ArtifactExists(p) PROVE RunInv'
    BY <1>7, ExistsStep DEF ArtifactExists, RunInv, Goto
<1>8. CASE ReadArtifact
    BY <1>8, ReadStep DEF ReadArtifact, RunInv, Goto
<1>9. CASE ListRoot
    BY <1>9, ListStep DEF ListRoot, RunInv, Goto
<1>10. ASSUME NEW p \in Path, LookAtEntry(p) PROVE RunInv'
    BY <1>10, EntryStep DEF LookAtEntry, RunInv
<1>11. CASE ScanFails
    BY <1>11 DEF ScanFails, RunInv, Looked, Looking, Scanned, Grounded, Progress, Was, Fitting,
        Differing
<1>12. CASE Decide
    <2>1. UNCHANGED <<request, held, rooted, kinds, focus, todo, current, listing, missed>>
        BY <1>12 DEF Decide
    <2>2. Looked'
        <3>1. Looked
            BY <1>12 DEF Decide, RunInv
        <3>2. \A p \in Path : Grounded(p)' /\ Progress(p)' /\ Scanned(p)'
            BY <2>1, <3>1 DEF Looked, Looking, Grounded, Progress, Scanned, Was, Fitting
        <3>3. QED
            BY <2>1, <3>1, <3>2 DEF Looked, Looking, Differing
    <2>3. Status' = Status
        BY <2>1 DEF Status, Differing
    <2>4. QED
        BY <1>12, <2>1, <2>2, <2>3 DEF Decide, RunInv, Answered, Goto
<1>13. CASE Keep
    BY <1>13 DEF Keep, RunInv, Goto
<1>14. QED
    BY <1>1, <1>2, <1>3, <1>4, <1>5, <1>6, <1>7, <1>8, <1>9, <1>10, <1>11, <1>12, <1>13
       DEF Next, RunStep

LEMMA RunInvHolds == Spec => [](DiffTypeInv /\ RunInv)
<1>1. Init => RunInv
    BY DEF Init, RunInv
<1>2. QED
    BY <1>1, RunInvStep, DiffTypeInvHolds, PTL DEF Spec

-----------------------------------------------------------------------------
(* The theorems                                                             *)

\* What Status says of the kinds.
LEMMA StatusMeans ==
    /\ Status = "matched" => Differing = {}
    /\ Status = "mismatch_observed" =>
          Differing # {} /\ \A p \in Path : kinds[p] # "unknown"
    /\ Status = "inconclusive" => \E p \in Path : kinds[p] = "unknown"
BY DEF Status, Differing

LEMMA TwoAnswers ==
    ASSUME Answered
    PROVE  \/ output.status = "inconclusive" /\ FALSE \in rooted
           \/ output.status = Status /\ Looked /\ listing = {}
<1>1. [status |-> "inconclusive", focus |-> {}].status = "inconclusive"
    OBVIOUS
<1>2. [status |-> Status, focus |-> focus].status = Status
    OBVIOUS
<1>3. QED
    BY <1>1, <1>2 DEF Answered

\* Beside programs that change the files while they are looked at, each verdict has
\* grounds in what some moment of the run really held: the code takes no snapshot,
\* and no change in between makes it answer from nothing.
THEOREM GroundsHold == Spec => []VerdictsHaveGrounds
<1>1. DiffTypeInv /\ RunInv => VerdictsHaveGrounds
    <2> SUFFICES ASSUME DiffTypeInv, Answered PROVE VerdictsHaveGrounds
        BY DEF RunInv, VerdictsHaveGrounds
    <2>1. CASE output.status = "inconclusive" /\ FALSE \in rooted
        BY <2>1 DEF VerdictsHaveGrounds
    <2>2. CASE output.status = Status /\ Looked /\ listing = {}
        <3>0. \A p \in Path : Grounded(p) /\ Progress(p) /\ Scanned(p)
            BY <2>2 DEF Looked, Looking
        <3>1. ASSUME Status = "matched"
              PROVE  /\ \A p \in Observed(request) :
                            \E state \in held[p] : Fits(request, p, state)
                     /\ missed \/ \A p \in Extra(request) :
                                      \E state \in held[p] : ~ IsFile(state)
            <4>1. \A p \in Path : kinds[p] \notin {"added", "removed", "modified", "unknown"}
                BY <3>1, StatusMeans DEF Differing
            <4>2. ASSUME NEW p \in Observed(request)
                  PROVE  \E state \in held[p] : Fits(request, p, state)
                <5>1. p \in Path /\ kinds[p] \notin {"none", "ignored"}
                    BY <2>2, <3>0, <4>2, RequestsAreTyped
                       DEF Observed, Expected, Looked, Progress, Grounded
                <5>2. kinds[p] = "unchanged"
                    BY <4>1, <5>1 DEF DiffTypeInv, DiffTypes, DiffKind
                <5>3. QED
                    BY <3>0, <5>1, <5>2 DEF Grounded, Was, Fitting, Fits
            <4>3. ASSUME ~ missed, NEW p \in Extra(request)
                  PROVE  \E state \in held[p] : ~ IsFile(state)
                <5>1. p \in Path
                    BY DEF Extra
                <5>2. QED
                    BY <2>2, <3>0, <4>1, <4>3, <5>1 DEF Scanned, Was, Extras, Files
            <4>4. QED BY <4>2, <4>3
        <3>2. ASSUME Status = "mismatch_observed"
              PROVE  \/ \E p \in Observed(request) : \E state \in held[p] : ~ Fits(request, p, state)
                     \/ \E p \in Extra(request) : \E state \in held[p] : IsFile(state)
            <4>1. PICK p \in Path : kinds[p] \in {"added", "removed", "modified"}
                BY <3>2, StatusMeans DEF Differing
            <4>2. CASE kinds[p] = "added"
                BY <3>0, <4>1, <4>2 DEF Grounded, Was, Files
            <4>3. CASE kinds[p] = "removed"
                BY <3>0, <4>1, <4>3, DiffAssumption DEF Grounded, Was, Fits
            <4>4. CASE kinds[p] = "modified"
                BY <3>0, <4>1, <4>4 DEF Grounded, Was, Fitting, Fits
            <4>5. QED BY <4>1, <4>2, <4>3, <4>4
        <3>3. ASSUME Status = "inconclusive"
              PROVE  \E p \in Observed(request) :
                        held[p] \cap {"directory", "unreadable", "absent"} # {}
            BY <3>0, <3>3, StatusMeans DEF Grounded, Was, Opaque
        <3>4. QED
            BY <2>2, <3>1, <3>2, <3>3 DEF VerdictsHaveGrounds
    <2>3. QED
        BY <2>1, <2>2, TwoAnswers
<1>2. QED
    BY <1>1, RunInvHolds, PTL

\* A kept result that found a mismatch has a line of review focus.
ResultsInv == \A id \in ResultId :
    results[id].status = "mismatch_observed" => results[id].focus # {}

LEMMA AnswerHasFocus ==
    ASSUME Answered
    PROVE  output.focus = Differing /\ (output.status = "mismatch_observed" => output.focus # {})
<1>1. CASE output = [status |-> "inconclusive", focus |-> {}] /\ NothingRecorded
    BY <1>1 DEF NothingRecorded, Differing
<1>2. CASE output = [status |-> Status, focus |-> focus] /\ Looked
    BY <1>2, StatusMeans DEF Looked, Looking
<1>3. QED BY <1>1, <1>2 DEF Answered

LEMMA ResultsInvStep ==
    ASSUME DiffTypeInv, RunInv, ResultsInv, [Next]_dvars
    PROVE  ResultsInv'
<1>1. CASE results' = results
    BY <1>1 DEF ResultsInv
<1>2. CASE Keep
    <2>1. PICK id \in ResultId : put(id)
        BY <1>2 DEF Keep
    <2>2. output.status = "mismatch_observed" => output.focus # {}
        BY <1>2, AnswerHasFocus DEF Keep, RunInv
    <2>3. \A other \in ResultId : results'[other] \in {results[other], output}
        BY <2>1 DEF put, DiffTypeInv, DiffTypes
    <2>4. QED
        BY <2>2, <2>3 DEF ResultsInv
<1>3. QED
    BY <1>1, <1>2 DEF Next, RefuseRequest, AcceptRequest, RunStep, RootIsMissing, RootExists,
        Ignore, ArtifactIsMissing, ArtifactExists, ReadArtifact, ListRoot, LookAtEntry,
        ScanFails, Decide, ChangeFile, RemoveRoot, dvars

\* The review focus has a line for each difference the status counts, and no mismatch
\* that was kept is hidden from the commands that list and show results.
THEOREM MismatchesListed == Spec => []MismatchesAreListed
<1>1. Init => ResultsInv
    BY DEF Init, ResultsInv, NoResult
<1>2. DiffTypeInv /\ RunInv /\ ResultsInv /\ [Next]_dvars => ResultsInv'
    BY ResultsInvStep
<1>3. RunInv /\ ResultsInv => MismatchesAreListed
    <2> SUFFICES ASSUME RunInv, ResultsInv PROVE MismatchesAreListed
        OBVIOUS
    <2>1. pc = "answered" => output.focus = Differing
        BY AnswerHasFocus DEF RunInv
    <2>2. ASSUME NEW id \in ResultId, results[id].status = "mismatch_observed"
          PROVE  id \in handle_list /\ exit_code(<<"show", id>>) = 0
        <3>1. results[id] # NoResult
            BY <2>2 DEF NoResult
        <3>2. QED
            BY <2>2, <3>1 DEF ResultsInv, handle_list, exit_code
    <2>3. QED BY <2>1, <2>2 DEF MismatchesAreListed
<1>4. QED
    BY <1>1, <1>2, <1>3, RunInvHolds, PTL DEF Spec

\* A directory that kept still is given the status its contents call for.
THEOREM StillDirectoryHolds == Spec => []StillDirectoryIsJudgedRight
<1>1. DiffTypeInv /\ RunInv => StillDirectoryIsJudgedRight
    <2> SUFFICES ASSUME DiffTypeInv, Answered, Undisturbed, ~ missed
                 PROVE  output.status = StatusOf(request, root, files)
        BY DEF RunInv, StillDirectoryIsJudgedRight
    <2>1. (\A p \in Path : held[p] = {files[p]}) /\ rooted = {root}
        <3>1. \A S : IsFiniteSet(S) => (Cardinality(S) = 1 <=> \E x : S = {x})
            BY FS_Singleton
        <3>2. \A p \in Path : \E x : held[p] = {x}
            BY <3>1 DEF DiffTypeInv, HistoriesFollow, Undisturbed
        <3>3. \E x : rooted = {x}
            BY <3>1 DEF DiffTypeInv, HistoriesFollow, Undisturbed
        <3>4. QED
            BY <3>2, <3>3 DEF DiffTypeInv, HistoriesFollow
    <2>2. CASE output.status = "inconclusive" /\ FALSE \in rooted
        BY <2>1, <2>2 DEF StatusOf
    <2>3. CASE output.status = Status /\ Looked /\ listing = {}
        <3>1. root = TRUE
            BY <2>1, <2>3 DEF Looked, Looking
        <3>2. \A p \in Path : \A S : Was(p, S) <=> files[p] \in S
            BY <2>1 DEF Was
        <3>3. ASSUME NEW p \in Path
              PROVE  Grounded(p) /\ Progress(p) /\ Scanned(p) /\ kinds[p] \in DiffKind \cup {"none"}
                     /\ files[p] \in FileState
            BY <2>3 DEF Looked, Looking, DiffTypeInv, DiffTypes
        <3>4. ASSUME NEW p \in Observed(request)
              PROVE  /\ kinds[p] = "unknown" <=> files[p] \in Opaque
                     /\ kinds[p] = "unchanged" <=> Fits(request, p, files[p])
                     /\ kinds[p] \in {"unknown", "unchanged", "removed", "modified"}
            <4>1. p \in Path /\ p \notin request.ignored /\ p \notin Extra(request)
                BY RequestsAreTyped DEF Observed, Expected, Extra
            <4>2. kinds[p] \in {"unknown", "unchanged", "removed", "modified"}
                BY <2>3, <3>3, <4>1 DEF Looked, Progress, Grounded, DiffKind
            <4>3. Opaque \cap Content = {} /\ "absent" \notin Content
                  /\ "absent" \notin Opaque /\ "absent" \notin Present
                BY DiffAssumption DEF Opaque, Present
            <4>4. /\ kinds[p] = "unknown" => files[p] \in Opaque
                  /\ kinds[p] = "unchanged" => files[p] \in Content /\ Fits(request, p, files[p])
                  /\ kinds[p] = "removed" => files[p] = "absent"
                  /\ kinds[p] = "modified" =>
                        files[p] \in Content /\ ~ Fits(request, p, files[p])
                <5>1. kinds[p] = "unknown" => files[p] \in Opaque
                    BY <3>2, <3>3, <4>1, <4>3 DEF Grounded
                <5>2. kinds[p] = "unchanged" => files[p] \in Fitting(p)
                    BY <3>2, <3>3, <4>1 DEF Grounded
                <5>3. kinds[p] = "removed" => files[p] = "absent"
                    BY <3>2, <3>3, <4>1 DEF Grounded
                <5>4. kinds[p] = "modified" => files[p] \in Content \ Fitting(p)
                    BY <3>2, <3>3, <4>1 DEF Grounded
                <5>5. QED
                    BY <5>1, <5>2, <5>3, <5>4 DEF Fitting, Fits
            <4>5. Fits(request, p, files[p]) => files[p] \in Content
                BY DEF Fits
            <4>6. QED BY <4>2, <4>3, <4>4, <4>5
        <3>5. ASSUME NEW p \in Extra(request)
              PROVE  kinds[p] = "added" <=> IsFile(files[p])
            <4>1. p \in Path
                BY DEF Extra
            <4>2. QED
                BY <2>3, <3>2, <3>3, <4>1 DEF Scanned, Grounded, Extras, Files
        <3>6. ASSUME NEW p \in Path, p \notin Observed(request), p \notin Extra(request)
              PROVE  kinds[p] \in {"none", "ignored"}
            BY <3>3, <3>6 DEF Grounded, DiffKind
        <3>7. ASSUME NEW p \in Extra(request) PROVE kinds[p] \in {"none", "ignored", "added"}
            <4>1. p \in Path /\ p \notin Observed(request)
                BY DEF Extra, Observed
            <4>2. QED BY <3>3, <4>1 DEF Grounded, DiffKind
        <3>8. (\E p \in Path : kinds[p] = "unknown") <=>
              \E p \in Observed(request) : files[p] \in {"directory", "unreadable"}
            BY <3>3, <3>4, RequestsAreTyped DEF Grounded, Opaque, Observed, Expected
        <3>9. Differing = {} <=> /\ \A p \in Observed(request) : kinds[p] = "unchanged"
                                 /\ \A p \in Extra(request) : kinds[p] # "added"
            <4>1. Observed(request) \subseteq Path /\ Extra(request) \subseteq Path
                BY DEF Observed, Expected, Extra
            <4>2. QED
                BY <3>4, <3>6, <3>7, <4>1 DEF Differing
        <3>10. QED
            BY <2>3, <3>1, <3>4, <3>5, <3>8, <3>9 DEF Status, StatusOf
    <2>4. QED
        BY <2>2, <2>3, TwoAnswers
<1>2. QED
    BY <1>1, RunInvHolds, PTL

=============================================================================
