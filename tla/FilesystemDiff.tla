--------------------------- MODULE FilesystemDiff ---------------------------
(***************************************************************************)
(* reconcile_filesystem_diff (reconciliation/filesystem_diff.py) beside     *)
(* other programs that change the files it looks at, reached through the    *)
(* scheduler's and ToolProxy's read-only routes                             *)
(* (scheduler/reconciliation.py, toolproxy/reconciliation.py), and the      *)
(* in-memory records of its results with the command line that lists them   *)
(* (persistence/reconciliation_records.py, cli/reconciliation.py).          *)
(*                                                                         *)
(* The code takes no lock and no snapshot: it asks whether an artifact      *)
(* exists, then reads it, then goes to the next, and last lists the         *)
(* directory.  Digests are modelled by the contents they are digests of.    *)
(***************************************************************************)
EXTENDS Naturals, FiniteSets, Sequences

CONSTANTS
    Path,          \* relative paths under observed_root
    Content,       \* contents of files
    Requests,      \* the requests the scheduler may pass on
    InitialFiles,  \* the directories a history may begin with
    ResultId,      \* result_id values
    MaxRuns,       \* requests handled
    MaxChanges     \* changes other programs make

\* A path may be a directory, or a file that cannot be read.
Readable == Content
Present  == Content \cup {"directory", "unreadable"}
FileState == Present \cup {"absent"}

IsFile(state) == state \in Content \cup {"unreadable"}

\* expected[p]: the content expected, "any" when sha256 is None, "not_expected".
\* ignored: the paths some pattern of ignored_paths matches.
RequestType == [kind : {"filesystem_diff_reconciliation", "other"},
                mode : {"read_only", "other"}, ids : BOOLEAN,
                expected : [Path -> Content \cup {"any", "not_expected"}],
                ignored : SUBSET Path]

ASSUME DiffAssumption ==
    /\ Requests \subseteq RequestType /\ Requests # {}
    /\ InitialFiles \subseteq [Path -> FileState]
    /\ {"any", "not_expected", "absent", "directory", "unreadable"} \cap Content = {}
    /\ MaxRuns \in Nat /\ MaxChanges \in Nat

DiffKind == {"added", "removed", "modified", "unchanged", "ignored", "unknown"}

ReconciliationStatus == {"matched", "mismatch_observed", "inconclusive"}

NoResult == [status |-> "none", focus |-> {}]

VARIABLES
    root,       \* observed_root exists
    files,      \* what each path under it holds
    changes,    \* how often other programs have changed it
    pc,         \* where the run stands
    runs,       \* how many requests have been handled
    request,    \* the request being handled
    todo,       \* expected artifacts not looked at yet
    current,    \* the artifact found to exist and not read yet
    listing,    \* entries of the directory listing not looked at yet
    kinds,      \* the difference recorded for each path
    focus,      \* the paths review_focus has a line about
    output,     \* the status and review focus answered
    results,    \* InMemoryReconciliationResultStore
    held,       \* history: what each path has held since the run began
    rooted,     \* history: what `root` has been since the run began
    missed      \* history: the listing ended in an exception

world == <<root, files, changes>>
run   == <<pc, runs, request, todo, current, listing, kinds, focus, output, missed>>
dvars == <<world, run, results, held, rooted>>

Init ==
    /\ root \in BOOLEAN /\ files \in InitialFiles /\ changes = 0
    /\ root \/ \A p \in Path : files[p] = "absent"
    /\ pc = "idle" /\ runs = 0
    /\ request = CHOOSE r \in Requests : TRUE
    /\ todo = {} /\ current = {} /\ listing = {}
    /\ kinds = [p \in Path |-> "none"] /\ focus = {}
    /\ output = NoResult
    /\ results = [id \in ResultId |-> NoResult]
    /\ held = [p \in Path |-> {files[p]}]
    /\ rooted = {root}
    /\ missed = FALSE

-----------------------------------------------------------------------------
(* Other programs                                                           *)

\* Histories follow every change; a new run starts them afresh.
Remember == /\ held' = [p \in Path |-> held[p] \cup {files'[p]}]
            /\ rooted' = rooted \cup {root'}

ChangeFile(p) ==
    /\ changes < MaxChanges /\ root
    /\ \E state \in FileState \ {files[p]} : files' = [files EXCEPT ![p] = state]
    /\ changes' = changes + 1
    /\ UNCHANGED <<root, run, results>>
    /\ Remember

RemoveRoot ==
    /\ changes < MaxChanges /\ root
    /\ root' = FALSE
    /\ files' = [p \in Path |-> "absent"]
    /\ changes' = changes + 1
    /\ Remember
    /\ UNCHANGED <<run, results>>

-----------------------------------------------------------------------------
(* The routes                                                               *)

\* request_reconciliation_via_toolproxy passes the request on as it is.
Accepts(r) == r.mode = "read_only" /\ r.kind = "filesystem_diff_reconciliation" /\ r.ids

Handle(r) ==
    /\ pc = "idle" /\ runs < MaxRuns
    /\ runs' = runs + 1
    /\ request' = r
    /\ kinds' = [p \in Path |-> "none"] /\ focus' = {}
    /\ output' = NoResult /\ missed' = FALSE
    /\ held' = [p \in Path |-> {files[p]}] /\ rooted' = {root}

\* ValueError, of the route or of the diff itself, before a file is looked at.
RefuseRequest(r) ==
    /\ Handle(r) /\ ~ Accepts(r)
    /\ UNCHANGED <<world, pc, todo, current, listing, results>>

AcceptRequest(r) ==
    /\ Handle(r) /\ Accepts(r)
    /\ pc' = "root"
    /\ UNCHANGED <<world, todo, current, listing, results>>

-----------------------------------------------------------------------------
(* reconcile_filesystem_diff                                                *)

Expected(r) == {p \in Path : r.expected[p] # "not_expected"}

Goto(where) == pc' = where

Record(p, kind) == kinds' = [kinds EXCEPT ![p] = kind]

Flag(p) == focus' = focus \cup {p}

RootIsMissing ==
    /\ pc = "root" /\ ~ root
    /\ output' = [status |-> "inconclusive", focus |-> {}]
    /\ Goto("answered")
    /\ UNCHANGED <<world, runs, request, todo, current, listing, kinds, focus, missed, results,
                   held, rooted>>

RootExists ==
    /\ pc = "root" /\ root
    /\ todo' = Expected(request)
    /\ Goto("expected")
    /\ UNCHANGED <<world, runs, request, current, listing, kinds, focus, output, missed, results,
                   held, rooted>>

\* The artifacts are looked at in the order the caller lists them: in any order.
Ignore(p) ==
    /\ pc = "expected" /\ p \in todo /\ p \in request.ignored
    /\ Record(p, "ignored") /\ UNCHANGED focus
    /\ todo' = todo \ {p}
    /\ UNCHANGED <<world, pc, runs, request, current, listing, output, missed, results,
                   held, rooted>>

ArtifactIsMissing(p) ==
    /\ pc = "expected" /\ p \in todo \ request.ignored
    /\ files[p] = "absent"
    /\ Record(p, "removed") /\ Flag(p)
    /\ todo' = todo \ {p}
    /\ UNCHANGED <<world, pc, runs, request, current, listing, output, missed, results,
                   held, rooted>>

ArtifactExists(p) ==
    /\ pc = "expected" /\ p \in todo \ request.ignored
    /\ files[p] # "absent"
    /\ current' = {p} /\ todo' = todo \ {p}
    /\ Goto("hash")
    /\ UNCHANGED <<world, runs, request, listing, kinds, focus, output, missed, results, held, rooted>>

\* Mutant: what cannot be read is a kind the report does not have.
UnreadableKind(expected, found) ==
    CASE found \notin Readable -> "unreadable"
      [] found \in Readable /\ expected \in {"any", found} -> "unchanged"
      [] OTHER -> "modified"

\* Mutant: what cannot be read is passed over.
UnreadableIsUnchanged(expected, found) ==
    CASE found \notin Readable -> "unchanged"
      [] found \in Readable /\ expected \in {"any", found} -> "unchanged"
      [] OTHER -> "modified"

\* _compute_sha256 returns None for what cannot be read: a directory, a file
\* without permission, a file that has gone since it was found to exist.
KindOf(expected, found) ==
    CASE found \notin Readable -> "unknown"
      [] found \in Readable /\ expected \in {"any", found} -> "unchanged"
      [] OTHER -> "modified"

\* Mutant: only what could not be read gets a line.
ReviewUnknown(kind) == kind = "unknown"

NeedsReview(kind) == kind \in {"unknown", "modified"}

ReadArtifact ==
    /\ pc = "hash"
    /\ \E p \in current :
          LET kind == KindOf(request.expected[p], files[p]) IN
          /\ Record(p, kind)
          /\ IF NeedsReview(kind) THEN Flag(p) ELSE UNCHANGED focus
    /\ current' = {}
    /\ Goto("expected")
    /\ UNCHANGED <<world, runs, request, todo, listing, output, missed, results, held, rooted>>

\* rglob reads the directory, then yields its entries one by one.
ListRoot ==
    /\ pc = "expected" /\ todo = {}
    /\ listing' = {p \in Path : files[p] # "absent"}
    /\ Goto("scan")
    /\ UNCHANGED <<world, runs, request, todo, current, kinds, focus, output, missed, results,
                   held, rooted>>

\* is_file() is asked when the entry's turn comes.
LookAtEntry(p) ==
    /\ pc = "scan" /\ p \in listing
    /\ IF IsFile(files[p]) /\ p \notin Expected(request) \cup request.ignored
       THEN Record(p, "added") /\ Flag(p) ELSE UNCHANGED <<kinds, focus>>
    /\ listing' = listing \ {p}
    /\ UNCHANGED <<world, pc, runs, request, todo, current, output, missed, results,
                   held, rooted>>

\* except Exception: pass; the entries not looked at yet are left out.
ScanFails ==
    /\ pc = "scan" /\ listing # {}
    /\ listing' = {} /\ missed' = TRUE
    /\ UNCHANGED <<world, pc, runs, request, todo, current, kinds, focus, output, results,
                   held, rooted>>

Differing == {p \in Path : kinds[p] \in {"added", "removed", "modified", "unknown"}}

\* Mutant: the order of the two tests is turned round.
MismatchFirst == IF Differing # {} THEN "mismatch_observed" ELSE "matched"

Status ==
    IF \E p \in Path : kinds[p] = "unknown" THEN "inconclusive"
    ELSE IF Differing # {} THEN "mismatch_observed" ELSE "matched"

Decide ==
    /\ pc = "scan" /\ listing = {}
    /\ output' = [status |-> Status, focus |-> focus]
    /\ Goto("answered")
    /\ UNCHANGED <<world, runs, request, todo, current, listing, kinds, focus, missed, results,
                   held, rooted>>

-----------------------------------------------------------------------------
(* Records of results, and the command line                                 *)

\* put(); the ValueError of a duplicate leaves the store as it is.
put(id) ==
    /\ results' = IF results[id] = NoResult
                  THEN [results EXCEPT ![id] = output] ELSE results

Keep ==
    /\ pc = "answered"
    /\ \E id \in ResultId : put(id)
    /\ Goto("idle")
    /\ UNCHANGED <<world, runs, request, todo, current, listing, kinds, focus, output, missed,
                   held, rooted>>

\* _handle_list prints the results that have a review focus.
handle_list == {id \in ResultId : results[id].focus # {}}

\* inspect_reconciliation_records, without its `audit` command: the exit code tells
\* whether the question was understood and answered, whatever the status found.
exit_code(args) ==
    IF \/ args # <<>> /\ args[1] = "list"
       \/ /\ Len(args) > 1 /\ args[1] = "show"
          /\ \E id \in ResultId : args[2] = id /\ results[id] # NoResult
    THEN 0 ELSE 1

-----------------------------------------------------------------------------
(* The system                                                               *)

RunStep == \/ RootIsMissing \/ RootExists
           \/ \E p \in Path : Ignore(p) \/ ArtifactIsMissing(p) \/ ArtifactExists(p)
           \/ ReadArtifact \/ ListRoot
           \/ \E p \in Path : LookAtEntry(p)
           \/ ScanFails \/ Decide

Next == \/ \E r \in Requests : RefuseRequest(r) \/ AcceptRequest(r)
        \/ RunStep \/ Keep
        \/ \E p \in Path : ChangeFile(p)
        \/ RemoveRoot

Spec == Init /\ [][Next]_dvars

-----------------------------------------------------------------------------
(* Properties                                                               *)

Result == [status : ReconciliationStatus \cup {"none"}, focus : SUBSET Path]

DiffTypeOK ==
    /\ root \in BOOLEAN /\ files \in [Path -> FileState] /\ changes \in 0..MaxChanges
    /\ pc \in {"idle", "root", "expected", "hash", "scan", "answered"}
    /\ runs \in 0..MaxRuns /\ request \in Requests
    /\ todo \subseteq Path /\ current \subseteq Path /\ listing \subseteq Path
    /\ Cardinality(current) <= 1
    /\ kinds \in [Path -> DiffKind \cup {"none"}] /\ focus \subseteq Path
    /\ output \in Result /\ results \in [ResultId -> Result]
    /\ held \in [Path -> SUBSET FileState] /\ rooted \subseteq BOOLEAN
    /\ missed \in BOOLEAN

Observed(r) == Expected(r) \ r.ignored       \* the artifacts a run looks at
Extra(r) == Path \ (Expected(r) \cup r.ignored)

Fits(r, p, state) == state \in Content /\ r.expected[p] \in {"any", state}

\* The status of a directory that keeps still, in one go.
StatusOf(r, there, dir) ==
    IF ~ there \/ \E p \in Observed(r) : dir[p] \in {"directory", "unreadable"}
    THEN "inconclusive"
    ELSE IF /\ \A p \in Observed(r) : Fits(r, p, dir[p])
            /\ \A p \in Extra(r) : ~ IsFile(dir[p])
    THEN "matched" ELSE "mismatch_observed"

Undisturbed == (\A p \in Path : Cardinality(held[p]) = 1) /\ Cardinality(rooted) = 1

\* The run gives a directory that kept still the status its contents call for,
\* whatever the order of the artifacts.
StillDirectoryIsJudgedRight ==
    pc = "answered" /\ Undisturbed /\ ~ missed =>
        output.status = StatusOf(request, root, files)

\* Beside programs that change the files, a verdict still has grounds: "matched"
\* only when each artifact fitted at some moment of the run and no extra file was
\* there all along; "mismatch_observed" only when some artifact did not fit, or an
\* extra file was there, at some moment; "inconclusive" only when the root was
\* missing, or an artifact could not be read or went away.
VerdictsHaveGrounds ==
    pc = "answered" =>
        /\ output.status = "matched" =>
              /\ \A p \in Observed(request) : \E state \in held[p] : Fits(request, p, state)
              /\ missed \/ \A p \in Extra(request) : \E state \in held[p] : ~ IsFile(state)
        /\ output.status = "mismatch_observed" =>
              \/ \E p \in Observed(request) : \E state \in held[p] : ~ Fits(request, p, state)
              \/ \E p \in Extra(request) : \E state \in held[p] : IsFile(state)
        /\ output.status = "inconclusive" =>
              \/ FALSE \in rooted
              \/ \E p \in Observed(request) :
                    held[p] \cap {"directory", "unreadable", "absent"} # {}

\* The review focus has a line for every difference the status counts, and the list
\* command, which shows results by their review focus, shows every kept mismatch.
MismatchesAreListed ==
    /\ pc = "answered" => output.focus = Differing
    /\ \A id \in ResultId : results[id].status = "mismatch_observed" =>
          id \in handle_list /\ exit_code(<<"show", id>>) = 0
=============================================================================
