----------------------------- MODULE Reconcile -----------------------------
(***************************************************************************)
(* reconcile() (reconcile.py) composed with ToolProxy: it reads the log and *)
(* the workspace, diagnoses every open intent, every committed record and   *)
(* every file nobody recorded, and appends what it observed to the same     *)
(* log.  It takes no lock: each query, each look at a file and each append  *)
(* is a step of its own.  A bypass actor changes files without ToolProxy.   *)
(***************************************************************************)
EXTENDS ToolProxy

CONSTANTS
    Exclusive,    \* reconcile runs only while no call is active and nobody writes
    MaxRuns,      \* bound on reconcile runs
    MaxBypasses   \* bound on changes made without ToolProxy

\* An observation is named by a number, so no call is one.
ASSUME ReconcileAssumption == /\ Exclusive \in BOOLEAN
                              /\ MaxRuns \in Nat /\ MaxBypasses \in Nat
                              /\ Call \cap Nat = {}

VARIABLES
    phase,      \* the part of reconcile() that runs: pending, committed, scan
    rstep,      \* inside it: look at the next item, read last_hash, append
    queue,      \* rows of the query's snapshot still to be examined
    known,      \* known_targets
    unscanned,  \* paths rglob has still to yield
    subject,    \* record id of the observation being appended
    rprev,      \* the last_hash() read for it
    findings,   \* the findings of the current run
    began,      \* the files and calls as the current run found them
    report,     \* the last finished run: its findings and what it found
    runs,       \* runs started so far
    owner,      \* history: who made each path what it is
    bypasses    \* changes made without ToolProxy so far

scanning == <<phase, rstep, queue, known, unscanned, subject, rprev, findings, began>>
rvars == <<scanning, report, runs, owner, bypasses>>
allvars == <<vars, rvars>>

Diagnosis == {"pending_not_executed", "pending_executed_unconfirmed",
              "unrecorded_external_change", "committed_consistent", "committed_diverged"}

NotBegun == [fs |-> <<>>, pc |-> <<>>, bypasses |-> 0]

NoReport == [findings |-> {}, began |-> NotBegun]

Idle == rstep = "idle"

\* When reconcile() returns or raises, its local variables are gone.
LeaveReconcile ==
    /\ phase' = "pending" /\ rstep' = "idle" /\ queue' = {} /\ known' = {}
    /\ unscanned' = {} /\ subject' = "none" /\ rprev' = GENESIS_HASH /\ findings' = {}
    /\ began' = NotBegun

RInit ==
    /\ Init
    /\ phase = "pending" /\ rstep = "idle" /\ queue = {} /\ known = {}
    /\ unscanned = {} /\ subject = "none" /\ rprev = GENESIS_HASH /\ findings = {}
    /\ began = NotBegun
    /\ report = NoReport /\ runs = 0 /\ bypasses = 0
    /\ owner = [p \in Target |-> "initial"]

Found(diagnosis, id, target) ==
    findings' = findings \cup {[diagnosis |-> diagnosis, record_id |-> id, target |-> target]}

IsFile(p) == fs[p] \in Content

-----------------------------------------------------------------------------
(* The pending loop                                                         *)

StartReconcile ==
    /\ Idle /\ runs < MaxRuns
    /\ Exclusive => \A c \in Call : ~ Active(c)
    /\ queue' = pending(events)
    /\ phase' = "pending" /\ rstep' = "look"
    /\ known' = {} /\ findings' = {} /\ runs' = runs + 1
    /\ began' = [fs |-> fs, pc |-> pc, bypasses |-> bypasses]
    /\ UNCHANGED <<vars, unscanned, subject, rprev, report, owner, bypasses>>

\* Mutant: existence decides for every tool, as before ADR-013.
ExistenceForEveryTool(r) ==
    IF fs[r.target] = "absent" THEN "pending_not_executed" ELSE "pending_executed_unconfirmed"

\* Mutant: the digest decides, so a file overwritten since counts as never written.
DigestDecides(r) ==
    IF r.tool \in FilesystemTools /\ fs[r.target] # r.content
    THEN "pending_not_executed" ELSE "pending_executed_unconfirmed"

\* Mutant: a diagnosis the Literal type does not list.
UndeclaredDiagnosis(r) == IF IsFile(r.target) THEN "pending_executed" ELSE "pending_not_executed"

\* target.exists() decides for the filesystem tools; for the others nothing can be
\* looked at.
PendingDiagnosis(r) ==
    IF r.tool \in FilesystemTools /\ fs[r.target] = "absent"
    THEN "pending_not_executed" ELSE "pending_executed_unconfirmed"

LookAtPending ==
    /\ phase = "pending" /\ rstep = "look" /\ queue # {}
    /\ LET e == events[first(queue)] IN
          /\ known' = known \cup {e.envelope.target}
          /\ Found(PendingDiagnosis(e.envelope), e.record_id, e.envelope.target)
          /\ subject' = e.record_id
    /\ queue' = queue \ {first(queue)}
    /\ rstep' = "hash"
    /\ UNCHANGED <<vars, phase, unscanned, rprev, began, report, runs, owner, bypasses>>

-----------------------------------------------------------------------------
(* _append_reconciliation_event                                             *)

ReadObservationHash ==
    /\ rstep = "hash"
    /\ rprev' = last_hash(events)
    /\ rstep' = "append"
    /\ UNCHANGED <<vars, phase, queue, known, unscanned, subject, findings,
                   began, report, runs, owner, bypasses>>

\* Mutant: the observation takes the event type of a closed record.
ObservedAsFailed == "execution_failed"

ObservationType == "reconciliation_observed"

observation ==
    [hash |-> <<Len(events), "reconciliation_observed">>, previous_hash |-> rprev,
     record_id |-> subject, type |-> ObservationType, envelope |-> NoRequest,
     side_effect_observed |-> "none", decided |-> FALSE]

\* A failed append is suppressed; the run goes on.
AppendObservation ==
    /\ rstep = "append"
    /\ events' = Append(events, observation) \/ UNCHANGED events
    /\ rstep' = "look"
    /\ UNCHANGED <<decisions, world, pc, req, prev, observed, result, phase, queue,
                   known, unscanned, subject, rprev, findings, began, report, runs,
                   owner, bypasses>>

\* last_hash() or committed() raised, or the process died: no findings are
\* returned, the observations appended so far stay.
AbortReconcile ==
    /\ ~ Idle
    /\ LeaveReconcile
    /\ UNCHANGED <<vars, report, runs, owner, bypasses>>

-----------------------------------------------------------------------------
(* The committed loop                                                       *)

\* The dict keeps the last committed event of each record.
committed_by_record(log) ==
    {i \in committed(log) : \A j \in committed(log) :
        log[j].record_id = log[i].record_id => j <= i}

ReadCommitted ==
    /\ phase = "pending" /\ rstep = "look" /\ queue = {}
    /\ queue' = committed_by_record(events)
    /\ phase' = "committed"
    /\ UNCHANGED <<vars, rstep, known, unscanned, subject, rprev, findings,
                   began, report, runs, owner, bypasses>>

\* What result_digest can match: a write's content; the digest of a path name or of
\* a process's output is no file's content.
ResultDigest(r) == IF r.op = "write_file" THEN r.content ELSE "no file"

\* Mutant: only the existence of the target is compared.
ExistenceDiagnosis(r) ==
    IF IsFile(r.target) THEN "committed_consistent" ELSE "committed_diverged"

\* _file_digest is None for anything that cannot be read as a file, a directory
\* included.
CommittedDiagnosis(r) ==
    IF IsFile(r.target) /\ fs[r.target] = ResultDigest(r)
    THEN "committed_consistent" ELSE "committed_diverged"

LookAtCommitted ==
    /\ phase = "committed" /\ rstep = "look" /\ queue # {}
    /\ LET e == events[first(queue)] IN
          /\ known' = known \cup {e.envelope.target}
          /\ Found(CommittedDiagnosis(e.envelope), e.record_id, e.envelope.target)
    /\ queue' = queue \ {first(queue)}
    /\ UNCHANGED <<vars, phase, rstep, unscanned, subject, rprev, began, report, runs, owner, bypasses>>

-----------------------------------------------------------------------------
(* The scan for unrecorded files                                            *)

StartScan ==
    /\ phase = "committed" /\ rstep = "look" /\ queue = {}
    /\ phase' = "scan"
    /\ unscanned' = Workspace
    /\ UNCHANGED <<vars, rstep, queue, known, subject, rprev, findings,
                   began, report, runs, owner, bypasses>>

\* Mutant: the targets of open intents are not among the known ones.
KnownFromCommits == {events[i].envelope.target : i \in committed(events)}

KnownTargets == known

ScanPath ==
    /\ phase = "scan" /\ rstep = "look"
    /\ \E p \in unscanned :
          /\ unscanned' = unscanned \ {p}
          /\ IF IsFile(p) /\ p \notin KnownTargets
             THEN /\ Found("unrecorded_external_change", "none", p)
                  /\ subject' = "reconcile"
                  /\ rstep' = "hash"
             ELSE UNCHANGED <<findings, subject, rstep>>
    /\ UNCHANGED <<vars, phase, queue, known, rprev, began, report, runs, owner, bypasses>>

\* Everything is examined; reconcile() returns its findings.
AtEnd == phase = "scan" /\ rstep = "look" /\ unscanned = {}

FinishReconcile ==
    /\ AtEnd
    /\ report' = [findings |-> findings, began |-> began]
    /\ LeaveReconcile
    /\ UNCHANGED <<vars, runs, owner, bypasses>>

ReconcileStep ==
    \/ LookAtPending \/ ReadObservationHash \/ AppendObservation
    \/ ReadCommitted \/ LookAtCommitted \/ StartScan \/ ScanPath \/ FinishReconcile

-----------------------------------------------------------------------------
(* The other actors                                                         *)

\* A step of ToolProxy; whatever it changes is managed from then on.
ProxyStep ==
    /\ Exclusive => Idle
    /\ \E c \in Call : Begin(c) \/ Proceed(c) \/ Crash(c)
    /\ owner' = [p \in Target |-> IF fs'[p] # fs[p] THEN "managed" ELSE owner[p]]
    /\ UNCHANGED <<scanning, report, runs, bypasses>>

\* A file written or deleted without ToolProxy.
Bypass ==
    /\ Exclusive => Idle
    /\ bypasses < MaxBypasses
    /\ \E p \in Workspace : \E v \in Content \cup {"absent"} :
          /\ fs[p] # "directory" /\ fs[Parent[p]] = "directory" /\ fs[p] # v
          /\ fs' = [fs EXCEPT ![p] = v]
          /\ owner' = [owner EXCEPT ![p] = "external"]
    /\ bypasses' = bypasses + 1
    /\ UNCHANGED <<stores, tmp, effect, pc, req, prev, observed, result,
                   scanning, report, runs>>

RNext == ProxyStep \/ Bypass \/ StartReconcile \/ ReconcileStep \/ AbortReconcile

RSpec == RInit /\ [][RNext]_allvars

-----------------------------------------------------------------------------
(* Properties                                                               *)

Finding == [diagnosis : Diagnosis, record_id : ActionId \cup {"none"}, target : Target]

RTypeOK ==
    /\ phase \in {"pending", "committed", "scan"}
    /\ rstep \in {"idle", "look", "hash", "append"}
    /\ queue \subseteq DOMAIN events /\ known \subseteq Target /\ unscanned \subseteq Workspace
    /\ subject \in ActionId \cup {"none", "reconcile"} /\ rprev \in Hash
    /\ findings \subseteq Finding /\ report.findings \subseteq Finding
    /\ owner \in [Target -> {"initial", "managed", "external"}]
    /\ runs \in 0..MaxRuns /\ bypasses \in 0..MaxBypasses

\* After any crash or store failure, a run with the system at rest names every side
\* effect whose record is still open, as executed but unconfirmed.  (A target the
\* bypass actor touched, and the missing parents of a directory, are out of its sight.)
OpenEffectsAreReported ==
    AtEnd => \A c \in Call :
        /\ effect[c] # "nothing" /\ req[c].op # "make_directory"
        /\ ~ CallClosed(c)
        /\ owner[req[c].target] # "external"
        => [diagnosis |-> "pending_executed_unconfirmed", record_id |-> req[c].action_id,
            target |-> req[c].target] \in findings

\* A write diagnosed pending_not_executed was not executed, unless its target was
\* removed behind ToolProxy's back.
NotExecutedIsTrue ==
    AtEnd => \A c \in Call :
        (/\ req[c] # NoRequest /\ req[c].op = "write_file"
         /\ owner[req[c].target] # "external"
         /\ [diagnosis |-> "pending_not_executed", record_id |-> req[c].action_id,
             target |-> req[c].target] \in findings)
        => effect[c] = "nothing"

\* INV-1c, no false alarm: with the system at rest, a file reported as an
\* unrecorded external change was made by somebody else than ToolProxy.
NoFalseAlarm ==
    ~ Idle => \A f \in findings :
        f.diagnosis = "unrecorded_external_change" => owner[f.target] # "managed"

\* INV-1c, no miss: a file changed without ToolProxy that differs from every
\* committed write of its path, or is gone although one is committed, is the target
\* of a finding other than committed_consistent.
BypassesAreReported ==
    AtEnd => \A p \in Workspace :
        LET commits == {i \in DOMAIN events : /\ events[i].type = "execution_committed"
                                              /\ events[i].envelope.target = p}
        IN (/\ owner[p] = "external"
            /\ IsFile(p) \/ commits # {}
            /\ \A i \in commits : ResultDigest(events[i].envelope) # fs[p])
           => \E f \in findings : f.target = p /\ f.diagnosis # "committed_consistent"

\* Reconciling observes and decides nothing: a second run over the same files and
\* the same calls, the ones in progress included, has the same findings, whatever the
\* first one appended.  (Nothing may have happened since the first one began.)
RunsAgree ==
    [][FinishReconcile /\ report.began = [fs |-> fs, pc |-> pc, bypasses |-> bypasses]
       => report'.findings = report.findings]_allvars

-----------------------------------------------------------------------------
(* What documents and comments say of reconcile(), and it does not do       *)

\* reconciliation-v2.md: committed_diverged is for a committed record and a world
\* that disagree; a directory that was made and is still there does not.
MadeDirectoryIsNotDiverged ==
    ~ Idle => \A f \in findings, c \in Call :
        (/\ f.diagnosis = "committed_diverged" /\ req[c] # NoRequest
         /\ f.record_id = req[c].action_id /\ req[c].op = "make_directory")
        => fs[f.target] # "directory"
=============================================================================
