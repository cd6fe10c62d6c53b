----------------------------- MODULE Dashboard -----------------------------
(***************************************************************************)
(* The read-only snapshot of dashboard.py, taken of the audit events and of *)
(* a scheduler's jobs at any moment of the system of                        *)
(* ReconciliationScheduler.  Building it changes nothing, so it adds no     *)
(* action: it is what DashboardBuilder(...).build() would answer now.       *)
(* The text and HTML of the report are left out.                            *)
(***************************************************************************)
EXTENDS ReconciliationScheduler

Positions(events, Test(_)) == {i \in DOMAIN events : Test(events[i])}

HowMany(events, Test(_)) == Cardinality(Positions(events, Test))

\* allowed is True, or False for deny and error events alike.
IsAllowed(event) == event.event_type = "allow"
IsDenied(event) == event.event_type \in {"deny", "error"}
HasError(event) == event.event_type = "error"

\* recent_request_ids: the list is filled from the front and stops at five.
Earliest(events, n) == SubSeq(events, 1, IF Len(events) < n THEN Len(events) ELSE n)

\* Lines of the file are dictionaries, so no event is malformed.
AuditSummary(events) ==
    LET ByTool(tool) == LET Uses(e) == e.tool_name = tool IN HowMany(events, Uses)
        ByBackend(b) == LET By(e) == e.backend = b IN HowMany(events, By)
        recent == Earliest(events, 5)
    IN  [total_events |-> Len(events),
         allowed_events |-> HowMany(events, IsAllowed),
         denied_events |-> HowMany(events, IsDenied),
         error_events |-> HowMany(events, HasError),
         tools |-> [tool \in {events[i].tool_name : i \in DOMAIN events} |-> ByTool(tool)],
         recent_request_ids |-> [i \in DOMAIN recent |-> recent[i].request_id],
         backend_counts |-> [b \in {events[i].backend : i \in DOMAIN events} |-> ByBackend(b)]]

JobsWith(status) == Cardinality({rid \in DOMAIN jobs : jobs[rid].status = status})

\* A running job is in total_jobs and under no status.
ReconciliationSummary ==
    [total_jobs |-> Cardinality(DOMAIN jobs),
     pending |-> JobsWith("pending"), passed |-> JobsWith("passed"),
     failed |-> JobsWith("failed"), skipped |-> JobsWith("skipped")]

\* Whether a path was given, and whether a file is there.
ChokepointSummary(given, exists) == [configured |-> given, available |-> given /\ exists]

-----------------------------------------------------------------------------
(* Properties                                                               *)

\* What the two halves of a snapshot say of each other, whether the audit events are
\* those the scheduler was built from, as in the examples, or a later read of the
\* file that calls have gone on to write to: every event is allowed or denied and
\* every error is a denial; every job between two calls of the scheduler is counted
\* under one status; there is an allowed event for each job that is pending or was
\* run, and a denied one for each that was skipped.
Agree(a, r) ==
    /\ a.allowed_events + a.denied_events = a.total_events
    /\ a.error_events <= a.denied_events
    /\ spc \in {"closed", "idle"} =>
          r.pending + r.passed + r.failed + r.skipped = r.total_jobs
    /\ r.pending + r.passed + r.failed <= a.allowed_events
    /\ r.skipped <= a.denied_events

SummariesAgree ==
    /\ spc # "closed" => Agree(AuditSummary(snapshot), ReconciliationSummary)
    /\ Readable(audit) => Agree(AuditSummary(read(audit)), ReconciliationSummary)
=============================================================================
