# A TLA+ model of Koguchi

Koguchi routes the side effects of an agent through a chokepoint, the
`ToolProxy`, that records each of them before and after it happens, and it
compares the record with the world afterwards. This directory holds TLA+
modules of its core, the TLC runs that check them, and proofs checked by TLAPS.
`PROJECT.json` maps every definition to the lines it models.

## 1. The system

Paths are under `src/src/koguchi/` unless they say otherwise.

| component | state | operations | what must be right |
|---|---|---|---|
| `ToolProxy` (`proxy.py`) | none of its own: workspace files, temporary files, the two stores | `write_file`, `make_directory`, `execute_shell`, `http_get` | no effect without a recorded intent; the answer agrees with effect and record; an effect is never unaccounted for |
| execution store (`store.py`, `hashchain.py`) | append-only table with a hash chain | `append`, `last_hash`, `events_for`, `pending`, `committed`, `verify_chain` | the chain of an untouched log verifies; `pending()` lists what is open |
| decision store (`decision.py`) | a second such table | `record`, `last_hash`, `get`, `verify_chain` | a decision cited by an event exists |
| policy gate (`policy.py`) | a list of rules | `evaluate`, `add_rule` | one DENY denies |
| runtime boundary (`runtime.py`) | allowed and denied tools | `evaluate_tool`, `filter_environment` | denied wins |
| reconciliation (`reconcile.py`) | local variables of one run | `reconcile` | diagnoses are true, bypasses are found, no false alarm |
| service runtime (`service_runtime.py`) | running calls | `execute` | an answered call has its audit event |
| execution backends (`execution_backend.py`, `chokepoint_client.py`) | a child process per call | `execute` | "allowed" means done; a timeout ends the child |
| Rust chokepoint (`src/crates/koguchi-chokepoint`) | one process per request | read or write one file | answers tell what was done |
| audit store, result store (`audit_store.py`, `reconciliation_store.py`) | JSONL files | `emit`/`append`, `read` | reading is complete or raises |
| reconciliation scheduler (`reconciliation_scheduler.py`) | jobs in memory | `plan`, `run_pending`, `run_job` | results are true and single, statuses only advance |
| filesystem diff and its routes (`reconciliation/`, `toolproxy/`, `scheduler/`) | none: local variables of one run | `reconcile_filesystem_diff`, two wrappers | the status agrees with the directory |
| reconciliation records and their CLI (`persistence/`, `cli/`) | two dictionaries | `put`, `append`; `list`, `show`, `audit` | a mismatch that is kept can be found |
| JouJou gate (`integrations/joujou.py`) | none: the log and an audit file through `ToolProxy` | `before_create_todo`, `after_create_todo_success`, `after_create_todo_failure` | no external effect without an intent; answers and records agree with the provider |
| audit gate (`audit.py`) | none | `audit` | what it says was observed was recorded |
| provider reconciliation (`provider_reconcile.py`) | local variables of one run | `reconcile` | what it calls executed was executed |
| dashboard (`dashboard.py`, `dashboard_report.py`) | none | `build`, render | its two halves add up |
| redaction, R-DE, context, i18n, errors | none | export, assert, print | no property of the protocol depends on them |

**How they interact.** A caller hands `ToolProxy` an envelope. The proxy asks the
policy gate and the boundary, records a decision (if a decision store and an
intent are given), appends `intent_pending`, performs the effect, and appends
`execution_committed` or `execution_failed`. Each `last_hash()` and each
`append()` is a transaction of its own, and the proxy holds no lock, so calls in
other threads or processes run in between. `reconcile()` reads the same store and
the same workspace and appends to the same log. Separately, the service runtime
asks the boundary, runs a backend, and emits one audit event per call to a JSONL
file; a scheduler built from one read of that file plans jobs and appends their
results to a second JSONL file; a dashboard counts both. An application that acts
through a provider of its own puts the JouJou gate around the provider's call: two
`write_file` calls under one record id, one before and one after. Both
SQLite stores of a process open one connection each on the same file, which the
threads of the process share. The filesystem diff stands apart: it reads a
directory that other programs may be writing, and keeps its result in memory.

**What is hard here.** Overlapping calls between the read of a hash and its
append; a crash between an effect and its closing event; a store that refuses
one of three records; a timeout after the work was done; an action id or request
id used twice; a reconciliation that works on snapshots while calls go on; a
child process that outlives the wait or the parent; a write to a JSONL file that
fails half way; a job marked as done before its result is saved; an error that
leaves a transaction open on a connection; two records under one id with an
external effect between them; files that change while they are compared.
`PROJECT.json` lists each at its line.

## 2. Modules

| module | models | abstracted |
|---|---|---|
| `ExecutionLog` | the event table and its queries; `verify_chain`'s linkage | rows are a sequence in rowid order, and a query answers with the set of its rows' numbers, taken from the first on; a row's hash is its identity (SHA-256 over a payload with a fresh uuid is injective), so hash recomputation cannot fail |
| `ExecutionPolicy` | the policy gate and the boundary | rules look at the tool only |
| `ToolProxy` | the four operations | contents and paths are small sets; messages, digests and context snapshots are left out |
| `AccountableExecution` | the abstract specification: a call promises, performs, records, answers | |
| `Reconcile` (extends `ToolProxy`) | `reconcile()` and a bypass actor | confidences and texts |
| `Jsonl` | the JSONL files with unfinished lines | a record is short enough to be written at once |
| `ServiceRuntime` (extends `ExecutionPolicy`, `Jsonl`) | `execute`, both backends, the child process | how `resolve_target` decides; reads return nothing |
| `ReconciliationScheduler` (extends `ServiceRuntime`) | planning, running and saving jobs | the order of jobs in `run_pending` is free |
| `Dashboard` (extends `ReconciliationScheduler`) | the snapshot of events and jobs | timestamps; rendering; malformed events, which the file reader never returns |
| `AppendStore` | the abstract specification of `append()` and `record()`: a row is added at the end, or an error is raised and none is | |
| `SqliteStore` (extends `ExecutionLog`) | both stores on one file, below `append()`: connections, implicit transactions, snapshots, the write lock | what a row says; SQLite itself is external |
| `AuditGates` (extends `ToolProxy`) | the JouJou gate with its application and provider, the audit gate, the provider's reconciliation | what a todo is; the provider is external |
| `FilesystemDiff` | the diff with its two routes, the result store, `list` and `show` | patterns are the sets of paths they match, digests are contents, the listing is flat |
| `ToolProxyProofs` | theorems about `ToolProxy`: types, the two phases, the refinement | |
| `ToolProxyRecordProofs` (extends `ToolProxyProofs`) | theorems about its two logs | |
| `AuditGatesProofs` (extends `AuditGates`, `ToolProxyRecordProofs`) | theorems about the gates and the provider's reconciliation | |
| `ReconcileProofs` (extends `Reconcile`, `ToolProxyRecordProofs`) | theorems about `reconcile()` beside calls and bypasses | |
| `ServiceRuntimeProofs`, `SchedulerProofs` (extends it and `Dashboard`) | theorems about the runtime, its audit file, its scheduler and the dashboard over them | |
| `SqliteStoreProofs`, `FilesystemDiffProofs` | theorems about the stores and the diff | |
| `MCToolProxy`, `MCReconcile`, `MCServiceRuntime`, `MCScheduler`, `MCSqliteStore`, `MCAuditGates`, `MCFilesystemDiff` | small instances | |

**ToolProxy.** A call `c` is one thread's invocation. `pc[c]` walks
`decision_hash`, `decision_record`, `intent_hash`, `intent_append`, `execute`
(`replace`, `unlink` for the file write), `closing_hash`, `closing_append`. The two
`_hash` steps are the reads of `last_hash()`, the steps after them the appends;
they are separate because other calls may append in between. `events`,
`decisions`, `fs` and `tmp` are the log, the decision log, the workspace and the
temporary files. `effect` is a history variable: what the call really did.
Every append may fail, in which case nothing is added (the handlers' `except`
branches follow), and every call may crash between two steps. The tool an
envelope names and the method called are two fields: gates look at the first,
behaviour follows the second.

**Reconcile.** `phase` and `rstep` walk the three loops; `queue`, `known` and
`unscanned` are what the queries and `rglob` returned when they were evaluated.
Each look at a path, each `last_hash()` and each append is a step. `owner` is a
history variable that says who made each path what it is. With `Exclusive`, the
run takes place while no call is active.

**ServiceRuntime.** `pc` is the thread, `child` the chokepoint process, `audit` the
file. A write of the child truncates the file first, then fills it. `Timeout`
kills the child in whatever state it is. After `Crash` the children run on.

**ReconciliationScheduler.** `Build` is the constructor over `read_events()`; it is
not enabled when the reader raises. `Close` ends the process at any step; the
next `Build` starts from an empty job store.

**Dashboard.** Building a snapshot changes nothing, so the module adds operators and
no action: `AuditSummary` of an event list and `ReconciliationSummary` of the job
store say what `build()` would answer in a state.

**SqliteStore.** A connection is a process and a table. `open`, `snapshot` and `own`
are its transaction: whether one is open, what it sees, and what it has inserted.
Python opens a transaction before an INSERT and only `commit()` ends it;
`append()` has no rollback, so `InsertIsBusy` leaves it open, and the next
`Select` on that connection fixes a snapshot. `process` says which threads share
connections and `in_turn` whether callers overlap; both are chosen at the start.
`ReadHash`, `Insert` and `Commit` are separate steps of one append.

**AuditGates.** `step[k]` is where the application stands: the record before, the
provider's call, the record after. Its two `write_file` calls are calls of
`ToolProxy`, with their steps. `Die` ends one application anywhere; a todo may have
been created by a call that was cut off or raised. `LookUp` is one question of
`reconcile()` to the provider.

**FilesystemDiff.** Each `exists()`, each read and each look at a listed entry is a
step, and `ChangeFile` and `RemoveRoot` come in between. `held` and `rooted` are
history variables: what each path has been since the run began. The artifacts are
taken in any order.

## 3. Runs

Passing runs:

| run | question | bounds |
|---|---|---|
| `proxy_concurrent` | do the logs keep their shape, do the promises of the two phases survive every interleaving, do denied tools stay out of the log, do bounded calls end, and does all of it implement `AccountableExecution`? | 2 overlapping calls, ten kinds of request, two rules and a boundary, decision store |
| `reconcile_rest` | are diagnoses true and complete when the system is at rest, and do the chains of both logs verify? | 2 calls, 1 run, 1 bypass, decision store |
| `reconcile_beside` | beside a call in progress and a bypass, does a second run agree with the first? | 1 call, 2 runs, 1 bypass, not exclusive |
| `service_calls` | are answers, effects and the audit file consistent? | 3 calls, four kinds of request, both backends |
| `scheduler_results` | are results true and single, do statuses only advance, do dashboard snapshots add up, and does every `execute` end? | 2 calls that may share a request id, both backends, 2 schedulers in turn |
| `sqlite_appends` | is `append()` atomic with a connection per thread (`AppendStore`), what is lost with a shared one, and do chains verify when callers take turns? | 2 threads in 1 or 2 processes, 2 appends each, 2 tables |
| `gates_todos` | is everything created at the provider intended, and is what is answered, kept and found true? | 1 todo, 1 audited write, 1 reconciliation, the two applications' `ToolProxy` calls in turn |
| `diff_beside` | is the verdict that of the directory, and what is it worth when files change meanwhile? | 3 paths, 4 requests, 2 runs, 2 changes, 1 result id |

*Why the bounds are enough.* The interactions between calls are pairwise: a stale
hash, a shared path, a shared record, a shared connection. Two calls show them. The
workspace has a file that exists, a directory that does not and two paths under it
(so that a directory needs its parents), and a path outside. A torn JSONL write
disturbs its own record and the next; with three calls there is one after that. A
saga of the JouJou gate interacts with others only through the chain, which
`reconcile_rest` checks, and through the log's order, so one todo beside one audited
write is enough for its own promises; their `ToolProxy` calls take turns, because
overlapping calls are what `proxy_concurrent` is about. An append on a connection
with a stale snapshot needs an earlier append that failed and one elsewhere that
succeeded: two appends per thread. In the diff two changes let one path go and come
back, or two paths change; two runs put two results under one id. Bounds named in
the modules: `MaxRuns`, `MaxBypasses`, `MaxSchedulers`, `MaxAppends`, `MaxChanges`,
and the sizes of `Call`, `Todo` and `Audited`. Threads, calls and processes are
symmetry sets in `reconcile_rest`, `reconcile_mkdir`, `service_calls`,
`sqlite_appends` and `sqlite_stale`, which check no liveness.

Runs that must find a violation; each is a disagreement between the code and a
sentence in the repository, quoted under `findings`:

| run | what the counterexample shows |
|---|---|
| `gates_unreported` | `before` and `after` of the JouJou gate have one record id; when `after` ends UNCONFIRMED, the commit of `before` closes the record, and no reconciliation looks at it |
| `sqlite_stale` | after a refused INSERT the connection's transaction stays open; its `last_hash()` is that of an old row, and it refuses every later append |
| `reconcile_mkdir` | a committed, existing directory is `committed_diverged` |
| `scheduler_lost` | a result whose append failed is never saved |

The models have further behaviours that a reader of the documents would not
expect. No run is spent on them:

* Two overlapping callers link to the same predecessor, so `verify_chain` reports a
  log nobody altered (`proxy.py:136`), where `store.py:127-128` speaks of tampering,
  loss or disorder. `ChainsAreIntact` and `ChainsIntactInTurn` are about callers that
  take turns.
* A second call under a used `action_id` is closed by the first one's events
  (`store.py:104`), whoever makes it; `gates_unreported` shows it for the JouJou gate.
* When threads share a connection, an error on one thread takes away a row that
  another has inserted and will be told is stored (`store.py:43`, `:81`), where the
  protocol says that append never counts a failure as a success (`store.py:14`).
  `LossNeedsAnError` is what remains true.
* A decision that cannot be recorded rejects the call (`proxy.py:124`), where
  `docs/adr/ADR-004-decision-logger-phase2.md:59` has it not hinder the effect.
* `after_create_todo_success` raises for UNCONFIRMED only, so a second record that
  failed or was refused passes for success (`joujou.py:136`);
  `after_create_todo_failure` commits a record of type `execution_committed`.
* `AuditResult.side_effect_observed` is the intent's, so `none` or `None`
  (`audit.py:74`), where `docs/dev/getting-started.md:91` shows `confirmed`.
* The provider's reconciliation asks about every open record that is not a
  filesystem tool's, shell and network calls included, and calls what the provider
  does not know not executed (`provider_reconcile.py:36`, `:51`). It may also call
  not executed a todo that is created a moment later; `FindingsAreTrue` asks for
  completeness only of applications that had ended.
* An exception in the middle of the directory listing is swallowed
  (`filesystem_diff.py:174`), so the status may be `matched` beside an extra file.
* `list` leaves out results without a review focus, such as that of a missing root
  (`cli/reconciliation.py:77`).
* `recent_request_ids` holds the first five ids of the list, not the last
  (`dashboard.py:146`).
* `require_approval` is executed (`policy.py:171`), where
  `docs/adr/ADR-014-policy-gate-execution.md:29` has it denied.
* `mkdir(parents=True)` may fail after it made a parent, and the event says `none`
  (`proxy.py:415`); `ObservationsAreTrue` therefore leaves directories out.
* An exception of `http_get` that no handler catches leaves an open record after the
  request was sent, and the caller gets no result (`proxy.py:479`).
* A call that runs during `reconcile()` may be reported as an external change
  (`reconcile.py:129`); `NoFalseAlarm` is checked with the system at rest.
* The Python backend answers "executed" and performs nothing
  (`execution_backend.py:62`); `AllowMeansWritten` and `PassedWasExecuted` speak of
  the Rust backend.
* The event after a torn write continues its line (`audit_store.py:89`): `emit()`
  succeeds and reading raises. `ReadIsComplete` promises no more than that.
* The last event of a request id takes the place of an allowed one when jobs are
  planned (`reconciliation_scheduler.py:129`).

## 4. Fairness

* `ToolProxy`: weak fairness on each call's own steps, while its execution is
  bounded. A file operation ends; `subprocess.run` with a timeout ends; a process
  without one need not, and urllib's timeout bounds a socket operation, not a
  transfer, so nothing is assumed of those. No caller is bound to call and no
  process to crash.
* `ServiceRuntime`: weak fairness on each thread's steps, which includes the
  five-second timeout of the client, whatever a scheduler does meanwhile. Nothing is
  assumed of the child.

`Reconcile`, the scheduler's own steps, `SqliteStore`, `AuditGates` and
`FilesystemDiff` are checked for safety only, and no fairness is stated of them.

## 5. Proofs

The theorems hold for every value of the constants that satisfies the named
assumptions of the modules, which TLC evaluates in every run: the workspace
contains its root, parents are paths, contents are not the words for "absent" and
"directory", requests are typed, rules give policy decisions, a thread has a
process. Where a theorem needs more, it says so in its statement:

* `FreshIds`: no `action_id` is used twice. `events_for(record_id)` cannot tell two
  calls under one id apart (`store.py:91`), and the properties about records are
  false without it.
* `Serial`: no two calls overlap. Two that do link to one predecessor, so the chain
  property is false without it.
* `Exclusive`: `reconcile()` runs while no call is active and nobody writes. It takes
  no lock, and what it says of a call that is under way may be false; the bypass actor
  and the calls are free to act before and after it.
* `ToolsFitOperations`: an envelope names a filesystem tool only for `write_file` and
  `make_directory`. `reconcile()` goes by the tool an envelope names, and a shell
  command under the name of a file tool would be judged by its target's existence.
* `Reconcile` assumes that no call is a number (`ReconcileAssumption`): in the model an
  observation's hash is named by the number of its row, a call's by the call.
* `AuditGates` assumes that its tasks draw different ids, which the code takes from
  `uuid4`, and that nobody else names the audit file of a todo, whose name holds
  that id (`GateRequestsAssumption`).

In all of them a safety property speaks of calls that have ended, or of what is
kept, and is not inductive: the invariant adds what holds of the work under way.

**`ToolProxyProofs`.** `TypeCorrect`, `IntentFirst` (`IntentBeforeEffect`),
`ResultsHold` (`ResultsAreTrue`), and the refinement `ContractKept`
(`Spec => KeepsContract`: every behaviour is one of `AccountableExecution`). The
invariant is `IInv == TypeInv /\ ProtocolInv /\ RowInv`. `ProtocolInv` says for each
program counter which events of the call are logged and whether its effect may have
taken place (nothing logged before `intent_append`; the intent and no closing event
from `execute` on; and so on). `RowInv` says that the hash of a logged row names the
call that wrote it and that its envelope is that call's request, unless the row is an
observation: the log is shared with `reconcile()`, whose rows no call wrote. A lemma
summarises what a step does to the log: nothing, or one appended row. The refinement maps the
promise to the logged intent, the performance to `effect`, and the record to the
logged closing event; each action is one abstract step or a stutter.

**`ToolProxyRecordProofs`.** Each theorem adds to `IInv` what it needs:

| theorem | property | added to the invariant |
|---|---|---|
| `IntentsAreGated` | `OnlyGatedIntents` | a call past the gate has a request the gate lets through (`GateInv`) |
| `ObservationsHold` | `ObservationsAreTrue` | a write or a shell call has done nothing while it runs, nor when it is about to log "none" (`TruthInv`) |
| `EffectsAccounted` | `EffectsAreAccounted`, under `FreshIds` | no two calls have one record id (`FreshInv`) |
| `CommittedContentHolds` | `CommittedContent`, under `FreshIds` | a temporary file that is about to be moved holds its own call's content: its name holds the record id (`ContentInv`) |
| `RecordShapeHolds` | `RecordShape`, under `FreshIds` | `FreshInv` |
| `DecisionRefsHold` | `DecisionRefsResolve` | a call past `decision_record` has its decision in the decision log (`DecisionInv`) |
| `ChainsHold` | `ChainsAreIntact`, under `Serial` | the hash a call has read is that of the last row (`ChainInv`) |

**`ReconcileProofs`.** `Reconcile` is not a user of `ToolProxy`: it appends to the
same log, and the bypass actor changes the same files. So `IInv`, which is true of a
log with observations in it and says nothing of what the files hold, is first carried
through the steps of `reconcile()` and of a bypass (`SharedLogStep`).

| theorem | property | hypotheses | added to the invariant |
|---|---|---|---|
| `ReconcileTypeCorrect` | `RTypeOK` | | the queue's rows are rows of calls (`RTypes`) |
| `ObservedChainsHold` | `ChainsAreIntact` | `Serial`, `Exclusive` | the hash `reconcile()` has read is that of the last row (`RChainInv`) |
| `ContractKeptBeside` | `KeepsContract` | | nothing: an observation or a bypass is a stutter of `AccountableExecution` |
| `PromisesHoldBeside` | `IntentBeforeEffect`, `ResultsAreTrue`, `ObservationsAreTrue` | | `TruthInv`, as part of `FilesInv` |
| `EffectsAccountedBeside` | `EffectsAreAccounted` | `FreshIds` | `FreshInv` |
| `NotExecutedHolds` | `NotExecutedIsTrue` | `Exclusive` | what a write has left does not vanish unless somebody else removes it (`WritesStay`), and a finding has a reason in the files (`FindingsHaveReasons`) |
| `AlarmsAreReal` | `NoFalseAlarm` | `Exclusive`, `FreshIds` | behind every file that ToolProxy made there is a call whose record does not deny it (`ManagedFiles`), and the target of a row the run has gone past is in `known` (`RunInv`) |
| `ChangesAreSeen` | `BypassesAreReported` | `Exclusive`, `FreshIds` | each row and each path behind the run has its finding (`PendingSeen`, `CommittedSeen`, `PathsSeen`) |
| `OpenEffectsAreSeen` | `OpenEffectsAreReported` | `Exclusive`, `FreshIds`, `ToolsFitOperations` | `FilesInv` and `RunInv` |
| `SecondRunAgrees` | `RunsAgree` | | while the present is still the moment a run began at, its findings are a function of log and files (`SameInv`) |

`RunInv` says, for each place in the three loops, what the items behind it have left in
`known` and in `findings`, and that the queue is the rest of the query's answer. It is
inductive because an observation is in nobody's answer: appending one leaves
`pending()` and `committed()` as they were (`ObservationIsNoAnswer`).

`SecondRunAgrees` needs neither rest nor fresh ids. It compares two runs through the
state at which they began, and rests on time not coming back: a step of a call advances
it in the protocol or makes a directory, which stays, and a bypass is counted
(`IsPast`). So when both runs began at the present files and calls, nothing but the
first one's observations happened in between.

**`SqliteStoreProofs`.** `LossNeedsAnErrorHolds`: from its INSERT on, a row is in
the connection's transaction, or in the file, or another thread of the process was told
of an error (`LossInv`). `AppendIsAtomic`: the refinement
`KeepsAppendPromise` of `AppendStore`. Its invariant says that when no two threads share
a process, a transaction's own rows are at most the row of the append about to be
committed (`SoleInv`); everything else a failed append leaves behind is an open
transaction that has nothing in it. `ChainsIntactInTurnHolds`: an append that may still
be stored, because its snapshot is up to date, has read the last hash of its table
(`ChainInv`); an append over a stale snapshot, which has not, is refused.

**`ServiceRuntimeProofs`.** `RuntimeTypeCorrect`; `EffectsSettle` (`NoLateEffects`):
when a call has its answer, its child is not at work; `AllowsAreTrue`
(`AllowMeansWritten`), where `AuditTells` says that each line of the audit file that
can be read is the event of a call's answer; `ReadsAreComplete` (`ReadIsComplete`), which rests on
a lemma about JSON Lines: whatever a write left, the next append completes a line that
is a record or is broken, and touches no finished line.

**`SchedulerProofs`.** A scheduler writes nothing the runtime reads, so
`SSpec => Spec` and the runtime's theorems hold beside it. `SchedulerTypeCorrect`,
`StatusesAdvance` (`StatusesOnlyAdvance`), `ResultsAreSingle` (`OneResultPerRun`: the job
of a result the living scheduler wrote is completed and not about to be saved again,
`SavedInv`) and `PassedHolds` (`PassedWasExecuted`: each event of the snapshot and each
job's event is one a call was told, `GroundsInv`). `SummariesHold` (`SummariesAgree`)
is about the dashboard: jobs go to different events of the list that is counted, their
own (`FewerJobs`, an injection), and an event that was read from the audit file is in
every later read that does not raise (`CountInv`, with `ReadableAfter`).

**`FilesystemDiffProofs`.** `DiffTypeCorrect`, `GroundsHold` (`VerdictsHaveGrounds`),
`MismatchesListed` (`MismatchesAreListed`) and `StillDirectoryHolds`
(`StillDirectoryIsJudgedRight`). `RunInv` says, for each place of a run, that a path
examined so far has a recorded kind with grounds in what the path has been since the
run began, and a path not yet examined has none.

**`AuditGatesProofs`.** `GatesAreCallers` (`GSpec => Spec`): the gates only call
`ToolProxy`, so all that is proved of it holds in their histories. On that rest
`CreatedAfterIntent` (`CreatedWasIntended`), `TodoAnswersHold` (`TodoAnswersAreTrue`),
`AuditFilesTell` (`AuditFileTellsOutcome`), `NothingSeenHolds`
(`NothingSeenMeansRejected`), `FindingsHold` (`FindingsAreTrue`) and
`GatesTypeCorrect`. `GatesInv` says where a task stands when one of its calls is
running (`PlaceInv`), which envelope each call was handed (`AskedInv`), which results
leave an intent in the log (`AnswerInv`), and what each place of the saga implies
about provider and answer (`SagaInv`). `FileInv` follows a todo's audit file and its
temporary file through both calls. `FindingInv` says that a todo that was over when
the run began is found or still in the queue.

**Model-checked only.**

* Liveness (`BoundedCallsEnd`, `ExecuteEnds`): the prover does not reach liveness
  under fairness.

Every safety property and every action property of a passing run is stated by a
theorem.

## 6. What the model leaves out

* SQLite's rollback-journal mode: the stores ask for WAL, which some file systems
  refuse without an error.
* `ToolProxy` over `SqliteStore`: `ToolProxy` assumes `AppendStore`, and
  `sqlite_appends` shows where it holds. The two are not composed.
* Power failure: files and committed rows survive a crash of a process.
* Records longer than a write buffer, which reach a JSONL file in pieces.
* Several processes writing one JSONL file, which
  `src/docs/known-limitations.md:45` excludes.
* What a shell command does to the workspace (`effect` says only that it acted).
* A write that the chokepoint finished just before its timeout is audited as an
  error and its job is skipped; the model has this behaviour, and no property
  says otherwise because no document does.
* `add_rule` between calls: rules are a constant. `filter_environment`, which has no
  caller.
* The audit records of `persistence/reconciliation_records.py` and the `audit`
  command: a second dictionary with the same guard, which nothing in the package
  fills.
* Subdirectories under `observed_root`, and how a pattern matches a path.
* Redaction, the R-DE hints, the context resolver, the message catalogues and the
  HTML report: values made and printed, with no state and nothing read back.
* `FAILED` jobs: `plan()` makes pending jobs of allow events only and `_verify`
  accepts exactly those, so no job fails.

## 7. Plan

Done, in this order: `ExecutionLog`, `ExecutionPolicy`, `ToolProxy` and its runs,
`AccountableExecution` and the refinement, `ToolProxyProofs`, `Reconcile`, `Jsonl`,
`ServiceRuntime`, `ReconciliationScheduler`, `SqliteStore` with `AppendStore`,
`AuditGates`, `FilesystemDiff`, `Dashboard`.

Of the model, what is left is small: the policy gate's `add_rule`, the audit records,
and more than one todo at a time.

Done of the proofs: every safety property and every action property the passing runs
check, and both refinements.

Left for proof: `DecisionRefsResolve`, `OnlyGatedIntents` and `CommittedContent` beside
`reconcile()` and bypasses, and a theorem for each disagreement of section 3 that says
under which hypothesis the sentence of the document is true after all.
