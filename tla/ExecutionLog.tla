---------------------------- MODULE ExecutionLog ----------------------------
(***************************************************************************)
(* The append-only table `execution_events` of SQLiteExecutionStore, as a   *)
(* sequence of rows in rowid order, and the queries the store answers over  *)
(* it.  The same linkage query serves the `decisions` table.                *)
(*                                                                         *)
(* A row's `hash` is its identity: SHA-256 over the payload, which holds a  *)
(* fresh uuid, is taken to be injective, so two rows have equal hashes only *)
(* when they are the same row.                                              *)
(***************************************************************************)
EXTENDS Integers, Sequences

EventType == {"intent_pending", "execution_committed", "execution_failed",
              "reconciliation_observed"}

Observation == {"none", "partial", "unknown", "confirmed"}

\* The start of every chain; no row has this hash.
GENESIS_HASH == <<>>

\* Mutant: the query lost its DESC and returns the oldest row.
OldestHash(log) == IF log = <<>> THEN GENESIS_HASH ELSE log[1].hash

last_hash(log) == IF log = <<>> THEN GENESIS_HASH ELSE log[Len(log)].hash

\* Rows are never changed or removed, so the answer of a query is the set of its rows'
\* numbers; a loop over it takes the first one first.
first(rows) == CHOOSE i \in rows : \A j \in rows : i <= j

events_for(log, rid) == {i \in DOMAIN log : log[i].record_id = rid}

\* Mutant: every event of a record, its own intent included, closes it.
AnyEventCloses == EventType

\* The event types that take a record out of pending().
ClosingTypes == {"execution_committed", "execution_failed"}

Closed(log, rid) ==
    \E i \in DOMAIN log : log[i].record_id = rid /\ log[i].type \in ClosingTypes

\* An intent whose RECORD has no closing event; the query compares record_id,
\* not the individual call.
IsOpenIntent(log, e) == e.type = "intent_pending" /\ ~ Closed(log, e.record_id)

pending(log) == {i \in DOMAIN log : IsOpenIntent(log, log[i])}

committed(log) == {i \in DOMAIN log : log[i].type = "execution_committed"}

PrecedingHash(log, i) == IF i = 1 THEN GENESIS_HASH ELSE log[i - 1].hash

\* verify_chain()'s "previous_hash_mismatch" findings, as row indices.
previous_hash_mismatch(log) ==
    {i \in DOMAIN log : log[i].previous_hash # PrecedingHash(log, i)}

=============================================================================
