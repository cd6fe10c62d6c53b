---------------------------- MODULE SqliteStore ----------------------------
(***************************************************************************)
(* SQLiteExecutionStore (store.py) and SQLiteDecisionStore (decision.py)    *)
(* over one database file in WAL mode, below the atomic append ToolProxy    *)
(* assumes.  A process has one connection per store, both on the same file  *)
(* (ADR-004); threads of a process share them (check_same_thread=False).    *)
(*                                                                         *)
(* Python's sqlite3 opens a transaction before an INSERT, and only commit() *)
(* ends it: no code of the stores rolls back.  What SQLite does is          *)
(* external:                                                               *)
(*   - one connection at a time holds the write lock; an INSERT that does   *)
(*     not get it in five seconds is refused, and the transaction stays     *)
(*     open, without the row;                                              *)
(*   - the first read in an open transaction takes a snapshot, which stays  *)
(*     until the transaction ends; an INSERT on a snapshot that is no       *)
(*     longer the newest is refused at once, every time;                    *)
(*   - a full disk or an I/O error rolls the whole transaction back;        *)
(*   - a commit with no transaction open does nothing.                      *)
(***************************************************************************)
EXTENDS ExecutionLog

CONSTANTS
    Thread,         \* the callers of append() and record()
    Process,        \* what their connections belong to
    Placements,     \* the ways threads may be spread over processes
    MaxAppends      \* appends per thread

ASSUME PlacementAssumption == Placements \subseteq [Thread -> Process] /\ Placements # {}

ASSUME AppendsAssumption == MaxAppends \in Nat

Table == {"execution_events", "decisions"}

\* self._conn of the store of a table in a process.
Connection == Process \X Table

NoSnapshot == -1

VARIABLES
    db,         \* the committed rows of the file, both tables, in commit order
    open,       \* a transaction is open on the connection
    snapshot,   \* how many committed rows its transaction sees, or NoSnapshot
    own,        \* the rows its transaction has inserted; not empty: it has the lock
    process,    \* the process each thread runs in; never changes
    in_turn,    \* callers take turns: appends do not overlap; never changes
    pc,         \* where each thread stands
    table,      \* the table its current append is for
    prev,       \* the last_hash() it has read
    count,      \* how many appends it has begun
    answer      \* history: what each append was told

connections == <<open, snapshot, own>>
setting == <<process, in_turn>>
vars == <<db, open, snapshot, own, process, in_turn, pc, table, prev, count, answer>>

Op == Thread \X (1..MaxAppends)

Hash == Op \cup {GENESIS_HASH}

Init ==
    /\ db = <<>>
    /\ open = [c \in Connection |-> FALSE]
    /\ snapshot = [c \in Connection |-> NoSnapshot]
    /\ own = [c \in Connection |-> <<>>]
    /\ process \in Placements
    /\ in_turn \in BOOLEAN
    /\ pc = [t \in Thread |-> "idle"]
    /\ table = [t \in Thread |-> "execution_events"]
    /\ prev = [t \in Thread |-> GENESIS_HASH]
    /\ count = [t \in Thread |-> 0]
    /\ answer = [op \in Op |-> "none"]

-----------------------------------------------------------------------------
(* Connections                                                              *)

conn(t) == <<process[t], table[t]>>

rows_of(rows, tab) == {i \in DOMAIN rows : rows[i].table = tab}

\* Mutant: the query lost its DESC and returns the oldest row.
IsFirstHash(rows, tab, h) ==
    \/ rows_of(rows, tab) = {} /\ h = GENESIS_HASH
    \/ \E i \in rows_of(rows, tab) : /\ \A j \in rows_of(rows, tab) : i <= j
                                    /\ h = rows[i].hash

\* last_hash() of a table: ORDER BY rowid DESC LIMIT 1, or GENESIS_HASH.
IsLastHash(rows, tab, h) ==
    \/ rows_of(rows, tab) = {} /\ h = GENESIS_HASH
    \/ \E i \in rows_of(rows, tab) : /\ \A j \in rows_of(rows, tab) : j <= i
                                    /\ h = rows[i].hash

\* What a SELECT on the connection sees.
View(c) == IF snapshot[c] = NoSnapshot THEN db
           ELSE SubSeq(db, 1, snapshot[c]) \o own[c]

\* A SELECT: in an open transaction the first one fixes what later ones see.
Select(c) ==
    snapshot' = [snapshot EXCEPT ![c] =
        IF open[c] /\ snapshot[c] = NoSnapshot THEN Len(db) ELSE snapshot[c]]

EndTransaction(c) ==
    /\ open' = [open EXCEPT ![c] = FALSE]
    /\ snapshot' = [snapshot EXCEPT ![c] = NoSnapshot]
    /\ own' = [own EXCEPT ![c] = <<>>]

\* No other connection has inserted without committing, and the transaction has
\* no snapshot yet or the newest one.
MayWrite(c) == /\ \A d \in Connection \ {c} : own[d] = <<>>
               /\ snapshot[c] \in {NoSnapshot, Len(db)}

-----------------------------------------------------------------------------
(* One append: last_hash(), then INSERT and COMMIT                          *)

Tell(t, what) == /\ pc' = [pc EXCEPT ![t] = "idle"]
                 /\ answer' = [answer EXCEPT ![<<t, count[t]>>] = what]

ReadHash(t) ==
    /\ pc[t] = "idle" /\ count[t] < MaxAppends
    /\ in_turn => \A u \in Thread : pc[u] = "idle"
    /\ \E tab \in Table, h \in Hash :
          LET c == <<process[t], tab>> IN
          /\ IsLastHash(View(c), tab, h)
          /\ table' = [table EXCEPT ![t] = tab]
          /\ prev' = [prev EXCEPT ![t] = h]
          /\ Select(c)
    /\ count' = [count EXCEPT ![t] = @ + 1]
    /\ pc' = [pc EXCEPT ![t] = "insert"]
    /\ UNCHANGED <<db, open, own, setting, answer>>

NewRow(t) == [hash |-> <<t, count[t]>>, previous_hash |-> prev[t], table |-> table[t]]

Insert(t) ==
    LET c == conn(t) IN
    /\ pc[t] = "insert" /\ MayWrite(c)
    /\ open' = [open EXCEPT ![c] = TRUE]
    /\ snapshot' = [snapshot EXCEPT ![c] = Len(db)]
    /\ own' = [own EXCEPT ![c] = Append(@, NewRow(t))]
    /\ pc' = [pc EXCEPT ![t] = "commit"]
    /\ UNCHANGED <<db, setting, table, prev, count, answer>>

\* Mutant: a lock that is not to be had is not an error.
IgnoreBusy(t) ==
    LET c == conn(t) IN
    /\ pc[t] = "insert" /\ own[c] = <<>>
    /\ open' = [open EXCEPT ![c] = TRUE]
    /\ Tell(t, "stored")
    /\ UNCHANGED <<db, snapshot, own, setting, table, prev, count>>

\* SQLITE_BUSY: another connection, of this system or of another program, has the
\* lock, or the snapshot is stale.  The transaction stays open.
InsertIsBusy(t) ==
    LET c == conn(t) IN
    /\ pc[t] = "insert" /\ own[c] = <<>>
    /\ open' = [open EXCEPT ![c] = TRUE]
    /\ Tell(t, "raised")
    /\ UNCHANGED <<db, snapshot, own, setting, table, prev, count>>

\* SQLITE_FULL or SQLITE_IOERR: SQLite rolls back, rows of other threads included.
StatementFails(t) ==
    LET c == conn(t) IN
    /\ pc[t] = "insert" \/ (pc[t] = "commit" /\ open[c])
    /\ EndTransaction(c)
    /\ Tell(t, "raised")
    /\ UNCHANGED <<db, setting, table, prev, count>>

\* Two threads of one connection run BEGIN or COMMIT at once: the second finds a
\* transaction already open, or already ended, which is an error.
Collide(t) ==
    /\ \E u \in Thread \ {t} : process[u] = process[t]
    /\ \/ pc[t] = "insert" /\ open[conn(t)]
       \/ pc[t] = "commit" /\ ~ open[conn(t)]
    /\ Tell(t, "raised")
    /\ UNCHANGED <<db, connections, setting, table, prev, count>>

\* Mutant: append() without its commit().
ForgetCommit(t) ==
    /\ pc[t] = "commit"
    /\ Tell(t, "stored")
    /\ UNCHANGED <<db, connections, setting, table, prev, count>>

\* Commits what the connection has inserted, whichever thread inserted it; nothing
\* when another thread has ended the transaction.
Commit(t) ==
    /\ pc[t] = "commit"
    /\ db' = db \o own[conn(t)]
    /\ EndTransaction(conn(t))
    /\ Tell(t, "stored")
    /\ UNCHANGED <<setting, table, prev, count>>

-----------------------------------------------------------------------------
(* The other operations, and crashes                                        *)

\* events_for(), pending(), committed(), verify_chain().
QueryEvents(t) ==
    /\ pc[t] = "idle" /\ Select(<<process[t], "execution_events">>)
    /\ UNCHANGED <<db, open, own, setting, pc, table, prev, count, answer>>

\* get() and verify_chain() of the decision store.
QueryDecisions(t) ==
    /\ pc[t] = "idle" /\ Select(<<process[t], "decisions">>)
    /\ UNCHANGED <<db, open, own, setting, pc, table, prev, count, answer>>

\* The process dies, which undoes what it has not committed; a new process opens
\* its connections again.
Crash(p) ==
    /\ \E t \in Thread : process[t] = p /\ pc[t] # "idle"
    /\ open' = [c \in Connection |-> open[c] /\ c[1] # p]
    /\ snapshot' = [c \in Connection |-> IF c[1] = p THEN NoSnapshot ELSE snapshot[c]]
    /\ own' = [c \in Connection |-> IF c[1] = p THEN <<>> ELSE own[c]]
    /\ pc' = [t \in Thread |-> IF process[t] = p THEN "idle" ELSE pc[t]]
    /\ UNCHANGED <<db, setting, table, prev, count, answer>>

AppendStep(t) == \/ ReadHash(t) \/ Insert(t) \/ InsertIsBusy(t)
                 \/ StatementFails(t) \/ Collide(t) \/ Commit(t)

Next == \/ \E t \in Thread : AppendStep(t) \/ QueryEvents(t) \/ QueryDecisions(t)
        \/ \E p \in Process : Crash(p)

Spec == Init /\ [][Next]_vars

-----------------------------------------------------------------------------
(* Properties                                                               *)

\* No two threads share a connection.
Separate == \A t, u \in Thread : process[t] = process[u] => t = u

Stored(op) == \E i \in DOMAIN db : db[i].hash = op

\* With one thread per process, SQLite's transactions as these stores use them
\* make append() atomic: it adds its row at the end of the file and returns, or
\* raises and adds nothing, then or later.
Promise == INSTANCE AppendStore WITH
    log <- IF Separate THEN [i \in DOMAIN db |-> db[i].hash] ELSE <<>>,
    answer <- IF Separate THEN answer ELSE [op \in Op |-> "none"]

KeepsAppendPromise == Promise!Spec

\* A row of a table is linked to the row of its table before it, which is what
\* verify_chain() walks along.
Linked(i) ==
    LET before == {j \in 1..(i - 1) : db[j].table = db[i].table} IN
    IF before = {} THEN db[i].previous_hash = GENESIS_HASH
    ELSE \E j \in before : /\ \A k \in before : k <= j
                           /\ db[i].previous_hash = db[j].hash

\* When callers take turns, both hash chains verify, whatever transactions earlier
\* failures have left open: a connection that still reads an old snapshot has an
\* old last_hash(), and no row is ever linked to it.
ChainsIntactInTurn ==
    in_turn => \A i \in DOMAIN db : Linked(i)

\* Threads of one process share its connections (check_same_thread=False).  Even
\* so, a row whose append() returned is missing only when an append of another
\* thread on the same connection has raised.
LossNeedsAnError ==
    \A op \in Op : answer[op] = "stored" /\ ~ Stored(op) =>
        \E other \in Op : /\ other[1] # op[1] /\ process[other[1]] = process[op[1]]
                          /\ answer[other] = "raised"

-----------------------------------------------------------------------------
(* What the stores' protocol says, and they do not do                       *)

\* store.py, last_hash: the hash of the most recent event; with callers taking
\* turns nothing has been appended between reading it and using it.
LastHashIsLatest ==
    \A t \in Thread : in_turn /\ pc[t] = "insert" =>
        IsLastHash(db, table[t], prev[t])
=============================================================================
