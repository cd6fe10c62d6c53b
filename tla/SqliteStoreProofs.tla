-------------------------- MODULE SqliteStoreProofs --------------------------
(***************************************************************************)
(* Theorems about the SQLite stores, for every set of threads and           *)
(* processes, every way to spread one over the other, and any number of     *)
(* appends.                                                                *)
(***************************************************************************)
EXTENDS SqliteStore, TLAPS

-----------------------------------------------------------------------------
(* Types, and what has been answered                                        *)

Row == [hash : Op, previous_hash : Hash, table : Table]

StoreTypes ==
    /\ db \in Seq(Row)
    /\ open \in [Connection -> BOOLEAN]
    /\ snapshot \in [Connection -> Int]
    /\ own \in [Connection -> Seq(Row)]
    /\ process \in [Thread -> Process] /\ in_turn \in BOOLEAN
    /\ pc \in [Thread -> {"idle", "insert", "commit"}]
    /\ table \in [Thread -> Table]
    /\ prev \in [Thread -> Hash]
    /\ count \in [Thread -> 0..MaxAppends]
    /\ answer \in [Op -> {"none", "stored", "raised"}]

\* An append under way is a new one, and has no answer; nor has a later one.
AnswersAreNew ==
    /\ \A t \in Thread : pc[t] # "idle" => <<t, count[t]>> \in Op /\ answer[<<t, count[t]>>] = "none"
    /\ \A op \in Op : op[2] > count[op[1]] => answer[op] = "none"

StoreTypeInv == StoreTypes /\ AnswersAreNew

LEMMA InitStoreTypeInv == Init => StoreTypeInv
<1> SUFFICES ASSUME Init PROVE StoreTypeInv
    OBVIOUS
<1>1. process \in [Thread -> Process] /\ in_turn \in BOOLEAN
    BY PlacementAssumption DEF Init
<1>2. count \in [Thread -> 0..MaxAppends] /\ prev \in [Thread -> Hash]
    BY AppendsAssumption DEF Init, Hash
<1>3. db \in Seq(Row) /\ own \in [Connection -> Seq(Row)]
    BY DEF Init
<1>4. QED
    BY <1>1, <1>2, <1>3 DEF Init, StoreTypeInv, StoreTypes, AnswersAreNew, NoSnapshot, Table

LEMMA ConnIsTyped ==
    ASSUME StoreTypes, NEW t \in Thread
    PROVE  conn(t) \in Connection
BY DEF StoreTypes, conn, Connection

LEMMA TellTypes ==
    ASSUME StoreTypeInv, NEW t \in Thread, pc[t] # "idle",
           NEW what \in {"stored", "raised"}, Tell(t, what), UNCHANGED count
    PROVE  /\ pc' \in [Thread -> {"idle", "insert", "commit"}]
           /\ answer' \in [Op -> {"none", "stored", "raised"}]
           /\ AnswersAreNew'
<1>1. <<t, count[t]>> \in Op
    BY DEF StoreTypeInv, AnswersAreNew
<1>2. \A op \in Op : answer'[op] = IF op = <<t, count[t]>> THEN what ELSE answer[op]
    BY DEF Tell, StoreTypeInv, StoreTypes
<1>3. \A u \in Thread : pc'[u] # "idle" => u # t /\ pc[u] # "idle"
    BY DEF Tell, StoreTypeInv, StoreTypes
<1>4. AnswersAreNew'
    <2>1. ASSUME NEW u \in Thread, pc'[u] # "idle"
          PROVE  <<u, count[u]>> \in Op /\ answer'[<<u, count[u]>>] = "none"
        BY <1>2, <1>3, <2>1 DEF StoreTypeInv, AnswersAreNew
    <2>2. ASSUME NEW op \in Op, op[2] > count[op[1]] PROVE answer'[op] = "none"
        <3>1. op # <<t, count[t]>>
            BY <2>2, <1>1 DEF StoreTypeInv, StoreTypes
        <3>2. QED
            BY <1>2, <2>2, <3>1 DEF StoreTypeInv, AnswersAreNew
    <2>3. QED BY <2>1, <2>2 DEF AnswersAreNew
<1>5. QED
    BY <1>4 DEF Tell, StoreTypeInv, StoreTypes

LEMMA EndTypes ==
    ASSUME StoreTypes, NEW c \in Connection, EndTransaction(c)
    PROVE  /\ open' \in [Connection -> BOOLEAN] /\ snapshot' \in [Connection -> Int]
           /\ own' \in [Connection -> Seq(Row)]
BY DEF StoreTypes, EndTransaction, NoSnapshot

LEMMA SelectTypes ==
    ASSUME StoreTypes, NEW c \in Connection, Select(c)
    PROVE  snapshot' \in [Connection -> Int]
BY DEF StoreTypes, Select

LEMMA StoreTypeStep ==
    ASSUME StoreTypeInv, [Next]_vars
    PROVE  StoreTypeInv'
<1>0. StoreTypes
    BY DEF StoreTypeInv
<1>1. CASE UNCHANGED vars
    BY <1>1 DEF vars, StoreTypeInv, StoreTypes, AnswersAreNew
<1>2. ASSUME NEW t \in Thread, ReadHash(t) PROVE StoreTypeInv'
    <2>1. PICK tab \in Table, h \in Hash :
              /\ table' = [table EXCEPT ![t] = tab] /\ prev' = [prev EXCEPT ![t] = h]
              /\ Select(<<process[t], tab>>)
        BY <1>2 DEF ReadHash
    <2>2. snapshot' \in [Connection -> Int]
        BY <1>0, <2>1, SelectTypes DEF Connection, StoreTypes
    <2>3. /\ pc' = [pc EXCEPT ![t] = "insert"] /\ count' = [count EXCEPT ![t] = count[t] + 1]
          /\ count[t] \in 0..MaxAppends /\ count[t] < MaxAppends
          /\ UNCHANGED <<db, open, own, process, in_turn, answer>>
        BY <1>0, <1>2 DEF ReadHash, setting, StoreTypes
    <2>4. count'[t] \in 1..MaxAppends /\ count' \in [Thread -> 0..MaxAppends]
        BY <1>0, <2>3, AppendsAssumption DEF StoreTypes
    <2>5. AnswersAreNew'
        <3>1. <<t, count'[t]>> \in Op /\ count'[t] > count[t]
            BY <1>0, <2>3, <2>4 DEF Op, StoreTypes
        <3>2. answer[<<t, count'[t]>>] = "none"
            BY <3>1 DEF StoreTypeInv, AnswersAreNew
        <3>3. \A u \in Thread : u # t => count'[u] = count[u] /\ pc'[u] = pc[u]
            BY <1>0, <2>3 DEF StoreTypes
        <3>4. \A op \in Op : op[2] > count'[op[1]] => op[2] > count[op[1]]
            <4>1. \A op \in Op : op[1] \in Thread /\ op[2] \in Int
                BY AppendsAssumption DEF Op
            <4>2. \A u \in Thread : count[u] \in Int /\ count'[u] \in Int /\ count'[u] >= count[u]
                <5>1. \A u \in Thread : count[u] \in 0..MaxAppends /\ count'[u] \in 0..MaxAppends
                    BY <1>0, <2>4 DEF StoreTypes
                <5>2. \A u \in Thread : u = t \/ count'[u] = count[u]
                    BY <3>3
                <5>3. QED
                    BY <3>1, <5>1, <5>2, AppendsAssumption
            <4>3. QED BY <4>1, <4>2
        <3>5. QED
            BY <2>3, <3>1, <3>2, <3>3, <3>4 DEF StoreTypeInv, AnswersAreNew
    <2>6. QED
        BY <1>0, <2>1, <2>2, <2>3, <2>4, <2>5 DEF StoreTypeInv, StoreTypes
<1>3. ASSUME NEW t \in Thread, Insert(t) PROVE StoreTypeInv'
    <2>1. <<t, count[t]>> \in Op /\ conn(t) \in Connection
        BY <1>0, <1>3, ConnIsTyped DEF Insert, StoreTypeInv, AnswersAreNew
    <2>2. NewRow(t) \in Row
        BY <1>0, <2>1 DEF NewRow, Row, StoreTypes
    <2>3. own' \in [Connection -> Seq(Row)]
        BY <1>0, <1>3, <2>1, <2>2 DEF Insert, StoreTypes
    <2>4. QED
        BY <1>0, <1>3, <2>1, <2>3 DEF Insert, setting, StoreTypeInv, StoreTypes, AnswersAreNew
<1>4. ASSUME NEW t \in Thread, InsertIsBusy(t) PROVE StoreTypeInv'
    BY <1>0, <1>4, TellTypes, ConnIsTyped DEF InsertIsBusy, setting, StoreTypeInv, StoreTypes
<1>5. ASSUME NEW t \in Thread, StatementFails(t) PROVE StoreTypeInv'
    BY <1>0, <1>5, TellTypes, EndTypes, ConnIsTyped
       DEF StatementFails, setting, StoreTypeInv, StoreTypes
<1>6. ASSUME NEW t \in Thread, Collide(t) PROVE StoreTypeInv'
    BY <1>0, <1>6, TellTypes DEF Collide, connections, setting, StoreTypeInv, StoreTypes
<1>7. ASSUME NEW t \in Thread, Commit(t) PROVE StoreTypeInv'
    <2>1. db' \in Seq(Row)
        BY <1>0, <1>7, ConnIsTyped DEF Commit, StoreTypes
    <2>2. QED
        BY <1>0, <1>7, <2>1, TellTypes, EndTypes, ConnIsTyped
           DEF Commit, setting, StoreTypeInv, StoreTypes
<1>8. ASSUME NEW t \in Thread, QueryEvents(t) \/ QueryDecisions(t) PROVE StoreTypeInv'
    <2>1. snapshot' \in [Connection -> Int]
        BY <1>0, <1>8, SelectTypes DEF QueryEvents, QueryDecisions, Connection, Table, StoreTypes
    <2>2. QED
        BY <1>8, <2>1 DEF QueryEvents, QueryDecisions, setting, StoreTypeInv, StoreTypes,
            AnswersAreNew
<1>9. ASSUME NEW p \in Process, Crash(p) PROVE StoreTypeInv'
    <2>1. own' \in [Connection -> Seq(Row)] /\ snapshot' \in [Connection -> Int]
          /\ open' \in [Connection -> BOOLEAN]
        BY <1>0, <1>9 DEF Crash, StoreTypes, NoSnapshot
    <2>2. pc' \in [Thread -> {"idle", "insert", "commit"}]
          /\ \A t \in Thread : pc'[t] # "idle" => pc[t] # "idle"
        BY <1>0, <1>9 DEF Crash, StoreTypes
    <2>3. QED
        BY <1>9, <2>1, <2>2 DEF Crash, setting, StoreTypeInv, StoreTypes, AnswersAreNew
<1>10. QED
    BY <1>1, <1>2, <1>3, <1>4, <1>5, <1>6, <1>7, <1>8, <1>9 DEF Next, AppendStep

LEMMA StoreTypeInvHolds == Spec => []StoreTypeInv
BY InitStoreTypeInv, StoreTypeStep, PTL DEF Spec

-----------------------------------------------------------------------------
(* Shared connections: a stored row is lost only with another thread's error *)

Holds(rows, op) == \E i \in DOMAIN rows : rows[i].hash = op

OtherRaised(t) == \E other \in Op : /\ other[1] # t /\ process[other[1]] = process[t]
                                    /\ answer[other] = "raised"

\* From INSERT to COMMIT a thread's row is in its connection's transaction, or has
\* been committed by another thread, or fell victim to another thread's error.
RowIsKept(t) ==
    pc[t] = "commit" => \/ Holds(own[conn(t)], <<t, count[t]>>)
                         \/ Holds(db, <<t, count[t]>>)
                         \/ OtherRaised(t)

LossInv == (\A t \in Thread : RowIsKept(t)) /\ LossNeedsAnError

\* A row once in a sequence is in every longer one.
LEMMA RowsStay ==
    ASSUME StoreTypes, NEW rows \in Seq(Row), db' = db \o rows
    PROVE  \A op \in Op : Holds(db', op) <=> Holds(db, op) \/ Holds(rows, op)
<1>1. /\ Len(db) \in Nat /\ Len(rows) \in Nat
      /\ DOMAIN db = 1..Len(db) /\ DOMAIN rows = 1..Len(rows)
      /\ DOMAIN db' = 1..(Len(db) + Len(rows))
      /\ \A i \in DOMAIN db : db'[i] = db[i]
      /\ \A i \in DOMAIN rows : db'[Len(db) + i] = rows[i]
    BY DEF StoreTypes
<1>2. \A i \in DOMAIN rows : Len(db) + i \in DOMAIN db'
    BY <1>1
<1>3. \A i \in DOMAIN db' : i \in DOMAIN db \/ i - Len(db) \in DOMAIN rows
    BY <1>1
<1>4. \A i \in DOMAIN db' : i \notin DOMAIN db => db'[i] = rows[i - Len(db)]
    <2>1. \A i \in DOMAIN db' : i = Len(db) + (i - Len(db))
        BY <1>1
    <2>2. QED BY <1>1, <1>3, <2>1
<1>5. QED
    BY <1>1, <1>2, <1>3, <1>4 DEF Holds

\* Only one answer is given in a step: to the append that ends.
LEMMA TellSays ==
    ASSUME StoreTypeInv, NEW t \in Thread, pc[t] # "idle",
           NEW what \in {"stored", "raised"}, Tell(t, what)
    PROVE  /\ <<t, count[t]>> \in Op /\ answer[<<t, count[t]>>] = "none"
           /\ \A op \in Op : answer'[op] = IF op = <<t, count[t]>> THEN what ELSE answer[op]
           /\ \A u \in Thread : pc'[u] = IF u = t THEN "idle" ELSE pc[u]
BY DEF Tell, StoreTypeInv, StoreTypes, AnswersAreNew

\* An answer once given stands.
LEMMA RaisedStays ==
    ASSUME UNCHANGED process, NEW u \in Thread, OtherRaised(u),
           \A op \in Op : answer[op] = "raised" => answer'[op] = "raised"
    PROVE  OtherRaised(u)'
BY DEF OtherRaised

\* No row disappears and no append is told that it is stored: LossNeedsAnError stays.
LEMMA NothingLost ==
    ASSUME LossNeedsAnError, UNCHANGED process,
           \A op \in Op : Holds(db, op) => Holds(db', op),
           \A op \in Op : answer[op] = "raised" => answer'[op] = "raised",
           \A op \in Op : answer'[op] = "stored" => answer[op] = "stored"
    PROVE  LossNeedsAnError'
<1> SUFFICES ASSUME NEW op \in Op, answer'[op] = "stored", ~ Holds(db', op)
             PROVE  \E other \in Op : /\ other[1] # op[1]
                                      /\ process'[other[1]] = process'[op[1]]
                                      /\ answer'[other] = "raised"
    BY DEF LossNeedsAnError, Stored, Holds
<1>1. answer[op] = "stored" /\ ~ Holds(db, op)
    OBVIOUS
<1>2. PICK other \in Op : /\ other[1] # op[1] /\ process[other[1]] = process[op[1]]
                          /\ answer[other] = "raised"
    BY <1>1 DEF LossNeedsAnError, Stored, Holds
<1>3. QED
    BY <1>2

\* A step that tells t that its append raised: rows of other threads may go with it
\* when they share its connection.
LEMMA RaiseKeeps ==
    ASSUME StoreTypeInv, LossInv, NEW t \in Thread, pc[t] # "idle", Tell(t, "raised"),
           UNCHANGED <<db, process, table, count>>,
           \A c \in Connection : own'[c] = own[c] \/ (c = conn(t) /\ own'[c] = <<>>)
    PROVE  LossInv'
<1>1. /\ <<t, count[t]>> \in Op /\ answer[<<t, count[t]>>] = "none"
      /\ \A op \in Op : answer'[op] = IF op = <<t, count[t]>> THEN "raised" ELSE answer[op]
      /\ \A u \in Thread : pc'[u] = IF u = t THEN "idle" ELSE pc[u]
    BY TellSays
<1>2. \A op \in Op : Holds(db', op) <=> Holds(db, op)
    BY DEF Holds
<1>3. \A op \in Op : answer[op] = "raised" => answer'[op] = "raised"
    BY <1>1
<1>4. ASSUME NEW u \in Thread, pc'[u] = "commit"
      PROVE  RowIsKept(u)'
    <2>1. u # t /\ pc[u] = "commit" /\ <<u, count[u]>> \in Op
        BY <1>1, <1>4 DEF StoreTypeInv, AnswersAreNew
    <2>2. CASE OtherRaised(u)
        BY <1>3, <2>2, RaisedStays DEF RowIsKept
    <2>3. CASE Holds(db, <<u, count[u]>>)
        BY <2>3 DEF RowIsKept
    <2>4. CASE Holds(own[conn(u)], <<u, count[u]>>)
        <3>1. conn(u)' = conn(u) /\ conn(u) \in Connection
            BY ConnIsTyped DEF conn, StoreTypeInv
        <3>2. CASE own'[conn(u)] = own[conn(u)]
            <4>1. Holds(own'[conn(u)], <<u, count'[u]>>)
                BY <2>4, <3>1, <3>2
            <4>2. QED BY <3>1, <4>1 DEF RowIsKept
        <3>3. CASE conn(u) = conn(t)
            <4>1. process[u] = process[t]
                BY <3>3 DEF conn
            <4>2. <<t, count[t]>>[1] # u
                BY <2>1
            <4>3. process'[<<t, count[t]>>[1]] = process'[u] /\ answer'[<<t, count[t]>>] = "raised"
                BY <1>1, <4>1
            <4>4. OtherRaised(u)'
                BY <1>1, <4>2, <4>3 DEF OtherRaised
            <4>5. QED BY <4>4 DEF RowIsKept
        <3>4. QED BY <3>1, <3>2, <3>3
    <2>5. QED BY <2>1, <2>2, <2>3, <2>4 DEF LossInv, RowIsKept
<1>5. LossNeedsAnError'
    BY <1>1, <1>2, <1>3, NothingLost DEF LossInv
<1>6. ASSUME NEW u \in Thread PROVE RowIsKept(u)'
    <2>1. CASE pc'[u] = "commit"
        BY <1>4, <2>1
    <2>2. QED BY <2>1 DEF RowIsKept
<1>7. QED
    BY <1>5, <1>6 DEF LossInv

\* A commit stores what is on the connection, and tells its thread so.
LEMMA CommitKeeps ==
    ASSUME StoreTypeInv, LossInv, NEW t \in Thread, Commit(t)
    PROVE  LossInv'
<1> DEFINE mine == <<t, count[t]>>
<1>0. StoreTypes /\ conn(t) \in Connection /\ own[conn(t)] \in Seq(Row) /\ pc[t] = "commit"
    BY ConnIsTyped DEF StoreTypeInv, StoreTypes, Commit
<1>1. /\ mine \in Op /\ answer[mine] = "none"
      /\ \A op \in Op : answer'[op] = IF op = mine THEN "stored" ELSE answer[op]
      /\ \A u \in Thread : pc'[u] = IF u = t THEN "idle" ELSE pc[u]
    BY <1>0, TellSays DEF Commit
<1>2. \A op \in Op : Holds(db', op) <=>
          Holds(db, op) \/ Holds(own[conn(t)], op)
    BY <1>0, RowsStay DEF Commit
<1>3. UNCHANGED <<process, table, count>> /\ \A c \in Connection : c # conn(t) => own'[c] = own[c]
    BY <1>0 DEF Commit, EndTransaction, setting, StoreTypes
<1>4. \A op \in Op : answer[op] = "raised" => answer'[op] = "raised"
    BY <1>1
<1>5. ASSUME NEW u \in Thread, pc'[u] = "commit"
      PROVE  RowIsKept(u)'
    <2>1. u # t /\ pc[u] = "commit" /\ <<u, count[u]>> \in Op
        BY <1>1, <1>5 DEF StoreTypeInv, AnswersAreNew
    <2>2. Holds(db', <<u, count'[u]>>) => RowIsKept(u)'
        BY <1>3 DEF RowIsKept
    <2>3. CASE OtherRaised(u)
        BY <1>3, <1>4, <2>3, RaisedStays DEF RowIsKept
    <2>4. CASE Holds(db, <<u, count[u]>>)
        BY <1>2, <1>3, <2>1, <2>2, <2>4
    <2>5. CASE Holds(own[conn(u)], <<u, count[u]>>)
        <3>1. conn(u)' = conn(u) /\ conn(u) \in Connection
            BY <1>0, <1>3, ConnIsTyped DEF conn
        <3>2. CASE conn(u) = conn(t)
            <4>1. Holds(db', <<u, count'[u]>>)
                BY <1>2, <1>3, <2>1, <2>5, <3>2
            <4>2. QED BY <2>2, <4>1
        <3>3. CASE conn(u) # conn(t)
            <4>1. own'[conn(u)] = own[conn(u)] /\ count'[u] = count[u]
                BY <1>3, <3>1, <3>3
            <4>2. Holds(own'[conn(u)], <<u, count'[u]>>)
                BY <2>5, <3>1, <4>1
            <4>3. QED BY <3>1, <4>2 DEF RowIsKept
        <3>4. QED BY <3>2, <3>3
    <2>6. QED BY <2>1, <2>3, <2>4, <2>5 DEF LossInv, RowIsKept
<1>6. Holds(db', mine) \/ OtherRaised(t)
    <2>1. Holds(own[conn(t)], mine) \/ Holds(db, mine) \/ OtherRaised(t)
        BY <1>0 DEF LossInv, RowIsKept
    <2>2. QED
        BY <1>1, <1>2, <2>1
<1>7. ASSUME NEW op \in Op, answer'[op] = "stored", ~ Holds(db', op)
      PROVE  \E other \in Op : /\ other[1] # op[1]
                               /\ process'[other[1]] = process'[op[1]]
                               /\ answer'[other] = "raised"
    <2>1. CASE op = mine
        <3>1. OtherRaised(t) /\ op[1] = t
            BY <1>6, <1>7, <2>1
        <3>2. QED BY <1>3, <1>4, <3>1 DEF OtherRaised
    <2>2. CASE op # mine
        <3>1. answer[op] = "stored" /\ ~ Holds(db, op)
            BY <1>1, <1>2, <1>7, <2>2
        <3>2. PICK other \in Op : /\ other[1] # op[1] /\ process[other[1]] = process[op[1]]
                                  /\ answer[other] = "raised"
            BY <3>1 DEF LossInv, LossNeedsAnError, Stored, Holds
        <3>3. QED
            BY <1>3, <1>4, <3>2
    <2>3. QED BY <2>1, <2>2
<1>8. ASSUME NEW u \in Thread PROVE RowIsKept(u)'
    <2>1. CASE pc'[u] = "commit"
        BY <1>5, <2>1
    <2>2. QED BY <2>1 DEF RowIsKept
<1>9. LossNeedsAnError'
    BY <1>7 DEF LossNeedsAnError, Stored, Holds
<1>10. QED
    BY <1>8, <1>9 DEF LossInv

\* A step after which every row is where it was, and no answer is new.
LEMMA QuietKeeps ==
    ASSUME LossInv, UNCHANGED <<db, process, answer>>,
           \A u \in Thread : pc'[u] = "commit" =>
               /\ pc[u] = "commit" /\ conn(u)' = conn(u) /\ count'[u] = count[u]
               /\ own'[conn(u)] = own[conn(u)]
    PROVE  LossInv'
<1>1. ASSUME NEW u \in Thread, pc'[u] = "commit" PROVE RowIsKept(u)'
    <2>1. /\ conn(u)' = conn(u) /\ count'[u] = count[u] /\ own'[conn(u)] = own[conn(u)]
          /\ \/ Holds(own[conn(u)], <<u, count[u]>>) \/ Holds(db, <<u, count[u]>>)
             \/ OtherRaised(u)
        BY <1>1 DEF LossInv, RowIsKept
    <2>2. OtherRaised(u) => OtherRaised(u)'
        BY RaisedStays
    <2>3. QED BY <2>1, <2>2 DEF RowIsKept
<1>2. ASSUME NEW u \in Thread PROVE RowIsKept(u)'
    <2>1. CASE pc'[u] = "commit"
        BY <1>1, <2>1
    <2>2. QED BY <2>1 DEF RowIsKept
<1>3. LossNeedsAnError'
    BY NothingLost DEF LossInv, Stored
<1>4. QED
    BY <1>2, <1>3 DEF LossInv

\* An INSERT puts its row into the transaction.
LEMMA InsertKeeps ==
    ASSUME StoreTypeInv, LossInv, NEW t \in Thread, Insert(t)
    PROVE  LossInv'
<1>0. StoreTypes /\ conn(t) \in Connection /\ own[conn(t)] \in Seq(Row)
    BY ConnIsTyped DEF StoreTypeInv, StoreTypes
<1>1. /\ UNCHANGED <<db, process, table, count, answer>>
      /\ \A u \in Thread : pc'[u] = IF u = t THEN "commit" ELSE pc[u]
      /\ \A c \in Connection :
             own'[c] = IF c = conn(t) THEN Append(own[c], NewRow(t)) ELSE own[c]
    BY <1>0 DEF Insert, setting, StoreTypes
<1>2. <<t, count[t]>> \in Op /\ pc[t] = "insert"
    BY DEF Insert, StoreTypeInv, AnswersAreNew
<1>3. NewRow(t) \in Row /\ NewRow(t).hash = <<t, count[t]>>
    BY <1>0, <1>2 DEF NewRow, Row, StoreTypes
<1>4. \A op : Holds(own[conn(t)], op) => Holds(Append(own[conn(t)], NewRow(t)), op)
    BY <1>0 DEF Holds
<1>5. Holds(Append(own[conn(t)], NewRow(t)), <<t, count[t]>>)
    <2>1. LET rows == Append(own[conn(t)], NewRow(t)) n == Len(own[conn(t)]) + 1
          IN  n \in DOMAIN rows /\ rows[n] = NewRow(t)
        BY <1>0, <1>3
    <2>2. QED BY <1>3, <2>1 DEF Holds
<1>6. ASSUME NEW u \in Thread PROVE RowIsKept(u)'
    <2>1. conn(u)' = conn(u) /\ conn(u) \in Connection
        BY <1>0, <1>1, ConnIsTyped DEF conn
    <2>2. Holds(own[conn(u)], <<u, count[u]>>) => Holds(own'[conn(u)], <<u, count'[u]>>)
        BY <1>1, <1>4, <2>1
    <2>3. OtherRaised(u) => OtherRaised(u)'
        BY <1>1, RaisedStays
    <2>4. CASE u = t
        BY <1>1, <1>5, <2>1, <2>4 DEF RowIsKept
    <2>5. CASE u # t
        BY <1>1, <2>1, <2>2, <2>3, <2>5 DEF LossInv, RowIsKept
    <2>6. QED BY <2>4, <2>5
<1>7. LossNeedsAnError'
    BY <1>1, NothingLost DEF LossInv, Stored
<1>8. QED
    BY <1>6, <1>7 DEF LossInv

LEMMA LossStep ==
    ASSUME StoreTypeInv, LossInv, [Next]_vars
    PROVE  LossInv'
<1>0. StoreTypes
    BY DEF StoreTypeInv
<1>1. CASE UNCHANGED vars
    BY <1>1, QuietKeeps DEF vars, connections, setting, conn
<1>2. ASSUME NEW t \in Thread, ReadHash(t) PROVE LossInv'
    <2>1. /\ UNCHANGED <<db, own, process, answer>>
          /\ \A u \in Thread : u # t => table'[u] = table[u] /\ count'[u] = count[u] /\ pc'[u] = pc[u]
          /\ pc'[t] = "insert"
        BY <1>0, <1>2 DEF ReadHash, setting, StoreTypes
    <2>2. QED
        BY <2>1, QuietKeeps DEF conn
<1>3. ASSUME NEW t \in Thread, Insert(t) PROVE LossInv'
    BY <1>3, InsertKeeps
<1>4. ASSUME NEW t \in Thread, InsertIsBusy(t) PROVE LossInv'
    BY <1>4, RaiseKeeps DEF InsertIsBusy, setting
<1>5. ASSUME NEW t \in Thread, StatementFails(t) PROVE LossInv'
    <2>1. \A c \in Connection : own'[c] = own[c] \/ (c = conn(t) /\ own'[c] = <<>>)
        BY <1>0, <1>5 DEF StatementFails, EndTransaction, StoreTypes
    <2>2. QED
        BY <1>5, <2>1, RaiseKeeps DEF StatementFails, setting
<1>6. ASSUME NEW t \in Thread, Collide(t) PROVE LossInv'
    BY <1>6, RaiseKeeps DEF Collide, connections, setting
<1>7. ASSUME NEW t \in Thread, Commit(t) PROVE LossInv'
    BY <1>7, CommitKeeps
<1>8. ASSUME NEW t \in Thread, QueryEvents(t) \/ QueryDecisions(t) PROVE LossInv'
    BY <1>8, QuietKeeps DEF QueryEvents, QueryDecisions, setting, conn
<1>9. ASSUME NEW p \in Process, Crash(p) PROVE LossInv'
    <2>1. UNCHANGED <<db, process, table, count, answer>>
        BY <1>9 DEF Crash, setting
    <2>2. ASSUME NEW u \in Thread, pc'[u] = "commit"
          PROVE  pc[u] = "commit" /\ own'[conn(u)] = own[conn(u)]
        <3>1. process[u] # p /\ pc[u] = "commit"
            BY <1>0, <1>9, <2>2 DEF Crash, StoreTypes
        <3>2. conn(u) \in Connection /\ conn(u)[1] # p
            BY <1>0, <3>1, ConnIsTyped DEF conn
        <3>3. QED BY <1>9, <3>1, <3>2 DEF Crash
    <2>3. QED
        BY <2>1, <2>2, QuietKeeps DEF conn
<1>10. QED
    BY <1>1, <1>2, <1>3, <1>4, <1>5, <1>6, <1>7, <1>8, <1>9 DEF Next, AppendStep

\* Threads that share a connection may lose each other's rows, but never in silence:
\* an append that returned and whose row is not in the file means that an append of
\* another thread of that process raised.
THEOREM LossNeedsAnErrorHolds == Spec => []LossNeedsAnError
<1>1. Init => LossInv
    BY DEF Init, LossInv, RowIsKept, LossNeedsAnError
<1>2. StoreTypeInv /\ LossInv /\ [Next]_vars => LossInv'
    BY LossStep
<1>3. LossInv => LossNeedsAnError
    BY DEF LossInv
<1>4. QED
    BY <1>1, <1>2, <1>3, StoreTypeInvHolds, PTL DEF Spec

-----------------------------------------------------------------------------
(* Callers that do not meet: one thread per process, or one append at a time *)

Busy(t) == pc[t] # "idle"

\* Two appends of one process never overlap.
Apart == Separate \/ in_turn

OneAtATime == in_turn => \A t, u \in Thread : Busy(t) /\ Busy(u) => t = u

\* Then a transaction holds at most one row: that of the thread about to commit it.
HoldsItsOwn(t) ==
    Apart /\ pc[t] = "commit" => open[conn(t)] /\ own[conn(t)] = <<NewRow(t)>>

HasOwner(c) ==
    Apart /\ own[c] # <<>> => \E t \in Thread : pc[t] = "commit" /\ conn(t) = c

SoleInv == /\ OneAtATime
           /\ \A t \in Thread : HoldsItsOwn(t)
           /\ \A c \in Connection : HasOwner(c)

LEMMA BusyAlone ==
    ASSUME Apart, OneAtATime, NEW t \in Thread, NEW u \in Thread, Busy(t), Busy(u),
           process[t] = process[u]
    PROVE  t = u
BY DEF Apart, OneAtATime, Separate

\* A step in which one thread ends its append and the rest stand still.
LEMMA EndKeepsSole ==
    ASSUME StoreTypes, SoleInv, NEW t \in Thread, Busy(t), UNCHANGED <<setting, table, prev, count>>,
           pc' = [pc EXCEPT ![t] = "idle"],
           \A c \in Connection : \/ own'[c] = own[c] /\ (open[c] => open'[c])
                                 \/ c = conn(t) /\ own'[c] = <<>>,
           Apart => own'[conn(t)] = <<>>
    PROVE  SoleInv'
<1>1. /\ \A u \in Thread : pc'[u] = IF u = t THEN "idle" ELSE pc[u]
      /\ Apart' <=> Apart
      /\ \A u \in Thread : conn(u)' = conn(u) /\ conn(u) \in Connection /\ NewRow(u)' = NewRow(u)
    BY ConnIsTyped DEF StoreTypes, setting, Apart, Separate, conn, NewRow
<1>2. OneAtATime'
    BY <1>1 DEF SoleInv, OneAtATime, Busy, setting
<1>3. ASSUME NEW u \in Thread, Apart, pc'[u] = "commit"
      PROVE  open'[conn(u)] /\ own'[conn(u)] = <<NewRow(u)>>
    <2>1. u # t /\ pc[u] = "commit" /\ Busy(u)
        BY <1>1, <1>3 DEF Busy
    <2>2. conn(u) # conn(t)
        BY <1>3, <2>1, BusyAlone DEF conn, SoleInv
    <2>3. open[conn(u)] /\ own[conn(u)] = <<NewRow(u)>>
        BY <1>3, <2>1 DEF SoleInv, HoldsItsOwn
    <2>4. QED
        BY <1>1, <2>2, <2>3
<1>4. ASSUME NEW u \in Thread PROVE HoldsItsOwn(u)'
    BY <1>1, <1>3 DEF HoldsItsOwn
<1>5. ASSUME NEW c \in Connection, Apart, own'[c] # <<>>
      PROVE  \E u \in Thread : pc'[u] = "commit" /\ conn(u)' = c
    <2>1. c # conn(t) /\ own[c] # <<>>
        BY <1>5
    <2>2. PICK u \in Thread : pc[u] = "commit" /\ conn(u) = c
        BY <1>5, <2>1 DEF SoleInv, HasOwner
    <2>3. QED
        BY <1>1, <2>1, <2>2
<1>6. ASSUME NEW c \in Connection PROVE HasOwner(c)'
    BY <1>1, <1>5 DEF HasOwner
<1>7. QED
    BY <1>2, <1>4, <1>6 DEF SoleInv

LEMMA SoleStep ==
    ASSUME StoreTypeInv, SoleInv, [Next]_vars
    PROVE  SoleInv'
<1>0. StoreTypes
    BY DEF StoreTypeInv
<1>1. UNCHANGED <<open, own, setting, pc, table, prev, count>> => SoleInv'
    BY DEF setting, SoleInv, OneAtATime, HoldsItsOwn, HasOwner, Apart, Separate, Busy,
       conn, NewRow
<1>2. ASSUME NEW t \in Thread, ReadHash(t) PROVE SoleInv'
    <2>1. /\ \A u \in Thread : pc'[u] = IF u = t THEN "insert" ELSE pc[u]
          /\ \A u \in Thread : u # t => /\ table'[u] = table[u] /\ prev'[u] = prev[u]
                                         /\ count'[u] = count[u]
          /\ UNCHANGED <<open, own, process, in_turn>> /\ pc[t] = "idle"
        BY <1>0, <1>2 DEF ReadHash, setting, StoreTypes
    <2>2. Apart' <=> Apart
        BY <2>1 DEF Apart, Separate
    <2>3. \A u \in Thread : u # t => conn(u)' = conn(u) /\ NewRow(u)' = NewRow(u)
        BY <2>1 DEF conn, NewRow
    <2>4. OneAtATime'
        <3>1. in_turn => \A u \in Thread : pc[u] = "idle"
            BY <1>2 DEF ReadHash
        <3>2. QED
            BY <2>1, <3>1 DEF OneAtATime, Busy
    <2>5. ASSUME NEW u \in Thread PROVE HoldsItsOwn(u)'
        BY <2>1, <2>2, <2>3 DEF HoldsItsOwn, SoleInv
    <2>6. ASSUME NEW c \in Connection PROVE HasOwner(c)'
        BY <2>1, <2>2, <2>3 DEF HasOwner, SoleInv
    <2>7. QED
        BY <2>4, <2>5, <2>6 DEF SoleInv
<1>3. ASSUME NEW t \in Thread, Insert(t) PROVE SoleInv'
    <2>1. /\ conn(t) \in Connection /\ pc[t] = "insert"
          /\ \A u \in Thread : pc'[u] = IF u = t THEN "commit" ELSE pc[u]
          /\ \A c \in Connection :
                 /\ own'[c] = IF c = conn(t) THEN Append(own[c], NewRow(t)) ELSE own[c]
                 /\ open'[c] = IF c = conn(t) THEN TRUE ELSE open[c]
          /\ UNCHANGED <<process, in_turn, table, prev, count>>
        BY <1>0, <1>3, ConnIsTyped DEF Insert, setting, StoreTypes
    <2>2. /\ Apart' <=> Apart
          /\ \A u \in Thread : conn(u)' = conn(u) /\ conn(u) \in Connection /\ NewRow(u)' = NewRow(u)
        BY <1>0, <2>1, ConnIsTyped DEF Apart, Separate, conn, NewRow
    <2>3. OneAtATime'
        BY <2>1 DEF SoleInv, OneAtATime, Busy
    <2>4. Apart => own[conn(t)] = <<>>
        <3>1. SUFFICES ASSUME Apart, own[conn(t)] # <<>> PROVE FALSE
            OBVIOUS
        <3>2. PICK u \in Thread : pc[u] = "commit" /\ conn(u) = conn(t)
            BY <2>1, <3>1 DEF SoleInv, HasOwner
        <3>3. u = t
            BY <2>1, <3>1, <3>2, BusyAlone DEF conn, Busy, SoleInv
        <3>4. QED BY <2>1, <3>2, <3>3
    <2>5. ASSUME NEW u \in Thread, Apart, pc'[u] = "commit"
          PROVE  open'[conn(u)] /\ own'[conn(u)] = <<NewRow(u)>>
        <3>1. CASE u = t
            <4>1. own'[conn(t)] = Append(<<>>, NewRow(t)) /\ open'[conn(t)]
                BY <2>1, <2>4, <2>5
            <4>2. Append(<<>>, NewRow(t)) = <<NewRow(t)>>
                OBVIOUS
            <4>3. QED BY <3>1, <4>1, <4>2
        <3>2. CASE u # t
            <4>1. conn(u) # conn(t) /\ pc[u] = "commit"
                BY <2>1, <2>5, <3>2, BusyAlone DEF conn, Busy, SoleInv
            <4>2. QED
                BY <2>1, <2>2, <2>5, <4>1 DEF SoleInv, HoldsItsOwn
        <3>3. QED BY <3>1, <3>2
    <2>6. ASSUME NEW u \in Thread PROVE HoldsItsOwn(u)'
        BY <2>2, <2>5 DEF HoldsItsOwn
    <2>7. ASSUME NEW c \in Connection PROVE HasOwner(c)'
        BY <2>1, <2>2 DEF HasOwner, SoleInv
    <2>8. QED
        BY <2>3, <2>6, <2>7 DEF SoleInv
<1>4. ASSUME NEW t \in Thread, InsertIsBusy(t) PROVE SoleInv'
    <2>1. conn(t) \in Connection /\ Busy(t)
        BY <1>0, <1>4, ConnIsTyped DEF InsertIsBusy, Busy
    <2>2. QED
        BY <1>0, <1>4, <2>1, EndKeepsSole DEF InsertIsBusy, Tell, StoreTypes
<1>5. ASSUME NEW t \in Thread, StatementFails(t) \/ Commit(t) PROVE SoleInv'
    <2>1. conn(t) \in Connection /\ Busy(t)
        BY <1>0, <1>5, ConnIsTyped DEF StatementFails, Commit, Busy
    <2>2. \A c \in Connection : /\ own'[c] = IF c = conn(t) THEN <<>> ELSE own[c]
                                /\ open'[c] = IF c = conn(t) THEN FALSE ELSE open[c]
        BY <1>0, <1>5 DEF StatementFails, Commit, EndTransaction, StoreTypes
    <2>3. QED
        BY <1>0, <1>5, <2>1, <2>2, EndKeepsSole DEF StatementFails, Commit, Tell
<1>6. ASSUME NEW t \in Thread, Collide(t) PROVE SoleInv'
    <2>1. conn(t) \in Connection /\ Busy(t)
        BY <1>0, <1>6, ConnIsTyped DEF Collide, Busy
    <2>2. Apart => own[conn(t)] = <<>>
        <3>1. SUFFICES ASSUME Apart, own[conn(t)] # <<>> PROVE FALSE
            OBVIOUS
        <3>2. PICK u \in Thread : pc[u] = "commit" /\ conn(u) = conn(t)
            BY <2>1, <3>1 DEF SoleInv, HasOwner
        <3>3. u = t
            BY <2>1, <3>1, <3>2, BusyAlone DEF conn, Busy, SoleInv
        <3>4. open[conn(t)]
            BY <3>1, <3>2, <3>3 DEF SoleInv, HoldsItsOwn
        <3>5. QED BY <1>6, <3>2, <3>3, <3>4 DEF Collide
    <2>3. QED
        BY <1>0, <1>6, <2>1, <2>2, EndKeepsSole DEF Collide, Tell, connections
<1>7. ASSUME NEW p \in Process, Crash(p) PROVE SoleInv'
    <2>1. /\ UNCHANGED <<process, in_turn, table, prev, count>>
          /\ \A u \in Thread : pc'[u] = IF process[u] = p THEN "idle" ELSE pc[u]
          /\ \A c \in Connection : /\ own'[c] = IF c[1] = p THEN <<>> ELSE own[c]
                                   /\ open'[c] <=> open[c] /\ c[1] # p
        BY <1>0, <1>7 DEF Crash, setting, StoreTypes
    <2>2. /\ Apart' <=> Apart
          /\ \A u \in Thread : /\ conn(u)' = conn(u) /\ conn(u) \in Connection
                               /\ NewRow(u)' = NewRow(u) /\ conn(u)[1] = process[u]
        BY <1>0, <2>1, ConnIsTyped DEF Apart, Separate, conn, NewRow
    <2>3. OneAtATime'
        BY <2>1 DEF SoleInv, OneAtATime, Busy
    <2>4. ASSUME NEW u \in Thread PROVE HoldsItsOwn(u)'
        BY <2>1, <2>2 DEF HoldsItsOwn, SoleInv
    <2>5. ASSUME NEW c \in Connection PROVE HasOwner(c)'
        BY <2>1, <2>2 DEF HasOwner, SoleInv
    <2>6. QED
        BY <2>3, <2>4, <2>5 DEF SoleInv
<1>8. ASSUME NEW t \in Thread, QueryEvents(t) \/ QueryDecisions(t) PROVE SoleInv'
    BY <1>1, <1>8 DEF QueryEvents, QueryDecisions
<1>9. UNCHANGED vars => SoleInv'
    BY <1>1 DEF vars, connections, setting
<1>10. QED
    BY <1>2, <1>3, <1>4, <1>5, <1>6, <1>7, <1>8, <1>9 DEF Next, AppendStep

LEMMA SoleInvHolds == Spec => []SoleInv
<1>1. Init => SoleInv
    BY DEF Init, SoleInv, OneAtATime, HoldsItsOwn, HasOwner, Busy
<1>2. StoreTypeInv /\ SoleInv /\ [Next]_vars => SoleInv'
    BY SoleStep
<1>3. QED
    BY <1>1, <1>2, StoreTypeInvHolds, PTL DEF Spec

-----------------------------------------------------------------------------
(* The promise of append()                                                  *)

promised == [i \in DOMAIN db |-> db[i].hash]

\* With a thread of its own for every process, a commit stores exactly the row of the
\* append it answers, and no other step touches the file.
LEMMA PromiseStep ==
    ASSUME StoreTypeInv, SoleInv, [Next]_vars
    PROVE  [Promise!Next]_(Promise!vars)
<1>0. StoreTypes
    BY DEF StoreTypeInv
<1>1. CASE ~ Separate
    <2>1. UNCHANGED process
        BY DEF vars, setting, Next, AppendStep, ReadHash, Insert, InsertIsBusy, StatementFails,
           Collide, Commit, QueryEvents, QueryDecisions, Crash
    <2>2. ~ Separate'
        BY <1>1, <2>1 DEF Separate
    <2>3. QED
        BY <1>1, <2>2 DEF Promise!vars
<1>2. ASSUME Separate, UNCHANGED <<db, process, answer>>
      PROVE  UNCHANGED Promise!vars
    BY <1>2 DEF Promise!vars, Separate
<1>3. ASSUME Separate, NEW t \in Thread, pc[t] # "idle", Tell(t, "raised"), UNCHANGED <<db, process>>
      PROVE  Promise!Next
    <2>1. <<t, count[t]>> \in Op /\ answer[<<t, count[t]>>] = "none"
        BY <1>3, TellSays DEF StoreTypeInv
    <2>2. Promise!Raise(<<t, count[t]>>)
        BY <1>3, <2>1 DEF Promise!Raise, Promise!Tell, Tell, Separate
    <2>3. QED
        BY <2>1, <2>2 DEF Promise!Next
<1>4. ASSUME Separate, NEW t \in Thread, Commit(t)
      PROVE  Promise!Next
    <2>1. /\ <<t, count[t]>> \in Op /\ answer[<<t, count[t]>>] = "none"
          /\ pc[t] = "commit" /\ UNCHANGED process
        BY <1>4, TellSays DEF Commit, setting, StoreTypeInv
    <2>2. own[conn(t)] = <<NewRow(t)>>
        BY <1>4, <2>1 DEF SoleInv, HoldsItsOwn, Apart
    <2>3. db' = Append(db, NewRow(t)) /\ NewRow(t).hash = <<t, count[t]>> /\ NewRow(t) \in Row
        <3>1. db' = db \o <<NewRow(t)>> /\ NewRow(t) \in Row
            BY <1>0, <1>4, <2>1, <2>2 DEF Commit, NewRow, Row, StoreTypes
        <3>2. QED BY <1>0, <3>1 DEF StoreTypes, NewRow
    <2>4. promised' = Append(promised, <<t, count[t]>>)
        <3>1. promised \in Seq(Op) /\ Len(promised) = Len(db) /\ Len(db) \in Nat
            <4>1. Len(db) \in Nat /\ DOMAIN db = 1..Len(db) /\ \A i \in 1..Len(db) : db[i].hash \in Op
                <5>1. Len(db) \in Nat /\ DOMAIN db = 1..Len(db) /\ \A i \in 1..Len(db) : db[i] \in Row
                    BY <1>0 DEF StoreTypes
                <5>2. \A row \in Row : row.hash \in Op
                    BY DEF Row
                <5>3. QED BY <5>1, <5>2
            <4>2. promised = [i \in 1..Len(db) |-> db[i].hash]
                BY <4>1 DEF promised
            <4>3. QED BY <4>1, <4>2
        <3>2. DOMAIN db' = 1..(Len(db) + 1)
            BY <1>0, <2>3 DEF StoreTypes
        <3>3. \A i \in 1..(Len(db) + 1) :
                  db'[i].hash = IF i = Len(db) + 1 THEN <<t, count[t]>> ELSE db[i].hash
            <4>1. db'[Len(db) + 1] = NewRow(t) /\ \A i \in 1..Len(db) : db'[i] = db[i]
                BY <1>0, <2>3 DEF StoreTypes
            <4>2. \A i \in 1..(Len(db) + 1) : i = Len(db) + 1 \/ i \in 1..Len(db)
                BY <3>1
            <4>3. QED BY <2>3, <4>1, <4>2
        <3>4. promised' = [i \in 1..(Len(db) + 1) |->
                              IF i = Len(db) + 1 THEN <<t, count[t]>> ELSE db[i].hash]
            BY <3>2, <3>3 DEF promised
        <3>5. Append(promised, <<t, count[t]>>) = [i \in 1..(Len(db) + 1) |->
                              IF i = Len(db) + 1 THEN <<t, count[t]>> ELSE promised[i]]
            BY <2>1, <3>1
        <3>6. \A i \in 1..(Len(db) + 1) : i # Len(db) + 1 => promised[i] = db[i].hash
            BY <1>0, <3>1 DEF promised, StoreTypes
        <3>7. QED BY <3>4, <3>5, <3>6
    <2>5. PICK op \in Op : op = <<t, count[t]>>
        BY <2>1
    <2>6. Promise!Store(op)
        BY <1>4, <2>1, <2>4, <2>5 DEF Promise!Store, Promise!Tell, Commit, Tell, Separate, promised
    <2>7. QED
        BY <2>6 DEF Promise!Next
<1>5. ASSUME Separate, NEW t \in Thread, AppendStep(t)
      PROVE  Promise!Next \/ UNCHANGED Promise!vars
    <2>1. CASE InsertIsBusy(t) \/ StatementFails(t) \/ Collide(t)
        BY <1>3, <1>5, <2>1 DEF InsertIsBusy, StatementFails, Collide, setting
    <2>2. CASE ReadHash(t) \/ Insert(t)
        BY <1>2, <1>5, <2>2 DEF ReadHash, Insert, setting
    <2>3. QED
        BY <1>4, <1>5, <2>1, <2>2 DEF AppendStep
<1>6. ASSUME Separate, \/ \E t \in Thread : QueryEvents(t) \/ QueryDecisions(t)
                       \/ \E p \in Process : Crash(p)
                       \/ UNCHANGED vars
      PROVE  UNCHANGED Promise!vars
    BY <1>2, <1>6 DEF QueryEvents, QueryDecisions, Crash, vars, setting
<1>7. QED
    BY <1>1, <1>5, <1>6 DEF Next

\* When no two threads share a connection, the stores keep the promise ToolProxy builds
\* on: append() adds its row at the end and returns, or raises and adds nothing, then
\* or later, whatever transactions, snapshots, refused locks and crashes do.
THEOREM AppendIsAtomic == Spec => KeepsAppendPromise
<1>1. Init => Promise!Init
    BY DEF Init, Promise!Init
<1>2. StoreTypeInv /\ SoleInv /\ [Next]_vars => [Promise!Next]_(Promise!vars)
    BY PromiseStep
<1>3. QED
    BY <1>1, <1>2, StoreTypeInvHolds, SoleInvHolds, PTL DEF Spec, KeepsAppendPromise, Promise!Spec

-----------------------------------------------------------------------------
(* Both chains verify when callers take turns                               *)

\* A connection whose transaction has no snapshot yet, or the newest one: only there
\* may an INSERT succeed.
UpToDate(c) == snapshot[c] \in {NoSnapshot, Len(db)}

\* The previous_hash an append will use is that of the last committed row of its table,
\* unless its connection is stuck on an old snapshot, where its INSERT is refused.
PrevIsLast(t) ==
    \/ pc[t] = "commit"
    \/ pc[t] = "insert" /\ UpToDate(conn(t))
    => IsLastHash(db, table[t], prev[t])

ChainInv == /\ in_turn => \A t \in Thread : PrevIsLast(t)
            /\ ChainsIntactInTurn

LEMMA WholeView ==
    ASSUME StoreTypes, NEW c \in Connection, UpToDate(c), own[c] = <<>>
    PROVE  View(c) = db
<1>1. db \in Seq(Row) /\ Len(db) \in Nat
    BY DEF StoreTypes
<1>2. SubSeq(db, 1, Len(db)) = db
    BY <1>1
<1>3. db \o <<>> = db
    BY <1>1
<1>4. QED
    BY <1>2, <1>3 DEF View, UpToDate

\* A row that cites the last hash of its table may be added.
LEMMA LinkedAppend ==
    ASSUME StoreTypes, NEW row \in Row, db' = db \o <<row>>,
           \A i \in DOMAIN db : Linked(i),
           IsLastHash(db, row.table, row.previous_hash)
    PROVE  \A i \in DOMAIN db' : Linked(i)'
<1>1. /\ Len(db) \in Nat /\ DOMAIN db = 1..Len(db) /\ DOMAIN db' = 1..(Len(db) + 1)
      /\ db'[Len(db) + 1] = row /\ \A i \in 1..Len(db) : db'[i] = db[i]
    BY DEF StoreTypes
<1>2. ASSUME NEW i \in 1..Len(db) PROVE Linked(i)'
    <2>1. Linked(i) /\ \A j \in 1..(i - 1) : j \in 1..Len(db)
        BY <1>1
    <2>2. {j \in 1..(i - 1) : db'[j].table = db'[i].table}
              = {j \in 1..(i - 1) : db[j].table = db[i].table}
        BY <1>1, <2>1
    <2>3. QED
        BY <1>1, <2>1, <2>2 DEF Linked
<1>3. ASSUME NEW n \in Int, n = Len(db) + 1 PROVE Linked(n)'
    <2>1. {j \in 1..(n - 1) : db'[j].table = db'[n].table} = rows_of(db, row.table)
        BY <1>1, <1>3 DEF rows_of
    <2>2. db'[n] = row /\ \A j \in rows_of(db, row.table) : db'[j] = db[j]
        BY <1>1, <1>3 DEF rows_of
    <2>3. QED
        BY <2>1, <2>2 DEF Linked, IsLastHash
<1>4. \A i \in DOMAIN db' : i \in Int /\ (i \in 1..Len(db) \/ i = Len(db) + 1)
    BY <1>1
<1>5. QED
    BY <1>2, <1>3, <1>4

LEMMA ReadPrev ==
    ASSUME StoreTypes, SoleInv, in_turn, NEW t \in Thread, ReadHash(t)
    PROVE  PrevIsLast(t)'
<1>1. PICK tab \in Table, h \in Hash :
          /\ IsLastHash(View(<<process[t], tab>>), tab, h)
          /\ table' = [table EXCEPT ![t] = tab] /\ prev' = [prev EXCEPT ![t] = h]
          /\ Select(<<process[t], tab>>)
    BY DEF ReadHash
<1> DEFINE c == <<process[t], tab>>
<1>2. UNCHANGED <<db, process>> /\ table'[t] = tab /\ prev'[t] = h /\ c \in Connection
    BY <1>1 DEF ReadHash, setting, StoreTypes, Connection
<1>3. conn(t)' = c
    BY <1>2 DEF conn
<1>4. own[c] = <<>>
    <2>1. \A u \in Thread : pc[u] = "idle"
        BY DEF ReadHash
    <2>2. QED BY <1>2, <2>1 DEF SoleInv, HasOwner, Apart
<1>5. CASE UpToDate(c)
    <2>1. View(c) = db
        BY <1>2, <1>4, <1>5, WholeView
    <2>2. IsLastHash(db, tab, h)
        BY <1>1, <2>1
    <2>3. QED
        BY <1>2, <2>2 DEF PrevIsLast
<1>6. CASE ~ UpToDate(c)
    <2>1. snapshot'[c] = snapshot[c]
        BY <1>1, <1>2, <1>6 DEF Select, UpToDate, StoreTypes
    <2>2. pc'[t] = "insert"
        BY DEF ReadHash, StoreTypes
    <2>3. snapshot'[c] \notin {NoSnapshot, Len(db')}
        BY <1>2, <1>6, <2>1 DEF UpToDate
    <2>4. QED
        BY <1>3, <2>2, <2>3 DEF PrevIsLast, UpToDate
<1>7. QED
    BY <1>5, <1>6

LEMMA StillLast ==
    ASSUME UNCHANGED db, NEW u \in Thread, PrevIsLast(u),
           pc'[u] # "idle" =>
               /\ pc'[u] = pc[u] /\ conn(u)' = conn(u)
               /\ table'[u] = table[u] /\ prev'[u] = prev[u]
               /\ snapshot'[conn(u)] \in {NoSnapshot, Len(db)} => UpToDate(conn(u))
    PROVE  PrevIsLast(u)'
BY DEF PrevIsLast, UpToDate

LEMMA ChainStep ==
    ASSUME StoreTypeInv, SoleInv, ChainInv, [Next]_vars
    PROVE  ChainInv'
<1>0. StoreTypes /\ UNCHANGED in_turn
    BY DEF StoreTypeInv, vars, setting, Next, AppendStep, ReadHash, Insert, InsertIsBusy,
       StatementFails, Collide, Commit, QueryEvents, QueryDecisions, Crash
<1> SUFFICES ASSUME in_turn
             PROVE  (\A u \in Thread : PrevIsLast(u)') /\ \A i \in DOMAIN db' : Linked(i)'
    BY <1>0 DEF ChainInv, ChainsIntactInTurn
<1>1. (\A u \in Thread : PrevIsLast(u)) /\ \A i \in DOMAIN db : Linked(i)
    BY DEF ChainInv, ChainsIntactInTurn
<1>2. UNCHANGED db => \A i \in DOMAIN db' : Linked(i)'
    BY <1>1 DEF Linked
<1>3. \A t, u \in Thread : pc[t] # "idle" /\ u # t => pc[u] = "idle"
    BY DEF SoleInv, OneAtATime, Busy
<1>4. CASE UNCHANGED vars
    BY <1>1, <1>2, <1>4, StillLast DEF vars, conn, UpToDate
<1>5. ASSUME NEW t \in Thread, ReadHash(t) PROVE \A u \in Thread : PrevIsLast(u)'
    <2>1. \A u \in Thread : u # t => pc'[u] = "idle"
        BY <1>0, <1>5 DEF ReadHash, StoreTypes
    <2>2. \A u \in Thread : u # t => PrevIsLast(u)'
        BY <2>1 DEF PrevIsLast
    <2>3. PrevIsLast(t)'
        BY <1>0, <1>5, ReadPrev
    <2>4. QED BY <2>2, <2>3
<1>6. ASSUME NEW t \in Thread, Insert(t) PROVE \A u \in Thread : PrevIsLast(u)'
    <2>1. \A u \in Thread : u # t => PrevIsLast(u)'
        BY <1>0, <1>3, <1>6 DEF Insert, StoreTypes, PrevIsLast
    <2>2. UpToDate(conn(t)) /\ pc[t] = "insert"
        BY <1>6 DEF Insert, MayWrite, UpToDate
    <2>3. IsLastHash(db, table[t], prev[t])
        BY <1>1, <2>2 DEF PrevIsLast
    <2>4. QED
        BY <1>6, <2>1, <2>3 DEF Insert, PrevIsLast
<1>7. ASSUME NEW t \in Thread, pc[t] # "idle", pc' = [pc EXCEPT ![t] = "idle"]
      PROVE  \A u \in Thread : PrevIsLast(u)'
    BY <1>0, <1>3, <1>7 DEF StoreTypes, PrevIsLast
<1>8. ASSUME NEW t \in Thread, Commit(t) PROVE \A i \in DOMAIN db' : Linked(i)'
    <2>1. pc[t] = "commit" /\ own[conn(t)] = <<NewRow(t)>>
        BY <1>8 DEF Commit, SoleInv, HoldsItsOwn, Apart
    <2>2. NewRow(t) \in Row /\ NewRow(t).table = table[t] /\ NewRow(t).previous_hash = prev[t]
        <3>1. <<t, count[t]>> \in Op
            BY <2>1 DEF StoreTypeInv, AnswersAreNew
        <3>2. QED BY <1>0, <3>1 DEF NewRow, Row, StoreTypes
    <2>3. db' = db \o <<NewRow(t)>>
        BY <1>8, <2>1 DEF Commit
    <2>4. IsLastHash(db, NewRow(t).table, NewRow(t).previous_hash)
        BY <1>1, <2>1, <2>2 DEF PrevIsLast
    <2>5. QED
        BY <1>0, <1>1, <2>2, <2>3, <2>4, LinkedAppend
<1>9. ASSUME NEW t \in Thread, NEW c \in Connection, pc[t] = "idle", Select(c),
             UNCHANGED <<db, setting, pc, table, prev>>
      PROVE  \A u \in Thread : PrevIsLast(u)'
    <2>1. \A d \in Connection : snapshot'[d] \in {NoSnapshot, Len(db)} => UpToDate(d)
        BY <1>0, <1>9 DEF Select, UpToDate, StoreTypes
    <2>2. \A u \in Thread : conn(u)' = conn(u) /\ conn(u) \in Connection
        BY <1>0, <1>9, ConnIsTyped DEF conn, setting
    <2>3. QED
        BY <1>1, <1>9, <2>1, <2>2, StillLast
<1>10. ASSUME NEW p \in Process, Crash(p) PROVE \A u \in Thread : PrevIsLast(u)'
    <2>1. /\ UNCHANGED <<db, process, table, prev>>
          /\ \A u \in Thread : pc'[u] = IF process[u] = p THEN "idle" ELSE pc[u]
          /\ \A c \in Connection : snapshot'[c] = IF c[1] = p THEN NoSnapshot ELSE snapshot[c]
        BY <1>0, <1>10 DEF Crash, setting, StoreTypes
    <2>2. \A u \in Thread : conn(u)' = conn(u) /\ conn(u) \in Connection /\ conn(u)[1] = process[u]
        BY <1>0, <2>1, ConnIsTyped DEF conn
    <2>3. QED
        BY <1>1, <2>1, <2>2, StillLast DEF UpToDate
<1>11. ASSUME NEW t \in Thread, AppendStep(t)
       PROVE  (\A u \in Thread : PrevIsLast(u)') /\ \A i \in DOMAIN db' : Linked(i)'
    <2>1. CASE ReadHash(t)
        BY <1>2, <1>5, <2>1 DEF ReadHash
    <2>2. CASE Insert(t)
        BY <1>2, <1>6, <2>2 DEF Insert
    <2>3. CASE InsertIsBusy(t) \/ StatementFails(t) \/ Collide(t)
        BY <1>2, <1>7, <2>3 DEF InsertIsBusy, StatementFails, Collide, Tell
    <2>4. CASE Commit(t)
        BY <1>7, <1>8, <2>4 DEF Commit, Tell
    <2>5. QED BY <1>11, <2>1, <2>2, <2>3, <2>4 DEF AppendStep
<1>12. ASSUME NEW t \in Thread, QueryEvents(t) \/ QueryDecisions(t)
       PROVE  (\A u \in Thread : PrevIsLast(u)') /\ \A i \in DOMAIN db' : Linked(i)'
    <2>1. PICK c \in Connection : Select(c)
        BY <1>0, <1>12 DEF QueryEvents, QueryDecisions, Connection, Table, StoreTypes
    <2>2. QED
        BY <1>2, <1>9, <1>12, <2>1 DEF QueryEvents, QueryDecisions
<1>13. ASSUME NEW p \in Process, Crash(p)
       PROVE  (\A u \in Thread : PrevIsLast(u)') /\ \A i \in DOMAIN db' : Linked(i)'
    BY <1>2, <1>10, <1>13 DEF Crash
<1>14. CASE Next
    BY <1>11, <1>12, <1>13, <1>14 DEF Next
<1>15. QED
    BY <1>2, <1>4, <1>14 DEF vars

\* When callers take turns, whoever they are and whatever earlier errors, open
\* transactions, stale snapshots and crashes have left behind, every row of the file
\* cites the row of its own table before it: verify_chain() has nothing to report.
THEOREM ChainsIntactInTurnHolds == Spec => []ChainsIntactInTurn
<1>1. Init => ChainInv
    BY DEF Init, ChainInv, ChainsIntactInTurn, PrevIsLast
<1>2. StoreTypeInv /\ SoleInv /\ ChainInv /\ [Next]_vars => ChainInv'
    BY ChainStep
<1>3. ChainInv => ChainsIntactInTurn
    BY DEF ChainInv
<1>4. QED
    BY <1>1, <1>2, <1>3, StoreTypeInvHolds, SoleInvHolds, PTL DEF Spec

=============================================================================
