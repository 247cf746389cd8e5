---------------------------- MODULE StoreProofs ----------------------------
(***************************************************************************)
(* What the message log promises for every queue, batch and transaction    *)
(* size, every number of clearers and every bound: types, the order of     *)
(* ids, one place for each message, statistics that can be read, what      *)
(* these statistics count, and the order of what the queries list.         *)
(* And what the alerter promises, which reads the log, for any window,     *)
(* period, timeout and thresholds: it tells of no message twice, and a     *)
(* breach that lasts is told in bounded time.                              *)
(***************************************************************************)
EXTENDS Store, Alerter, FiniteSetTheorems, WellFoundedInduction, TLAPS

USE DEF QueueFull, BatchDue, NextId, FlushReturns, clearVars, dbVars

\* The visible entries are some of the entries written (badger.go:137-146).
LEMMA VisibleSubset == ASSUME NEW S PROVE Visible(S) \subseteq S
BY DEF Visible

\* The statistics stay well-formed when flush counts a message (badger.go:149-160).
LEMMA CountType ==
  ASSUME NEW s \in Stats, NEW m \in Message PROVE Count(s, m) \in Stats
<1> DEFINE sh == m.shape
<1>1. sh.latency \in Nat /\ sh.bytes \in Nat
  BY StoreAssumption DEF Message
<1>2. \A b : One(b) \in Nat
  BY DEF One
<1>3. /\ s.messages + 1 \in Nat
      /\ s.requests + One(m.shape.type = "request") \in Nat
      /\ s.errors + One(m.shape.err) \in Nat
      /\ s.latency + m.shape.latency \in Nat
      /\ s.bytes + m.shape.bytes \in Nat
  <2> HIDE DEF One
  <2>1. One(m.shape.type = "request") \in Nat /\ One(m.shape.err) \in Nat
    BY <1>2
  <2> QED  BY <1>1, <2>1 DEF Stats
<1> QED  BY <1>3 DEF Count, Stats

LEMMA ZeroStatsType == ZeroStats \in Stats
BY DEF ZeroStats, Stats

\* Opening a transaction yields a well-formed one (badger.go:116-131).
LEMMA OpenTxnType == TypeOK => OpenTxn \in Txn
BY ZeroStatsType, StoreAssumption DEF TypeOK, OpenTxn, Txn

\* Receiving from the queue leaves well-formed sequences (badger.go:100-101).
LEMMA ReceiveType ==
  ASSUME TypeOK, txn = NoTxn, queue # <<>>, Len(batch) < BatchSize
  PROVE  /\ Append(batch, Head(queue)) \in Seq(Message)
         /\ Len(Append(batch, Head(queue))) = Len(batch) + 1
         /\ Tail(queue) \in Seq(Message)
         /\ Len(Tail(queue)) = Len(queue) - 1
BY DEF TypeOK
-----------------------------------------------------------------------------
(***************************************************************************)
(* Types.  TypeOK alone is not inductive: the batch stays within BatchSize *)
(* because a full one is always being flushed.                             *)
(***************************************************************************)
BatchInv ==
  /\ txn = NoTxn => Len(batch) < BatchSize
  /\ txn # NoTxn => txn.done <= Len(batch)

TypeInv == TypeOK /\ BatchInv

LEMMA TypeInit == Init => TypeInv
<1> SUFFICES ASSUME Init PROVE TypeInv
  OBVIOUS
<1>1. queue = <<>> /\ batch = <<>> /\ txn = NoTxn
  BY DEF Init
<1>2. /\ queue \in Seq(Message) /\ Len(queue) <= QueueCap
      /\ batch \in Seq(Message) /\ Len(batch) < BatchSize
  BY <1>1, StoreAssumption
<1>3. Len(batch) <= BatchSize /\ txn \in Txn \union {NoTxn}
  BY <1>1, StoreAssumption
<1>4. stats \in Stats /\ clearing \in [Clearers -> {"idle", "counted", "dropping", "dropped"}]
  BY ZeroStatsType DEF Init
<1>5. /\ up \in BOOLEAN /\ blockWrites \in BOOLEAN
      /\ overlapped \in BOOLEAN
  BY Zenon DEF Init
<1>6. /\ session \in Nat /\ nextMsg \in Nat \ {0} /\ idCounter \in Nat
      /\ clears \in Nat /\ epoch \in Nat
  BY DEF Init
<1>7. entries \subseteq Entry /\ expired \subseteq Entry
  BY DEF Init
<1>8. TypeOK
  BY <1>2, <1>3, <1>4, <1>5, <1>6, <1>7 DEF TypeOK
<1> QED  BY <1>1, <1>2, <1>8 DEF TypeInv, BatchInv

LEMMA InsertType ==
  ASSUME TypeInv, NEW shape \in Shapes, NEW t \in Stamps, Insert(shape, t)
  PROVE  TypeInv'
<1> DEFINE m == [n |-> nextMsg, ts |-> <<session, t>>, shape |-> shape]
<1>1. m \in Message
  BY DEF TypeInv, TypeOK, Message
<1>2. queue' \in Seq(Message) /\ Len(queue') <= QueueCap
  <2>1. CASE QueueFull
    BY <2>1 DEF Insert, TypeInv, TypeOK
  <2>2. CASE ~QueueFull
    <3> HIDE DEF m
    <3>1. queue' = Append(queue, m)
      BY <2>2 DEF Insert, m
    <3>2. queue \in Seq(Message) /\ Len(queue) < QueueCap
      BY <2>2, StoreAssumption DEF TypeInv, TypeOK
    <3> QED  BY <1>1, <3>1, <3>2, StoreAssumption
  <2> QED  BY <2>1, <2>2
<1>3. nextMsg' \in Nat \ {0}
  BY DEF Insert, TypeInv, TypeOK
<1> QED  BY <1>2, <1>3 DEF Insert, TypeInv, TypeOK, BatchInv, Txn

LEMMA DrainReceiveType == TypeInv /\ DrainReceive => TypeInv'
<1> SUFFICES ASSUME TypeInv, DrainReceive PROVE TypeInv'
  OBVIOUS
<1>1. /\ batch' \in Seq(Message) /\ Len(batch') = Len(batch) + 1
      /\ queue' \in Seq(Message) /\ Len(queue') = Len(queue) - 1
  BY ReceiveType DEF DrainReceive, TypeInv, BatchInv
<1>2. Len(batch) \in Nat /\ Len(queue) \in Nat /\ Len(batch) < BatchSize
  BY DEF DrainReceive, TypeInv, TypeOK, BatchInv
<1>3. txn' \in Txn \union {NoTxn} /\ BatchInv'
  <2>1. CASE Len(batch') >= BatchSize
    <3>1. txn' = OpenTxn /\ OpenTxn \in Txn /\ OpenTxn.done = 0
      BY <2>1, OpenTxnType DEF DrainReceive, TypeInv, OpenTxn
    <3> QED  BY <1>1, <1>2, <3>1, SentinelAssumption DEF BatchInv
  <2>2. CASE ~(Len(batch') >= BatchSize)
    <3>1. txn' = NoTxn
      BY <2>2 DEF DrainReceive
    <3> QED  BY <1>1, <1>2, <2>2, <3>1, StoreAssumption DEF BatchInv
  <2> QED  BY <2>1, <2>2
<1>4. Len(queue') <= QueueCap /\ Len(batch') <= BatchSize
  BY <1>1, <1>2, StoreAssumption DEF TypeInv, TypeOK
<1> QED  BY <1>1, <1>3, <1>4 DEF DrainReceive, TypeInv, TypeOK

LEMMA TickerFiresType == TypeInv /\ TickerFires => TypeInv'
<1> SUFFICES ASSUME TypeInv, TickerFires PROVE TypeInv'
  OBVIOUS
<1>1. Len(batch) \in Nat
  BY DEF TypeInv, TypeOK
<1>2. txn' \in Txn \union {NoTxn} /\ BatchInv'
  <2>1. CASE BatchDue
    <3>1. txn' = OpenTxn /\ OpenTxn \in Txn /\ OpenTxn.done = 0 /\ batch' = batch
      BY <2>1, OpenTxnType DEF TickerFires, TypeInv, OpenTxn
    <3> QED  BY <1>1, <3>1, SentinelAssumption DEF BatchInv
  <2>2. CASE ~BatchDue
    BY <2>2 DEF TickerFires, TypeInv, BatchInv
  <2> QED  BY <2>1, <2>2
<1> QED  BY <1>2 DEF TickerFires, TypeInv, TypeOK

\* The two ways a turn of flush's loop ends (badger.go:132-146).
RecordTxn(m) ==
  [txn EXCEPT !.done = @ + 1,
              !.bytes = @ + m.shape.bytes,
              !.writes = @ \union {[msg |-> m, id |-> NextId, epoch |-> epoch]},
              !.stats = Count(@, m)]

LEMMA RecordOutcome ==
  ASSUME TypeInv, FlushRecord
  PROVE  /\ txn \in Txn /\ txn # NoTxn /\ txn.done + 1 \in 1 .. Len(batch)
         /\ batch[txn.done + 1] \in Message
         /\ \/ txn' = NoTxn /\ batch' = <<>>
            \/ /\ txn' = RecordTxn(batch[txn.done + 1]) /\ txn' \in Txn /\ txn' # NoTxn
               /\ batch' = batch
<1>1. txn \in Txn /\ txn # NoTxn /\ txn.done \in Nat /\ txn.done + 1 \in 1 .. Len(batch)
  BY DEF FlushRecord, TypeInv, TypeOK, Txn
<1> DEFINE m == batch[txn.done + 1]
<1>2. m \in Message
  BY <1>1 DEF TypeInv, TypeOK
<1>3. \/ txn' = NoTxn /\ batch' = <<>>
      \/ txn' = RecordTxn(m) /\ batch' = batch
  BY DEF FlushRecord, RecordTxn
<1>4. RecordTxn(m) \in Txn
  <2> HIDE DEF m
  <2>1. txn.done + 1 \in 0 .. BatchSize
    BY <1>1, StoreAssumption DEF TypeInv, TypeOK
  <2>2. txn.bytes + m.shape.bytes \in Nat
    BY <1>1, <1>2, StoreAssumption DEF Message, Txn
  <2>3. [msg |-> m, id |-> NextId, epoch |-> epoch] \in Entry
    BY <1>2 DEF TypeInv, TypeOK, Entry
  <2>4. Count(txn.stats, m) \in Stats
    BY <1>1, <1>2, CountType DEF Txn
  <2>5. RecordTxn(m) =
          [txn EXCEPT !.done = txn.done + 1,
                      !.bytes = txn.bytes + m.shape.bytes,
                      !.writes = txn.writes \union {[msg |-> m, id |-> NextId, epoch |-> epoch]},
                      !.stats = Count(txn.stats, m)]
    BY DEF RecordTxn
  <2>6. txn.writes \union {[msg |-> m, id |-> NextId, epoch |-> epoch]} \in SUBSET Entry
    BY <1>1, <2>3 DEF Txn
  <2> QED  BY <1>1, <2>1, <2>2, <2>4, <2>5, <2>6 DEF Txn
<1> QED  BY <1>1, <1>2, <1>3, <1>4, SentinelAssumption

LEMMA FlushRecordType == TypeInv /\ FlushRecord => TypeInv'
<1> SUFFICES ASSUME TypeInv, FlushRecord PROVE TypeInv'
  OBVIOUS
<1>1. idCounter' \in Nat /\ overlapped' \in BOOLEAN
  BY DEF FlushRecord, TypeInv, TypeOK
<1>2. /\ txn' \in Txn \union {NoTxn} /\ BatchInv'
      /\ batch' \in Seq(Message) /\ Len(batch') <= BatchSize
  <2>1. CASE txn' = NoTxn /\ batch' = <<>>
    BY <2>1, StoreAssumption DEF BatchInv
  <2>2. CASE /\ txn' = RecordTxn(batch[txn.done + 1]) /\ txn' \in Txn /\ txn' # NoTxn
             /\ batch' = batch
    <3>1. txn'.done = txn.done + 1 /\ txn.done + 1 \in 1 .. Len(batch)
      BY <2>2, RecordOutcome DEF RecordTxn, Txn
    <3> QED  BY <2>2, <3>1 DEF TypeInv, TypeOK, BatchInv
  <2> QED  BY <2>1, <2>2, RecordOutcome
<1> QED  BY <1>1, <1>2 DEF FlushRecord, TypeInv, TypeOK

LEMMA FlushCommitType == TypeInv /\ FlushCommit => TypeInv'
<1> SUFFICES ASSUME TypeInv, FlushCommit PROVE TypeInv'
  OBVIOUS
<1>1. txn \in Txn /\ txn.stats \in Stats /\ txn.writes \subseteq Entry
  BY DEF FlushCommit, TypeInv, TypeOK, Txn
<1>2. Visible(entries \union txn.writes) \subseteq Entry
  BY <1>1, VisibleSubset DEF TypeInv, TypeOK
<1>3. txn' = NoTxn /\ batch' = <<>> /\ BatchInv'
  BY StoreAssumption DEF FlushCommit, BatchInv
<1>4. /\ entries' \subseteq Entry /\ stats' \in Stats \union {NoStats}
      /\ expired' = expired /\ overlapped' \in BOOLEAN
  BY <1>1, <1>2 DEF FlushCommit, TypeInv, TypeOK
<1> QED  BY <1>3, <1>4, StoreAssumption DEF FlushCommit, TypeInv, TypeOK

LEMMA ClearType ==
  ASSUME TypeInv, NEW c \in Clearers,
         ClearCounter(c) \/ ClearDropBegin(c) \/ ClearDropEnd(c) \/ ClearStats(c)
  PROVE  TypeInv'
<1>1. CASE ClearCounter(c)
  BY <1>1 DEF ClearCounter, TypeInv, TypeOK, BatchInv
<1>2. CASE ClearDropBegin(c)
  BY <1>2 DEF ClearDropBegin, TypeInv, TypeOK, BatchInv
<1>3. CASE ClearDropEnd(c)
  BY <1>3 DEF ClearDropEnd, TypeInv, TypeOK, BatchInv
<1>4. CASE ClearStats(c)
  <2>1. txn' \in Txn \union {NoTxn} /\ BatchInv'
    <3>1. CASE txn = NoTxn
      BY <1>4, <3>1 DEF ClearStats, TypeInv, BatchInv
    <3>2. CASE txn # NoTxn
      <4>1. txn \in Txn
        BY <3>2 DEF TypeInv, TypeOK
      <4>2. txn' = txn \/ txn' = [txn EXCEPT !.conflict = TRUE]
        BY <1>4, <3>2 DEF ClearStats
      <4>3. txn' \in Txn /\ txn'.done = txn.done /\ batch' = batch
        BY <1>4, <4>1, <4>2 DEF ClearStats, Txn
      <4> QED  BY <3>2, <4>3, SentinelAssumption DEF TypeInv, BatchInv
    <3> QED  BY <3>1, <3>2
  <2>2. stats' \in Stats \union {NoStats}
    BY <1>4, ZeroStatsType DEF ClearStats, TypeInv, TypeOK
  <2> QED  BY <1>4, <2>1, <2>2 DEF ClearStats, TypeInv, TypeOK
<1> QED  BY <1>1, <1>2, <1>3, <1>4

LEMMA RestType ==
  ASSUME TypeInv, Expire \/ Exit \/ New \/ UNCHANGED vars
  PROVE  TypeInv'
<1>1. CASE Expire
  BY <1>1 DEF Expire, TypeInv, TypeOK, BatchInv
<1>2. CASE Exit
  <2>1. queue' = <<>> /\ batch' = <<>> /\ txn' = NoTxn
    BY <1>2 DEF Exit
  <2>2. /\ queue' \in Seq(Message) /\ Len(queue') <= QueueCap
        /\ batch' \in Seq(Message) /\ Len(batch') < BatchSize
    BY <2>1, StoreAssumption
  <2>3. Len(batch') <= BatchSize /\ txn' \in Txn \union {NoTxn}
    BY <2>1, StoreAssumption
  <2>4. TypeOK'
    BY <1>2, <2>2, <2>3 DEF Exit, TypeInv, TypeOK
  <2> QED  BY <2>1, <2>2, <2>4 DEF TypeInv, BatchInv
<1>3. CASE New
  <2>1. RecoveredCount \in Nat /\ RecoveredStats \in Stats
    BY ZeroStatsType DEF RecoveredCount, RecoveredStats, Stats, TypeInv, TypeOK
  <2> QED  BY <1>3, <2>1 DEF New, TypeInv, TypeOK, BatchInv
<1>4. CASE UNCHANGED vars
  BY <1>4 DEF vars, TypeInv, TypeOK, BatchInv
<1> QED  BY <1>1, <1>2, <1>3, <1>4

LEMMA TypeStep == TypeInv /\ [Next]_vars => TypeInv'
BY InsertType, DrainReceiveType, TickerFiresType, FlushRecordType, FlushCommitType,
   ClearType, RestType DEF Next

\* Every reachable state is well-formed, and neither the queue channel nor the
\* drain goroutine's batch ever outgrows its capacity (badger.go:64, 83-113).
THEOREM StoreTypes == Spec => []TypeOK
<1>1. TypeInv => TypeOK
  BY DEF TypeInv
<1> QED  BY TypeInit, TypeStep, <1>1, PTL DEF Spec
-----------------------------------------------------------------------------
(***************************************************************************)
(* The statistics stay readable.  Two Clear calls may fail each other, so  *)
(* the argument needs to know that commits are refused exactly while one   *)
(* call is inside DropAll: a reset that is refused leaves another call     *)
(* that still has its own reset to do.                                     *)
(***************************************************************************)
DropInv ==
  /\ \A c, d \in Clearers : clearing[c] = "dropping" /\ clearing[d] = "dropping" => c = d
  /\ blockWrites <=> \E c \in Clearers : clearing[c] = "dropping"
  /\ StatsReadable

LEMMA DropInit == TypeOK /\ Init => DropInv
<1> SUFFICES ASSUME TypeOK, Init PROVE DropInv
  OBVIOUS
<1>1. \A c \in Clearers : clearing[c] = "idle"
  BY DEF Init
<1>2. blockWrites = FALSE /\ stats # NoStats
  BY ZeroStatsType, SentinelAssumption DEF Init
<1> QED  BY <1>1, <1>2 DEF DropInv, StatsReadable

LEMMA DropByClear ==
  ASSUME TypeOK, DropInv, NEW c \in Clearers,
         ClearCounter(c) \/ ClearDropBegin(c) \/ ClearDropEnd(c) \/ ClearStats(c)
  PROVE  DropInv'
<1>0. /\ clearing \in [Clearers -> {"idle", "counted", "dropping", "dropped"}]
      /\ blockWrites \in BOOLEAN
  BY DEF TypeOK
<1>1. CASE ClearCounter(c)
  BY <1>0, <1>1 DEF ClearCounter, DropInv, StatsReadable
<1>2. CASE ClearDropBegin(c)
  BY <1>0, <1>2 DEF ClearDropBegin, DropInv, StatsReadable
<1>3. CASE ClearDropEnd(c)
  BY <1>0, <1>3 DEF ClearDropEnd, DropInv, StatsReadable
<1>4. CASE ClearStats(c)
  <2>1. /\ \A d \in Clearers : clearing'[d] = IF d = c THEN "idle" ELSE clearing[d]
        /\ clearing[c] = "dropped" /\ blockWrites' = blockWrites /\ up' = up
    BY <1>0, <1>4 DEF ClearStats
  <2>2. CASE blockWrites
    BY <2>1, <2>2 DEF DropInv, StatsReadable
  <2>3. CASE ~blockWrites
    <3>1. stats' # NoStats
      BY <1>4, <2>3, ZeroStatsType, SentinelAssumption DEF ClearStats
    <3> QED  BY <2>1, <2>3, <3>1 DEF DropInv, StatsReadable
  <2> QED  BY <2>2, <2>3
<1> QED  BY <1>1, <1>2, <1>3, <1>4

LEMMA DropByOthers ==
  ASSUME TypeInv, DropInv,
         \/ \E shape \in Shapes, t \in Stamps : Insert(shape, t)
         \/ DrainReceive \/ TickerFires \/ FlushRecord \/ FlushCommit
         \/ Expire \/ Exit \/ New \/ UNCHANGED vars
  PROVE  DropInv'
<1>1. CASE \E shape \in Shapes, t \in Stamps : Insert(shape, t)
  BY <1>1 DEF Insert, DropInv, StatsReadable
<1>2. CASE DrainReceive \/ TickerFires \/ FlushRecord \/ Expire
  BY <1>2 DEF DrainReceive, TickerFires, FlushRecord, Expire, DropInv, StatsReadable
<1>3. CASE FlushCommit
  <2>1. txn.stats \in Stats
    BY <1>3 DEF FlushCommit, TypeInv, TypeOK, Txn
  <2>2. stats' = stats \/ stats' # NoStats
    BY <1>3, <2>1, SentinelAssumption DEF FlushCommit
  <2> QED  BY <1>3, <2>2 DEF FlushCommit, DropInv, StatsReadable
<1>4. CASE Exit
  BY <1>4 DEF Exit, DropInv, StatsReadable
<1>5. CASE New
  <2>1. stats' # NoStats
    BY <1>5, ZeroStatsType, SentinelAssumption DEF New, RecoveredStats
  <2> QED  BY <1>5, <2>1 DEF New, DropInv, StatsReadable
<1>6. CASE UNCHANGED vars
  BY <1>6 DEF vars, DropInv, StatsReadable
<1> QED  BY <1>1, <1>2, <1>3, <1>4, <1>5, <1>6

\* While the process runs, the key the dashboard's statistics are read from
\* (badger.go:215-227) is missing only between some Clear's DropAll and its
\* reset (badger.go:264-271), however many Clear calls run together.
THEOREM StoreStatsReadable == Spec => []StatsReadable
<1>1. Init => TypeInv /\ DropInv
  BY TypeInit, DropInit DEF TypeInv
<1>2. TypeInv /\ DropInv /\ [Next]_vars => TypeInv' /\ DropInv'
  BY TypeStep, DropByClear, DropByOthers DEF Next, TypeInv
<1>3. DropInv => StatsReadable
  BY DEF DropInv
<1> QED  BY <1>1, <1>2, <1>3, PTL DEF Spec
-----------------------------------------------------------------------------
(***************************************************************************)
(* Where a message is and which id it gets.  Messages move from the queue  *)
(* to the batch to the database in the order of their Insert calls, so     *)
(* whatever is committed is older than whatever waits; with that, a flush  *)
(* that fails, a Clear that resets the counter under a running flush, and  *)
(* a restart cannot store a message twice or give ids against the order.   *)
(***************************************************************************)
\* In memory: the queue and the batch are in order, and the batch is older.
LineInv ==
  /\ \A i, j \in 1 .. Len(queue) : i < j => queue[i].n < queue[j].n
  /\ \A i, j \in 1 .. Len(batch) : i < j => batch[i].n < batch[j].n
  /\ \A i \in 1 .. Len(batch), j \in 1 .. Len(queue) : batch[i].n < queue[j].n
  /\ \A i \in 1 .. Len(queue) : queue[i].n < nextMsg
  /\ \A i \in 1 .. Len(batch) : batch[i].n < nextMsg

\* What is committed is older than what is in memory.
PastInv ==
  \A e \in Committed :
    /\ e.msg.n < nextMsg
    /\ \A i \in 1 .. Len(queue) : e.msg.n < queue[i].n
    /\ \A i \in 1 .. Len(batch) : e.msg.n < batch[i].n

\* The transaction holds the messages that flush's loop is done with.
WritesInv == \A e \in TxnWrites : \E i \in 1 .. txn.done : e.msg = batch[i]

\* The counter is at or above every id given since it was last set.
CounterInv ==
  \A e \in Committed \union TxnWrites :
    e.epoch <= epoch /\ (e.epoch = epoch => e.id <= idCounter)

\* No message has two entries.
SingleInv == \A e, f \in Committed \union TxnWrites : e.msg.n = f.msg.n => e = f

OrderInv == LineInv /\ PastInv /\ WritesInv /\ CounterInv /\ SingleInv /\ IdsFollowArrival

\* The arrival numbers of all messages in memory and in the log are numbers.
LEMMA NumbersType ==
  ASSUME TypeInv
  PROVE  /\ nextMsg \in Nat /\ Len(queue) \in Nat /\ Len(batch) \in Nat
         /\ \A i \in 1 .. Len(queue) : queue[i].n \in Nat
         /\ \A i \in 1 .. Len(batch) : batch[i].n \in Nat
         /\ \A e \in Committed : e.msg.n \in Nat
<1>1. queue \in Seq(Message) /\ batch \in Seq(Message) /\ nextMsg \in Nat
  BY DEF TypeInv, TypeOK
<1>2. \A m \in Message : m.n \in Nat
  BY DEF Message
<1>3. \A e \in Committed : e.msg \in Message
  BY DEF TypeInv, TypeOK, Committed, Entry
<1> QED  BY <1>1, <1>2, <1>3

LEMMA OrderInit == Init => OrderInv
<1> SUFFICES ASSUME Init PROVE OrderInv
  OBVIOUS
<1>1. Len(queue) = 0 /\ Len(batch) = 0
  BY DEF Init
<1>2. Committed = {} /\ TxnWrites = {}
  BY DEF Init, Committed, TxnWrites
<1> QED
  BY <1>1, <1>2 DEF OrderInv, LineInv, PastInv, WritesInv, CounterInv, SingleInv, IdsFollowArrival

\* Steps that leave the memory alone: entries and writes may only disappear, and
\* the counter may go back only when a new epoch begins.
LEMMA OrderKept ==
  ASSUME TypeInv, TypeInv', OrderInv,
         queue' = queue, batch' = batch, nextMsg' = nextMsg,
         Committed' \subseteq Committed, TxnWrites' \subseteq TxnWrites,
         TxnWrites' # {} => txn'.done = txn.done,
         epoch' > epoch \/ (epoch' = epoch /\ idCounter' >= idCounter)
  PROVE  OrderInv'
<1>1. LineInv' /\ PastInv'
  BY DEF OrderInv, LineInv, PastInv
<1>2. WritesInv'
  BY DEF OrderInv, WritesInv
<1>3. CounterInv'
  <2> SUFFICES ASSUME NEW e \in Committed' \union TxnWrites'
               PROVE  e.epoch <= epoch' /\ (e.epoch = epoch' => e.id <= idCounter')
    BY DEF CounterInv
  <2>1. e \in Entry /\ e.epoch \in Nat /\ e.id \in Nat
    BY DEF TypeInv, TypeOK, Committed, TxnWrites, Txn, Entry
  <2>2. e.epoch <= epoch /\ (e.epoch = epoch => e.id <= idCounter)
    BY DEF OrderInv, CounterInv
  <2>3. epoch \in Nat /\ epoch' \in Nat /\ idCounter \in Nat /\ idCounter' \in Nat
    BY DEF TypeInv, TypeOK
  <2> QED  BY <2>1, <2>2, <2>3
<1>4. SingleInv' /\ IdsFollowArrival'
  BY DEF OrderInv, SingleInv, IdsFollowArrival
<1> QED  BY <1>1, <1>2, <1>3, <1>4 DEF OrderInv

\* Steps that empty the batch, and perhaps the queue: the flush's writes may have
\* become entries, and nothing else has.
LEMMA OrderEmptied ==
  ASSUME TypeInv, TypeInv', OrderInv,
         queue' = queue \/ queue' = <<>>, batch' = <<>>, txn' = NoTxn, nextMsg' = nextMsg,
         Committed' \subseteq Committed \union TxnWrites,
         epoch' = epoch, idCounter' >= idCounter
  PROVE  OrderInv'
<1>0. Len(batch') = 0 /\ TxnWrites' = {} /\ (queue' = queue \/ Len(queue') = 0)
  BY DEF TxnWrites
<1>1. LineInv'
  BY <1>0 DEF OrderInv, LineInv
<1>2. PastInv'
  <2> SUFFICES ASSUME NEW e \in Committed'
               PROVE  e.msg.n < nextMsg' /\ \A i \in 1 .. Len(queue') : e.msg.n < queue'[i].n
    BY <1>0 DEF PastInv
  <2>1. CASE e \in Committed
    BY <1>0, <2>1 DEF OrderInv, PastInv
  <2>2. CASE e \in TxnWrites
    <3>1. PICK i \in 1 .. txn.done : e.msg = batch[i]
      BY <2>2 DEF OrderInv, WritesInv
    <3>2. i \in 1 .. Len(batch)
      BY <2>2, <3>1 DEF TypeInv, TypeOK, BatchInv, TxnWrites, Txn
    <3> QED  BY <1>0, <3>1, <3>2 DEF OrderInv, LineInv
  <2> QED  BY <2>1, <2>2
<1>3. WritesInv'
  BY <1>0 DEF WritesInv
<1>4. CounterInv'
  <2> SUFFICES ASSUME NEW e \in Committed'
               PROVE  e.epoch <= epoch' /\ (e.epoch = epoch' => e.id <= idCounter')
    BY <1>0 DEF CounterInv
  <2>1. e.id \in Nat
    BY DEF TypeInv, TypeOK, Committed, Entry
  <2>2. e.epoch <= epoch /\ (e.epoch = epoch => e.id <= idCounter)
    BY DEF OrderInv, CounterInv
  <2>3. idCounter \in Nat /\ idCounter' \in Nat
    BY DEF TypeInv, TypeOK
  <2> QED  BY <2>1, <2>2, <2>3
<1>5. SingleInv' /\ IdsFollowArrival'
  BY <1>0 DEF OrderInv, SingleInv, IdsFollowArrival
<1> QED  BY <1>1, <1>2, <1>3, <1>4, <1>5 DEF OrderInv

LEMMA OrderInsert ==
  ASSUME TypeInv, OrderInv, NEW shape \in Shapes, NEW t \in Stamps, Insert(shape, t)
  PROVE  OrderInv'
<1> DEFINE m == [n |-> nextMsg, ts |-> <<session, t>>, shape |-> shape]
<1>0. /\ queue \in Seq(Message) /\ nextMsg \in Nat /\ nextMsg' = nextMsg + 1
      /\ batch' = batch /\ Committed' = Committed /\ TxnWrites' = TxnWrites
      /\ txn' = txn /\ epoch' = epoch /\ idCounter' = idCounter
  BY DEF Insert, TypeInv, TypeOK, Committed, TxnWrites
<1>1. \/ queue' = queue
      \/ /\ Len(queue') = Len(queue) + 1
         /\ \A i \in 1 .. Len(queue) : queue'[i] = queue[i]
         /\ queue'[Len(queue) + 1].n = nextMsg
  <2>1. CASE QueueFull
    BY <2>1 DEF Insert
  <2>2. CASE ~QueueFull
    <3>1. queue' = Append(queue, m) /\ m.n = nextMsg
      BY <2>2 DEF Insert
    <3> HIDE DEF m
    <3>2. /\ Len(Append(queue, m)) = Len(queue) + 1
          /\ \A i \in 1 .. Len(queue) : Append(queue, m)[i] = queue[i]
          /\ Append(queue, m)[Len(queue) + 1] = m
      BY <1>0
    <3> QED  BY <3>1, <3>2
  <2> QED  BY <2>1, <2>2
<1>2. /\ \A i \in 1 .. Len(queue) : queue[i].n \in Nat
      /\ \A i \in 1 .. Len(batch) : batch[i].n \in Nat
      /\ \A e \in Committed : e.msg.n \in Nat
      /\ Len(queue) \in Nat /\ Len(batch) \in Nat
  BY NumbersType
<1>3. \A i \in 1 .. Len(queue') :
        \/ i \in 1 .. Len(queue) /\ queue'[i] = queue[i]
        \/ i = Len(queue) + 1 /\ queue'[i].n = nextMsg
  BY <1>1, <1>2
<1>4. nextMsg \in Nat /\ nextMsg' = nextMsg + 1 /\ batch' = batch /\ Committed' = Committed
  BY <1>0
<1> HIDE DEF m
<1>5. LineInv'
  <2>0. LineInv
    BY DEF OrderInv
  <2>1. \A i, j \in 1 .. Len(queue') : i < j => queue'[i].n < queue'[j].n
    <3> SUFFICES ASSUME NEW i \in 1 .. Len(queue'), NEW j \in 1 .. Len(queue'), i < j
                 PROVE  queue'[i].n < queue'[j].n
      OBVIOUS
    <3>1. i \in 1 .. Len(queue) /\ queue'[i] = queue[i]
      BY <1>1, <1>2, <1>3
    <3>2. CASE j \in 1 .. Len(queue) /\ queue'[j] = queue[j]
      BY <3>1, <3>2, <2>0 DEF LineInv
    <3>3. CASE j = Len(queue) + 1 /\ queue'[j].n = nextMsg
      <4>1. queue[i].n < nextMsg
        BY <3>1, <2>0 DEF LineInv
      <4> QED  BY <3>1, <3>3, <4>1
    <3> QED  BY <1>3, <3>2, <3>3
  <2>2. \A i \in 1 .. Len(batch'), j \in 1 .. Len(queue') : batch'[i].n < queue'[j].n
    BY <1>4, <1>3, <2>0 DEF LineInv
  <2>3. \A i \in 1 .. Len(queue') : queue'[i].n < nextMsg'
    <3> SUFFICES ASSUME NEW i \in 1 .. Len(queue') PROVE queue'[i].n < nextMsg'
      OBVIOUS
    <3>1. CASE i \in 1 .. Len(queue) /\ queue'[i] = queue[i]
      <4>1. queue[i].n < nextMsg /\ queue[i].n \in Nat
        BY <3>1, <1>2, <2>0 DEF LineInv
      <4> QED  BY <3>1, <4>1, <1>4
    <3>2. CASE i = Len(queue) + 1 /\ queue'[i].n = nextMsg
      BY <3>2, <1>4
    <3> QED  BY <3>1, <3>2, <1>3
  <2>4. \A i \in 1 .. Len(batch') : batch'[i].n < nextMsg'
    BY <1>0, <1>2 DEF OrderInv, LineInv
  <2> QED  BY <1>0, <2>1, <2>2, <2>3, <2>4 DEF OrderInv, LineInv
<1>6. PastInv'
  <2>0. PastInv
    BY DEF OrderInv
  <2> SUFFICES ASSUME NEW e \in Committed
               PROVE  /\ e.msg.n < nextMsg'
                      /\ \A i \in 1 .. Len(queue') : e.msg.n < queue'[i].n
                      /\ \A i \in 1 .. Len(batch) : e.msg.n < batch[i].n
    BY <1>4 DEF PastInv
  <2>1. /\ e.msg.n \in Nat /\ e.msg.n < nextMsg
        /\ \A i \in 1 .. Len(queue) : e.msg.n < queue[i].n
        /\ \A i \in 1 .. Len(batch) : e.msg.n < batch[i].n
    BY <1>2, <2>0 DEF PastInv
  <2>2. e.msg.n < nextMsg'
    BY <2>1, <1>4
  <2>3. \A i \in 1 .. Len(queue') : e.msg.n < queue'[i].n
    BY <2>1, <1>3
  <2> QED  BY <2>1, <2>2, <2>3
<1>7. WritesInv' /\ CounterInv' /\ SingleInv' /\ IdsFollowArrival'
  BY <1>0 DEF OrderInv, WritesInv, CounterInv, SingleInv, IdsFollowArrival
<1> QED  BY <1>5, <1>6, <1>7 DEF OrderInv

LEMMA OrderReceive == TypeInv /\ OrderInv /\ DrainReceive => OrderInv'
<1> SUFFICES ASSUME TypeInv, OrderInv, DrainReceive PROVE OrderInv'
  OBVIOUS
<1>0. /\ nextMsg' = nextMsg /\ Committed' = Committed /\ TxnWrites' = {} /\ TxnWrites = {}
      /\ epoch' = epoch /\ idCounter' = idCounter
  BY DEF DrainReceive, OpenTxn, Committed, TxnWrites
<1>1. queue \in Seq(Message) /\ queue # <<>> /\ batch \in Seq(Message)
  BY DEF DrainReceive, TypeInv, TypeOK
<1>2. /\ Len(queue') = Len(queue) - 1
      /\ \A i \in 1 .. Len(queue) - 1 : queue'[i] = queue[i + 1]
      /\ Len(batch') = Len(batch) + 1
      /\ \A i \in 1 .. Len(batch) : batch'[i] = batch[i]
      /\ batch'[Len(batch) + 1] = queue[1]
  BY <1>1 DEF DrainReceive
<1>3. Len(queue) \in Nat \ {0} /\ Len(batch) \in Nat
  BY <1>1
<1>4. /\ 1 \in 1 .. Len(queue)
      /\ \A i \in 1 .. Len(queue') : i + 1 \in 1 .. Len(queue) /\ queue'[i] = queue[i + 1]
      /\ \A i \in 1 .. Len(batch') :
           \/ i \in 1 .. Len(batch) /\ batch'[i] = batch[i]
           \/ i = Len(batch) + 1 /\ batch'[i] = queue[1]
  BY <1>2, <1>3
<1>5. LineInv'
  <2>1. \A i, j \in 1 .. Len(queue') : i < j => queue'[i].n < queue'[j].n
    <3> SUFFICES ASSUME NEW i \in 1 .. Len(queue'), NEW j \in 1 .. Len(queue'), i < j
                 PROVE  queue'[i].n < queue'[j].n
      OBVIOUS
    <3>1. /\ i + 1 \in 1 .. Len(queue) /\ queue'[i] = queue[i + 1]
          /\ j + 1 \in 1 .. Len(queue) /\ queue'[j] = queue[j + 1]
      BY <1>4
    <3>2. i + 1 < j + 1
      OBVIOUS
    <3>3. queue[i + 1].n < queue[j + 1].n
      BY <3>1, <3>2 DEF OrderInv, LineInv
    <3> QED  BY <3>1, <3>3
  <2>2. \A i, j \in 1 .. Len(batch') : i < j => batch'[i].n < batch'[j].n
    <3> SUFFICES ASSUME NEW i \in 1 .. Len(batch'), NEW j \in 1 .. Len(batch'), i < j
                 PROVE  batch'[i].n < batch'[j].n
      OBVIOUS
    <3>1. i \in 1 .. Len(batch) /\ batch'[i] = batch[i]
      BY <1>2, <1>3
    <3>2. CASE j \in 1 .. Len(batch) /\ batch'[j] = batch[j]
      BY <3>1, <3>2 DEF OrderInv, LineInv
    <3>3. CASE j = Len(batch) + 1 /\ batch'[j] = queue[1]
      BY <3>1, <3>3, <1>4 DEF OrderInv, LineInv
    <3> QED  BY <1>4, <3>2, <3>3
  <2>3. \A i \in 1 .. Len(batch'), j \in 1 .. Len(queue') : batch'[i].n < queue'[j].n
    <3> SUFFICES ASSUME NEW i \in 1 .. Len(batch'), NEW j \in 1 .. Len(queue')
                 PROVE  batch'[i].n < queue'[j].n
      OBVIOUS
    <3>1. j + 1 \in 1 .. Len(queue) /\ 1 < j + 1 /\ queue'[j] = queue[j + 1]
      BY <1>3, <1>4
    <3>2. CASE i \in 1 .. Len(batch) /\ batch'[i] = batch[i]
      BY <3>1, <3>2 DEF OrderInv, LineInv
    <3>3. CASE i = Len(batch) + 1 /\ batch'[i] = queue[1]
      BY <3>1, <3>3, <1>4 DEF OrderInv, LineInv
    <3> QED  BY <1>4, <3>2, <3>3
  <2>4. /\ \A i \in 1 .. Len(queue') : queue'[i].n < nextMsg'
        /\ \A i \in 1 .. Len(batch') : batch'[i].n < nextMsg'
    BY <1>0, <1>4 DEF OrderInv, LineInv
  <2> QED  BY <2>1, <2>2, <2>3, <2>4 DEF LineInv
<1>6. PastInv'
  BY <1>0, <1>4 DEF OrderInv, PastInv
<1>7. WritesInv' /\ CounterInv' /\ SingleInv' /\ IdsFollowArrival'
  BY <1>0 DEF OrderInv, WritesInv, CounterInv, SingleInv, IdsFollowArrival
<1> QED  BY <1>5, <1>6, <1>7 DEF OrderInv

LEMMA OrderRecord == TypeInv /\ TypeInv' /\ OrderInv /\ FlushRecord => OrderInv'
<1> SUFFICES ASSUME TypeInv, TypeInv', OrderInv, FlushRecord PROVE OrderInv'
  OBVIOUS
<1> DEFINE k == txn.done + 1
           m == batch[k]
           e == [msg |-> m, id |-> NextId, epoch |-> epoch]
<1>0. /\ queue' = queue /\ nextMsg' = nextMsg /\ epoch' = epoch
      /\ Committed' = Committed /\ idCounter' = idCounter + 1
  BY DEF FlushRecord, Committed
<1>1. /\ txn \in Txn /\ txn # NoTxn /\ txn.done \in Nat /\ k \in 1 .. Len(batch)
      /\ idCounter \in Nat /\ epoch \in Nat /\ Len(batch) \in Nat
  BY DEF FlushRecord, TypeInv, TypeOK, Txn
<1>2. CASE txn' = NoTxn /\ batch' = <<>>
  BY <1>0, <1>1, <1>2, OrderEmptied
<1>3. CASE /\ txn' = RecordTxn(m) /\ txn' \in Txn /\ txn' # NoTxn /\ batch' = batch
  <2>1. /\ TxnWrites' = TxnWrites \union {e} /\ txn'.done = k /\ batch' = batch
        /\ e.msg = m /\ e.id = idCounter + 1 /\ e.epoch = epoch
    <3>1. txn'.writes = txn.writes \union {e} /\ txn'.done = k
      <4> HIDE DEF m
      <4> QED  BY <1>1, <1>3 DEF RecordTxn, Txn
    <3> QED  BY <1>1, <1>3, <3>1 DEF TxnWrites
  <2> HIDE DEF e, m, k
  <2>2. k = txn.done + 1
    BY DEF k
  <2>3. \A f \in Committed \union TxnWrites : f.msg.n < e.msg.n
    <3>1. ASSUME NEW f \in TxnWrites PROVE f.msg.n < e.msg.n
      <4>1. PICK i \in 1 .. txn.done : f.msg = batch[i]
        BY DEF OrderInv, WritesInv
      <4>2. i \in 1 .. Len(batch) /\ i < k
        BY <1>1, <2>2, <4>1
      <4> QED  BY <1>1, <2>1, <4>1, <4>2 DEF OrderInv, LineInv, m
    <3> QED  BY <1>1, <2>1, <3>1 DEF OrderInv, PastInv, m
  <2>4. LineInv' /\ PastInv'
    BY <1>0, <2>1 DEF OrderInv, LineInv, PastInv
  <2>5. WritesInv'
    <3> SUFFICES ASSUME NEW f \in TxnWrites'
                 PROVE  \E i \in 1 .. txn'.done : f.msg = batch'[i]
      BY DEF WritesInv
    <3>1. CASE f \in TxnWrites
      BY <1>1, <2>1, <2>2, <3>1 DEF OrderInv, WritesInv
    <3>2. CASE f = e
      <4>1. k \in 1 .. txn'.done
        BY <1>1, <2>1
      <4> QED  BY <2>1, <3>2, <4>1 DEF m
    <3> QED  BY <2>1, <3>1, <3>2
  <2>6. CounterInv'
    <3> SUFFICES ASSUME NEW f \in Committed \union TxnWrites'
                 PROVE  f.epoch <= epoch /\ (f.epoch = epoch => f.id <= idCounter + 1)
      BY <1>0 DEF CounterInv
    <3>1. f \in Entry
      BY DEF TypeInv, TypeOK, Committed, TxnWrites, Txn
    <3>2. f.id \in Nat
      BY <3>1 DEF Entry
    <3> QED  BY <1>1, <2>1, <3>2 DEF OrderInv, CounterInv
  <2>7. SingleInv' /\ IdsFollowArrival'
    <3>1. /\ e.msg.n \in Int
          /\ \A f \in Committed \union TxnWrites :
               f.msg.n \in Int /\ f.id \in Nat /\ (f.epoch = e.epoch => f.id < e.id)
      <4>1. ASSUME NEW f \in Committed \union TxnWrites'
            PROVE  f.msg.n \in Int /\ f.id \in Nat
        <5>1. f \in Entry
          BY DEF TypeInv, TypeOK, Committed, TxnWrites, Txn
        <5>2. f.msg \in Message /\ f.id \in Nat
          BY <5>1 DEF Entry
        <5> QED  BY <5>2 DEF Message
      <4>2. TxnWrites' = TxnWrites \union {e} /\ e.id = idCounter + 1 /\ e.epoch = epoch
        BY <2>1
      <4>3. e.msg.n \in Int
        BY <4>1, <4>2
      <4>4. \A f \in Committed \union TxnWrites : f.msg.n \in Int /\ f.id \in Nat
        BY <4>1, <4>2
      <4>5. \A f \in Committed \union TxnWrites : f.epoch = epoch => f.id <= idCounter
        BY DEF OrderInv, CounterInv
      <4>6. idCounter \in Nat
        BY DEF TypeInv, TypeOK
      <4> QED  BY <4>2, <4>3, <4>4, <4>5, <4>6
    <3>2. SingleInv'
      BY <1>0, <2>1, <2>3, <3>1 DEF OrderInv, SingleInv
    <3>3. IdsFollowArrival'
      <4> SUFFICES ASSUME NEW f \in Committed \union TxnWrites \union {e},
                          NEW g \in Committed \union TxnWrites \union {e},
                          f.epoch = g.epoch, f.msg.n < g.msg.n
                   PROVE  f.id < g.id
        BY <1>0, <2>1 DEF IdsFollowArrival
      <4>1. CASE g = e
        BY <2>3, <3>1, <4>1
      <4>2. CASE g # e /\ f = e
        BY <2>3, <3>1, <4>2
      <4>3. CASE g # e /\ f # e
        BY <4>3 DEF OrderInv, IdsFollowArrival
      <4> QED  BY <4>1, <4>2, <4>3
    <3> QED  BY <3>2, <3>3
  <2> QED  BY <2>4, <2>5, <2>6, <2>7 DEF OrderInv
<1> QED  BY <1>2, <1>3, RecordOutcome

LEMMA OrderCommit == TypeInv /\ TypeInv' /\ OrderInv /\ FlushCommit => OrderInv'
<1> SUFFICES ASSUME TypeInv, TypeInv', OrderInv, FlushCommit PROVE OrderInv'
  OBVIOUS
<1>1. /\ queue' = queue /\ batch' = <<>> /\ txn' = NoTxn /\ nextMsg' = nextMsg
      /\ epoch' = epoch /\ idCounter' = idCounter /\ idCounter \in Nat
  BY DEF FlushCommit, TypeInv, TypeOK
<1>2. Committed' \subseteq Committed \union TxnWrites
  BY VisibleSubset DEF FlushCommit, Committed, TxnWrites
<1> QED  BY <1>1, <1>2, OrderEmptied

LEMMA OrderClear ==
  ASSUME TypeInv, TypeInv', OrderInv, NEW c \in Clearers,
         ClearCounter(c) \/ ClearDropBegin(c) \/ ClearDropEnd(c) \/ ClearStats(c)
  PROVE  OrderInv'
<1>0. epoch \in Nat /\ idCounter \in Nat
  BY DEF TypeInv, TypeOK
<1>1. queue' = queue /\ batch' = batch /\ nextMsg' = nextMsg
  BY DEF ClearCounter, ClearDropBegin, ClearDropEnd, ClearStats
<1>2. Committed' \subseteq Committed
  BY DEF ClearCounter, ClearDropBegin, ClearDropEnd, ClearStats, Committed
<1>3. TxnWrites' = TxnWrites /\ (TxnWrites' # {} => txn'.done = txn.done)
  <2>1. CASE txn' = txn
    BY <2>1 DEF TxnWrites
  <2>2. CASE txn # NoTxn /\ txn' = [txn EXCEPT !.conflict = TRUE]
    <3>1. txn \in Txn
      BY <2>2 DEF TypeInv, TypeOK
    <3>2. txn' \in Txn /\ txn'.writes = txn.writes /\ txn'.done = txn.done
      BY <2>2, <3>1 DEF Txn
    <3> QED  BY <2>2, <3>2, SentinelAssumption DEF TxnWrites
  <2> QED  BY <2>1, <2>2 DEF ClearCounter, ClearDropBegin, ClearDropEnd, ClearStats
<1>4. epoch' > epoch \/ (epoch' = epoch /\ idCounter' >= idCounter)
  BY <1>0 DEF ClearCounter, ClearDropBegin, ClearDropEnd, ClearStats
<1> QED  BY <1>1, <1>2, <1>3, <1>4, OrderKept

LEMMA OrderRest ==
  ASSUME TypeInv, TypeInv', OrderInv,
         TickerFires \/ Expire \/ Exit \/ New \/ UNCHANGED vars
  PROVE  OrderInv'
<1>0. epoch \in Nat /\ idCounter \in Nat
  BY DEF TypeInv, TypeOK
<1>1. CASE TickerFires
  <2>1. TxnWrites' = {}
    BY <1>1 DEF TickerFires, OpenTxn, TxnWrites
  <2> QED  BY <1>0, <1>1, <2>1, OrderKept DEF TickerFires, Committed
<1>2. CASE Expire
  <2>1. Committed' \subseteq Committed
    BY <1>2 DEF Expire, Committed
  <2>2. TxnWrites' = TxnWrites /\ txn' = txn
    BY <1>2 DEF Expire, TxnWrites
  <2> QED  BY <1>0, <1>2, <2>1, <2>2, OrderKept DEF Expire
<1>3. CASE Exit
  <2>1. Committed' \subseteq Committed \union TxnWrites
    BY <1>3 DEF Exit, Committed
  <2> QED  BY <1>0, <1>3, <2>1, OrderEmptied DEF Exit
<1>4. CASE New
  <2>1. Committed' = Committed /\ TxnWrites' = TxnWrites /\ txn' = txn /\ epoch' > epoch
    BY <1>0, <1>4 DEF New, Committed, TxnWrites
  <2> QED  BY <1>4, <2>1, OrderKept DEF New
<1>5. CASE UNCHANGED vars
  <2>1. Committed' = Committed /\ TxnWrites' = TxnWrites /\ txn' = txn
    BY <1>5 DEF vars, Committed, TxnWrites
  <2> QED  BY <1>0, <1>5, <2>1, OrderKept DEF vars
<1> QED  BY <1>1, <1>2, <1>3, <1>4, <1>5

LEMMA OrderStep == TypeInv /\ OrderInv /\ [Next]_vars => OrderInv'
<1> SUFFICES ASSUME TypeInv, OrderInv, [Next]_vars PROVE OrderInv'
  OBVIOUS
<1>1. TypeInv'
  BY TypeStep
<1> QED
  BY <1>1, OrderInsert, OrderReceive, OrderRecord, OrderCommit, OrderClear, OrderRest DEF Next

LEMMA OrderAlways == Spec => [](TypeInv /\ OrderInv)
<1>1. Init => TypeInv /\ OrderInv
  BY TypeInit, OrderInit
<1>2. TypeInv /\ OrderInv /\ [Next]_vars => TypeInv' /\ OrderInv'
  BY TypeStep, OrderStep
<1> QED  BY <1>1, <1>2, PTL DEF Spec

\* Between two resets of the counter, ids order the stored messages as they were
\* inserted (badger.go:132-137), also when Clear resets the counter under a flush.
THEOREM StoreIdsFollowArrival == Spec => []IdsFollowArrival
<1>1. TypeInv /\ OrderInv => IdsFollowArrival
  BY DEF OrderInv
<1> QED  BY OrderAlways, <1>1, PTL

\* A message is in the queue, in the batch or in the database, never in two of
\* them, and has one entry: a failed flush gives its messages up instead of
\* retrying them (badger.go:98-112, 171-173), so nothing is stored twice.
THEOREM StoreStoredOnce == Spec => []StoredOnce
<1>1. TypeInv /\ OrderInv => StoredOnce
  <2> SUFFICES ASSUME TypeInv, OrderInv PROVE StoredOnce
    OBVIOUS
  <2>0. DOMAIN queue = 1 .. Len(queue) /\ DOMAIN batch = 1 .. Len(batch)
    BY DEF TypeInv, TypeOK
  <2>1. NumbersOf(queue) \intersect NumbersOf(batch) = {}
    <3>1. ASSUME NEW i \in 1 .. Len(batch), NEW j \in 1 .. Len(queue)
          PROVE  batch[i].n # queue[j].n
      BY NumbersType DEF OrderInv, LineInv
    <3> QED  BY <2>0, <3>1 DEF NumbersOf
  <2>2. (NumbersOf(queue) \union NumbersOf(batch)) \intersect Numbers(Committed) = {}
    <3>1. ASSUME NEW e \in Committed
          PROVE  /\ \A i \in 1 .. Len(queue) : queue[i].n # e.msg.n
                 /\ \A i \in 1 .. Len(batch) : batch[i].n # e.msg.n
      BY NumbersType DEF OrderInv, PastInv
    <3>2. ASSUME NEW n \in Numbers(Committed) PROVE n \notin NumbersOf(queue) \union NumbersOf(batch)
      <4>1. PICK e \in Committed : n = e.msg.n
        BY DEF Numbers
      <4> QED  BY <2>0, <3>1, <4>1 DEF NumbersOf
    <3> QED  BY <3>2
  <2> QED  BY <2>1, <2>2 DEF StoredOnce, OrderInv, SingleInv
<1> QED  BY OrderAlways, <1>1, PTL
-----------------------------------------------------------------------------
(***************************************************************************)
(* Induction, from the well-foundedness of the natural numbers and of the  *)
(* strict subsets of a finite set, and what it says of sums.               *)
(***************************************************************************)
\* A set of subsets of a finite set that is not empty has a smallest member.
LEMMA SmallestSubset ==
  ASSUME NEW S, IsFiniteSet(S), NEW Some \in SUBSET (SUBSET S), Some # {}
  PROVE  \E T \in Some : \A V \in SUBSET T : V \in Some => V = T
<1>1. FiniteSubsetsOf(S) = SUBSET S
  BY FS_FiniteSubsetsOfFinite
<1>2. IsWellFoundedOn(StrictSubsetOrdering(S), FiniteSubsetsOf(S))
  BY FS_StrictSubsetOrderingWellFounded
<1>3. PICK T \in Some : \A V \in Some : ~(<<V, T>> \in StrictSubsetOrdering(S))
  BY <1>1, <1>2, WFMin
<1> QED  BY <1>3 DEF StrictSubsetOrdering

\* A property of natural numbers that zero has and that every successor takes over.
LEMMA Induction ==
  ASSUME NEW Good, 0 \in Good, \A n \in Nat : n \in Good => n + 1 \in Good
  PROVE  Nat \subseteq Good
<1> SUFFICES ASSUME Nat \ Good # {} PROVE FALSE
  OBVIOUS
<1>1. PICK n \in Nat \ Good : \A m \in Nat \ Good : ~(m < n)
  <2>1. PICK n \in Nat \ Good : \A m \in Nat \ Good : ~(<<m, n>> \in OpToRel(<, Nat))
    BY NatLessThanWellFounded, WFMin
  <2> QED  BY <2>1 DEF OpToRel
<1>2. n # 0 /\ n - 1 \in Nat /\ n - 1 < n
  OBVIOUS
<1> QED  BY <1>1, <1>2

\* A turn of the recursion by which a sum is computed.
Added(g, s, part) ==
  IF s = {} THEN 0
  ELSE LET x == CHOOSE x \in s : TRUE IN x.msg.shape[part] + g[s \ {x}]

Sum(S, part) == CHOOSE g : g = [s \in SUBSET S |-> Added(g, s, part)]

LEMMA TotalIsSum == ASSUME NEW S, NEW part PROVE Total(S, part) = Sum(S, part)[S]
BY DEF Total, MapThenSumSet, MapThenFoldSet, Sum, Added

\* The recursion is well-founded: it defines a function on the subsets of up to n
\* members, for every n.
Adds(g, S, part) == g = [s \in SUBSET S |-> Added(g, s, part)]

LEMMA SumDefined == ASSUME NEW S, IsFiniteSet(S), NEW part PROVE Adds(Sum(S, part), S, part)
<1> DEFINE Small(n) == {s \in SUBSET S : Cardinality(s) <= n}
           Good == {n \in Nat : \E g : g = [s \in Small(n) |-> Added(g, s, part)]}
<1>1. \A s \in SUBSET S : IsFiniteSet(s) /\ Cardinality(s) \in Nat
  BY FS_Subset, FS_CardinalityType
<1>2. 0 \in Good
  <2>1. \A s \in Small(0) : s = {}
    BY <1>1, FS_EmptySet
  <2> DEFINE g == [s \in Small(0) |-> 0]
  <2>2. g = [s \in Small(0) |-> Added(g, s, part)]
    BY <2>1 DEF Added
  <2> QED  BY <2>2
<1>3. ASSUME NEW n \in Nat, n \in Good PROVE n + 1 \in Good
  <2>1. PICK g : g = [s \in Small(n) |-> Added(g, s, part)]
    BY <1>3
  <2> DEFINE h == [s \in Small(n + 1) |-> Added(g, s, part)]
  <2>2. \A s \in Small(n) : h[s] = g[s]
    <3>1. Small(n) \subseteq Small(n + 1)
      BY <1>1
    <3> QED  BY <2>1, <3>1
  <2>3. \A s \in Small(n + 1) : Added(g, s, part) = Added(h, s, part)
    <3> SUFFICES ASSUME NEW s \in Small(n + 1), s # {}
                 PROVE  Added(g, s, part) = Added(h, s, part)
      BY DEF Added
    <3> DEFINE x == CHOOSE x \in s : TRUE
    <3>1. x \in s
      OBVIOUS
    <3>2. Cardinality(s \ {x}) = Cardinality(s) - 1
      BY <1>1, <3>1, FS_RemoveElement
    <3>3. s \ {x} \in Small(n)
      BY <1>1, <3>2
    <3> QED  BY <2>2, <3>3 DEF Added
  <2>4. h = [s \in Small(n + 1) |-> Added(h, s, part)]
    BY <2>3
  <2> HIDE DEF h
  <2>5. \E f : f = [s \in Small(n + 1) |-> Added(f, s, part)]
    <3> WITNESS h
    <3> QED  BY <2>4
  <2> QED  BY <2>5
<1>4. Nat \subseteq Good
  <2> HIDE DEF Good
  <2> QED  BY <1>2, <1>3, Induction
<1>5. PICK g : g = [s \in Small(Cardinality(S)) |-> Added(g, s, part)]
  BY <1>1, <1>4
<1>6. Small(Cardinality(S)) = SUBSET S
  BY FS_Subset
<1>7. Sum(S, part) = [s \in SUBSET S |-> Added(Sum(S, part), s, part)]
  BY <1>5, <1>6 DEF Sum
<1> QED  BY <1>7 DEF Adds

LEMMA PartType ==
  ASSUME NEW e \in Entry, NEW part \in {"latency", "bytes"} PROVE e.msg.shape[part] \in Nat
BY StoreAssumption DEF Entry, Message

\* Whichever member is added first, the sum is the same: a smallest set for which it is
\* not would have two members that can be exchanged.
LEMMA SumAnyOrder ==
  ASSUME NEW S \in SUBSET Entry, IsFiniteSet(S), NEW part \in {"latency", "bytes"}
  PROVE  \A T \in SUBSET S :
           /\ Sum(S, part)[T] \in Nat
           /\ \A x \in T : Sum(S, part)[T] = x.msg.shape[part] + Sum(S, part)[T \ {x}]
<1> DEFINE g == Sum(S, part)
           w(x) == x.msg.shape[part]
           Fine(T) == g[T] \in Nat /\ \A x \in T : g[T] = w(x) + g[T \ {x}]
           Bad == {T \in SUBSET S : ~Fine(T)}
<1>1. \A T \in SUBSET S : g[T] = IF T = {} THEN 0
                                ELSE w(CHOOSE x \in T : TRUE) + g[T \ {CHOOSE x \in T : TRUE}]
  <2>1. Adds(g, S, part)
    BY SumDefined
  <2> HIDE DEF g
  <2> QED  BY <2>1 DEF Adds, Added
<1>2. \A x \in S : w(x) \in Nat
  BY PartType
<1> HIDE DEF g, w
<1> SUFFICES ASSUME Bad # {} PROVE FALSE
  BY DEF g, w
<1>3. PICK T \in Bad : \A V \in SUBSET T : V \in Bad => V = T
  <2> HIDE DEF Bad
  <2>1. Bad \in SUBSET (SUBSET S)
    BY DEF Bad
  <2> QED  BY <2>1, SmallestSubset
<1>4. \A V \in SUBSET T : V # T => Fine(V)
  BY <1>3
<1>5. T # {}
  <2>1. ~Fine(T) /\ T \in SUBSET S
    BY <1>3
  <2>2. T = {} => g[T] = 0
    BY <1>1, <2>1
  <2> QED  BY <2>1, <2>2
<1> DEFINE c == CHOOSE x \in T : TRUE
<1>6. c \in T /\ g[T] = w(c) + g[T \ {c}]
  BY <1>1, <1>3, <1>5
<1> HIDE DEF c
<1>7. w(c) \in Nat /\ g[T \ {c}] \in Nat /\ g[T] \in Nat
  BY <1>2, <1>3, <1>4, <1>6
<1>8. ASSUME NEW x \in T PROVE g[T] = w(x) + g[T \ {x}]
  <2>1. CASE x = c
    BY <1>6, <2>1
  <2>2. CASE x # c
    <3>1. g[T \ {c}] = w(x) + g[(T \ {c}) \ {x}]
      BY <1>4, <1>6, <2>2
    <3>2. g[T \ {x}] = w(c) + g[(T \ {x}) \ {c}]
      BY <1>4, <1>6, <2>2
    <3>3. (T \ {c}) \ {x} = (T \ {x}) \ {c}
      OBVIOUS
    <3>4. w(x) \in Nat /\ g[(T \ {c}) \ {x}] \in Nat
      <4>1. (T \ {c}) \ {x} \in SUBSET T /\ (T \ {c}) \ {x} # T
        BY <1>6
      <4> QED  BY <1>2, <1>3, <1>4, <4>1
    <3> DEFINE v == g[(T \ {c}) \ {x}]
    <3>5. /\ g[T] = w(c) + g[T \ {c}] /\ g[T \ {c}] = w(x) + v
          /\ g[T \ {x}] = w(c) + v /\ v \in Nat
      BY <1>6, <3>1, <3>2, <3>3, <3>4
    <3> HIDE DEF v
    <3> QED  BY <1>7, <3>4, <3>5
  <2> QED  BY <2>1, <2>2
<1> QED  BY <1>3, <1>7, <1>8

LEMMA SumTakeOut ==
  ASSUME NEW S \in SUBSET Entry, IsFiniteSet(S), NEW x \in S, NEW part \in {"latency", "bytes"}
  PROVE  Sum(S, part)[S] = x.msg.shape[part] + Sum(S, part)[S \ {x}]
<1>1. S \in SUBSET S
  OBVIOUS
<1> QED  BY <1>1, SumAnyOrder

\* The sum of a subset does not depend on the set that it is computed in.
LEMMA SumOfSubset ==
  ASSUME NEW S \in SUBSET Entry, IsFiniteSet(S), NEW U \in SUBSET S, NEW part \in {"latency", "bytes"}
  PROVE  Sum(S, part)[U] = Sum(U, part)[U]
<1> DEFINE g == Sum(S, part)
           h == Sum(U, part)
           Bad == {T \in SUBSET U : g[T] # h[T]}
<1>1. IsFiniteSet(U) /\ U \in SUBSET Entry
  BY FS_Subset
<1>2. Adds(g, S, part) /\ Adds(h, U, part)
  BY <1>1, SumDefined
<1> HIDE DEF g, h
<1> SUFFICES ASSUME Bad # {} PROVE FALSE
  BY DEF g, h
<1>3. PICK T \in Bad : \A V \in SUBSET T : V \in Bad => V = T
  <2>1. Bad \in SUBSET (SUBSET U)
    OBVIOUS
  <2> HIDE DEF Bad
  <2> QED  BY <1>1, <2>1, SmallestSubset
<1>4. g[T] = Added(g, T, part) /\ h[T] = Added(h, T, part)
  BY <1>2, <1>3 DEF Adds
<1>5. T # {}
  BY <1>3, <1>4 DEF Added
<1> DEFINE c == CHOOSE x \in T : TRUE
<1>6. c \in T /\ T \ {c} \in SUBSET U
  BY <1>3, <1>5
<1>7. g[T \ {c}] = h[T \ {c}]
  BY <1>3, <1>6
<1> QED  BY <1>3, <1>4, <1>5, <1>7 DEF Added

\* What one more message adds to a sum.
LEMMA TotalAdd ==
  ASSUME NEW S \in SUBSET Entry, IsFiniteSet(S), NEW e \in Entry \ S,
         NEW part \in {"latency", "bytes"}
  PROVE  /\ Total(S, part) \in Nat
         /\ Total(S \union {e}, part) = Total(S, part) + e.msg.shape[part]
<1> DEFINE U == S \union {e}
<1>1. IsFiniteSet(U) /\ U \in SUBSET Entry /\ S \in SUBSET U /\ U \ {e} = S /\ e \in U
  BY FS_AddElement
<1>2. Total(S, part) = Sum(S, part)[S] /\ Total(U, part) = Sum(U, part)[U]
  BY TotalIsSum
<1>3. Sum(U, part)[S] = Sum(S, part)[S]
  BY <1>1, SumOfSubset
<1>4. /\ Sum(S, part)[S] \in Nat
      /\ Sum(U, part)[U] = e.msg.shape[part] + Sum(U, part)[S]
  <2>1. Sum(S, part)[S] \in Nat
    BY SumAnyOrder
  <2>2. Sum(U, part)[U] = e.msg.shape[part] + Sum(U, part)[U \ {e}]
    <3> HIDE DEF U
    <3>1. ASSUME NEW T \in SUBSET Entry, IsFiniteSet(T), NEW x \in T
          PROVE  Sum(T, part)[T] = x.msg.shape[part] + Sum(T, part)[T \ {x}]
      BY <3>1, SumTakeOut
    <3> QED  BY <1>1, <3>1
  <2> QED  BY <1>1, <2>1, <2>2
<1>5. e.msg.shape[part] \in Nat
  BY PartType
<1> QED  BY <1>2, <1>3, <1>4, <1>5

LEMMA TotalEmpty == ASSUME NEW part \in {"latency", "bytes"} PROVE Total({}, part) = 0
<1>1. Adds(Sum({}, part), {}, part)
  BY FS_EmptySet, SumDefined
<1>2. Sum({}, part)[{}] = Added(Sum({}, part), {}, part)
  BY <1>1 DEF Adds
<1> QED  BY <1>2, TotalIsSum DEF Added

-----------------------------------------------------------------------------
(***************************************************************************)
(* The statistics.                                                         *)
(***************************************************************************)
LEMMA CardinalityAdd ==
  ASSUME NEW S, IsFiniteSet(S), NEW e, e \notin S, NEW A \in SUBSET S,
         NEW b \in BOOLEAN, NEW B, B = IF b THEN A \union {e} ELSE A
  PROVE  Cardinality(B) = Cardinality(A) + One(b)
<1>1. IsFiniteSet(A) /\ Cardinality(A) \in Nat
  BY FS_Subset, FS_CardinalityType
<1>2. Cardinality(A \union {e}) = Cardinality(A) + 1
  BY <1>1, FS_AddElement
<1> QED  BY <1>1, <1>2 DEF One

\* Counting one more message is what flush does to the statistics (badger.go:149-160).
LEMMA TallyAdd ==
  ASSUME NEW S \in SUBSET Entry, IsFiniteSet(S), NEW e \in Entry \ S
  PROVE  Tally(S \union {e}) = Count(Tally(S), e.msg)
<1> DEFINE sh == e.msg.shape
<1>1. sh.err \in BOOLEAN /\ (sh.type = "request") \in BOOLEAN
  BY StoreAssumption DEF Entry, Message
<1>2. Cardinality(S \union {e}) = Cardinality(S) + 1
  BY FS_AddElement
<1>3. Cardinality({f \in S \union {e} : f.msg.shape.type = "request"})
        = Cardinality({f \in S : f.msg.shape.type = "request"}) + One(sh.type = "request")
  <2> DEFINE A == {f \in S : f.msg.shape.type = "request"}
             B == {f \in S \union {e} : f.msg.shape.type = "request"}
  <2>1. A \in SUBSET S /\ B = IF sh.type = "request" THEN A \union {e} ELSE A
    OBVIOUS
  <2>2. Cardinality(B) = Cardinality(A) + One(sh.type = "request")
    <3> DEFINE b == sh.type = "request"
    <3>1. b \in BOOLEAN /\ B = IF b THEN A \union {e} ELSE A
      BY <2>1
    <3> HIDE DEF A, B, b
    <3>2. Cardinality(B) = Cardinality(A) + One(b)
      BY <2>1, <3>1, CardinalityAdd
    <3> QED  BY <3>2 DEF b
  <2> QED  BY <2>2
<1>4. Cardinality({f \in S \union {e} : f.msg.shape.err})
        = Cardinality({f \in S : f.msg.shape.err}) + One(sh.err)
  <2> DEFINE A == {f \in S : f.msg.shape.err}
             B == {f \in S \union {e} : f.msg.shape.err}
  <2>1. A \in SUBSET S /\ B = IF sh.err THEN A \union {e} ELSE A
    BY <1>1
  <2>2. Cardinality(B) = Cardinality(A) + One(sh.err)
    <3> HIDE DEF A, B, sh
    <3> QED  BY <1>1, <2>1, CardinalityAdd
  <2> QED  BY <2>2
<1>5. /\ Total(S \union {e}, "latency") = Total(S, "latency") + sh.latency
      /\ Total(S \union {e}, "bytes") = Total(S, "bytes") + sh.bytes
  <2>1. sh["latency"] = sh.latency /\ sh["bytes"] = sh.bytes
    OBVIOUS
  <2> QED  BY <2>1, TotalAdd
<1> HIDE DEF sh
<1>6. Count(Tally(S), e.msg) =
        [messages |-> Cardinality(S) + 1,
         requests |-> Cardinality({f \in S : f.msg.shape.type = "request"}) + One(sh.type = "request"),
         errors   |-> Cardinality({f \in S : f.msg.shape.err}) + One(sh.err),
         latency  |-> Total(S, "latency") + sh.latency,
         bytes    |-> Total(S, "bytes") + sh.bytes]
  BY DEF Count, Tally, sh
<1> QED  BY <1>2, <1>3, <1>4, <1>5, <1>6 DEF Tally

LEMMA TallyEmpty == Tally({}) = ZeroStats
<1>1. /\ {f \in {} : f.msg.shape.type = "request"} = {}
      /\ {f \in {} : f.msg.shape.err} = {}
  OBVIOUS
<1> QED  BY <1>1, FS_EmptySet, TotalEmpty DEF Tally, ZeroStats
-----------------------------------------------------------------------------
(***************************************************************************)
(* A commit adds all that the transaction holds: of two entries with one   *)
(* key the log would keep the later one, but a flush that no Clear has     *)
(* overlapped gives its messages, which came in this run of the process,   *)
(* ids of the present epoch, as all messages of this run have.             *)
(***************************************************************************)
SessionInv ==
  /\ session >= 1
  /\ \A i \in 1 .. Len(queue) : queue[i].ts[1] = session
  /\ \A i \in 1 .. Len(batch) : batch[i].ts[1] = session
  /\ \A e \in Committed \union TxnWrites : e.msg.ts[1] <= session
  /\ ~up => Len(queue) = 0 /\ Len(batch) = 0 /\ txn = NoTxn /\ AllIdle

KeyInv == \A e, f \in entries : Key(e) = Key(f) => e = f

EpochInv ==
  up /\ ~overlapped =>
    /\ AllIdle => \A e \in Committed \union TxnWrites : e.msg.ts[1] = session => e.epoch = epoch
    /\ ~AllIdle => TxnWrites = {}
    /\ (\E c \in Clearers : clearing[c] = "dropped") => Committed = {}

\* Later messages were given their ids in later epochs.
AgeInv == \A e, f \in Committed \union TxnWrites : e.msg.n < f.msg.n => e.epoch <= f.epoch

FiniteInv == IsFiniteSet(Committed) /\ IsFiniteSet(TxnWrites)

KeepInv == SessionInv /\ KeyInv /\ EpochInv /\ AgeInv /\ FiniteInv

LEMMA KeepInit == Init => KeepInv
<1> SUFFICES ASSUME Init PROVE KeepInv
  OBVIOUS
<1>1. Len(queue) = 0 /\ Len(batch) = 0 /\ session = 1 /\ up /\ entries = {} /\ expired = {}
  BY DEF Init
<1>2. Committed = {} /\ TxnWrites = {}
  BY DEF Init, Committed, TxnWrites
<1> QED  BY <1>1, <1>2, FS_EmptySet DEF KeepInv, SessionInv, KeyInv, EpochInv, AgeInv, FiniteInv

LEMMA EntriesType ==
  ASSUME TypeInv
  PROVE  /\ Committed \union TxnWrites \subseteq Entry
         /\ \A e \in Committed \union TxnWrites :
              e.msg.ts[1] \in Nat /\ e.msg.n \in Nat /\ e.id \in Nat /\ e.epoch \in Nat
         /\ session \in Nat /\ epoch \in Nat
<1>1. Committed \union TxnWrites \subseteq Entry /\ session \in Nat /\ epoch \in Nat
  BY DEF TypeInv, TypeOK, Committed, TxnWrites, Txn
<1>2. \A m \in Message : m.ts[1] \in Nat /\ m.n \in Nat
  BY DEF Message
<1> QED  BY <1>1, <1>2 DEF Entry

\* What a turn of flush's loop adds to the transaction, if it does not give the flush up.
LEMMA RecordAdds ==
  ASSUME TypeInv, OrderInv, FlushRecord, txn' # NoTxn
  PROVE  \E e \in Entry :
           /\ \A f \in Committed \union TxnWrites : f.msg.n < e.msg.n
           /\ e \notin Committed \union TxnWrites
           /\ e.epoch = epoch /\ \E i \in 1 .. Len(batch) : e.msg = batch[i]
           /\ TxnWrites' = TxnWrites \union {e} /\ txn'.writes = TxnWrites'
           /\ txn'.stats = Count(txn.stats, e.msg) /\ txn'.conflict = txn.conflict
           /\ batch' = batch
<1> DEFINE m == batch[txn.done + 1]
           e == [msg |-> m, id |-> NextId, epoch |-> epoch]
<1>1. /\ txn \in Txn /\ txn # NoTxn /\ txn.done + 1 \in 1 .. Len(batch) /\ m \in Message
      /\ txn' = RecordTxn(m) /\ batch' = batch /\ txn.done \in Nat
  BY RecordOutcome DEF Txn
<1>2. e \in Entry
  <2>1. NextId \in Nat /\ epoch \in Nat
    BY DEF TypeInv, TypeOK
  <2> HIDE DEF m, NextId
  <2> QED  BY <1>1, <2>1 DEF Entry
<1>3. /\ txn'.writes = txn.writes \union {e} /\ txn'.stats = Count(txn.stats, m)
      /\ txn'.conflict = txn.conflict
  <2> HIDE DEF m
  <2> QED  BY <1>1 DEF RecordTxn, Txn
<1>4. TxnWrites' = TxnWrites \union {e}
  BY <1>1, <1>3 DEF TxnWrites
<1>5. \A f \in Committed : f.msg.n < m.n
  BY <1>1 DEF OrderInv, PastInv
<1>6. ASSUME NEW f \in TxnWrites PROVE f.msg.n < m.n
  <2>1. PICK i \in 1 .. txn.done : f.msg = batch[i]
    BY DEF OrderInv, WritesInv
  <2>2. i \in 1 .. Len(batch) /\ i < txn.done + 1
    BY <1>1, <2>1
  <2> QED  BY <1>1, <2>1, <2>2 DEF OrderInv, LineInv
<1>7. e.msg = m /\ e.epoch = epoch
  OBVIOUS
<1>8. m.n \in Nat
  BY <1>1 DEF Message
<1> HIDE DEF e
<1>9. e \notin Committed \union TxnWrites
  <2> SUFFICES ASSUME e \in Committed \union TxnWrites PROVE FALSE
    OBVIOUS
  <2>1. m.n < m.n
    BY <1>5, <1>6, <1>7
  <2> QED  BY <1>8, <2>1
<1> QED  BY <1>1, <1>2, <1>3, <1>4, <1>5, <1>6, <1>7, <1>9 DEF TxnWrites

\* What a commit leaves in the log.
LEMMA CommitKeeps ==
  ASSUME TypeInv, OrderInv, KeepInv, up, ~overlapped, AllIdle, txn # NoTxn
  PROVE  Visible(entries \union txn.writes) = entries \union txn.writes
<1>1. txn.writes = TxnWrites /\ entries \subseteq Committed
  BY DEF TxnWrites, Committed
<1> SUFFICES ASSUME NEW e \in entries \union TxnWrites, NEW f \in entries \union TxnWrites,
                    Key(e) = Key(f)
             PROVE  e = f
  BY <1>1, EntriesType DEF Visible
<1>2. CASE e \in entries /\ f \in entries
  BY <1>2 DEF KeepInv, KeyInv
<1>3. CASE e \in TxnWrites \/ f \in TxnWrites
  <2>1. \A g \in TxnWrites : g.msg.ts[1] = session
    <3> SUFFICES ASSUME NEW g \in TxnWrites PROVE g.msg.ts[1] = session
      OBVIOUS
    <3>1. PICK i \in 1 .. txn.done : g.msg = batch[i]
      BY DEF OrderInv, WritesInv
    <3>2. i \in 1 .. Len(batch)
      BY <3>1 DEF TypeInv, TypeOK, BatchInv, Txn
    <3> QED  BY <3>1, <3>2 DEF KeepInv, SessionInv
  <2>2. e.msg.ts = f.msg.ts /\ e.id = f.id
    BY DEF Key
  <2>3. e.epoch = epoch /\ f.epoch = epoch
    BY <1>1, <1>3, <2>1, <2>2 DEF KeepInv, EpochInv
  <2>4. e.msg.n \in Nat /\ f.msg.n \in Nat /\ e.id \in Nat
    BY <1>1, EntriesType DEF Entry
  <2>5. e.msg.n = f.msg.n
    BY <1>1, <2>2, <2>3, <2>4 DEF OrderInv, IdsFollowArrival
  <2> QED  BY <1>1, <2>5 DEF OrderInv, SingleInv
<1> QED  BY <1>2, <1>3

\* The steps of the drain goroutine that are not in flush, and Insert: the log and the
\* transaction's writes stay as they are.
LEMMA QueueKeeps ==
  ASSUME TypeInv, KeepInv,
         \/ \E shape \in Shapes, t \in Stamps : Insert(shape, t)
         \/ DrainReceive \/ TickerFires
  PROVE  KeepInv' /\ Committed' = Committed /\ TxnWrites' = TxnWrites
<1>1. /\ UNCHANGED <<session, entries, expired, clearing, overlapped, epoch>> /\ up /\ up'
      /\ txn' = txn \/ (txn = NoTxn /\ (txn' = NoTxn \/ txn' = OpenTxn))
  <2>1. ASSUME NEW shape \in Shapes, NEW t \in Stamps, Insert(shape, t)
        PROVE  UNCHANGED <<up, txn, session, entries, expired, clearing, overlapped, epoch>> /\ up
    BY <2>1 DEF Insert
  <2>2. ASSUME DrainReceive \/ TickerFires
        PROVE  /\ UNCHANGED <<up, session, entries, expired, clearing, overlapped, epoch>> /\ up
               /\ txn = NoTxn /\ (txn' = NoTxn \/ txn' = OpenTxn)
    BY <2>2 DEF DrainReceive, TickerFires
  <2> QED  BY <2>1, <2>2
<1>2. Committed' = Committed /\ TxnWrites' = TxnWrites
  BY <1>1 DEF Committed, TxnWrites, OpenTxn
<1>3. /\ \A i \in 1 .. Len(queue') : queue'[i].ts[1] = session
      /\ \A i \in 1 .. Len(batch') : batch'[i].ts[1] = session
  <2>1. ASSUME NEW shape \in Shapes, NEW t \in Stamps, Insert(shape, t)
        PROVE  \A i \in 1 .. Len(queue') : queue'[i].ts[1] = session
    <3> DEFINE m == [n |-> nextMsg, ts |-> <<session, t>>, shape |-> shape]
    <3>1. queue' = queue \/ queue' = Append(queue, m)
      BY <2>1 DEF Insert
    <3>2. m.ts[1] = session /\ queue \in Seq(Message)
      BY DEF TypeInv, TypeOK
    <3> HIDE DEF m
    <3> QED  BY <3>1, <3>2 DEF KeepInv, SessionInv
  <2>2. ASSUME DrainReceive
        PROVE  /\ \A i \in 1 .. Len(queue') : queue'[i].ts[1] = session
               /\ \A i \in 1 .. Len(batch') : batch'[i].ts[1] = session
    <3>1. queue \in Seq(Message) /\ batch \in Seq(Message) /\ queue # <<>>
      BY <2>2 DEF DrainReceive, TypeInv, TypeOK
    <3>2. /\ \A i \in 1 .. Len(queue') : i + 1 \in 1 .. Len(queue) /\ queue'[i] = queue[i + 1]
          /\ \A i \in 1 .. Len(batch') :
               \/ i \in 1 .. Len(batch) /\ batch'[i] = batch[i]
               \/ batch'[i] = queue[1] /\ 1 \in 1 .. Len(queue)
      BY <2>2, <3>1 DEF DrainReceive
    <3> QED  BY <3>2 DEF KeepInv, SessionInv
  <2>3. CASE TickerFires
    BY <2>3 DEF TickerFires, KeepInv, SessionInv
  <2> QED  BY <2>1, <2>2, <2>3 DEF Insert, KeepInv, SessionInv
<1>4. SessionInv'
  BY <1>1, <1>2, <1>3 DEF KeepInv, SessionInv
<1>5. KeyInv' /\ EpochInv' /\ AgeInv' /\ FiniteInv'
  BY <1>1, <1>2 DEF KeepInv, KeyInv, Key, EpochInv, AgeInv, FiniteInv, AllIdle
<1> QED  BY <1>2, <1>4, <1>5 DEF KeepInv

LEMMA RecordKeeps == TypeInv /\ TypeInv' /\ OrderInv /\ KeepInv /\ FlushRecord => KeepInv'
<1> SUFFICES ASSUME TypeInv, TypeInv', OrderInv, KeepInv, FlushRecord PROVE KeepInv'
  OBVIOUS
<1>1. /\ UNCHANGED <<session, entries, expired, clearing, epoch, queue>> /\ up /\ up'
      /\ overlapped' = (overlapped \/ ~AllIdle) /\ Committed' = Committed /\ AllIdle' = AllIdle
  BY DEF FlushRecord, Committed, AllIdle
<1>2. CASE txn' = NoTxn
  <2>1. batch' = <<>> /\ TxnWrites' = {}
    BY <1>2, RecordOutcome DEF TxnWrites
  <2>2. SessionInv'
    BY <1>1, <2>1 DEF KeepInv, SessionInv
  <2>3. KeyInv' /\ EpochInv' /\ AgeInv' /\ FiniteInv'
    BY <1>1, <2>1, FS_EmptySet DEF KeepInv, KeyInv, Key, EpochInv, AgeInv, AllIdle, FiniteInv
  <2> QED  BY <2>2, <2>3 DEF KeepInv
<1>3. CASE txn' # NoTxn
  <2>1. PICK e \in Entry :
          /\ \A f \in Committed \union TxnWrites : f.msg.n < e.msg.n
          /\ e.epoch = epoch /\ \E i \in 1 .. Len(batch) : e.msg = batch[i]
          /\ TxnWrites' = TxnWrites \union {e} /\ batch' = batch
    BY <1>3, RecordAdds
  <2>2. e.msg.ts[1] = session
    BY <2>1 DEF KeepInv, SessionInv
  <2>3. SessionInv'
    BY <1>1, <2>1, <2>2, EntriesType DEF KeepInv, SessionInv
  <2>4. FiniteInv'
    BY <1>1, <2>1, FS_AddElement DEF KeepInv, FiniteInv
  <2>5. KeyInv' /\ EpochInv'
    BY <1>1, <2>1 DEF KeepInv, KeyInv, Key, EpochInv, AllIdle
  <2>6. AgeInv'
    <3>1. \A f \in Committed \union TxnWrites : f.epoch <= e.epoch /\ ~(e.msg.n < f.msg.n)
      BY <2>1, EntriesType DEF OrderInv, CounterInv, Entry, Message
    <3>2. e.epoch <= e.epoch
      BY <2>1 DEF Entry
    <3> QED  BY <1>1, <2>1, <3>1, <3>2 DEF KeepInv, AgeInv
  <2> QED  BY <2>3, <2>4, <2>5, <2>6 DEF KeepInv
<1> QED  BY <1>2, <1>3

LEMMA CommitKeepsInv == TypeInv /\ OrderInv /\ KeepInv /\ FlushCommit => KeepInv'
<1> SUFFICES ASSUME TypeInv, OrderInv, KeepInv, FlushCommit PROVE KeepInv'
  OBVIOUS
<1>1. /\ UNCHANGED <<session, expired, clearing, epoch, queue>> /\ up /\ up' /\ AllIdle' = AllIdle
      /\ overlapped' = (overlapped \/ ~AllIdle) /\ batch' = <<>> /\ TxnWrites' = {} /\ txn' = NoTxn
  BY DEF FlushCommit, AllIdle, TxnWrites
<1>2. Committed' \subseteq Committed \union TxnWrites
  BY VisibleSubset DEF FlushCommit, Committed, TxnWrites
<1>3. SessionInv'
  BY <1>1, <1>2 DEF KeepInv, SessionInv
<1>4. KeyInv'
  <2>1. CASE entries' = entries
    BY <2>1 DEF KeepInv, KeyInv, Key
  <2>2. CASE entries' = Visible(entries \union txn.writes)
    <3> SUFFICES ASSUME NEW e \in entries', NEW f \in entries', Key(e) = Key(f) PROVE e = f
      BY DEF KeyInv, Key
    <3>1. e \in Committed \union TxnWrites /\ f \in Committed \union TxnWrites
      BY <2>2, VisibleSubset DEF Committed, TxnWrites, FlushCommit
    <3>2. f.msg.n <= e.msg.n /\ e.msg.n <= f.msg.n
      BY <2>2 DEF Visible
    <3>3. e.msg.n = f.msg.n
      BY <3>1, <3>2, EntriesType
    <3> QED  BY <3>1, <3>3 DEF OrderInv, SingleInv
  <2> QED  BY <2>1, <2>2 DEF FlushCommit
<1>5. EpochInv' /\ FiniteInv'
  <2>1. IsFiniteSet(Committed \union TxnWrites)
    BY FS_Union DEF KeepInv, FiniteInv
  <2> QED  BY <1>1, <1>2, <2>1, FS_Subset, FS_EmptySet DEF KeepInv, EpochInv, AllIdle, FiniteInv
<1>6. AgeInv'
  BY <1>1, <1>2 DEF KeepInv, AgeInv
<1> QED  BY <1>3, <1>4, <1>5, <1>6 DEF KeepInv

\* What the steps of a Clear leave of the log and of the transaction.
LEMMA ClearLeaves ==
  ASSUME TypeInv, DropInv, NEW c \in Clearers,
         ClearCounter(c) \/ ClearDropBegin(c) \/ ClearDropEnd(c) \/ ClearStats(c)
  PROVE  /\ Committed' \subseteq Committed /\ entries' \subseteq entries /\ TxnWrites' = TxnWrites
         /\ (txn' = NoTxn <=> txn = NoTxn) /\ up /\ up'
         /\ UNCHANGED <<session, queue, batch>>
         /\ (ClearStats(c) /\ ~blockWrites) \/ ~AllIdle'
<1>1. clearing \in [Clearers -> {"idle", "counted", "dropping", "dropped"}] /\ up \in BOOLEAN
  BY DEF TypeInv, TypeOK
<1>2. up /\ up' = up /\ UNCHANGED <<session, queue, batch>>
  BY DEF ClearCounter, ClearDropBegin, ClearDropEnd, ClearStats
<1>3. entries' \subseteq entries /\ expired' \subseteq expired
  BY DEF ClearCounter, ClearDropBegin, ClearDropEnd, ClearStats
<1>4. TxnWrites' = TxnWrites /\ (txn' = NoTxn <=> txn = NoTxn)
  <2>1. CASE txn' = txn
    BY <2>1 DEF TxnWrites
  <2>2. CASE txn # NoTxn /\ txn' = [txn EXCEPT !.conflict = TRUE]
    <3>1. txn \in Txn
      BY <2>2 DEF TypeInv, TypeOK
    <3>2. txn' \in Txn /\ txn'.writes = txn.writes
      BY <2>2, <3>1 DEF Txn
    <3> QED  BY <2>2, <3>2, SentinelAssumption DEF TxnWrites
  <2> QED  BY <2>1, <2>2 DEF ClearCounter, ClearDropBegin, ClearDropEnd, ClearStats
<1>5. (ClearStats(c) /\ ~blockWrites) \/ ~AllIdle'
  <2>1. CASE ClearCounter(c) \/ ClearDropEnd(c)
    BY <1>1, <2>1 DEF ClearCounter, ClearDropEnd, AllIdle
  <2>2. CASE ClearDropBegin(c)
    <3>1. CASE ~blockWrites
      BY <1>1, <2>2, <3>1 DEF ClearDropBegin, AllIdle
    <3>2. CASE blockWrites
      <4>1. PICK d \in Clearers : clearing[d] = "dropping"
        BY <3>2 DEF DropInv
      <4>2. clearing'[d] = "dropping"
        BY <1>1, <2>2, <3>2, <4>1 DEF ClearDropBegin
      <4> QED  BY <4>2 DEF AllIdle
    <3> QED  BY <3>1, <3>2
  <2>3. CASE ClearStats(c) /\ blockWrites
    <3>1. PICK d \in Clearers : clearing[d] = "dropping"
      BY <2>3 DEF DropInv
    <3>2. clearing'[d] = "dropping"
      BY <1>1, <2>3, <3>1 DEF ClearStats
    <3> QED  BY <3>2 DEF AllIdle
  <2> QED  BY <2>1, <2>2, <2>3
<1> QED  BY <1>1, <1>2, <1>3, <1>4, <1>5 DEF Committed

LEMMA ClearKeeps ==
  ASSUME TypeInv, DropInv, KeepInv, NEW c \in Clearers,
         ClearCounter(c) \/ ClearDropBegin(c) \/ ClearDropEnd(c) \/ ClearStats(c)
  PROVE  KeepInv'
<1>1. /\ Committed' \subseteq Committed /\ entries' \subseteq entries /\ TxnWrites' = TxnWrites
      /\ (txn' = NoTxn <=> txn = NoTxn) /\ up /\ up'
      /\ UNCHANGED <<session, queue, batch>>
      /\ (ClearStats(c) /\ ~blockWrites) \/ ~AllIdle'
  BY ClearLeaves
<1>2. SessionInv' /\ KeyInv' /\ AgeInv'
  BY <1>1 DEF KeepInv, SessionInv, KeyInv, Key, AgeInv
<1>3. FiniteInv'
  BY <1>1, FS_Subset DEF KeepInv, FiniteInv
<1>4. clearing \in [Clearers -> {"idle", "counted", "dropping", "dropped"}]
  BY DEF TypeInv, TypeOK
<1>5. EpochInv'
  <2>1. CASE ClearCounter(c)
    <3> SUFFICES ASSUME ~overlapped'
                 PROVE  TxnWrites' = {} /\ ((\E d \in Clearers : clearing'[d] = "dropped") => Committed' = {})
      BY <1>1, <2>1, ClearLeaves DEF EpochInv, ClearCounter, ClearStats
    <3>1. ~overlapped /\ txn = NoTxn
      BY <2>1 DEF ClearCounter
    <3>2. (\E d \in Clearers : clearing'[d] = "dropped") => (\E d \in Clearers : clearing[d] = "dropped")
      BY <1>4, <2>1 DEF ClearCounter
    <3> QED  BY <1>1, <3>1, <3>2 DEF KeepInv, EpochInv, TxnWrites
  <2>2. CASE ClearDropBegin(c)
    <3>1. ~AllIdle /\ overlapped' = overlapped /\ ~AllIdle'
      BY <1>1, <2>2 DEF ClearDropBegin, ClearStats, AllIdle
    <3>2. (\E d \in Clearers : clearing'[d] = "dropped") => (\E d \in Clearers : clearing[d] = "dropped")
      BY <1>4, <2>2 DEF ClearDropBegin
    <3> QED  BY <1>1, <3>1, <3>2 DEF KeepInv, EpochInv
  <2>3. CASE ClearDropEnd(c)
    <3>1. ~AllIdle /\ Committed' = {} /\ ~AllIdle' /\ (~overlapped' => ~overlapped \/ txn = NoTxn)
      BY <1>1, <2>3 DEF ClearDropEnd, ClearStats, AllIdle, Committed
    <3> QED  BY <1>1, <3>1 DEF KeepInv, EpochInv, TxnWrites
  <2>4. CASE ClearStats(c)
    <3>1. ~AllIdle /\ overlapped' = overlapped /\ \E d \in Clearers : clearing[d] = "dropped"
      BY <2>4 DEF ClearStats, AllIdle
    <3>2. ~overlapped => TxnWrites' = {} /\ Committed' = {}
      BY <1>1, <3>1 DEF KeepInv, EpochInv
    <3> QED  BY <3>1, <3>2 DEF EpochInv
  <2> QED  BY <2>1, <2>2, <2>3, <2>4
<1> QED  BY <1>2, <1>3, <1>5 DEF KeepInv

LEMMA RestKeeps == TypeInv /\ KeepInv /\ (Expire \/ Exit \/ New \/ UNCHANGED vars) => KeepInv'
<1> SUFFICES ASSUME TypeInv, KeepInv, Expire \/ Exit \/ New \/ UNCHANGED vars PROVE KeepInv'
  OBVIOUS
<1>1. CASE Expire
  <2>1. /\ Committed' = Committed /\ entries' \subseteq entries /\ TxnWrites' = TxnWrites
        /\ UNCHANGED <<up, session, queue, batch, txn, clearing, epoch, overlapped>>
    BY <1>1 DEF Expire, Committed, TxnWrites
  <2> QED
    BY <2>1 DEF KeepInv, SessionInv, KeyInv, Key, EpochInv, AgeInv, FiniteInv, AllIdle
<1>2. CASE Exit
  <2>1. /\ Committed' = Committed /\ TxnWrites' = {} /\ Len(queue') = 0 /\ Len(batch') = 0
        /\ ~up' /\ session' = session /\ entries' = entries /\ txn' = NoTxn
    BY <1>2 DEF Exit, Committed, TxnWrites
  <2>2. AllIdle'
    BY <1>2 DEF Exit, AllIdle
  <2> QED
    BY <2>1, <2>2, FS_EmptySet DEF KeepInv, SessionInv, KeyInv, Key, EpochInv, AgeInv, FiniteInv
<1>3. CASE New
  <2>1. /\ Committed' = Committed /\ TxnWrites' = TxnWrites /\ TxnWrites = {} /\ entries' = entries
        /\ ~up /\ up' /\ session' = session + 1 /\ UNCHANGED <<queue, batch, txn, clearing>>
    BY <1>3 DEF New, Committed, TxnWrites, KeepInv, SessionInv
  <2>2. AllIdle /\ AllIdle' /\ Len(queue) = 0 /\ Len(batch) = 0
    BY <2>1 DEF KeepInv, SessionInv, AllIdle
  <2>3. \A e \in Committed : e.msg.ts[1] <= session' /\ e.msg.ts[1] # session'
    BY <2>1, EntriesType DEF KeepInv, SessionInv
  <2>4. SessionInv'
    BY <2>1, <2>2, <2>3, EntriesType DEF KeepInv, SessionInv
  <2>5. EpochInv'
    BY <2>1, <2>2, <2>3 DEF EpochInv, AllIdle
  <2> QED  BY <2>1, <2>4, <2>5 DEF KeepInv, KeyInv, Key, AgeInv, FiniteInv
<1>4. CASE UNCHANGED vars
  <2>1. Committed' = Committed /\ TxnWrites' = TxnWrites /\ AllIdle' = AllIdle
    BY <1>4 DEF vars, Committed, TxnWrites, AllIdle
  <2> QED  BY <1>4, <2>1 DEF vars, KeepInv, SessionInv, KeyInv, Key, EpochInv, AgeInv, FiniteInv
<1> QED  BY <1>1, <1>2, <1>3, <1>4

LEMMA KeepStep ==
  TypeInv /\ DropInv /\ OrderInv /\ KeepInv /\ [Next]_vars => KeepInv'
<1> SUFFICES ASSUME TypeInv, DropInv, OrderInv, KeepInv, [Next]_vars PROVE KeepInv'
  OBVIOUS
<1>1. TypeInv'
  BY TypeStep
<1> QED
  BY <1>1, QueueKeeps, RecordKeeps, CommitKeepsInv, ClearKeeps, RestKeeps DEF Next
-----------------------------------------------------------------------------
(***************************************************************************)
(* Unless a flush and a Clear have overlapped, the statistics in the       *)
(* database are those of the log, and those of a transaction that may      *)
(* still commit are those of the log with its writes.                      *)
(***************************************************************************)
StatsInv ==
  ~overlapped =>
    /\ stats # NoStats => stats = Tally(Committed)
    /\ stats = NoStats => Committed = {}
    /\ txn # NoTxn /\ ~txn.conflict /\ AllIdle => txn.stats = Tally(Committed \union TxnWrites)

LEMMA StatsInit == Init => StatsInv
<1> SUFFICES ASSUME Init PROVE StatsInv
  OBVIOUS
<1>1. stats = ZeroStats /\ Committed = {} /\ txn = NoTxn
  BY DEF Init, Committed
<1> QED  BY <1>1, TallyEmpty, ZeroStatsType, SentinelAssumption DEF StatsInv

\* How a step of the queue's side may change the transaction.
LEMMA QueueTxn ==
  ASSUME TypeInv,
         \/ \E shape \in Shapes, t \in Stamps : Insert(shape, t)
         \/ DrainReceive \/ TickerFires
  PROVE  /\ UNCHANGED <<up, session, stats, clearing, overlapped, epoch>>
         /\ txn' = txn \/ txn' = NoTxn \/ txn' = OpenTxn
<1>1. ASSUME NEW shape \in Shapes, NEW t \in Stamps, Insert(shape, t)
      PROVE  UNCHANGED <<up, txn, session, stats, clearing, overlapped, epoch>>
  BY <1>1 DEF Insert
<1>2. ASSUME DrainReceive \/ TickerFires
      PROVE  /\ UNCHANGED <<up, session, stats, clearing, overlapped, epoch>>
             /\ txn' = NoTxn \/ txn' = OpenTxn
  BY <1>2 DEF DrainReceive, TickerFires
<1> QED  BY <1>1, <1>2

LEMMA QueueStats ==
  ASSUME TypeInv, KeepInv, StatsInv,
         \/ \E shape \in Shapes, t \in Stamps : Insert(shape, t)
         \/ DrainReceive \/ TickerFires
  PROVE  StatsInv'
<1>1. Committed' = Committed /\ TxnWrites' = TxnWrites
  BY QueueKeeps
<1>2. /\ UNCHANGED <<stats, clearing, overlapped>> /\ AllIdle' = AllIdle
      /\ txn' = txn \/ txn' = NoTxn \/ txn' = OpenTxn
  BY QueueTxn DEF AllIdle
<1>3. CASE txn' = txn \/ txn' = NoTxn
  BY <1>1, <1>2, <1>3 DEF StatsInv
<1>4. CASE txn' = OpenTxn
  <2>1. TxnWrites' = {}
    BY <1>4 DEF OpenTxn, TxnWrites
  <2>2. ~overlapped => txn'.stats = Tally(Committed)
    BY <1>4, TallyEmpty DEF OpenTxn, StatsInv
  <2> QED  BY <1>1, <1>2, <2>1, <2>2 DEF StatsInv
<1> QED  BY <1>2, <1>3, <1>4

LEMMA RecordStats == TypeInv /\ OrderInv /\ KeepInv /\ StatsInv /\ FlushRecord => StatsInv'
<1> SUFFICES ASSUME TypeInv, OrderInv, KeepInv, StatsInv, FlushRecord, ~overlapped' PROVE StatsInv'
  BY DEF StatsInv
<1>1. /\ UNCHANGED <<stats, clearing>> /\ Committed' = Committed /\ AllIdle /\ AllIdle'
      /\ ~overlapped /\ txn # NoTxn
  BY DEF FlushRecord, Committed, AllIdle
<1>2. CASE txn' = NoTxn
  BY <1>1, <1>2 DEF StatsInv
<1>3. CASE txn' # NoTxn
  <2>1. PICK e \in Entry :
          /\ e \notin Committed \union TxnWrites
          /\ TxnWrites' = TxnWrites \union {e}
          /\ txn'.stats = Count(txn.stats, e.msg) /\ txn'.conflict = txn.conflict
    BY <1>3, RecordAdds
  <2> DEFINE S == Committed \union TxnWrites
  <2>2. S \in SUBSET Entry /\ IsFiniteSet(S) /\ e \in Entry \ S
    BY <2>1, EntriesType, FS_Union DEF KeepInv, FiniteInv
  <2>3. Tally(S \union {e}) = Count(Tally(S), e.msg)
    <3> HIDE DEF S
    <3> QED  BY <2>2, TallyAdd
  <2>4. ~txn'.conflict => txn'.stats = Tally(Committed' \union TxnWrites')
    <3>1. Committed' \union TxnWrites' = S \union {e}
      BY <1>1, <2>1
    <3> QED  BY <1>1, <2>1, <2>3, <3>1 DEF StatsInv
  <2> QED  BY <1>1, <2>4 DEF StatsInv
<1> QED  BY <1>2, <1>3

LEMMA CommitStats == TypeInv /\ OrderInv /\ KeepInv /\ StatsInv /\ FlushCommit => StatsInv'
<1> SUFFICES ASSUME TypeInv, OrderInv, KeepInv, StatsInv, FlushCommit, ~overlapped' PROVE StatsInv'
  BY DEF StatsInv
<1>1. /\ expired' = expired /\ AllIdle /\ ~overlapped /\ txn # NoTxn /\ txn' = NoTxn /\ up
  BY DEF FlushCommit
<1>2. CASE UNCHANGED <<entries, stats>>
  BY <1>1, <1>2 DEF StatsInv, Committed
<1>3. CASE /\ ~txn.conflict /\ stats' = txn.stats
           /\ entries' = Visible(entries \union txn.writes)
  <2>1. Committed' = Committed \union TxnWrites
    BY <1>1, <1>3, CommitKeeps DEF Committed, TxnWrites
  <2>2. txn.stats \in Stats
    BY <1>1 DEF TypeInv, TypeOK, Txn
  <2> QED  BY <1>1, <1>3, <2>1, <2>2, SentinelAssumption DEF StatsInv
<1> QED  BY <1>2, <1>3 DEF FlushCommit

\* What a Clear does to the statistics: it takes them away with the log, or leaves them
\* alone, or writes zeroes and makes a running flush fail.
LEMMA ClearStatsOutcome ==
  ASSUME TypeInv, DropInv, KeepInv, NEW c \in Clearers,
         ClearCounter(c) \/ ClearDropBegin(c) \/ ClearDropEnd(c) \/ ClearStats(c)
  PROVE  \/ /\ ~AllIdle' /\ stats' = NoStats /\ Committed' = {}
         \/ /\ ~AllIdle' /\ stats' = stats /\ Committed' = Committed /\ (overlapped => overlapped')
         \/ /\ stats' = ZeroStats /\ (txn' # NoTxn => txn'.conflict) /\ (~overlapped' => Committed' = {})
<1>1. (ClearStats(c) /\ ~blockWrites) \/ ~AllIdle'
  BY ClearLeaves
<1>2. CASE ClearDropEnd(c)
  <2>1. stats' = NoStats /\ Committed' = {} /\ ~(ClearStats(c) /\ ~blockWrites)
    BY <1>2 DEF ClearDropEnd, ClearStats, Committed
  <2> QED  BY <1>1, <2>1
<1>3. CASE ClearStats(c) /\ ~blockWrites
  <2>1. stats' = ZeroStats /\ overlapped' = overlapped /\ up /\ clearing[c] = "dropped"
        /\ Committed' = Committed
    BY <1>3 DEF ClearStats, Committed
  <2>2. ~overlapped' => Committed' = {}
    BY <2>1 DEF KeepInv, EpochInv
  <2>3. txn' # NoTxn => txn'.conflict
    <3>1. txn # NoTxn => txn \in Txn
      BY DEF TypeInv, TypeOK
    <3> QED  BY <1>3, <3>1 DEF ClearStats, Txn
  <2> QED  BY <2>1, <2>2, <2>3
<1>4. CASE ClearCounter(c) \/ ClearDropBegin(c) \/ (ClearStats(c) /\ blockWrites)
  <2>1. stats' = stats /\ Committed' = Committed /\ (overlapped => overlapped')
    <3>1. CASE ClearCounter(c)
      BY <3>1 DEF ClearCounter, Committed
    <3>2. CASE ClearDropBegin(c) \/ (ClearStats(c) /\ blockWrites)
      BY <3>2 DEF ClearDropBegin, ClearStats, Committed
    <3> QED  BY <1>4, <3>1, <3>2
  <2>2. ~(ClearStats(c) /\ ~blockWrites)
    BY <1>4 DEF ClearCounter, ClearDropBegin, ClearStats
  <2> QED  BY <1>1, <2>1, <2>2
<1> QED  BY <1>2, <1>3, <1>4

LEMMA ClearStatsKept ==
  ASSUME TypeInv, DropInv, KeepInv, StatsInv, NEW c \in Clearers,
         ClearCounter(c) \/ ClearDropBegin(c) \/ ClearDropEnd(c) \/ ClearStats(c)
  PROVE  StatsInv'
BY ClearStatsOutcome, TallyEmpty, ZeroStatsType, SentinelAssumption DEF StatsInv

LEMMA RestStats ==
  TypeInv /\ KeepInv /\ StatsInv /\ (Expire \/ Exit \/ New \/ UNCHANGED vars) => StatsInv'
<1> SUFFICES ASSUME TypeInv, KeepInv, StatsInv, Expire \/ Exit \/ New \/ UNCHANGED vars
             PROVE  StatsInv'
  OBVIOUS
<1>1. CASE Expire \/ UNCHANGED vars
  <2>1. /\ Committed' = Committed /\ TxnWrites' = TxnWrites /\ AllIdle' = AllIdle
        /\ UNCHANGED <<stats, txn, overlapped>>
    BY <1>1 DEF Expire, vars, Committed, TxnWrites, AllIdle
  <2> QED  BY <2>1 DEF StatsInv
<1>2. CASE Exit
  <2>1. Committed' = Committed /\ txn' = NoTxn /\ UNCHANGED <<stats, overlapped>>
    BY <1>2 DEF Exit, Committed
  <2> QED  BY <2>1 DEF StatsInv
<1>3. CASE New
  <2>1. /\ Committed' = Committed /\ txn' = NoTxn /\ overlapped' = overlapped
        /\ stats' = IF stats = NoStats THEN ZeroStats ELSE stats
    BY <1>3 DEF New, Committed, RecoveredStats, KeepInv, SessionInv
  <2> QED  BY <2>1, TallyEmpty, ZeroStatsType, SentinelAssumption DEF StatsInv
<1> QED  BY <1>1, <1>2, <1>3

StatsAll == TypeInv /\ DropInv /\ OrderInv /\ KeepInv /\ StatsInv

LEMMA StatsStep == StatsAll /\ [Next]_vars => StatsAll'
<1> SUFFICES ASSUME StatsAll, [Next]_vars PROVE StatsAll'
  OBVIOUS
<1>1. TypeInv' /\ OrderInv' /\ KeepInv'
  BY TypeStep, OrderStep, KeepStep DEF StatsAll
<1>2. DropInv'
  BY DropByClear, DropByOthers DEF Next, StatsAll, TypeInv
<1>3. StatsInv'
  BY QueueStats, RecordStats, CommitStats, ClearStatsKept, RestStats DEF Next, StatsAll
<1> QED  BY <1>1, <1>2, <1>3 DEF StatsAll

LEMMA StatsAlways == Spec => []StatsAll
<1>1. Init => StatsAll
  BY TypeInit, DropInit, OrderInit, KeepInit, StatsInit DEF StatsAll, TypeInv
<1> QED  BY <1>1, StatsStep, PTL DEF Spec

\* The statistics the dashboard reads are those of the messages committed since the last
\* Clear (badger.go:116-173, 264-271), through failed flushes, expiry and restarts, unless
\* a flush has overlapped a Clear.
THEOREM StoreStatsMatchLog == Spec => []StatsMatchLog
<1>1. StatsAll => StatsMatchLog
  BY DEF StatsAll, StatsInv, StatsMatchLog
<1> QED  BY StatsAlways, <1>1, PTL
-----------------------------------------------------------------------------
(***************************************************************************)
(* Overlapped or not, once the Clear calls are over the statistics count   *)
(* only entries that got their ids after the last reset of the counter,    *)
(* and these the log still has: the reset either comes after the flush's   *)
(* commit, and undoes it, or makes the flush fail.                         *)
(***************************************************************************)
Latest(S) == {e \in S : e.epoch = epoch}

CountInv ==
  up /\ session = 1 /\ AllIdle =>
    /\ stats # NoStats => stats.messages <= Cardinality(Latest(Committed))
    /\ txn # NoTxn /\ ~txn.conflict =>
         txn.stats.messages <= Cardinality(Latest(Committed \union TxnWrites))

LEMMA LatestFinite ==
  ASSUME KeepInv
  PROVE  /\ IsFiniteSet(Committed \union TxnWrites)
         /\ \A S \in SUBSET (Committed \union TxnWrites) :
              IsFiniteSet(Latest(S)) /\ Cardinality(Latest(S)) \in Nat
<1>1. IsFiniteSet(Committed \union TxnWrites)
  BY FS_Union DEF KeepInv, FiniteInv
<1>2. \A S \in SUBSET (Committed \union TxnWrites) : Latest(S) \subseteq Committed \union TxnWrites
  BY DEF Latest
<1> QED  BY <1>1, <1>2, FS_Subset, FS_CardinalityType

LEMMA CountInit == Init => CountInv
<1> SUFFICES ASSUME Init PROVE CountInv
  OBVIOUS
<1>1. stats.messages = 0 /\ txn = NoTxn /\ Committed = {}
  BY DEF Init, Committed, ZeroStats
<1>2. Latest(Committed) = {}
  BY <1>1 DEF Latest
<1> QED  BY <1>1, <1>2, FS_EmptySet DEF CountInv

\* Entries of the present epoch are visible: one with the same key that came later
\* would have a larger id.
LEMMA LatestVisible ==
  ASSUME TypeInv, OrderInv, KeepInv, txn # NoTxn
  PROVE  Latest(entries \union txn.writes) \subseteq Visible(entries \union txn.writes)
<1> SUFFICES ASSUME NEW e \in entries \union TxnWrites, NEW f \in entries \union TxnWrites,
                    e.epoch = epoch, Key(f) = Key(e), ~(f.msg.n <= e.msg.n)
             PROVE  FALSE
  BY DEF Latest, Visible, TxnWrites
<1>1. e \in Committed \union TxnWrites /\ f \in Committed \union TxnWrites
  BY DEF Committed
<1>2. e.msg.n < f.msg.n /\ e.id \in Nat /\ f.id = e.id /\ f.epoch \in Nat /\ epoch \in Nat
  BY <1>1, EntriesType DEF Key
<1>3. f.epoch = e.epoch
  BY <1>1, <1>2 DEF OrderInv, CounterInv, KeepInv, AgeInv
<1>4. e.id < f.id
  BY <1>1, <1>2, <1>3 DEF OrderInv, IdsFollowArrival
<1> QED  BY <1>2, <1>4

LEMMA QueueCount ==
  ASSUME TypeInv, KeepInv, CountInv,
         \/ \E shape \in Shapes, t \in Stamps : Insert(shape, t)
         \/ DrainReceive \/ TickerFires
  PROVE  CountInv'
<1>1. Committed' = Committed /\ TxnWrites' = TxnWrites
  BY QueueKeeps
<1>2. /\ UNCHANGED <<up, session, stats, epoch>> /\ AllIdle' = AllIdle
      /\ Latest(Committed)' = Latest(Committed)
      /\ Latest(Committed \union TxnWrites)' = Latest(Committed \union TxnWrites)
      /\ txn' = txn \/ txn' = NoTxn \/ txn' = OpenTxn
  BY <1>1, QueueTxn DEF AllIdle, Latest
<1>3. CASE txn' = txn \/ txn' = NoTxn
  BY <1>2, <1>3 DEF CountInv
<1>4. CASE txn' = OpenTxn
  <2>1. Committed \union TxnWrites = Committed
    BY <1>1, <1>4 DEF OpenTxn, TxnWrites
  <2>2. txn'.stats.messages = IF stats = NoStats THEN 0 ELSE stats.messages
    BY <1>4 DEF OpenTxn, ZeroStats
  <2>3. Cardinality(Latest(Committed)) \in Nat
    BY LatestFinite
  <2> DEFINE L == Latest(Committed)
  <2>4. /\ up /\ session = 1 /\ AllIdle /\ stats # NoStats => stats.messages <= Cardinality(L)
        /\ Latest(Committed)' = L /\ Latest(Committed \union TxnWrites)' = L
    BY <1>2, <2>1 DEF CountInv
  <2> HIDE DEF L
  <2>5. /\ up' /\ session' = 1 /\ AllIdle' /\ stats' # NoStats => stats'.messages <= Cardinality(L)
        /\ up' /\ session' = 1 /\ AllIdle' => txn'.stats.messages <= Cardinality(L)
    BY <1>2, <2>2, <2>3, <2>4 DEF L
  <2> QED  BY <2>4, <2>5 DEF CountInv
<1> QED  BY <1>2, <1>3, <1>4

LEMMA RecordCount == TypeInv /\ OrderInv /\ KeepInv /\ CountInv /\ FlushRecord => CountInv'
<1> SUFFICES ASSUME TypeInv, OrderInv, KeepInv, CountInv, FlushRecord PROVE CountInv'
  OBVIOUS
<1>1. /\ UNCHANGED <<up, session, stats, epoch>> /\ Committed' = Committed /\ AllIdle' = AllIdle
      /\ txn # NoTxn /\ Latest(Committed)' = Latest(Committed)
  BY DEF FlushRecord, Committed, AllIdle, Latest
<1>2. CASE txn' = NoTxn
  BY <1>1, <1>2 DEF CountInv
<1>3. CASE txn' # NoTxn
  <2>1. PICK e \in Entry :
          /\ e \notin Committed \union TxnWrites /\ e.epoch = epoch
          /\ TxnWrites' = TxnWrites \union {e}
          /\ txn'.stats = Count(txn.stats, e.msg) /\ txn'.conflict = txn.conflict
    BY <1>3, RecordAdds
  <2> DEFINE L == Latest(Committed \union TxnWrites)
  <2>2. Latest(Committed \union TxnWrites)' = L \union {e} /\ e \notin L
    BY <1>1, <2>1 DEF Latest
  <2>3. IsFiniteSet(L) /\ Cardinality(L) \in Nat
    BY LatestFinite
  <2>4. Cardinality(L \union {e}) = Cardinality(L) + 1
    <3> HIDE DEF L
    <3> QED  BY <2>2, <2>3, FS_AddElement
  <2>5. txn'.stats.messages = txn.stats.messages + 1 /\ txn.stats.messages \in Nat
    BY <1>1, <2>1 DEF Count, TypeInv, TypeOK, Txn, Stats
  <2> HIDE DEF L
  <2>6. up /\ session = 1 /\ AllIdle /\ ~txn.conflict => txn.stats.messages <= Cardinality(L)
    BY <1>1 DEF CountInv, L
  <2> QED  BY <1>1, <2>1, <2>2, <2>3, <2>4, <2>5, <2>6 DEF CountInv
<1> QED  BY <1>2, <1>3

LEMMA CommitCount == TypeInv /\ OrderInv /\ KeepInv /\ CountInv /\ FlushCommit => CountInv'
<1> SUFFICES ASSUME TypeInv, OrderInv, KeepInv, CountInv, FlushCommit PROVE CountInv'
  OBVIOUS
<1>1. /\ UNCHANGED <<up, session, epoch, expired>> /\ AllIdle' = AllIdle
      /\ txn # NoTxn /\ txn' = NoTxn
  BY DEF FlushCommit, AllIdle
<1>2. CASE UNCHANGED <<entries, stats>>
  BY <1>1, <1>2 DEF CountInv, Committed, Latest
<1>3. CASE /\ ~txn.conflict /\ stats' = txn.stats
           /\ entries' = Visible(entries \union txn.writes)
  <2>1. Latest(Committed \union TxnWrites) \subseteq Latest(Committed)'
    BY <1>1, <1>3, LatestVisible DEF Latest, Committed, TxnWrites
  <2>2. Latest(Committed)' \subseteq Committed \union TxnWrites
    BY <1>1, <1>3, VisibleSubset DEF Latest, Committed, TxnWrites
  <2>3. IsFiniteSet(Latest(Committed)')
    BY <2>2, LatestFinite, FS_Subset
  <2> DEFINE K == Latest(Committed \union TxnWrites)
             L == Latest(Committed)'
  <2>4. Cardinality(K) <= Cardinality(L) /\ Cardinality(K) \in Nat /\ Cardinality(L) \in Nat
    <3> HIDE DEF K, L
    <3>1. K \subseteq L /\ IsFiniteSet(L)
      BY <2>1, <2>3 DEF K, L
    <3> QED  BY <3>1, FS_Subset, FS_CardinalityType
  <2>5. txn.stats.messages \in Nat
    BY <1>1 DEF TypeInv, TypeOK, Txn, Stats
  <2> HIDE DEF K, L
  <2>6. up /\ session = 1 /\ AllIdle => txn.stats.messages <= Cardinality(K)
    BY <1>1, <1>3 DEF CountInv, K
  <2>7. up /\ session = 1 /\ AllIdle => stats'.messages <= Cardinality(L)
    BY <1>3, <2>4, <2>5, <2>6
  <2> QED  BY <1>1, <2>7 DEF CountInv, L
<1> QED  BY <1>2, <1>3 DEF FlushCommit

LEMMA ClearCount ==
  ASSUME TypeInv, DropInv, KeepInv, KeepInv', CountInv, NEW c \in Clearers,
         ClearCounter(c) \/ ClearDropBegin(c) \/ ClearDropEnd(c) \/ ClearStats(c)
  PROVE  CountInv'
<1>1. Cardinality(Latest(Committed)') \in Nat
  <2>1. Latest(Committed)' \subseteq Committed' /\ IsFiniteSet(Committed')
    BY DEF Latest, KeepInv, FiniteInv
  <2> QED  BY <2>1, FS_Subset, FS_CardinalityType
<1>2. CASE ~AllIdle'
  BY <1>2 DEF CountInv
<1>3. CASE stats' = ZeroStats /\ (txn' # NoTxn => txn'.conflict)
  BY <1>1, <1>3 DEF CountInv, ZeroStats
<1> QED  BY <1>2, <1>3, ClearStatsOutcome

LEMMA RestCount ==
  TypeInv /\ KeepInv /\ CountInv /\ (Expire \/ Exit \/ New \/ UNCHANGED vars) => CountInv'
<1> SUFFICES ASSUME TypeInv, KeepInv, CountInv, Expire \/ Exit \/ New \/ UNCHANGED vars PROVE CountInv'
  OBVIOUS
<1>1. CASE Expire \/ UNCHANGED vars
  <2>1. /\ Committed' = Committed /\ TxnWrites' = TxnWrites /\ AllIdle' = AllIdle
        /\ UNCHANGED <<up, session, epoch, stats, txn>>
    BY <1>1 DEF Expire, vars, Committed, TxnWrites, AllIdle
  <2> QED  BY <2>1 DEF CountInv, Latest
<1>2. CASE Exit
  BY <1>2 DEF Exit, CountInv
<1>3. CASE New
  BY <1>3 DEF New, CountInv, TypeInv, TypeOK, KeepInv, SessionInv
<1> QED  BY <1>1, <1>2, <1>3

\* Once no Clear is running, the statistics count no message that one has removed
\* (badger.go:116-131, 264-271), whatever flush ran between its steps, in the first run
\* of the process.
THEOREM StoreClearedStayUncounted == Spec => []ClearedStayUncounted
<1>1. Init => StatsAll /\ CountInv
  BY TypeInit, DropInit, OrderInit, KeepInit, StatsInit, CountInit DEF StatsAll, TypeInv
<1>2. StatsAll /\ CountInv /\ [Next]_vars => StatsAll' /\ CountInv'
  <2> SUFFICES ASSUME StatsAll, CountInv, [Next]_vars PROVE StatsAll' /\ CountInv'
    OBVIOUS
  <2>1. StatsAll'
    BY StatsStep
  <2>2. CountInv'
    BY <2>1, QueueCount, RecordCount, CommitCount, ClearCount, RestCount DEF Next, StatsAll
  <2> QED  BY <2>1, <2>2
<1>3. StatsAll /\ CountInv => ClearedStayUncounted
  <2> SUFFICES ASSUME StatsAll, CountInv, up, session = 1, AllIdle, stats # NoStats
               PROVE  stats.messages <= Cardinality(Committed)
    BY DEF ClearedStayUncounted
  <2>1. Latest(Committed) \subseteq Committed /\ IsFiniteSet(Committed)
    BY DEF Latest, StatsAll, KeepInv, FiniteInv
  <2>2. /\ Cardinality(Latest(Committed)) <= Cardinality(Committed)
        /\ Cardinality(Latest(Committed)) \in Nat /\ Cardinality(Committed) \in Nat
    BY <2>1, FS_Subset, FS_CardinalityType
  <2>3. stats.messages \in Nat /\ stats.messages <= Cardinality(Latest(Committed))
    BY DEF StatsAll, TypeInv, TypeOK, Stats, CountInv
  <2> QED  BY <2>2, <2>3
<1> QED  BY <1>1, <1>2, <1>3, PTL DEF Spec
-----------------------------------------------------------------------------
(***************************************************************************)
(* The lists: a finite set that an order compares entirely has one list in *)
(* that order, which an induction on the set's size builds by its last     *)
(* member.                                                                 *)
(***************************************************************************)
\* A strict order of all the members of a set, as a set of pairs.
Orders(R, S) ==
  /\ \A x \in S : <<x, x>> \notin R
  /\ \A x, y \in S : x # y => <<x, y>> \in R \/ <<y, x>> \in R
  /\ \A x, y, z \in S : <<x, y>> \in R /\ <<y, z>> \in R => <<x, z>> \in R

\* All members of a set precede one of them.
LEMMA LastMember ==
  ASSUME NEW S, NEW R, IsFiniteSet(S), S # {}, Orders(R, S)
  PROVE  \E m \in S : \A x \in S \ {m} : <<x, m>> \in R
<1> DEFINE HasLast(T) == \E m \in T : \A x \in T \ {m} : <<x, m>> \in R
           Good == {n \in Nat : \A T \in SUBSET S : Cardinality(T) = n + 1 => HasLast(T)}
<1>1. \A T \in SUBSET S : IsFiniteSet(T) /\ Cardinality(T) \in Nat
  BY FS_Subset, FS_CardinalityType
<1>2. 0 \in Good
  <2> SUFFICES ASSUME NEW T \in SUBSET S, Cardinality(T) = 1 PROVE HasLast(T)
    OBVIOUS
  <2>1. PICK m : T = {m}
    BY <1>1, FS_Singleton
  <2> QED  BY <2>1
<1>3. ASSUME NEW n \in Nat, n \in Good PROVE n + 1 \in Good
  <2> SUFFICES ASSUME NEW T \in SUBSET S, Cardinality(T) = (n + 1) + 1 PROVE HasLast(T)
    OBVIOUS
  <2>1. PICK x \in T : TRUE
    BY FS_EmptySet
  <2>2. T \ {x} \in SUBSET S /\ Cardinality(T \ {x}) = n + 1
    BY <1>1, FS_RemoveElement
  <2>3. HasLast(T \ {x})
    BY <1>3, <2>2
  <2>4. PICK m \in T \ {x} : \A y \in (T \ {x}) \ {m} : <<y, m>> \in R
    BY <2>3
  <2>5. CASE <<x, m>> \in R
    <3>1. \A y \in T \ {m} : <<y, m>> \in R
      BY <2>4, <2>5
    <3> QED  BY <2>4, <3>1
  <2>6. CASE <<m, x>> \in R
    <3>1. \A y \in T \ {x} : <<y, x>> \in R
      BY <2>4, <2>6 DEF Orders
    <3> QED  BY <3>1
  <2> QED  BY <2>4, <2>5, <2>6 DEF Orders
<1>4. PICK n \in Nat : Cardinality(S) = n + 1
  <2>1. Cardinality(S) \in Nat /\ Cardinality(S) # 0
    BY <1>1, FS_EmptySet
  <2>2. Cardinality(S) - 1 \in Nat /\ Cardinality(S) = (Cardinality(S) - 1) + 1
    BY <2>1
  <2> QED  BY <2>2
<1>5. n \in Good
  <2> HIDE DEF Good
  <2> QED  BY <1>2, <1>3, Induction
<1> QED  BY <1>4, <1>5

\* The list of a set in the order R.
Listed(list, R) == \A i, j \in DOMAIN list : i < j => <<list[i], list[j]>> \in R

LEMMA ListExists ==
  ASSUME NEW S, NEW R, IsFiniteSet(S), Orders(R, S)
  PROVE  \E list \in [1 .. Cardinality(S) -> S] : Listed(list, R)
<1> DEFINE HasList(T) == \E list \in [1 .. Cardinality(T) -> T] : Listed(list, R)
           Good == {n \in Nat : \A T \in SUBSET S : Cardinality(T) = n => HasList(T)}
<1>1. \A T \in SUBSET S : IsFiniteSet(T) /\ Cardinality(T) \in Nat
  BY FS_Subset, FS_CardinalityType
<1>2. 0 \in Good
  <2> SUFFICES ASSUME NEW T \in SUBSET S, Cardinality(T) = 0 PROVE HasList(T)
    OBVIOUS
  <2> DEFINE none == [i \in 1 .. 0 |-> {}]
  <2>1. none \in [1 .. 0 -> T] /\ DOMAIN none = {}
    OBVIOUS
  <2> QED  BY <2>1 DEF Listed
<1>3. ASSUME NEW n \in Nat, n \in Good PROVE n + 1 \in Good
  <2> SUFFICES ASSUME NEW T \in SUBSET S, Cardinality(T) = n + 1 PROVE HasList(T)
    OBVIOUS
  <2>1. T # {} /\ Orders(R, T)
    BY FS_EmptySet DEF Orders
  <2>2. PICK m \in T : \A x \in T \ {m} : <<x, m>> \in R
    BY <1>1, <2>1, LastMember
  <2>3. T \ {m} \in SUBSET S /\ Cardinality(T \ {m}) = n
    <3>1. IsFiniteSet(T) /\ m \in T
      BY <1>1
    <3>2. Cardinality(T \ {m}) = Cardinality(T) - 1
      BY <3>1, FS_RemoveElement
    <3> QED  BY <3>2
  <2>4. HasList(T \ {m})
    BY <1>3, <2>3
  <2>5. PICK f \in [1 .. n -> T \ {m}] : Listed(f, R)
    BY <2>3, <2>4
  <2> DEFINE g == [i \in 1 .. n + 1 |-> IF i = n + 1 THEN m ELSE f[i]]
  <2>6. \A i \in 1 .. n : i \in 1 .. n + 1 /\ i # n + 1 /\ g[i] = f[i] /\ f[i] \in T \ {m}
    BY <2>5
  <2>7. g[n + 1] = m /\ DOMAIN g = 1 .. n + 1 /\ \A i \in 1 .. n + 1 : i = n + 1 \/ i \in 1 .. n
    OBVIOUS
  <2>8. g \in [1 .. n + 1 -> T]
    BY <2>6
  <2> HIDE DEF g
  <2>9. Listed(g, R)
    <3> SUFFICES ASSUME NEW i \in 1 .. n + 1, NEW j \in 1 .. n + 1, i < j
                 PROVE  <<g[i], g[j]>> \in R
      BY <2>7 DEF Listed
    <3>1. i \in 1 .. n
      OBVIOUS
    <3>2. CASE j = n + 1
      BY <2>2, <2>6, <2>7, <3>1, <3>2
    <3>3. CASE j \in 1 .. n
      BY <2>5, <2>6, <3>1, <3>3 DEF Listed
    <3> QED  BY <2>7, <3>2, <3>3
  <2> QED  BY <2>8, <2>9
<1>4. Cardinality(S) \in Good
  <2> HIDE DEF Good
  <2> QED  BY <1>1, <1>2, <1>3, Induction
<1> QED  BY <1>4

\* Such a list has every member once.
LEMMA ListHasAll ==
  ASSUME NEW S, NEW R, IsFiniteSet(S), Orders(R, S),
         NEW list \in [1 .. Cardinality(S) -> S], Listed(list, R)
  PROVE  /\ \A i, j \in 1 .. Cardinality(S) : i # j => list[i] # list[j]
         /\ \A x \in S : \E i \in 1 .. Cardinality(S) : list[i] = x
<1> DEFINE n == Cardinality(S)
<1>1. n \in Nat
  BY FS_CardinalityType
<1> HIDE DEF n
<1>2. ASSUME NEW i \in 1 .. n, NEW j \in 1 .. n, i # j PROVE list[i] # list[j]
  <2>1. i < j \/ j < i
    BY <1>1, <1>2
  <2>2. list[i] \in S /\ list[j] \in S /\ DOMAIN list = 1 .. n
    BY DEF n
  <2>3. <<list[i], list[j]>> \in R \/ <<list[j], list[i]>> \in R
    BY <2>1, <2>2 DEF Listed
  <2> QED  BY <2>2, <2>3 DEF Orders
<1>3. list \in Injection(1 .. n, S)
  BY <1>2 DEF n, Injection, IsInjective
<1>4. Cardinality(1 .. n) = n
  BY <1>1, FS_Interval
<1>5. list \in Surjection(1 .. n, S)
  BY <1>3, <1>4, FS_Injection DEF n
<1> QED  BY <1>2, <1>5 DEF n, Surjection

\* An id that has the digits of a key is shown with these.
LEMMA DigitsPadded ==
  ASSUME NEW id \in Nat, id < Radix ^ IdDigits PROVE Digits(id) = IdDigits
<1> DEFINE S == {n \in IdDigits .. IdDigits + id : id < Radix ^ n}
<1>1. IdDigits \in Nat
  BY StoreAssumption
<1>2. IdDigits \in S /\ \A n \in S : n \in Nat /\ IdDigits <= n
  BY <1>1
<1> HIDE DEF S
<1>3. Min(S) = IdDigits
  <2>1. \A x \in S : (\A y \in S : x <= y) => x = IdDigits
    BY <1>1, <1>2
  <2>2. \A y \in S : IdDigits <= y
    BY <1>2
  <2> QED  BY <1>2, <2>1, <2>2 DEF Min
<1> QED  BY <1>3 DEF Digits, S

\* Under these conditions, the order of keys is that of time and arrival.
LEMMA KeysInOrder ==
  ASSUME StatsAll, SameCount(entries), \A e \in entries : e.id < Radix ^ IdDigits,
         NEW e \in entries, NEW f \in entries
  PROVE  KeyBefore(e, f) <=> Older(e.msg, f.msg)
<1>1. e \in Committed /\ f \in Committed
  BY DEF Committed
<1>2. /\ e.msg.n \in Nat /\ f.msg.n \in Nat /\ e.id \in Nat /\ f.id \in Nat
  BY <1>1, EntriesType DEF StatsAll
<1>3. Digits(e.id) = IdDigits /\ Digits(f.id) = IdDigits /\ IdDigits \in Nat
  BY <1>2, DigitsPadded, StoreAssumption
<1>4. IdBefore(e.id, f.id) <=> e.id < f.id
  BY <1>3 DEF IdBefore
<1>5. ASSUME e.msg.ts = f.msg.ts PROVE e.id < f.id <=> e.msg.n < f.msg.n
  <2>1. e.epoch = f.epoch
    BY <1>5 DEF SameCount
  <2>2. /\ e.msg.n < f.msg.n => e.id < f.id
        /\ f.msg.n < e.msg.n => f.id < e.id
        /\ e.msg.n = f.msg.n => e = f
    BY <1>1, <2>1 DEF StatsAll, OrderInv, IdsFollowArrival, SingleInv
  <2> QED  BY <1>2, <2>2
<1> QED  BY <1>4, <1>5 DEF KeyBefore, Older

\* The entries are in one order, by time and arrival.
OldestFirst == {p \in entries \X entries : Older(p[1].msg, p[2].msg)}

LEMMA EntriesInOrder == ASSUME StatsAll PROVE Orders(OldestFirst, entries)
<1>1. ASSUME NEW e \in entries
      PROVE  e.msg.n \in Nat /\ e.msg.ts \in Nat \X Nat
  <2>1. e \in Entry
    BY DEF StatsAll, TypeInv, TypeOK
  <2>2. e.msg \in Message
    BY <2>1 DEF Entry
  <2> QED  BY <2>2, StoreAssumption DEF Message
<1>2. \A t \in Nat \X Nat : t[1] \in Nat /\ t[2] \in Nat /\ t = <<t[1], t[2]>>
  OBVIOUS
<1>3. \A e \in entries : e.msg.ts[1] \in Nat /\ e.msg.ts[2] \in Nat
                         /\ e.msg.ts = <<e.msg.ts[1], e.msg.ts[2]>>
  BY <1>1, <1>2
<1>4. \A e, f \in entries : e.msg.n = f.msg.n => e = f
  BY DEF StatsAll, OrderInv, SingleInv, Committed
<1>5. \A e \in entries : ~Older(e.msg, e.msg)
  BY <1>1, <1>3 DEF Older, Earlier
<1>6. \A e, f \in entries : e # f => Older(e.msg, f.msg) \/ Older(f.msg, e.msg)
  <2> SUFFICES ASSUME NEW e \in entries, NEW f \in entries, e # f
               PROVE  Older(e.msg, f.msg) \/ Older(f.msg, e.msg)
    OBVIOUS
  <2>1. e.msg.n # f.msg.n
    BY <1>4
  <2>2. e.msg.ts # f.msg.ts => e.msg.ts[1] # f.msg.ts[1] \/ e.msg.ts[2] # f.msg.ts[2]
    BY <1>3
  <2> QED  BY <1>1, <1>3, <2>1, <2>2 DEF Older, Earlier
<1>7. \A e, f, g \in entries : Older(e.msg, f.msg) /\ Older(f.msg, g.msg) => Older(e.msg, g.msg)
  <2> SUFFICES ASSUME NEW e \in entries, NEW f \in entries, NEW g \in entries,
                      Older(e.msg, f.msg), Older(f.msg, g.msg)
               PROVE  Older(e.msg, g.msg)
    OBVIOUS
  <2> QED  BY <1>1, <1>3 DEF Older, Earlier
<1> QED  BY <1>5, <1>6, <1>7 DEF Orders, OldestFirst

\* QueryAll lists every entry once, the oldest first.
LEMMA AllListed ==
  ASSUME StatsAll, SameCount(entries), \A e \in entries : e.id < Radix ^ IdDigits
  PROVE  LET n == Cardinality(entries)
         IN  /\ n \in Nat /\ QueryAll \in [1 .. n -> entries]
             /\ \A i, j \in 1 .. n : i < j => Older(QueryAll[i].msg, QueryAll[j].msg)
             /\ \A e \in entries : \E i \in 1 .. n : QueryAll[i] = e
<1> DEFINE n == Cardinality(entries)
<1>1. IsFiniteSet(entries) /\ n \in Nat
  BY FS_Subset, FS_CardinalityType DEF StatsAll, KeepInv, FiniteInv, Committed
<1>2. Orders(OldestFirst, entries)
  BY EntriesInOrder
<1> HIDE DEF n
<1>3. \A list \in [1 .. n -> entries] : InKeyOrder(list) <=> Listed(list, OldestFirst)
  <2> SUFFICES ASSUME NEW list \in [1 .. n -> entries]
               PROVE  InKeyOrder(list) <=> Listed(list, OldestFirst)
    OBVIOUS
  <2>1. ASSUME NEW i \in 1 .. n, NEW j \in 1 .. n
        PROVE  KeyBefore(list[i], list[j]) <=> <<list[i], list[j]>> \in OldestFirst
    <3>1. list[i] \in entries /\ list[j] \in entries
      OBVIOUS
    <3> QED  BY <3>1, KeysInOrder DEF OldestFirst
  <2> QED  BY <2>1 DEF InKeyOrder, Listed
<1>4. PICK list \in [1 .. n -> entries] : Listed(list, OldestFirst)
  BY <1>1, <1>2, ListExists DEF n
<1>5. list \in SetToSeqs(entries)
  <2>1. \A i, j \in 1 .. n : i # j => list[i] # list[j]
    BY <1>1, <1>2, <1>4, ListHasAll DEF n
  <2> QED  BY <2>1 DEF SetToSeqs, n
<1>6. QueryAll \in SetToSeqs(entries) /\ InKeyOrder(QueryAll)
  <2>1. InKeyOrder(list)
    BY <1>3, <1>4
  <2> QED  BY <1>5, <2>1 DEF QueryAll
<1>7. QueryAll \in [1 .. n -> entries]
  BY <1>6 DEF SetToSeqs, n
<1>8. Listed(QueryAll, OldestFirst)
  BY <1>3, <1>6, <1>7
<1>9. \A e \in entries : \E i \in 1 .. n : QueryAll[i] = e
  BY <1>1, <1>2, <1>7, <1>8, ListHasAll DEF n
<1>10. \A i, j \in 1 .. n : i < j => Older(QueryAll[i].msg, QueryAll[j].msg)
  BY <1>7, <1>8 DEF Listed, OldestFirst
<1> QED  BY <1>1, <1>7, <1>9, <1>10 DEF n

\* The dashboard's list (badger.go:177-212) is of the newest messages, the newest first,
\* for every limit, every number of digits in a key and every way in which the entries
\* came, were cleared or expired.
THEOREM StoreRecentAreNewest == Spec => []RecentAreNewest
<1>1. StatsAll => RecentAreNewest
  <2> SUFFICES ASSUME StatsAll, SameCount(entries), \A e \in entries : e.id < Radix ^ IdDigits,
                      NEW limit \in 1 .. MaxMsgs
               PROVE  /\ \A i, j \in DOMAIN QueryRecent(limit) :
                           i < j => Older(QueryRecent(limit)[j].msg, QueryRecent(limit)[i].msg)
                      /\ \A e \in entries \ ToSet(QueryRecent(limit)) :
                           \A i \in DOMAIN QueryRecent(limit) :
                             Older(e.msg, QueryRecent(limit)[i].msg)
                      /\ Len(QueryRecent(limit)) = Min({limit, Cardinality(entries)})
    BY DEF RecentAreNewest
  <2> DEFINE n == Cardinality(entries)
             listed == QueryRecent(limit)
             k == Min({limit, n})
             all == QueryAll
  <2>1. /\ n \in Nat /\ all \in [1 .. n -> entries]
        /\ \A i, j \in 1 .. n : i < j => Older(all[i].msg, all[j].msg)
        /\ \A e \in entries : \E i \in 1 .. n : all[i] = e
    BY AllListed
  <2> HIDE DEF n, all
  <2>2. limit \in Nat
    BY StoreAssumption
  <2>3. k \in Nat /\ k <= n
    <3>1. CASE limit <= n
      <4>1. Min({limit, n}) = limit
        BY <2>1, <2>2, <3>1 DEF Min
      <4> QED  BY <2>2, <3>1, <4>1
    <3>2. CASE n <= limit
      <4>1. Min({limit, n}) = n
        BY <2>1, <2>2, <3>2 DEF Min
      <4> QED  BY <2>1, <4>1
    <3> QED  BY <2>1, <2>2, <3>1, <3>2
  <2> HIDE DEF k
  <2>4. listed = [i \in 1 .. k |-> all[(n - i) + 1]]
    <3>1. all \in Seq(entries) /\ Len(all) = n
      BY <2>1
    <3>2. Reverse(all) = [i \in 1 .. n |-> all[(n - i) + 1]]
      BY <3>1 DEF Reverse
    <3>3. Reverse(all) \in [1 .. n -> entries]
      <4>1. \A i \in 1 .. n : (n - i) + 1 \in 1 .. n
        BY <2>1
      <4> QED  BY <2>1, <3>2, <4>1
    <3>4. Reverse(all) \in Seq(entries) /\ Len(Reverse(all)) = n
      BY <2>1, <3>3
    <3>5. SubSeq(Reverse(all), 1, k) = [i \in 1 .. k |-> Reverse(all)[i]]
      BY <2>3, <3>4
    <3>6. \A i \in 1 .. k : Reverse(all)[i] = all[(n - i) + 1]
      BY <2>1, <2>3, <3>2
    <3>7. listed = SubSeq(Reverse(all), 1, k)
      BY <3>4 DEF QueryRecent, all, k
    <3> QED  BY <3>5, <3>6, <3>7
  <2> HIDE DEF listed
  <2>5. \A i \in 1 .. k : (n - i) + 1 \in 1 .. n /\ listed[i] = all[(n - i) + 1]
    BY <2>1, <2>3, <2>4
  <2>6. DOMAIN listed = 1 .. k
    BY <2>4
  <2>7. ASSUME NEW i \in 1 .. k, NEW j \in 1 .. k, i < j
        PROVE  Older(listed[j].msg, listed[i].msg)
    <3>1. (n - j) + 1 < (n - i) + 1
      BY <2>1, <2>3, <2>7
    <3> QED  BY <2>1, <2>5, <3>1
  <2>8. ASSUME NEW e \in entries \ ToSet(listed), NEW i \in 1 .. k
        PROVE  Older(e.msg, listed[i].msg)
    <3>1. PICK p \in 1 .. n : all[p] = e
      BY <2>1
    <3>2. p < (n - i) + 1
      <4> SUFFICES ASSUME (n - i) + 1 <= p PROVE FALSE
        BY <2>1, <2>3
      <4>1. (n - p) + 1 \in 1 .. k /\ (n - ((n - p) + 1)) + 1 = p
        BY <2>1, <2>3
      <4>2. listed[(n - p) + 1] = e
        BY <2>5, <3>1, <4>1
      <4> QED  BY <2>6, <2>8, <4>1, <4>2 DEF ToSet
    <3> QED  BY <2>1, <2>5, <3>1, <3>2
  <2>9. Len(listed) = k
    BY <2>3, <2>4
  <2> QED  BY <2>6, <2>7, <2>8, <2>9 DEF listed, k, n
<1> QED  BY StatsAlways, <1>1, PTL

-----------------------------------------------------------------------------
(***************************************************************************)
(* The alerter, which reads the log.                                       *)
(***************************************************************************)
Found == [age : Nat, kind : Kinds, told : BOOLEAN]

\* What an alert was about is at least as old as the alert, and leaves the window.  While
\* a post is under way lastAlerted still says when the alert before it was sent.
ToldInv ==
  /\ log \subseteq Found /\ sinceAlert \in 0 .. Window + 1
  /\ \A m \in log : m.age < Window
  /\ phase # "posting" => \A m \in log : m.told => m.age >= sinceAlert

LEMMA ToldInit == AlertInit => ToldInv
BY AlerterAssumption DEF AlertInit, ToldInv

LEMMA AdvanceKeepsTold == ASSUME ToldInv, Advance PROVE ToldInv'
<1>1. /\ log' = {[m EXCEPT !.age = @ + 1] : m \in {n \in log : n.age + 1 < Window}}
      /\ sinceAlert' = IF sinceAlert + 1 > Window + 1 THEN Window + 1 ELSE sinceAlert + 1
      /\ phase' = phase
  BY DEF Advance, Capped
<1>2. sinceAlert' \in 0 .. Window + 1 /\ sinceAlert' <= sinceAlert + 1
  BY <1>1, AlerterAssumption DEF ToldInv
<1>3. \A m \in log : m \in Found /\ m.age \in Nat
  BY DEF ToldInv, Found
<1>4. \A m \in Found : LET older == [m EXCEPT !.age = @ + 1]
                       IN  older \in Found /\ older.age = m.age + 1 /\ older.told = m.told
  BY DEF Found
<1>5. \A l \in log' : \E m \in log : /\ l \in Found /\ l.age = m.age + 1 /\ l.told = m.told
                                     /\ m.age + 1 < Window
  BY <1>1, <1>3, <1>4
<1>6. log' \subseteq Found /\ \A l \in log' : l.age < Window
  BY <1>5
<1>7. phase' # "posting" => \A l \in log' : l.told => l.age >= sinceAlert'
  <2> SUFFICES ASSUME phase # "posting", NEW l \in log', l.told
               PROVE  l.age >= sinceAlert'
    BY <1>1
  <2>1. PICK m \in log : l.age = m.age + 1 /\ l.told = m.told
    BY <1>5
  <2>2. m.age >= sinceAlert
    BY <2>1 DEF ToldInv
  <2>3. sinceAlert \in Int /\ sinceAlert' \in Int
    BY <1>2 DEF ToldInv
  <2> QED  BY <1>2, <1>3, <2>1, <2>2, <2>3
<1> QED  BY <1>2, <1>6, <1>7 DEF ToldInv

LEMMA StoredKeepsTold ==
  ASSUME ToldInv, NEW kind \in Kinds, NEW age \in 0 .. MaxLag, Stored(kind, age)
  PROVE  ToldInv'
<1> DEFINE m == [age |-> age, kind |-> kind, told |-> FALSE]
<1>1. m \in Found /\ m.age < Window /\ ~m.told
  BY AlerterAssumption DEF Stored, Found
<1>2. log' = log \union {m} /\ UNCHANGED <<phase, sinceAlert>>
  BY DEF Stored
<1> HIDE DEF m
<1> QED  BY <1>1, <1>2 DEF ToldInv

LEMMA CheckKeepsTold == ASSUME ToldInv, Check PROVE ToldInv'
<1>1. CASE phase' = "posting" /\ log' = {[m EXCEPT !.told = TRUE] : m \in log} /\ UNCHANGED sinceAlert
  <2>1. \A m \in Found : LET told == [m EXCEPT !.told = TRUE]
                         IN  told \in Found /\ told.age = m.age
    BY DEF Found
  <2>2. \A m \in log : m \in Found
    BY DEF ToldInv
  <2>3. \A l \in log' : l \in Found /\ \E m \in log : l.age = m.age
    <3> SUFFICES ASSUME NEW l \in log' PROVE l \in Found /\ \E m \in log : l.age = m.age
      OBVIOUS
    <3>1. PICK m \in log : l = [m EXCEPT !.told = TRUE]
      BY <1>1
    <3> QED  BY <2>1, <2>2, <3>1
  <2> QED  BY <1>1, <2>3 DEF ToldInv
<1>2. CASE UNCHANGED <<phase, log, sinceAlert>>
  BY <1>2 DEF ToldInv
<1> QED  BY <1>1, <1>2 DEF Check, BreachSeen

\* However a post ends, lastAlerted becomes the present.
LEMMA PostKeepsTold ==
  ASSUME ToldInv, PostDelivered \/ PostRefused \/ PostGivenUp PROVE ToldInv'
<1>1. log' = log /\ sinceAlert' = 0
  BY DEF PostDelivered, PostRefused, PostGivenUp, SetLastAlerted
<1>2. \A m \in log : m.age \in Nat
  BY DEF ToldInv, Found
<1> QED  BY <1>1, <1>2, AlerterAssumption DEF ToldInv

LEMMA ToldStep == ToldInv /\ [AlertNext]_alertVars => ToldInv'
<1> SUFFICES ASSUME ToldInv, [AlertNext]_alertVars PROVE ToldInv'
  OBVIOUS
<1>1. CASE Cleared
  BY <1>1 DEF Cleared, ToldInv
<1>2. CASE Cancel \/ CheckFails \/ Return \/ UNCHANGED alertVars
  BY <1>2 DEF Cancel, CheckFails, Return, alertVars, ToldInv
<1> QED
  BY <1>1, <1>2, AdvanceKeepsTold, StoredKeepsTold, CheckKeepsTold, PostKeepsTold DEF AlertNext

\* When an alert is about to be sent, nothing that an alert was about is left in the
\* window, whether the webhook took it or not (alert.go:72, 111-115).
THEOREM AlerterToldOnce == AlertSpec => ToldOnce
<1>1. ToldInv /\ [AlertNext]_alertVars
        => [phase = "waiting" /\ phase' = "posting" => \A m \in log : ~m.told]_alertVars
  <2> SUFFICES ASSUME ToldInv, AlertNext, phase = "waiting", phase' = "posting", NEW m \in log, m.told
               PROVE  FALSE
    OBVIOUS
  <2>1. CASE Check
    <3>1. sinceAlert > Window
      BY <2>1 DEF Check, CooledDown
    <3>2. m.age \in Nat /\ m.age < Window /\ m.age >= sinceAlert
      BY DEF ToldInv, Found
    <3> QED  BY <3>1, <3>2, AlerterAssumption DEF ToldInv
  <2>2. CASE Advance \/ Cleared \/ Cancel \/ CheckFails \/ Return
             \/ \E kind \in Kinds, age \in 0 .. MaxLag : Stored(kind, age)
    <3>1. phase' = phase \/ phase' = "returned"
      BY <2>2 DEF Advance, Cleared, Cancel, CheckFails, Return, Stored
    <3> QED  BY <3>1
  <2>3. CASE PostDelivered \/ PostRefused \/ PostGivenUp
    BY <2>3 DEF PostDelivered, PostRefused, PostGivenUp
  <2> QED  BY <2>1, <2>2, <2>3 DEF AlertNext
<1> QED  BY <1>1, ToldInit, ToldStep, PTL DEF AlertSpec, ToldOnce
-----------------------------------------------------------------------------
(***************************************************************************)
(* A breach that lasts is told.  Each failure costs at most one Delay: the *)
(* cooldown, then the wait for the next tick, then the post.  The slack is *)
(* what of this may have gone by since the last failure.                   *)
(***************************************************************************)
ClockInv ==
  /\ next \in 1 .. Period /\ tick \in BOOLEAN
  /\ phase \in {"waiting", "posting", "returned"}
  /\ posting \in 0 .. Timeout /\ (phase = "waiting" => posting = 0)
  /\ sinceAlert \in 0 .. Window + 1
  /\ failed \in 0 .. MaxFailed /\ lasting \in Nat /\ unheard \in Nat

SlackOf(ph, waited, since, ticked, left) ==
  IF ph = "posting" THEN Window + Period + waited
  ELSE IF since <= Window THEN since
  ELSE IF ticked THEN Window + Period ELSE Window + Period - left

Slack == SlackOf(phase, posting, sinceAlert, tick, next)

\* It is no more than n steps ago that the breach began or an alert was delivered.
Waited(n) == lasting <= n \/ unheard <= n

\* When the cooldown is over, the tick that waits finds a breach if one lasts.
NoticeInv == phase = "waiting" /\ sinceAlert > Window /\ ~Breached(log) => lasting = 0

HeardInv == NoticeInv /\ (~ctxDone => phase # "returned" /\ Waited(failed * Delay + Slack))

Hears == ClockInv /\ HeardInv

LEMMA DelayType ==
  /\ Window \in Nat \ {0} /\ Period \in Nat \ {0} /\ Timeout \in Nat /\ MaxFailed \in Nat
  /\ Delay \in Nat /\ Delay = Window + Period + Timeout
BY AlerterAssumption DEF Delay

LEMMA DelayTimes ==
  ASSUME NEW f \in Nat PROVE f * Delay \in Nat /\ (f + 1) * Delay = f * Delay + Delay
BY DelayType

LEMMA SlackRange ==
  ASSUME NEW ph, NEW waited \in 0 .. Timeout, NEW since \in 0 .. Window + 1, NEW ticked,
         NEW left \in 1 .. Period
  PROVE  /\ SlackOf(ph, waited, since, ticked, left) \in Nat
         /\ SlackOf(ph, waited, since, ticked, left) <= Delay
BY DelayType DEF SlackOf

LEMMA SlackType == ASSUME ClockInv PROVE Slack \in Nat /\ Slack <= Delay
BY SlackRange DEF ClockInv, Slack

\* A step of the clock adds at least one to the slack of an alerter that has nothing to do.
LEMMA SlackGrows ==
  ASSUME NEW ph, NEW waited \in Nat, NEW since \in 0 .. Window + 1, NEW left \in 1 .. Period,
         NEW since1, since1 = IF since + 1 > Window + 1 THEN Window + 1 ELSE since + 1,
         NEW left1, left1 = IF left = 1 THEN Period ELSE left - 1,
         NEW waited1, ph = "posting" => waited1 = waited + 1
  PROVE  SlackOf(ph, waited1, since1, left = 1, left1) >= SlackOf(ph, waited, since, FALSE, left) + 1
<1>1. CASE ph = "posting"
  BY <1>1, DelayType DEF SlackOf
<1>2. CASE ph # "posting" /\ since <= Window
  <2>1. since1 = since + 1 /\ left1 \in 1 .. Period /\ (left # 1 => left1 = left - 1)
    BY <1>2, DelayType
  <2> QED  BY <1>2, <2>1, DelayType DEF SlackOf
<1>3. CASE ph # "posting" /\ since > Window
  <2>1. since = Window + 1 /\ since1 = Window + 1 /\ (left # 1 => left1 = left - 1)
    BY <1>3, DelayType
  <2> QED  BY <1>3, <2>1, DelayType DEF SlackOf
<1>4. since <= Window \/ since > Window
  BY DelayType
<1> QED  BY <1>1, <1>2, <1>3, <1>4

\* Two histories that grow by one at most, and a bound on one of them that grows by one.
LEMMA WaitedMore ==
  ASSUME NEW l \in Nat, NEW u \in Nat, NEW spent \in Nat, NEW n \in Nat,
         NEW l1 \in Nat, NEW u1 \in Nat, NEW n1 \in Int,
         l1 <= l + 1, u1 <= u + 1, n1 >= n + 1, l <= spent + n \/ u <= spent + n
  PROVE  l1 <= spent + n1 \/ u1 <= spent + n1
OBVIOUS

LEMMA HearsInit == AlertInit => Hears
<1> SUFFICES ASSUME AlertInit PROVE Hears
  OBVIOUS
<1>1. Patience + 1 \in Nat
  BY DelayType DEF Patience
<1>2. ClockInv
  <2>1. tick \in BOOLEAN /\ phase = "waiting"
    BY DEF AlertInit
  <2>2. /\ next \in 1 .. Period /\ posting \in 0 .. Timeout /\ sinceAlert \in 0 .. Window + 1
        /\ posting = 0 /\ failed \in 0 .. MaxFailed /\ lasting \in Nat /\ unheard \in Nat
    BY <1>1, DelayType DEF AlertInit
  <2> QED  BY <2>1, <2>2 DEF ClockInv
<1>3. lasting = 0 /\ failed = 0 /\ phase = "waiting"
  BY DEF AlertInit
<1>4. failed * Delay \in Nat /\ Slack \in Nat
  BY <1>2, <1>3, SlackType, DelayTimes
<1> QED  BY <1>2, <1>3, <1>4 DEF Hears, HeardInv, NoticeInv, Waited

\* What a change of the log does to the history of the breach.
LEMMA LastsType ==
  ASSUME NEW messages, NEW steps \in Nat, lasting \in Nat, Lasts(messages, steps)
  PROVE  /\ lasting' \in Nat /\ lasting' <= lasting + steps
         /\ ~Breached(messages) => lasting' = 0
<1>1. Patience + 1 \in Nat
  BY DelayType DEF Patience
<1> QED  BY <1>1 DEF Lasts, Capped

LEMMA AdvanceHears == ASSUME Hears, Advance PROVE Hears'
<1>1. /\ next' = IF next = 1 THEN Period ELSE next - 1
      /\ tick' = (tick \/ next = 1)
      /\ posting' = IF phase = "posting" THEN posting + 1 ELSE 0
      /\ sinceAlert' = IF sinceAlert + 1 > Window + 1 THEN Window + 1 ELSE sinceAlert + 1
      /\ UNCHANGED <<phase, ctxDone, failed>> /\ Lasts(log', 1)
      /\ phase = "waiting" => ~tick
      /\ phase = "posting" => posting # Timeout
  BY DEF Advance, Capped, Busy
<1>2. lasting' \in Nat /\ lasting' <= lasting + 1 /\ (~Breached(log') => lasting' = 0)
  BY <1>1, LastsType DEF Hears, ClockInv
<1>3. unheard' \in Nat /\ unheard' <= unheard + 1
  <2>1. Patience + 1 \in Nat
    BY DelayType DEF Patience
  <2> QED  BY <2>1 DEF Advance, Capped, Hears, ClockInv
<1>4. ClockInv'
  <2>1. tick' \in BOOLEAN
    BY <1>1
  <2> QED  BY <1>1, <1>2, <1>3, <2>1, DelayType DEF Hears, ClockInv
<1>5. phase # "returned" => Slack' >= Slack + 1
  <2>1. CASE phase = "posting"
    <3>1. posting \in Nat /\ posting' = posting + 1 /\ phase' = "posting"
      BY <1>1, <2>1 DEF Hears, ClockInv
    <3> QED  BY <2>1, <3>1, DelayType DEF Slack, SlackOf
  <2>2. CASE phase = "waiting"
    <3>1. tick = FALSE /\ tick' = (next = 1) /\ phase' = phase /\ phase # "posting"
      BY <1>1, <2>2 DEF Hears, ClockInv
    <3>2. /\ posting \in Nat /\ sinceAlert \in 0 .. Window + 1 /\ next \in 1 .. Period
      BY DEF Hears, ClockInv
    <3>3. SlackOf(phase, posting', sinceAlert', next = 1, next')
            >= SlackOf(phase, posting, sinceAlert, FALSE, next) + 1
      BY <1>1, <3>1, <3>2, SlackGrows
    <3> QED  BY <3>1, <3>3 DEF Slack
  <2> QED  BY <2>1, <2>2 DEF Hears, ClockInv
<1>6. ~ctxDone => Waited(failed * Delay + Slack)'
  <2> SUFFICES ASSUME ~ctxDone PROVE Waited(failed * Delay + Slack)'
    OBVIOUS
  <2>1. phase # "returned" /\ Waited(failed * Delay + Slack)
    BY DEF Hears, HeardInv
  <2>2. /\ failed' = failed /\ failed * Delay \in Nat /\ Slack \in Nat /\ Slack' \in Int
        /\ Slack' >= Slack + 1
    <3>1. Slack' \in Int
      BY <1>4, SlackRange DEF ClockInv, Slack
    <3>2. failed \in Nat
      BY DelayType DEF Hears, ClockInv
    <3> QED  BY <1>1, <1>5, <2>1, <3>1, <3>2, SlackType, DelayTimes DEF Hears
  <2> DEFINE spent == failed * Delay
  <2>3. (failed * Delay)' = spent
    BY <2>2
  <2>4. spent \in Nat /\ (lasting <= spent + Slack \/ unheard <= spent + Slack)
    BY <2>1, <2>2 DEF Waited
  <2>5. /\ spent \in Nat /\ Slack \in Nat /\ Slack' \in Int /\ Slack' >= Slack + 1
        /\ lasting \in Nat /\ unheard \in Nat
    BY <2>2 DEF Hears, ClockInv
  <2> HIDE DEF spent
  <2>6. lasting' <= spent + Slack' \/ unheard' <= spent + Slack'
    BY <1>2, <1>3, <2>4, <2>5, WaitedMore
  <2> QED  BY <2>3, <2>6 DEF Waited
<1> QED  BY <1>1, <1>2, <1>4, <1>6 DEF Hears, HeardInv, NoticeInv

\* Steps that take no time and leave the alerter where it is.
LEMMA LogHears ==
  ASSUME Hears, Cleared \/ \E kind \in Kinds, age \in 0 .. MaxLag : Stored(kind, age)
  PROVE  Hears'
<1>1. /\ UNCHANGED <<next, tick, phase, posting, sinceAlert, ctxDone, failed, unheard>>
      /\ Lasts(log', 0)
  BY DEF Cleared, Stored
<1>2. lasting' \in Nat /\ lasting' <= lasting /\ (~Breached(log') => lasting' = 0)
  BY <1>1, LastsType DEF Hears, ClockInv
<1>3. ClockInv' /\ Slack' = Slack
  BY <1>1, <1>2 DEF Hears, ClockInv, Slack
<1>4. Waited(failed * Delay + Slack) => Waited(failed * Delay + Slack)'
  <2>1. failed * Delay \in Nat /\ Slack \in Nat
    <3>1. failed \in Nat
      BY DelayType DEF Hears, ClockInv
    <3> QED  BY <3>1, SlackType, DelayTimes DEF Hears
  <2> QED  BY <1>1, <1>2, <1>3, <2>1 DEF Waited, Hears, ClockInv
<1> QED  BY <1>1, <1>2, <1>3, <1>4 DEF Hears, HeardInv, NoticeInv

LEMMA CheckHears == ASSUME Hears, Check PROVE Hears'
<1>1. /\ phase = "waiting" /\ tick /\ tick' = FALSE
      /\ UNCHANGED <<next, posting, ctxDone, failed, lasting, unheard, sinceAlert>>
      /\ \/ phase' = "posting" /\ CooledDown
         \/ UNCHANGED <<phase, log>> /\ (~CooledDown \/ ~Breached(log))
  BY DEF Check, BreachSeen
<1>2. ClockInv' /\ posting = 0
  BY <1>1 DEF Hears, ClockInv
<1>3. Slack \in Nat /\ Slack' \in Nat /\ failed * Delay \in Nat
  <2>1. Slack' \in Nat
    BY <1>2, SlackRange DEF ClockInv, Slack
  <2>2. failed \in Nat
    BY DelayType DEF Hears, ClockInv
  <2> QED  BY <2>1, <2>2, SlackType, DelayTimes DEF Hears
<1>4. Slack' = Slack \/ lasting = 0
  BY <1>1, <1>2, DelayType DEF Hears, HeardInv, NoticeInv, ClockInv, CooledDown, Slack, SlackOf
<1>5. Waited(failed * Delay + Slack) => Waited(failed * Delay + Slack)'
  BY <1>1, <1>3, <1>4 DEF Waited
<1>6. NoticeInv'
  BY <1>1 DEF Hears, HeardInv, NoticeInv
<1> QED  BY <1>1, <1>2, <1>5, <1>6 DEF Hears, HeardInv

\* A failure, of QueryAll or of the post, is worth one more Delay.
LEMMA FailureHears ==
  ASSUME Hears, ~ctxDone, failed < MaxFailed, failed' = failed + 1,
         UNCHANGED <<lasting, unheard, ctxDone>>, phase' = "waiting",
         ClockInv', NoticeInv'
  PROVE  Hears'
<1>1. Slack \in Nat /\ Slack <= Delay /\ Slack' \in Nat
  <2>1. Slack' \in Nat
    BY SlackRange DEF ClockInv, Slack
  <2> QED  BY <2>1, SlackType DEF Hears
<1>2. failed \in Nat /\ failed * Delay \in Nat /\ (failed + 1) * Delay = failed * Delay + Delay
  <2>1. failed \in Nat
    BY DelayType DEF Hears, ClockInv
  <2> QED  BY <2>1, DelayTimes
<1> DEFINE spent == failed * Delay
<1>3. (failed * Delay)' = spent + Delay
  BY <1>2
<1>4. lasting <= spent + Slack \/ unheard <= spent + Slack
  BY DEF Hears, HeardInv, Waited
<1>5. spent \in Nat /\ Delay \in Nat /\ lasting \in Nat /\ unheard \in Nat
  BY <1>2, DelayType DEF Hears, ClockInv
<1> HIDE DEF spent
<1>6. lasting <= spent + Delay + Slack' \/ unheard <= spent + Delay + Slack'
  <2>1. PICK slack \in Nat : slack = Slack'
    BY <1>1
  <2>2. lasting <= spent + Delay + slack \/ unheard <= spent + Delay + slack
    BY <1>1, <1>4, <1>5
  <2> QED  BY <2>1, <2>2
<1> QED  BY <1>3, <1>6 DEF Hears, HeardInv, Waited

LEMMA CheckFailsHears == ASSUME Hears, CheckFails PROVE Hears'
<1>1. /\ phase = "waiting" /\ tick /\ failed < MaxFailed /\ failed' = failed + 1
      /\ tick' = FALSE
      /\ UNCHANGED <<log, next, phase, posting, sinceAlert, ctxDone, lasting, unheard>>
  BY DEF CheckFails
<1>2. ClockInv'
  <2>1. failed + 1 \in 0 .. MaxFailed
    BY <1>1, DelayType DEF Hears, ClockInv
  <2> QED  BY <1>1, <2>1 DEF Hears, ClockInv
<1>3. NoticeInv'
  BY <1>1 DEF Hears, HeardInv, NoticeInv
<1> QED  BY <1>1, <1>2, <1>3, FailureHears DEF Hears, HeardInv

LEMMA PostHears ==
  ASSUME Hears, PostDelivered \/ PostRefused \/ PostGivenUp PROVE Hears'
<1>1. /\ phase = "posting" /\ phase' = "waiting" /\ posting' = 0 /\ sinceAlert' = 0
      /\ UNCHANGED <<log, next, tick, ctxDone, lasting>>
  BY DEF PostDelivered, PostRefused, PostGivenUp, SetLastAlerted
<1>2. NoticeInv'
  BY <1>1, DelayType DEF NoticeInv
<1>3. CASE PostDelivered
  <2>1. failed' = 0 /\ unheard' = 0
    BY <1>3 DEF PostDelivered
  <2>2. ClockInv'
    BY <1>1, <2>1, DelayType DEF Hears, ClockInv
  <2>3. Slack' = 0 /\ failed' * Delay = 0
    BY <1>1, <2>1, DelayType DEF Slack, SlackOf
  <2> QED  BY <1>1, <1>2, <2>1, <2>2, <2>3 DEF Hears, HeardInv, Waited
<1>4. CASE PostRefused \/ PostGivenUp
  <2>1. /\ unheard' = unheard
        /\ \/ failed < MaxFailed /\ failed' = failed + 1
           \/ ctxDone /\ failed' = failed
    BY <1>4 DEF PostRefused, PostGivenUp
  <2>2. ClockInv'
    BY <1>1, <2>1, DelayType DEF Hears, ClockInv
  <2>3. CASE ctxDone
    BY <1>1, <1>2, <2>2, <2>3 DEF Hears, HeardInv
  <2>4. CASE ~ctxDone
    BY <1>1, <1>2, <2>1, <2>2, <2>4, FailureHears
  <2> QED  BY <2>3, <2>4
<1> QED  BY <1>3, <1>4

LEMMA HearsStep == Hears /\ [AlertNext]_alertVars => Hears'
<1> SUFFICES ASSUME Hears, [AlertNext]_alertVars PROVE Hears'
  OBVIOUS
<1>1. CASE Cancel
  <2>1. ctxDone' /\ UNCHANGED <<log, next, tick, phase, posting, sinceAlert, failed, lasting, unheard>>
    BY <1>1 DEF Cancel
  <2> QED  BY <2>1 DEF Hears, ClockInv, HeardInv, NoticeInv
<1>2. CASE Return
  <2>1. /\ ctxDone /\ phase' = "returned"
        /\ UNCHANGED <<next, tick, posting, sinceAlert, ctxDone, failed, lasting, unheard>>
    BY <1>2 DEF Return
  <2> QED  BY <2>1 DEF Hears, ClockInv, HeardInv, NoticeInv
<1>3. CASE UNCHANGED alertVars
  BY <1>3 DEF alertVars, Hears, ClockInv, HeardInv, NoticeInv, Slack, Waited
<1> QED
  BY <1>1, <1>2, <1>3, AdvanceHears, LogHears, CheckHears, CheckFailsHears, PostHears DEF AlertNext

\* While the alerter runs, a breach that lasts is told within Patience of its beginning
\* or of the alert before it (alert.go:50, 72, 110-115).
THEOREM AlerterBreachHeard == AlertSpec => []BreachHeard
<1>1. Hears => BreachHeard
  <2> SUFFICES ASSUME Hears, ~ctxDone PROVE ~(lasting > Patience /\ unheard > Patience)
    BY DEF BreachHeard
  <2>1. Waited(failed * Delay + Slack) /\ Slack \in Nat /\ Slack <= Delay
    BY SlackType DEF Hears, HeardInv
  <2>2. failed * Delay + Delay <= Patience /\ failed * Delay \in Nat /\ Patience \in Nat
    <3>1. failed \in Nat /\ MaxFailed - failed \in Nat /\ Delay \in Nat
      BY DelayType DEF Hears, ClockInv
    <3> DEFINE rest == MaxFailed - failed
    <3>2. MaxFailed = failed + rest /\ rest \in Nat
      BY <3>1, DelayType
    <3> HIDE DEF rest
    <3>3. Patience = failed * Delay + Delay + rest * Delay
      BY <3>1, <3>2 DEF Patience
    <3>4. failed * Delay \in Nat /\ rest * Delay \in Nat
      BY <3>1, <3>2, DelayTimes
    <3> QED  BY <3>1, <3>3, <3>4
  <2> DEFINE spent == failed * Delay
  <2>3. /\ lasting <= spent + Slack \/ unheard <= spent + Slack
        /\ spent + Delay <= Patience /\ spent \in Nat
    BY <2>1, <2>2 DEF Waited
  <2> HIDE DEF spent
  <2> QED  BY <2>1, <2>2, <2>3, DelayType DEF Hears, ClockInv
<1> QED  BY <1>1, HearsInit, HearsStep, PTL DEF AlertSpec
=============================================================================
