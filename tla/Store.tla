------------------------------- MODULE Store -------------------------------
(***************************************************************************)
(* The message log of MCPWatch (internal/storage/badger.go): a bounded     *)
(* in-memory queue filled by Insert, one drain goroutine that collects     *)
(* batches and flushes each of them in one BadgerDB transaction together   *)
(* with the running statistics, the HTTP handlers that call Clear, TTL     *)
(* expiry, and the loss of the process between any two steps.              *)
(*                                                                         *)
(* A flush and a Clear run on different goroutines and share the id        *)
(* counter and the database, so each is split where the other can come     *)
(* in between: at every atomic operation on the counter and at every       *)
(* database call.  BadgerDB itself is not part of the repository; it is    *)
(* modelled by what its documentation promises to a caller:                *)
(*   - a transaction reads a snapshot and commits atomically, and fails    *)
(*     with ErrConflict when a key it read was committed in the meantime;  *)
(*   - DropAll makes every commit fail with ErrBlockedWrites while it      *)
(*     runs, and so does a second DropAll;                                 *)
(*   - SetEntry fails with ErrTxnTooBig once the transaction is full.      *)
(***************************************************************************)
EXTENDS Integers, Sequences, FiniteSets, FiniteSetsExt, SequencesExt

CONSTANTS
  Shapes,      \* what a message is to the statistics: [type, err, latency, bytes]
  Stamps,      \* the clock readings within one process run
  Clearers,    \* the HTTP handler goroutines that may run Clear
  QueueCap,    \* capacity of the queue channel (4096)
  BatchSize,   \* messages that trigger a flush (256)
  TxnLimit,    \* bytes a transaction holds before ErrTxnTooBig
  Radix,       \* the base in which a key shows an id (10)
  IdDigits,    \* the digits to which it is padded (6)
  NoStats,     \* the database has no "stats" key
  NoTxn,       \* the drain goroutine is in its select, not in flush
  MaxMsgs,     \* bound: messages inserted
  MaxClears,   \* bound: calls of Clear
  MaxSessions  \* bound: runs of the process

MsgTypes == {"request", "response", "notification", "stderr"}

ASSUME StoreAssumption ==
  /\ Shapes \subseteq [type : MsgTypes, err : BOOLEAN, latency : Nat, bytes : Nat]
  /\ Stamps \subseteq Nat
  /\ QueueCap \in Nat \ {0} /\ BatchSize \in Nat \ {0} /\ TxnLimit \in Nat
  /\ Radix \in Nat \ {0, 1} /\ IdDigits \in Nat \ {0}
  /\ MaxMsgs \in Nat /\ MaxClears \in Nat /\ MaxSessions \in Nat \ {0}

Stats == [messages : Nat, requests : Nat, errors : Nat, latency : Nat, bytes : Nat]

\* A message: its place in the order of the Insert calls, its timestamp, its shape.
Message == [n : Nat \ {0}, ts : Nat \X Stamps, shape : Shapes]

Entry == [msg : Message, id : Nat, epoch : Nat]

\* flush's transaction: the statistics it has read and counts on, the messages done
\* and their bytes, its writes, and whether a commit will fail with ErrConflict.
Txn == [stats : Stats, done : 0 .. BatchSize, bytes : Nat,
        writes : SUBSET Entry, conflict : BOOLEAN]

ASSUME SentinelAssumption == NoStats \notin Stats /\ NoTxn \notin Txn

VARIABLES
  up,          \* the process runs
  session,     \* which run of the process this is
  nextMsg,     \* identity of the next message handed to Insert
  queue,       \* Store.queue
  batch,       \* runDrain's local batch
  txn,         \* flush's transaction, or NoTxn
  idCounter,   \* Store.idCounter
  entries,     \* the "msg:" keys of the database
  stats,       \* the "stats" key of the database, or NoStats
  clearing,    \* where each Clear call is
  blockWrites, \* BadgerDB refuses commits (a DropAll is running)
  clears,      \* calls of Clear so far
  epoch,       \* history: how often idCounter was reset
  expired,     \* history: entries committed since the last DropAll that TTL has removed
  overlapped   \* history: a flush ran while a Clear did

vars == <<up, session, nextMsg, queue, batch, txn, idCounter, entries, stats,
          clearing, blockWrites, clears, epoch, expired, overlapped>>
clearVars == <<clearing, blockWrites, clears>>
dbVars == <<entries, stats, expired>>

-----------------------------------------------------------------------------
(***************************************************************************)
(* Slips: what a plausible mistake would make of a definition below.  The  *)
(* specification does not use them; each one breaks a property.            *)
(***************************************************************************)

\* runDrain keeps the batch after flush, to try it again.
FlushReturnsForRetry == txn' = NoTxn /\ UNCHANGED batch

\* flush numbers the messages by their place in the batch.
NextIdInBatch == txn.done + 1

\* The key is the timestamp alone.
KeyByTime(e) == <<e.msg.ts>>

\* The ticker waits for a full batch, like the receive.
BatchDueWhenFull == Len(batch) >= BatchSize

\* Clear returns without writing the statistics back.
ClearStatsForgotten(c) ==
  /\ up /\ clearing[c] = "dropped"
  /\ clearing' = [clearing EXCEPT ![c] = "idle"]
  /\ UNCHANGED <<up, session, nextMsg, queue, batch, txn, idCounter, dbVars,
                 blockWrites, clears, epoch, overlapped>>

\* New leaves the statistics missing.
RecoveredStatsMissing == stats

\* The id in a key is not padded.
DigitsUnpadded(id) == Min({n \in 1 .. id + 1 : id < Radix ^ n})

-----------------------------------------------------------------------------
(***************************************************************************)
(* Keys and statistics.                                                    *)
(***************************************************************************)

\* The database key "msg:<timestamp>:<id>".
Key(e) == <<e.msg.ts, e.id>>

\* How many digits a key has for an id: a larger id is not cut off.
Digits(id) == Min({n \in IdDigits .. IdDigits + id : id < Radix ^ n})

\* The order of two ids in keys is that of strings: the shorter one is compared with as
\* many digits of the longer one.
IdBefore(i, j) ==
  \/ Digits(i) = Digits(j) /\ i < j
  \/ Digits(i) < Digits(j) /\ i <= j \div Radix ^ (Digits(j) - Digits(i))
  \/ Digits(i) > Digits(j) /\ i \div Radix ^ (Digits(i) - Digits(j)) < j

\* The order of keys: a timestamp has all its digits.
Earlier(t, u) == t[1] < u[1] \/ (t[1] = u[1] /\ t[2] < u[2])
KeyBefore(e, f) ==
  Earlier(e.msg.ts, f.msg.ts) \/ (e.msg.ts = f.msg.ts /\ IdBefore(e.id, f.id))

\* QueryAll and QueryRecent iterate over the keys, the one from the first key and the
\* other from the last one, until it has as many as it may list.
InKeyOrder(list) == \A i, j \in DOMAIN list : i < j => KeyBefore(list[i], list[j])
QueryAll == CHOOSE list \in SetToSeqs(entries) : InKeyOrder(list)
QueryRecent(limit) ==
  LET newest == Reverse(QueryAll) IN SubSeq(newest, 1, Min({limit, Len(newest)}))

ZeroStats == [messages |-> 0, requests |-> 0, errors |-> 0, latency |-> 0, bytes |-> 0]

One(b) == IF b THEN 1 ELSE 0

\* The statistics after one more message.  The code keeps the average
\* latency and multiplies it back by the count: here it is the exact sum.
Count(s, m) ==
  [messages |-> s.messages + 1,
   requests |-> s.requests + One(m.shape.type = "request"),
   errors   |-> s.errors + One(m.shape.err),
   latency  |-> s.latency + m.shape.latency,
   bytes    |-> s.bytes + m.shape.bytes]

\* Of several writes of one key the last one is what the log holds.
Visible(S) == {e \in S : \A f \in S : Key(f) = Key(e) => f.msg.n <= e.msg.n}

AllIdle == \A c \in Clearers : clearing[c] = "idle"

-----------------------------------------------------------------------------
Init ==
  /\ up = TRUE /\ session = 1 /\ nextMsg = 1
  /\ queue = <<>> /\ batch = <<>> /\ txn = NoTxn
  /\ idCounter = 0 /\ entries = {} /\ stats = ZeroStats
  /\ clearing = [c \in Clearers |-> "idle"] /\ blockWrites = FALSE /\ clears = 0
  /\ epoch = 0 /\ expired = {}
  /\ overlapped = FALSE

\* The send in Insert would block.
QueueFull == Len(queue) >= QueueCap

\* Insert: a send that never blocks; a message that finds the queue full is dropped.
Insert(shape, t) ==
  /\ up /\ nextMsg <= MaxMsgs
  /\ nextMsg' = nextMsg + 1
  /\ \/ /\ ~QueueFull
        /\ queue' = Append(queue, [n |-> nextMsg, ts |-> <<session, t>>, shape |-> shape])
     \/ /\ QueueFull
        /\ UNCHANGED queue
  /\ UNCHANGED <<up, session, batch, txn, idCounter, clearVars, dbVars, epoch, overlapped>>

\* flush opens its transaction: it reads the statistics of the snapshot, and
\* starts from zero when there are none.
OpenTxn ==
  [stats    |-> IF stats = NoStats THEN ZeroStats ELSE stats,
   done     |-> 0,
   bytes    |-> 0,
   writes   |-> {},
   conflict |-> FALSE]

\* runDrain's select takes a message; a full batch is flushed at once.
DrainReceive ==
  /\ up /\ txn = NoTxn /\ queue # <<>>
  /\ batch' = Append(batch, Head(queue))
  /\ queue' = Tail(queue)
  /\ txn' = IF Len(batch') >= BatchSize THEN OpenTxn ELSE NoTxn
  /\ UNCHANGED <<up, session, nextMsg, idCounter, clearVars, dbVars, epoch, overlapped>>

\* What the ticker flushes: any batch that is not empty.
BatchDue == Len(batch) > 0

\* runDrain's ticker fires.
TickerFires ==
  /\ up /\ txn = NoTxn
  /\ txn' = IF BatchDue THEN OpenTxn ELSE NoTxn
  /\ UNCHANGED <<up, session, nextMsg, queue, batch, idCounter, clearVars, dbVars, epoch, overlapped>>

\* flush is over, with or without a commit: the error is only logged, and
\* runDrain empties the batch.
FlushReturns == txn' = NoTxn /\ batch' = <<>>

\* The id flush gives to its next message: idCounter.Add(1).
NextId == idCounter + 1

\* One turn of flush's loop: an id is taken from the counter, and the entry and
\* its share of the statistics join the transaction, if they still fit.
FlushRecord ==
  /\ up /\ txn # NoTxn /\ txn.done < Len(batch)
  /\ LET m == batch[txn.done + 1]
         e == [msg |-> m, id |-> NextId, epoch |-> epoch]
     IN  /\ idCounter' = NextId
         /\ \/ /\ txn.bytes + m.shape.bytes <= TxnLimit
               /\ txn' = [txn EXCEPT !.done = @ + 1,
                                     !.bytes = @ + m.shape.bytes,
                                     !.writes = @ \union {e},
                                     !.stats = Count(@, m)]
               /\ UNCHANGED batch
            \/ /\ txn.bytes + m.shape.bytes > TxnLimit
               /\ FlushReturns
  /\ overlapped' = (overlapped \/ ~AllIdle)
  /\ UNCHANGED <<up, session, nextMsg, queue, clearVars, dbVars, epoch>>

\* The commit of flush's transaction: entries and statistics together, or neither.
FlushCommit ==
  /\ up /\ txn # NoTxn /\ txn.done = Len(batch)
  /\ FlushReturns
  /\ \/ /\ ~blockWrites /\ ~txn.conflict
        /\ entries' = Visible(entries \union txn.writes)
        /\ stats' = txn.stats
        /\ UNCHANGED expired
     \/ /\ blockWrites \/ txn.conflict
        /\ UNCHANGED dbVars
  /\ overlapped' = (overlapped \/ ~AllIdle)
  /\ UNCHANGED <<up, session, nextMsg, queue, idCounter, clearVars, epoch>>

\* BadgerDB expires entries by age: they were written in the order of their messages.
Expire ==
  /\ \E e \in entries :
       LET old == {f \in entries : f.msg.n <= e.msg.n}
       IN  /\ entries' = entries \ old
           /\ expired' = expired \union old
  /\ UNCHANGED <<up, session, nextMsg, queue, batch, txn, idCounter, stats, clearVars, epoch, overlapped>>

\* Clear, first step: idCounter.Store(0).
ClearCounter(c) ==
  /\ up /\ clearing[c] = "idle" /\ clears < MaxClears
  /\ clears' = clears + 1
  /\ clearing' = [clearing EXCEPT ![c] = "counted"]
  /\ idCounter' = 0
  /\ epoch' = epoch + 1
  /\ overlapped' = (overlapped \/ txn # NoTxn)
  /\ UNCHANGED <<up, session, nextMsg, queue, batch, txn, blockWrites, dbVars>>

\* Clear calls DropAll, which fails at once while another DropAll runs.
ClearDropBegin(c) ==
  /\ up /\ clearing[c] = "counted"
  /\ \/ /\ ~blockWrites
        /\ blockWrites' = TRUE
        /\ clearing' = [clearing EXCEPT ![c] = "dropping"]
     \/ /\ blockWrites
        /\ clearing' = [clearing EXCEPT ![c] = "idle"]
        /\ UNCHANGED blockWrites
  /\ UNCHANGED <<up, session, nextMsg, queue, batch, txn, idCounter, clears, dbVars, epoch, overlapped>>

\* DropAll has removed every key and lets commits through again.  Unless a flush is
\* under way or has taken ids since the counter was reset, the past is forgotten.
ClearDropEnd(c) ==
  /\ up /\ clearing[c] = "dropping"
  /\ clearing' = [clearing EXCEPT ![c] = "dropped"]
  /\ blockWrites' = FALSE
  /\ entries' = {} /\ stats' = NoStats /\ expired' = {}
  /\ LET quiet == txn = NoTxn /\ idCounter = 0
     IN  overlapped' = (overlapped /\ ~quiet)
  /\ UNCHANGED <<up, session, nextMsg, queue, batch, txn, idCounter, clears, epoch>>

\* Clear's last step, a blind write of zero statistics: it conflicts with nothing,
\* but a flush that read the statistics earlier will conflict with it.
ClearStats(c) ==
  /\ up /\ clearing[c] = "dropped"
  /\ clearing' = [clearing EXCEPT ![c] = "idle"]
  /\ \/ /\ ~blockWrites
        /\ stats' = ZeroStats
        /\ txn' = IF txn = NoTxn THEN NoTxn ELSE [txn EXCEPT !.conflict = TRUE]
     \/ /\ blockWrites
        /\ UNCHANGED <<stats, txn>>
  /\ UNCHANGED <<up, session, nextMsg, queue, batch, idCounter, entries, expired,
                 blockWrites, clears, epoch, overlapped>>

\* The process ends, by a signal or by main's return after Store.Close: what is
\* only in memory is lost, and Close writes none of it.
Exit ==
  /\ up /\ session < MaxSessions
  /\ up' = FALSE
  /\ queue' = <<>> /\ batch' = <<>> /\ txn' = NoTxn
  /\ clearing' = [c \in Clearers |-> "idle"] /\ blockWrites' = FALSE
  /\ UNCHANGED <<session, nextMsg, idCounter, clears, dbVars, epoch, overlapped>>

\* Where New starts the id counter, and the statistics it leaves in the database.
RecoveredCount == IF stats = NoStats THEN 0 ELSE stats.messages
RecoveredStats == IF stats = NoStats THEN ZeroStats ELSE stats

\* New: the id counter starts from the stored count of messages, and a missing
\* "stats" key is written as zero.
New ==
  /\ ~up
  /\ up' = TRUE /\ session' = session + 1
  /\ stats' = RecoveredStats
  /\ idCounter' = RecoveredCount
  /\ epoch' = epoch + 1
  /\ UNCHANGED <<nextMsg, queue, batch, txn, clearVars, entries, expired, overlapped>>

DrainStep == DrainReceive \/ TickerFires \/ FlushRecord \/ FlushCommit

Next ==
  \/ \E shape \in Shapes, t \in Stamps : Insert(shape, t)
  \/ DrainReceive \/ TickerFires \/ FlushRecord \/ FlushCommit
  \/ \E c \in Clearers : ClearCounter(c) \/ ClearDropBegin(c) \/ ClearDropEnd(c) \/ ClearStats(c)
  \/ Expire \/ Exit \/ New

Spec == Init /\ [][Next]_vars

\* The drain goroutine never stops: it is scheduled, and its database calls return.
FairSpec == Spec /\ WF_vars(DrainStep)

-----------------------------------------------------------------------------
(***************************************************************************)
(* Properties.                                                             *)
(***************************************************************************)

Committed == entries \union expired

TxnWrites == IF txn = NoTxn THEN {} ELSE txn.writes

\* The types, with the bounds of the queue and of the batch.
TypeOK ==
  /\ up \in BOOLEAN /\ session \in Nat /\ nextMsg \in Nat \ {0}
  /\ queue \in Seq(Message) /\ Len(queue) <= QueueCap
  /\ batch \in Seq(Message) /\ Len(batch) <= BatchSize
  /\ txn \in Txn \union {NoTxn}
  /\ idCounter \in Nat /\ entries \subseteq Entry /\ stats \in Stats \union {NoStats}
  /\ clearing \in [Clearers -> {"idle", "counted", "dropping", "dropped"}]
  /\ blockWrites \in BOOLEAN /\ clears \in Nat
  /\ epoch \in Nat /\ expired \subseteq Entry
  /\ overlapped \in BOOLEAN

NumbersOf(q) == {q[i].n : i \in DOMAIN q}
Numbers(S) == {e.msg.n : e \in S}

\* A message is in one place only: waiting in the queue, waiting in the batch,
\* or committed, and it is committed at most once, whichever way the flush
\* that carried it ended.
StoredOnce ==
  /\ NumbersOf(queue) \intersect NumbersOf(batch) = {}
  /\ (NumbersOf(queue) \union NumbersOf(batch)) \intersect Numbers(Committed) = {}
  /\ \A e, f \in Committed : e.msg.n = f.msg.n => e = f

\* Between two resets of the counter, ids order the stored messages as they
\* arrived: later messages have larger ids, and no id is given twice.
IdsFollowArrival ==
  \A e, f \in Committed \union TxnWrites :
    e.epoch = f.epoch /\ e.msg.n < f.msg.n => e.id < f.id

\* What the dashboard lists are the newest messages, by their time and those of one
\* instant by their arrival, the newest first, whatever was cleared, expired or lost in
\* between, as long as ids have the digits of a key and the counter was not reset while
\* messages of the same instant were flushed (the keys of these cannot tell their order).
SameCount(S) == \A e, f \in S : e.msg.ts = f.msg.ts => e.epoch = f.epoch
Older(m, l) == Earlier(m.ts, l.ts) \/ (m.ts = l.ts /\ m.n < l.n)
RecentAreNewest ==
  SameCount(entries) /\ (\A e \in entries : e.id < Radix ^ IdDigits) =>
    \A limit \in 1 .. MaxMsgs :
      LET listed == QueryRecent(limit)
      IN  /\ \A i, j \in DOMAIN listed : i < j => Older(listed[j].msg, listed[i].msg)
          /\ \A e \in entries \ ToSet(listed) :
               \A i \in DOMAIN listed : Older(e.msg, listed[i].msg)
          /\ Len(listed) = Min({limit, Cardinality(entries)})

\* The sum of a part of the messages: of their latencies or of their bytes.
Total(S, part) == MapThenSumSet(LAMBDA e : e.msg.shape[part], S)

Tally(S) ==
  [messages |-> Cardinality(S),
   requests |-> Cardinality({e \in S : e.msg.shape.type = "request"}),
   errors   |-> Cardinality({e \in S : e.msg.shape.err}),
   latency  |-> Total(S, "latency"),
   bytes    |-> Total(S, "bytes")]

\* The statistics the dashboard shows are those of the messages committed since the
\* last Clear, through failed flushes, expiry and restarts.  Only a flush that ran
\* together with a Clear can make the two differ, until the next Clear.
StatsMatchLog == ~overlapped /\ stats # NoStats => stats = Tally(Committed)

\* The dashboard reads the statistics with one Get, and a missing key is an error
\* to it: only while some Clear is between DropAll and its reset may it be missing,
\* even when two Clear calls fail each other.
StatsReadable ==
  up /\ stats = NoStats => \E c \in Clearers : clearing[c] \in {"dropping", "dropped"}

\* Once the Clear calls are over, the statistics count no message that they removed,
\* although a flush may have read them before the Clear and committed after it: such a
\* flush either fails or is undone by the reset.  Only the end of the process between
\* DropAll and the reset can leave a stale count, so this is about the first run.
ClearedStayUncounted ==
  up /\ session = 1 /\ AllIdle /\ stats # NoStats => stats.messages <= Cardinality(Committed)

\* Every message that Insert accepted leaves the memory: it is committed, or given
\* up by a failed flush or the end of the process, even if no other message follows.
Pending(n) == n \in NumbersOf(queue) \union NumbersOf(batch)
EventuallyDrained == \A n \in 1 .. MaxMsgs : Pending(n) ~> ~Pending(n)
=============================================================================
