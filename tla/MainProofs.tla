----------------------------- MODULE MainProofs -----------------------------
(***************************************************************************)
(* What main.go promises, for any number of sources, any capacities, any   *)
(* number of messages, and any command lines and files.                    *)
(*                                                                         *)
(* Its loop (Pipeline): the types, that no message is forgotten, that the  *)
(* log keeps each source's order and the order of the live feed, and that  *)
(* a live message's id is the one it is stored under.                      *)
(*                                                                         *)
(* Its start and end (Startup): that the program runs as asked, and when   *)
(* it may leave a database open.  That argument follows main from phase to *)
(* phase: what each phase has made sure of when it is over.                *)
(***************************************************************************)
EXTENDS Pipeline, Startup, SequenceTheorems, FiniteSetTheorems, TLAPS

USE DEF sourceVars, stopVars, drainVars, At

\* main holds a message between its select and the end of the broadcast, only then.
InHand == msg # NoMsg <=> pc \in {"insert", "broadcast"}

\* A full batch is flushed at once.
BatchRoom == numbered = -1 => Len(batch) < BatchSize

PipeInv == TypeOK /\ InHand /\ BatchRoom

LEMMA MessageType ==
  ASSUME NEW s \in Sources, NEW n \in 1 .. MaxLines
  PROVE  [src |-> s, n |-> n] \in Message
BY DEF Message

LEMMA PipeInit == Init => PipeInv
<1> SUFFICES ASSUME Init PROVE PipeInv
  OBVIOUS
<1>1. /\ lines \in [Sources -> 0 .. MaxLines] /\ held \in [Sources -> 0 .. MaxLines]
      /\ id \in [Message -> Nat] /\ idCounter \in Nat /\ numbered \in -1 .. BatchSize
  BY PipelineAssumption DEF Init
<1>2. /\ messages = <<>> /\ queue = <<>> /\ batch = <<>> /\ feed = <<>>
      /\ Len(<<>>) = 0
  BY DEF Init
<1>3. /\ messages \in Seq(Message) /\ queue \in Seq(Message) /\ batch \in Seq(Message)
      /\ feed \in Seq(Occurrence)
      /\ Len(messages) <= ChanCap /\ Len(queue) <= QueueCap /\ Len(batch) <= BatchSize
  BY <1>2, PipelineAssumption
<1>4. BatchRoom
  BY <1>2, PipelineAssumption DEF Init, BatchRoom
<1> QED  BY <1>1, <1>3, <1>4 DEF Init, PipeInv, TypeOK, InHand

\* What happens to a bounded queue of messages.
LEMMA QueueSteps ==
  ASSUME NEW q \in Seq(Message), NEW cap \in Nat, Len(q) <= cap
  PROVE  /\ q # <<>> => /\ Head(q) \in Message /\ Tail(q) \in Seq(Message)
                        /\ Len(Tail(q)) <= cap
         /\ \A m \in Message : Append(q, m) \in Seq(Message)
         /\ \A m \in Message : Len(q) < cap => Len(Append(q, m)) <= cap
OBVIOUS

LEMMA SourceSteps ==
  ASSUME PipeInv, NEW s \in Sources, Read(s) \/ Offer(s)
  PROVE  PipeInv'
<1>1. CASE Read(s)
  <2>1. lines[s] + 1 \in 0 .. MaxLines
    BY <1>1, PipelineAssumption DEF Read, PipeInv, TypeOK
  <2>2. lines' \in [Sources -> 0 .. MaxLines] /\ held' \in [Sources -> 0 .. MaxLines]
    BY <1>1, <2>1 DEF Read, PipeInv, TypeOK
  <2> QED  BY <1>1, <2>2 DEF Read, PipeInv, TypeOK, InHand, BatchRoom
<1>2. CASE Offer(s)
  <2>1. held' \in [Sources -> 0 .. MaxLines] /\ held[s] \in 1 .. MaxLines
    BY <1>2, PipelineAssumption DEF Offer, PipeInv, TypeOK
  <2> DEFINE m == [src |-> s, n |-> held[s]]
  <2>2. m \in Message
    BY <2>1, MessageType
  <2>3. messages' \in Seq(Message) /\ Len(messages') <= ChanCap
    <3> HIDE DEF m
    <3>1. messages \in Seq(Message) /\ Len(messages) <= ChanCap /\ ChanCap \in Nat
      BY PipelineAssumption DEF PipeInv, TypeOK
    <3>2. CASE ~ChannelFull /\ messages' = Append(messages, m)
      <4>1. Len(messages) < ChanCap
        BY <3>1, <3>2 DEF ChannelFull
      <4>2. Append(messages, m) \in Seq(Message) /\ Len(Append(messages, m)) <= ChanCap
        BY <2>2, <3>1, <4>1, QueueSteps
      <4> QED  BY <3>2, <4>2
    <3>3. CASE UNCHANGED messages
      BY <3>1, <3>3
    <3> QED  BY <1>2, <3>2, <3>3 DEF Offer, Refuse, m
  <2> QED  BY <1>2, <2>1, <2>3 DEF Offer, PipeInv, TypeOK, InHand, BatchRoom
<1> QED  BY <1>1, <1>2

LEMMA MainSteps ==
  ASSUME PipeInv,
         \/ Receive \/ TransportEnded \/ Done \/ Insert \/ Broadcast \/ Exit
         \/ TransportReturns \/ Signal
  PROVE  PipeInv'
<1>1. CASE Receive
  <2>1. messages \in Seq(Message) /\ messages # <<>> /\ Len(messages) <= ChanCap
    BY <1>1 DEF Receive, PipeInv, TypeOK
  <2>2. Head(messages) \in Message /\ Tail(messages) \in Seq(Message)
        /\ Len(Tail(messages)) <= ChanCap
    BY <2>1, PipelineAssumption, QueueSteps
  <2>3. Head(messages) # NoMsg
    BY <2>2, NoMsgAssumption
  <2>4. TypeOK'
    BY <1>1, <2>2 DEF Receive, PipeInv, TypeOK
  <2> QED  BY <1>1, <2>3, <2>4 DEF Receive, PipeInv, InHand, BatchRoom
<1>2. CASE Insert
  <2>1. msg \in Message
    BY <1>2 DEF Insert, PipeInv, TypeOK, InHand, BatchRoom
  <2>2. queue' \in Seq(Message) /\ Len(queue') <= QueueCap /\ refused' \subseteq Message
    <3>1. /\ queue \in Seq(Message) /\ Len(queue) <= QueueCap /\ refused \subseteq Message
          /\ QueueCap \in Nat
      BY PipelineAssumption DEF PipeInv, TypeOK
    <3>2. CASE Len(queue) < QueueCap /\ queue' = Append(queue, msg) /\ UNCHANGED refused
      <4>1. Append(queue, msg) \in Seq(Message) /\ Len(Append(queue, msg)) <= QueueCap
        BY <2>1, <3>1, <3>2, QueueSteps
      <4> QED  BY <3>1, <3>2, <4>1
    <3>3. CASE refused' = refused \union {msg} /\ UNCHANGED queue
      BY <2>1, <3>1, <3>3
    <3> QED  BY <1>2, <3>2, <3>3 DEF Insert, Refused
  <2>3. pc' = "broadcast"
    BY <1>2 DEF Insert, AfterInsert
  <2> QED  BY <1>2, <2>2, <2>3 DEF Insert, PipeInv, TypeOK, InHand, BatchRoom
<1>3. CASE Broadcast
  <2>1. msg \in Message /\ id[msg] \in Nat
    BY <1>3 DEF Broadcast, PipeInv, TypeOK, InHand, BatchRoom
  <2>2. [msg |-> msg, id |-> IdSeen] \in Occurrence
    BY <2>1 DEF Occurrence, IdSeen
  <2>3. feed \in Seq(Occurrence)
    BY DEF PipeInv, TypeOK
  <2>4. feed' \in Seq(Occurrence)
    BY <1>3, <2>2, <2>3 DEF Broadcast
  <2> QED  BY <1>3, <2>4 DEF Broadcast, PipeInv, TypeOK, InHand, BatchRoom
<1>4. CASE TransportEnded \/ TransportReturns \/ Signal
  BY <1>4 DEF TransportEnded, TransportReturns, Signal, PipeInv, TypeOK, InHand, BatchRoom
<1>5. CASE Done \/ Exit
  BY <1>5 DEF Done, Exit, PipeInv, TypeOK, InHand, BatchRoom
<1> QED  BY <1>1, <1>2, <1>3, <1>4, <1>5

LEMMA DrainSteps ==
  ASSUME PipeInv, DrainReceive \/ TickerFires \/ FlushNumber \/ FlushCommit
  PROVE  PipeInv'
<1> DEFINE quiet == <<sourceVars, messages, stopVars, pc, msg, feed>>
<1>0. UNCHANGED quiet
  BY DEF DrainReceive, TickerFires, FlushNumber, FlushCommit
<1>1. /\ queue \in Seq(Message) /\ Len(queue) <= QueueCap
      /\ batch \in Seq(Message) /\ Len(batch) <= BatchSize
      /\ BatchSize \in Nat \ {0} /\ QueueCap \in Nat /\ Len(batch) \in Nat
  BY PipelineAssumption DEF PipeInv, TypeOK
<1>2. CASE DrainReceive
  <2>1. batch' \in Seq(Message) /\ queue' \in Seq(Message) /\ Len(queue') <= QueueCap
    BY <1>1, <1>2, QueueSteps DEF DrainReceive
  <2>2. Len(batch) < BatchSize
    BY <1>2 DEF DrainReceive, PipeInv, BatchRoom
  <2>3. Head(queue) \in Message /\ batch' = Append(batch, Head(queue))
    BY <1>1, <1>2, QueueSteps DEF DrainReceive
  <2>4. Len(batch') = Len(batch) + 1
    BY <1>1, <2>3
  <2>5. numbered' \in -1 .. BatchSize /\ Len(batch') <= BatchSize /\ BatchRoom'
    BY <1>1, <1>2, <2>2, <2>4 DEF DrainReceive, BatchRoom
  <2> QED  BY <1>0, <1>2, <2>1, <2>5 DEF DrainReceive, PipeInv, TypeOK, InHand
<1>3. CASE TickerFires
  BY <1>1, <1>3 DEF TickerFires, PipeInv, TypeOK, InHand, BatchRoom
<1>4. CASE FlushNumber
  BY <1>1, <1>4 DEF FlushNumber, NextId, PipeInv, TypeOK, InHand, BatchRoom
<1>5. CASE FlushCommit
  <2>1. batch' = <<>> /\ numbered' = -1 /\ Len(<<>>) = 0
    BY <1>5 DEF FlushCommit
  <2>2. batch' \in Seq(Message) /\ Len(batch') < BatchSize
    BY <1>1, <2>1
  <2>3. \A m \in ToSet(batch) : m \in Message
    BY <1>1 DEF ToSet
  <2>4. \A m \in ToSet(batch) : id[m] \in Nat
    BY <2>3 DEF PipeInv, TypeOK
  <2>5. {[msg |-> m, id |-> id[m]] : m \in ToSet(batch)} \subseteq Occurrence
    BY <2>3, <2>4 DEF Occurrence
  <2>6. stored' \subseteq Occurrence /\ refused' \subseteq Message
    BY <1>5, <2>3, <2>5 DEF FlushCommit, GivenUp, PipeInv, TypeOK
  <2>7. UNCHANGED <<quiet, id, queue, idCounter>>
    BY <1>5 DEF FlushCommit, GivenUp
  <2> QED  BY <1>1, <2>1, <2>2, <2>6, <2>7 DEF PipeInv, TypeOK, InHand, BatchRoom
<1> QED  BY <1>2, <1>3, <1>4, <1>5

LEMMA PipeStep == PipeInv /\ [Next]_vars => PipeInv'
<1>1. PipeInv /\ UNCHANGED vars => PipeInv'
  BY DEF vars, PipeInv, TypeOK, InHand, BatchRoom
<1> QED
  BY <1>1, SourceSteps, MainSteps, DrainSteps DEF Next, Ended

LEMMA PipeAlways == Spec => []PipeInv
BY PipeInit, PipeStep, PTL DEF Spec

-----------------------------------------------------------------------------
(***************************************************************************)
(* What main has handled.                                                  *)
(***************************************************************************)

LEMMA FeedMsgsType == ASSUME PipeInv PROVE FeedMsgs \in Seq(Message)
<1>1. feed \in Seq(Occurrence) /\ Len(feed) \in Nat
  BY DEF PipeInv, TypeOK
<1>2. \A k \in 1 .. Len(feed) : feed[k].msg \in Message
  <2>1. \A k \in 1 .. Len(feed) : feed[k] \in Occurrence
    BY <1>1
  <2>2. \A e \in Occurrence : e.msg \in Message
    BY DEF Occurrence
  <2> QED  BY <2>1, <2>2
<1> QED  BY <1>1, <1>2 DEF FeedMsgs

LEMMA HandledType == ASSUME PipeInv PROVE Handled \in Seq(Message)
<1>1. FeedMsgs \in Seq(Message)
  BY FeedMsgsType
<1>2. CASE msg = NoMsg
  BY <1>1, <1>2 DEF Handled
<1>3. CASE msg # NoMsg
  <2>1. msg \in Message
    BY <1>3 DEF PipeInv, TypeOK
  <2> QED  BY <1>1, <1>3, <2>1 DEF Handled
<1> QED  BY <1>2, <1>3

\* A broadcast adds the message in main's hands to the feed.
LEMMA FeedGrows ==
  ASSUME PipeInv, Broadcast
  PROVE  FeedMsgs' = Append(FeedMsgs, msg) /\ msg # NoMsg /\ msg \in Message
<1> DEFINE e == [msg |-> msg, id |-> IdSeen]
<1>1. /\ FeedMsgs \in Seq(Message) /\ feed \in Seq(Occurrence)
      /\ msg # NoMsg /\ msg \in Message /\ feed' = Append(feed, e)
  BY FeedMsgsType DEF Broadcast, PipeInv, TypeOK, InHand
<1>2. e \in Occurrence /\ e.msg = msg
  BY <1>1 DEF PipeInv, TypeOK, Occurrence, IdSeen
<1> HIDE DEF e
<1>3. /\ Len(Append(feed, e)) = Len(feed) + 1 /\ Len(feed) \in Nat
      /\ \A k \in 1 .. Len(feed) : Append(feed, e)[k] = feed[k]
      /\ Append(feed, e)[Len(feed) + 1] = e
  BY <1>1, <1>2
<1>4. FeedMsgs' = [k \in 1 .. Len(feed) + 1 |-> Append(feed, e)[k].msg]
  BY <1>1, <1>3 DEF FeedMsgs
<1>5. \A k \in 1 .. Len(feed) + 1 : k \in 1 .. Len(feed) \/ k = Len(feed) + 1
  BY <1>3
<1>6. \A k \in 1 .. Len(feed) + 1 :
        Append(feed, e)[k].msg = IF k <= Len(feed) THEN feed[k].msg ELSE msg
  BY <1>2, <1>3, <1>5
<1>7. Len(FeedMsgs) = Len(feed)
  BY <1>1 DEF FeedMsgs
<1>8. Append(FeedMsgs, msg)
        = [k \in 1 .. Len(feed) + 1 |-> IF k <= Len(feed) THEN feed[k].msg ELSE msg]
  BY <1>1, <1>3, <1>7 DEF FeedMsgs
<1> QED  BY <1>1, <1>4, <1>6, <1>8

\* The bounded channel, the queue and the batch keep their bounds, and main holds one
\* message at most (main.go:248-304, badger.go:104-123).
THEOREM PipelineTypes == Spec => []TypeOK
<1>1. PipeInv => TypeOK
  BY DEF PipeInv
<1> QED  BY PipeAlways, <1>1, PTL

-----------------------------------------------------------------------------
(***************************************************************************)
(* Where a message is, and the id it has.  Messages of one source are      *)
(* compared by their numbers; a message comes from the channel to main,    *)
(* from there to the queue, to the batch and to the log, and overtakes no  *)
(* other one of its source on the way.                                     *)
(***************************************************************************)

Ordered(q) == \A i, j \in 1 .. Len(q) : i < j /\ q[i].src = q[j].src => q[i].n < q[j].n
Before(A, B) == \A a \in A, b \in B : a.src = b.src => a.n < b.n

InFeed == ToSet(FeedMsgs)
InHands == IF msg = NoMsg THEN {} ELSE {msg}
InLog == {e.msg : e \in stored}
Waiting == ToSet(queue) \union ToSet(batch)
Inserted == InFeed \union (IF pc = "broadcast" THEN {msg} ELSE {})

\* Main gets the messages of a source in the order of their numbers.
ArrivalInv ==
  /\ \A s \in Sources : held[s] # 0 => held[s] = lines[s]
  /\ \A m \in InFeed \union InHands \union ToSet(messages) :
       m.n <= lines[m.src] /\ (held[m.src] # 0 => m.n < held[m.src])
  /\ Ordered(messages) /\ Before(InFeed \union InHands, ToSet(messages))
  /\ Ordered(FeedMsgs) /\ Before(InFeed, InHands)

\* So does the log, through the queue and the batch.
StoreInv ==
  /\ Ordered(queue) /\ Ordered(batch)
  /\ Before(ToSet(batch), ToSet(queue)) /\ Before(InLog, Waiting)
  /\ Inserted = Waiting \union InLog \union refused
  /\ Waiting \intersect InLog = {} /\ (Waiting \union InLog) \intersect refused = {}

\* The messages that a flush has numbered, and those that have an id.
Numbered == IF numbered = -1 THEN 0 ELSE numbered
IdInv ==
  /\ Numbered <= idCounter /\ Numbered <= Len(batch)
  /\ \A i \in 1 .. Len(batch) :
       id[batch[i]] = IF i <= Numbered THEN idCounter - Numbered + i ELSE 0
  /\ \A m \in Message : id[m] <= idCounter /\ (id[m] # 0 => m \in Inserted \ ToSet(queue))
  /\ \A m, l \in Message : id[m] # 0 /\ id[m] = id[l] => m = l
  /\ \A e \in stored : e.id = id[e.msg] /\ 0 < e.id /\ e.id <= idCounter - Numbered
  /\ \A e, f \in stored : e.msg.src = f.msg.src /\ e.msg.n < f.msg.n => e.id < f.id
  /\ \A k \in 1 .. Len(feed) : feed[k].id # 0 => feed[k].id = id[feed[k].msg]

LEMMA MessageParts == \A m \in Message : m.src \in Sources /\ m.n \in Nat /\ m.n > 0
BY PipelineAssumption DEF Message

LEMMA SameMessage == ASSUME NEW m \in Message, NEW l \in Message, m.src = l.src, m.n = l.n PROVE m = l
BY DEF Message

LEMMA SetOfAppend ==
  ASSUME NEW S, NEW q \in Seq(S), NEW x \in S
  PROVE  ToSet(Append(q, x)) = ToSet(q) \union {x}
<1>1. /\ Len(q) \in Nat /\ DOMAIN q = 1 .. Len(q)
      /\ DOMAIN Append(q, x) = 1 .. Len(q) + 1
      /\ \A i \in 1 .. Len(q) : Append(q, x)[i] = q[i]
      /\ Append(q, x)[Len(q) + 1] = x
  OBVIOUS
<1>2. \A i \in 1 .. Len(q) + 1 : i \in 1 .. Len(q) \/ i = Len(q) + 1
  BY <1>1
<1>3. \A i \in 1 .. Len(q) : i \in 1 .. Len(q) + 1
  BY <1>1
<1>4. Len(q) + 1 \in 1 .. Len(q) + 1
  BY <1>1
<1> QED  BY <1>1, <1>2, <1>3, <1>4 DEF ToSet

LEMMA SetOfTail ==
  ASSUME NEW S, NEW q \in Seq(S), q # <<>>
  PROVE  ToSet(q) = {Head(q)} \union ToSet(Tail(q))
<1>1. /\ Len(q) \in Nat /\ Len(q) > 0 /\ DOMAIN q = 1 .. Len(q)
      /\ DOMAIN Tail(q) = 1 .. Len(q) - 1
      /\ \A i \in 1 .. Len(q) - 1 : Tail(q)[i] = q[i + 1]
      /\ Head(q) = q[1]
  OBVIOUS
<1>2. \A i \in 1 .. Len(q) : i = 1 \/ (i - 1 \in 1 .. Len(q) - 1 /\ Tail(q)[i - 1] = q[i])
  BY <1>1
<1>3. \A i \in 1 .. Len(q) - 1 : i + 1 \in 1 .. Len(q)
  BY <1>1
<1>4. 1 \in 1 .. Len(q)
  BY <1>1
<1>5. \A x \in ToSet(q) : x = Head(q) \/ x \in ToSet(Tail(q))
  <2> SUFFICES ASSUME NEW x \in ToSet(q), x # Head(q) PROVE x \in ToSet(Tail(q))
    OBVIOUS
  <2>1. PICK i \in 1 .. Len(q) : x = q[i]
    BY <1>1 DEF ToSet
  <2>2. i - 1 \in DOMAIN Tail(q) /\ x = Tail(q)[i - 1]
    BY <1>1, <1>2, <2>1
  <2> QED  BY <2>2 DEF ToSet
<1>6. Head(q) \in ToSet(q) /\ \A x \in ToSet(Tail(q)) : x \in ToSet(q)
  BY <1>1, <1>3, <1>4 DEF ToSet
<1> QED  BY <1>5, <1>6

LEMMA SetsOfMessages == \A q \in Seq(Message) : ToSet(q) \subseteq Message
BY DEF ToSet

LEMMA OrderedMore ==
  ASSUME NEW q \in Seq(Message), NEW m \in Message, Ordered(q), Before(ToSet(q), {m})
  PROVE  Ordered(Append(q, m))
<1>1. /\ Len(q) \in Nat /\ Len(Append(q, m)) = Len(q) + 1
      /\ \A i \in 1 .. Len(q) : Append(q, m)[i] = q[i] /\ q[i] \in ToSet(q)
      /\ Append(q, m)[Len(q) + 1] = m
  BY DEF ToSet
<1>2. \A i \in 1 .. Len(q) + 1 : i \in 1 .. Len(q) \/ i = Len(q) + 1
  BY <1>1
<1>3. \A i, j \in 1 .. Len(q) + 1 : i < j => i \in 1 .. Len(q)
  BY <1>1
<1> QED  BY <1>1, <1>2, <1>3 DEF Ordered, Before

LEMMA OrderedLess ==
  ASSUME NEW q \in Seq(Message), q # <<>>, Ordered(q)
  PROVE  Ordered(Tail(q)) /\ Before({Head(q)}, ToSet(Tail(q)))
<1>1. /\ Len(q) \in Nat /\ Len(q) > 0 /\ Len(Tail(q)) = Len(q) - 1
      /\ DOMAIN Tail(q) = 1 .. Len(q) - 1
      /\ \A i \in 1 .. Len(q) - 1 : Tail(q)[i] = q[i + 1] /\ i + 1 \in 1 .. Len(q) /\ 1 < i + 1
      /\ Head(q) = q[1] /\ 1 \in 1 .. Len(q)
  OBVIOUS
<1>2. \A i, j \in 1 .. Len(q) - 1 : i < j => i + 1 < j + 1
  BY <1>1
<1>3. Ordered(Tail(q))
  BY <1>1, <1>2 DEF Ordered
<1>4. Before({Head(q)}, ToSet(Tail(q)))
  BY <1>1 DEF Ordered, Before, ToSet
<1> QED  BY <1>3, <1>4

LEMMA OrderedDistinct ==
  ASSUME NEW q \in Seq(Message), Ordered(q), NEW i \in 1 .. Len(q), NEW j \in 1 .. Len(q), q[i] = q[j]
  PROVE  i = j
<1>1. q[i] \in Message /\ q[i].n \in Nat
  BY MessageParts
<1>2. ~(i < j) /\ ~(j < i)
  BY <1>1 DEF Ordered
<1> QED  BY <1>2

LEMMA PlacesType ==
  ASSUME PipeInv
  PROVE  /\ messages \in Seq(Message) /\ queue \in Seq(Message) /\ batch \in Seq(Message)
         /\ FeedMsgs \in Seq(Message)
         /\ ToSet(messages) \subseteq Message /\ ToSet(queue) \subseteq Message
         /\ ToSet(batch) \subseteq Message
         /\ InFeed \subseteq Message /\ InHands \subseteq Message /\ InLog \subseteq Message
<1>1. /\ messages \in Seq(Message) /\ queue \in Seq(Message) /\ batch \in Seq(Message)
      /\ FeedMsgs \in Seq(Message)
  BY FeedMsgsType DEF PipeInv, TypeOK
<1>2. InHands \subseteq Message
  BY DEF PipeInv, TypeOK, InHands
<1>3. InLog \subseteq Message
  BY DEF PipeInv, TypeOK, InLog, Occurrence
<1> QED  BY <1>1, <1>2, <1>3, SetsOfMessages DEF InFeed

\* What a broadcast does to the sets.
LEMMA FeedSets ==
  ASSUME PipeInv, Broadcast
  PROVE  InFeed' = InFeed \union {msg} /\ InHands = {msg} /\ InHands' = {}
<1>1. FeedMsgs' = Append(FeedMsgs, msg) /\ msg # NoMsg /\ msg \in Message
  BY FeedGrows
<1>2. InFeed' = InFeed \union {msg}
  BY <1>1, FeedMsgsType, SetOfAppend DEF InFeed
<1> QED  BY <1>1, <1>2 DEF InHands, Broadcast

-----------------------------------------------------------------------------
(***************************************************************************)
(* The way to main.                                                        *)
(***************************************************************************)

LEMMA ArrivalQuiet ==
  ASSUME ArrivalInv, UNCHANGED <<lines, held, feed, msg, messages>>
  PROVE  ArrivalInv'
<1>1. InFeed' = InFeed /\ InHands' = InHands /\ FeedMsgs' = FeedMsgs
  BY DEF InFeed, InHands, FeedMsgs, ToSet
<1>2. Ordered(messages)' /\ Ordered(FeedMsgs)' /\ ToSet(messages)' = ToSet(messages)
  BY <1>1 DEF ArrivalInv, Ordered, ToSet
<1>3. Before(InFeed \union InHands, ToSet(messages))' /\ Before(InFeed, InHands)'
  BY <1>1, <1>2 DEF ArrivalInv, Before
<1> QED  BY <1>1, <1>2, <1>3 DEF ArrivalInv

LEMMA ArrivalRead ==
  ASSUME PipeInv, ArrivalInv, NEW s \in Sources, Read(s) PROVE ArrivalInv'
<1>1. /\ UNCHANGED <<feed, msg, messages>>
      /\ held[s] = 0 /\ lines \in [Sources -> Nat] /\ held \in [Sources -> Nat]
      /\ lines' = [lines EXCEPT ![s] = lines[s] + 1]
      /\ held' = [held EXCEPT ![s] = lines[s] + 1]
  BY PipelineAssumption DEF Read, PipeInv, TypeOK
<1>2. InFeed' = InFeed /\ InHands' = InHands /\ FeedMsgs' = FeedMsgs
  BY <1>1 DEF InFeed, InHands, FeedMsgs, ToSet
<1>3. InFeed \union InHands \union ToSet(messages) \subseteq Message
  BY PlacesType
<1>4. \A m \in InFeed \union InHands \union ToSet(messages) :
        m.n <= lines'[m.src] /\ (held'[m.src] # 0 => m.n < held'[m.src])
  BY <1>1, <1>3, MessageParts DEF ArrivalInv
<1>5. \A r \in Sources : held'[r] # 0 => held'[r] = lines'[r]
  BY <1>1 DEF ArrivalInv
<1>6. Ordered(messages)' /\ Ordered(FeedMsgs)' /\ ToSet(messages)' = ToSet(messages)
  BY <1>1, <1>2 DEF ArrivalInv, Ordered, ToSet
<1>7. Before(InFeed \union InHands, ToSet(messages))' /\ Before(InFeed, InHands)'
  BY <1>2, <1>6 DEF ArrivalInv, Before
<1> QED  BY <1>2, <1>4, <1>5, <1>6, <1>7 DEF ArrivalInv

LEMMA ArrivalOffer ==
  ASSUME PipeInv, ArrivalInv, NEW s \in Sources, Offer(s) PROVE ArrivalInv'
<1> DEFINE m == [src |-> s, n |-> held[s]]
<1>1. /\ UNCHANGED <<feed, msg, lines>>
      /\ held[s] # 0 /\ lines \in [Sources -> Nat] /\ held \in [Sources -> Nat]
      /\ held' = [held EXCEPT ![s] = 0] /\ messages \in Seq(Message)
  BY DEF Offer, PipeInv, TypeOK
<1>2. m \in Message /\ m.src = s /\ m.n = held[s]
  <2>1. held[s] \in 1 .. MaxLines
    BY PipelineAssumption DEF Offer, PipeInv, TypeOK
  <2> QED  BY <2>1, MessageType
<1>3. InFeed' = InFeed /\ InHands' = InHands /\ FeedMsgs' = FeedMsgs
  BY <1>1 DEF InFeed, InHands, FeedMsgs, ToSet
<1>4. messages' = messages \/ messages' = Append(messages, m)
  BY DEF Offer, Refuse, m
<1> HIDE DEF m
<1>5. InFeed \union InHands \union ToSet(messages) \subseteq Message
  BY PlacesType
<1>6. \A l \in InFeed \union InHands \union ToSet(messages) :
        /\ l.n <= lines[l.src] /\ (held'[l.src] # 0 => l.n < held'[l.src])
        /\ l.src = s => l.n < m.n
  BY <1>1, <1>2, <1>5, MessageParts DEF ArrivalInv
<1>7. \A r \in Sources : held'[r] # 0 => held'[r] = lines[r]
  BY <1>1 DEF ArrivalInv
<1>8. m.n <= lines[m.src] /\ held'[m.src] = 0
  BY <1>1, <1>2 DEF ArrivalInv
<1>9. CASE messages' = messages
  <2>1. Ordered(messages)' /\ Ordered(FeedMsgs)' /\ ToSet(messages)' = ToSet(messages)
    BY <1>3, <1>9 DEF ArrivalInv, Ordered, ToSet
  <2>2. Before(InFeed \union InHands, ToSet(messages))' /\ Before(InFeed, InHands)'
    BY <1>3, <2>1 DEF ArrivalInv, Before
  <2> QED  BY <1>1, <1>3, <1>6, <1>7, <2>1, <2>2 DEF ArrivalInv
<1>10. CASE messages' = Append(messages, m)
  <2>1. ToSet(messages)' = ToSet(messages) \union {m}
    BY <1>1, <1>2, <1>10, SetOfAppend
  <2>2. Before(ToSet(messages), {m}) /\ Before(InFeed \union InHands, {m})
    BY <1>2, <1>6 DEF Before
  <2>3. Ordered(messages) /\ Ordered(Append(messages, m))
    BY <1>1, <1>2, <2>2, OrderedMore DEF ArrivalInv
  <2>4. Ordered(messages)' /\ Ordered(FeedMsgs)'
    BY <1>3, <1>10, <2>3 DEF ArrivalInv, Ordered
  <2>5. Before(InFeed \union InHands, ToSet(messages))' /\ Before(InFeed, InHands)'
    BY <1>3, <2>1, <2>2 DEF ArrivalInv, Before
  <2> QED  BY <1>1, <1>3, <1>6, <1>7, <1>8, <2>1, <2>4, <2>5 DEF ArrivalInv
<1> QED  BY <1>4, <1>9, <1>10

LEMMA ArrivalReceive == ASSUME PipeInv, ArrivalInv, Receive PROVE ArrivalInv'
<1>1. /\ UNCHANGED <<feed, lines, held>> /\ messages # <<>> /\ messages \in Seq(Message)
      /\ msg = NoMsg /\ msg' = Head(messages) /\ messages' = Tail(messages)
  BY DEF Receive, PipeInv, TypeOK, InHand
<1>2. Head(messages) \in Message /\ Head(messages) # NoMsg
  <2>1. Head(messages) \in Message
    BY <1>1
  <2> QED  BY <2>1, NoMsgAssumption
<1>3. InFeed' = InFeed /\ FeedMsgs' = FeedMsgs
  BY <1>1 DEF InFeed, FeedMsgs, ToSet
<1>4. InHands = {} /\ InHands' = {Head(messages)}
  BY <1>1, <1>2 DEF InHands
<1>5. ToSet(messages) = {Head(messages)} \union ToSet(messages')
  BY <1>1, SetOfTail
<1>6. Ordered(messages') /\ Before({Head(messages)}, ToSet(messages'))
  BY <1>1, OrderedLess DEF ArrivalInv
<1>7. Before(InFeed, {Head(messages)}) /\ Before(InFeed, ToSet(messages'))
  BY <1>5 DEF ArrivalInv, Before
<1>8. Ordered(messages)' /\ Ordered(FeedMsgs)' /\ ToSet(messages)' = ToSet(messages')
  BY <1>3, <1>6 DEF ArrivalInv, Ordered, ToSet
<1>9. Before(InFeed \union InHands, ToSet(messages))' /\ Before(InFeed, InHands)'
  BY <1>3, <1>4, <1>6, <1>7, <1>8 DEF Before
<1> QED  BY <1>1, <1>3, <1>4, <1>5, <1>8, <1>9 DEF ArrivalInv

LEMMA ArrivalBroadcast == ASSUME PipeInv, ArrivalInv, Broadcast PROVE ArrivalInv'
<1>1. UNCHANGED <<lines, held, messages>>
  BY DEF Broadcast
<1>2. InFeed' = InFeed \union {msg} /\ InHands = {msg} /\ InHands' = {}
  BY FeedSets
<1>3. FeedMsgs' = Append(FeedMsgs, msg) /\ msg \in Message /\ FeedMsgs \in Seq(Message)
  BY FeedGrows, FeedMsgsType
<1>4. Ordered(FeedMsgs) /\ Before(ToSet(FeedMsgs), {msg})
  BY <1>2 DEF ArrivalInv, InFeed
<1>5. Ordered(Append(FeedMsgs, msg))
  BY <1>3, <1>4, OrderedMore
<1>6. Ordered(messages)' /\ Ordered(FeedMsgs)' /\ ToSet(messages)' = ToSet(messages)
  BY <1>1, <1>3, <1>5 DEF ArrivalInv, Ordered, ToSet
<1>7. Before(InFeed \union InHands, ToSet(messages))' /\ Before(InFeed, InHands)'
  BY <1>2, <1>6 DEF ArrivalInv, Before
<1> QED  BY <1>1, <1>2, <1>6, <1>7 DEF ArrivalInv

LEMMA ArrivalStep == PipeInv /\ ArrivalInv /\ [Next]_vars => ArrivalInv'
<1> SUFFICES ASSUME PipeInv, ArrivalInv, [Next]_vars PROVE ArrivalInv'
  OBVIOUS
<1>1. CASE \/ TransportReturns \/ Signal \/ TransportEnded \/ Done \/ Insert \/ Exit
           \/ DrainReceive \/ TickerFires \/ FlushNumber \/ FlushCommit
           \/ UNCHANGED vars
  <2>1. UNCHANGED <<lines, held, feed, msg, messages>>
    BY <1>1 DEF TransportReturns, Signal, TransportEnded, Done, Insert, Exit,
                DrainReceive, TickerFires, FlushNumber, FlushCommit, vars
  <2> QED  BY <2>1, ArrivalQuiet
<1> QED
  BY <1>1, ArrivalRead, ArrivalOffer, ArrivalReceive, ArrivalBroadcast DEF Next, Ended

-----------------------------------------------------------------------------
(***************************************************************************)
(* The way from main to the log.                                           *)
(***************************************************************************)

LEMMA InsertedSame ==
  ASSUME PipeInv, [Next]_vars, ~Insert PROVE Inserted' = Inserted
<1>1. CASE Broadcast
  BY <1>1, FeedSets DEF Inserted, Broadcast
<1>2. CASE ~Broadcast
  <2>1. UNCHANGED feed
    BY <1>2 DEF Next, vars, Read, Offer, TransportReturns, Signal, Receive, TransportEnded,
                Done, Exit, DrainReceive, TickerFires, FlushNumber, FlushCommit, Ended
  <2>2. \/ UNCHANGED <<pc, msg>>
        \/ pc # "broadcast" /\ pc' # "broadcast"
    BY <1>2 DEF Next, vars, Read, Offer, TransportReturns, Signal, Receive, TransportEnded,
                Done, Exit, DrainReceive, TickerFires, FlushNumber, FlushCommit, Ended
  <2>3. InFeed' = InFeed
    BY <2>1 DEF InFeed, FeedMsgs, ToSet
  <2> QED  BY <2>2, <2>3 DEF Inserted
<1> QED  BY <1>1, <1>2

LEMMA StoreQuiet ==
  ASSUME StoreInv, UNCHANGED <<queue, batch, stored, refused>>, Inserted' = Inserted
  PROVE  StoreInv'
<1>1. /\ ToSet(queue)' = ToSet(queue) /\ ToSet(batch)' = ToSet(batch) /\ InLog' = InLog
      /\ Ordered(queue)' = Ordered(queue) /\ Ordered(batch)' = Ordered(batch)
  BY DEF ToSet, Ordered, InLog
<1>2. Waiting' = Waiting
  BY <1>1 DEF Waiting
<1> QED  BY <1>1, <1>2 DEF StoreInv, Before

\* What is inserted now comes after everything of its source that was inserted before.
LEMMA InsertIsLast ==
  ASSUME PipeInv, ArrivalInv, StoreInv, Insert
  PROVE  /\ msg \in Message /\ Inserted' = Inserted \union {msg}
         /\ Before(Inserted, {msg}) /\ msg \notin Inserted
<1>1. pc = "insert" /\ pc' = "broadcast" /\ msg # NoMsg /\ msg \in Message
      /\ UNCHANGED <<feed, msg>>
  BY DEF Insert, AfterInsert, PipeInv, InHand, TypeOK
<1>2. Inserted = InFeed /\ Inserted' = InFeed \union {msg}
  BY <1>1 DEF Inserted, InFeed, FeedMsgs, ToSet
<1>3. InHands = {msg} /\ Before(InFeed, InHands)
  BY <1>1 DEF InHands, ArrivalInv
<1>4. msg \notin InFeed
  BY <1>1, <1>3, MessageParts DEF Before
<1> QED  BY <1>1, <1>2, <1>3, <1>4

LEMMA StoreInsert ==
  ASSUME PipeInv, ArrivalInv, StoreInv, Insert PROVE StoreInv'
<1>1. /\ msg \in Message /\ Inserted' = Inserted \union {msg}
      /\ Before(Inserted, {msg}) /\ msg \notin Inserted
  BY InsertIsLast
<1>2. /\ UNCHANGED <<batch, stored>> /\ queue \in Seq(Message)
      /\ ToSet(batch)' = ToSet(batch) /\ InLog' = InLog /\ Ordered(batch)'
  BY DEF Insert, PipeInv, TypeOK, StoreInv, ToSet, InLog, Ordered
<1>3. CASE queue' = Append(queue, msg) /\ UNCHANGED refused
  <2>1. ToSet(queue)' = ToSet(queue) \union {msg}
    BY <1>1, <1>2, <1>3, SetOfAppend
  <2>2. Before(ToSet(queue), {msg}) /\ Before(ToSet(batch), {msg}) /\ Before(InLog, {msg})
    BY <1>1 DEF StoreInv, Waiting, Before
  <2>3. Ordered(Append(queue, msg))
    BY <1>1, <1>2, <2>2, OrderedMore DEF StoreInv
  <2>4. Ordered(queue)'
    BY <1>3, <2>3 DEF Ordered
  <2>5. Waiting' = Waiting \union {msg}
    BY <1>2, <2>1 DEF Waiting
  <2>6. Before(ToSet(batch), ToSet(queue))' /\ Before(InLog, Waiting)'
    BY <1>2, <2>1, <2>2, <2>5 DEF StoreInv, Before
  <2>7. /\ Inserted' = Waiting' \union InLog' \union refused'
        /\ Waiting' \intersect InLog' = {} /\ (Waiting' \union InLog') \intersect refused' = {}
    BY <1>1, <1>2, <1>3, <2>5 DEF StoreInv
  <2> QED  BY <1>2, <2>4, <2>6, <2>7 DEF StoreInv
<1>4. CASE refused' = refused \union {msg} /\ UNCHANGED queue
  <2>1. ToSet(queue)' = ToSet(queue) /\ Ordered(queue)'
    BY <1>4 DEF ToSet, StoreInv, Ordered
  <2>2. Waiting' = Waiting
    BY <1>2, <2>1 DEF Waiting
  <2>3. Before(ToSet(batch), ToSet(queue))' /\ Before(InLog, Waiting)'
    BY <1>2, <2>1, <2>2 DEF StoreInv, Before
  <2>4. /\ Inserted' = Waiting' \union InLog' \union refused'
        /\ Waiting' \intersect InLog' = {} /\ (Waiting' \union InLog') \intersect refused' = {}
    BY <1>1, <1>2, <1>4, <2>2 DEF StoreInv
  <2> QED  BY <1>2, <2>1, <2>3, <2>4 DEF StoreInv
<1> QED  BY <1>3, <1>4 DEF Insert, Refused

LEMMA StoreDrain ==
  ASSUME PipeInv, StoreInv, DrainReceive, Inserted' = Inserted PROVE StoreInv'
<1>1. /\ queue # <<>> /\ queue \in Seq(Message) /\ batch \in Seq(Message)
      /\ queue' = Tail(queue) /\ batch' = Append(batch, Head(queue))
      /\ UNCHANGED <<stored, refused>>
  BY DEF DrainReceive, PipeInv, TypeOK
<1>2. Head(queue) \in Message
  BY <1>1
<1>3. ToSet(queue) = {Head(queue)} \union ToSet(queue')
  BY <1>1, SetOfTail
<1>4. ToSet(batch') = ToSet(batch) \union {Head(queue)}
  BY <1>1, <1>2, SetOfAppend
<1>5. Ordered(queue') /\ Before({Head(queue)}, ToSet(queue'))
  BY <1>1, OrderedLess DEF StoreInv
<1>6. Before(ToSet(batch), {Head(queue)}) /\ Before(ToSet(batch), ToSet(queue'))
  BY <1>3 DEF StoreInv, Before
<1>7. Ordered(Append(batch, Head(queue)))
  BY <1>1, <1>2, <1>6, OrderedMore DEF StoreInv
<1>8. Ordered(batch')
  BY <1>1, <1>7
<1>9. /\ ToSet(queue)' = ToSet(queue') /\ ToSet(batch)' = ToSet(batch') /\ InLog' = InLog
      /\ Ordered(queue)' = Ordered(queue') /\ Ordered(batch)' = Ordered(batch')
  BY <1>1 DEF ToSet, Ordered, InLog
<1>10. Waiting' = Waiting
  BY <1>3, <1>4, <1>9 DEF Waiting
<1>11. Before(ToSet(batch'), ToSet(queue'))
  BY <1>4, <1>5, <1>6 DEF Before
<1>12. Before(ToSet(batch), ToSet(queue))' /\ Before(InLog, Waiting)'
  BY <1>9, <1>10, <1>11 DEF StoreInv, Before
<1>13. Inserted' = Waiting' \union InLog' \union refused'
       /\ Waiting' \intersect InLog' = {} /\ (Waiting' \union InLog') \intersect refused' = {}
  BY <1>1, <1>9, <1>10 DEF StoreInv
<1> QED  BY <1>5, <1>8, <1>9, <1>12, <1>13 DEF StoreInv

LEMMA StoreCommit ==
  ASSUME PipeInv, StoreInv, FlushCommit, Inserted' = Inserted PROVE StoreInv'
<1>1. /\ batch' = <<>> /\ UNCHANGED <<queue, id>>
  BY DEF FlushCommit, GivenUp
<1>2. ToSet(batch)' = {} /\ Ordered(batch)'
  <2>1. Len(<<>>) = 0 /\ DOMAIN <<>> = {}
    OBVIOUS
  <2> QED  BY <1>1, <2>1 DEF ToSet, Ordered
<1>3. ToSet(queue)' = ToSet(queue) /\ Ordered(queue)'
  BY <1>1 DEF ToSet, Ordered, StoreInv
<1>4. Waiting' = ToSet(queue) /\ Waiting = ToSet(queue) \union ToSet(batch)
  BY <1>2, <1>3 DEF Waiting
<1>5. \A m \in ToSet(queue) : m \notin ToSet(batch)
  BY PlacesType, MessageParts DEF StoreInv, Before
<1>6. Before(ToSet(batch), ToSet(queue))'
  BY <1>2 DEF Before
<1>7. CASE /\ stored' = stored \union {[msg |-> m, id |-> id[m]] : m \in ToSet(batch)}
           /\ UNCHANGED refused
  <2> DEFINE new == {[msg |-> m, id |-> id[m]] : m \in ToSet(batch)}
  <2>0. {e.msg : e \in new} = ToSet(batch)
    <3>1. \A e \in new : e.msg \in ToSet(batch)
      OBVIOUS
    <3>2. \A m \in ToSet(batch) : \E e \in new : e.msg = m
      <4> SUFFICES ASSUME NEW m \in ToSet(batch) PROVE \E e \in new : e.msg = m
        OBVIOUS
      <4>1. [msg |-> m, id |-> id[m]] \in new /\ [msg |-> m, id |-> id[m]].msg = m
        OBVIOUS
      <4> QED  BY <4>1
    <3> QED  BY <3>1, <3>2
  <2>1. InLog' = InLog \union ToSet(batch)
    <3> HIDE DEF new
    <3>1. stored' = stored \union new
      BY <1>7 DEF new
    <3>2. InLog' = InLog \union {e.msg : e \in new}
      BY <3>1 DEF InLog
    <3> QED  BY <2>0, <3>2
  <2>2. Before(InLog, Waiting)'
    BY <1>4, <2>1 DEF StoreInv, Before
  <2>3. /\ Inserted' = Waiting' \union InLog' \union refused'
        /\ Waiting' \intersect InLog' = {} /\ (Waiting' \union InLog') \intersect refused' = {}
    BY <1>4, <1>5, <1>7, <2>1 DEF StoreInv
  <2> QED  BY <1>2, <1>3, <1>6, <2>2, <2>3 DEF StoreInv
<1>8. CASE refused' = refused \union ToSet(batch) /\ UNCHANGED stored
  <2>1. InLog' = InLog
    BY <1>8 DEF InLog
  <2>2. Before(InLog, Waiting)'
    BY <1>4, <2>1 DEF StoreInv, Before
  <2>3. /\ Inserted' = Waiting' \union InLog' \union refused'
        /\ Waiting' \intersect InLog' = {} /\ (Waiting' \union InLog') \intersect refused' = {}
    BY <1>4, <1>5, <1>8, <2>1 DEF StoreInv
  <2> QED  BY <1>2, <1>3, <1>6, <2>2, <2>3 DEF StoreInv
<1> QED  BY <1>7, <1>8 DEF FlushCommit, GivenUp

LEMMA StoreStep == PipeInv /\ ArrivalInv /\ StoreInv /\ [Next]_vars => StoreInv'
<1> SUFFICES ASSUME PipeInv, ArrivalInv, StoreInv, [Next]_vars PROVE StoreInv'
  OBVIOUS
<1>1. CASE Insert
  BY <1>1, StoreInsert
<1>2. CASE DrainReceive /\ ~Insert
  BY <1>2, InsertedSame, StoreDrain
<1>3. CASE FlushCommit /\ ~Insert
  BY <1>3, InsertedSame, StoreCommit
<1>4. CASE ~Insert /\ ~DrainReceive /\ ~FlushCommit
  <2>1. UNCHANGED <<queue, batch, stored, refused>>
    BY <1>4 DEF Next, vars, Read, Offer, TransportReturns, Signal, Receive, TransportEnded,
                Done, Exit, Broadcast, TickerFires, FlushNumber, Ended
  <2> QED  BY <1>4, <2>1, InsertedSame, StoreQuiet
<1> QED  BY <1>1, <1>2, <1>3, <1>4

-----------------------------------------------------------------------------
(***************************************************************************)
(* Ids.                                                                    *)
(***************************************************************************)

\* Steps that write no id and finish no flush.
LEMMA IdQuiet ==
  ASSUME IdInv, UNCHANGED <<id, idCounter, batch, numbered, stored, feed, queue>>,
         Inserted' = Inserted
  PROVE  IdInv'
<1>1. Numbered' = Numbered /\ ToSet(queue)' = ToSet(queue)
  BY DEF Numbered, ToSet
<1> QED  BY <1>1 DEF IdInv

LEMMA IdBroadcast ==
  ASSUME PipeInv, IdInv, Broadcast, Inserted' = Inserted PROVE IdInv'
<1> DEFINE e == [msg |-> msg, id |-> IdSeen]
<1>1. /\ UNCHANGED <<id, idCounter, batch, numbered, stored, queue>>
      /\ feed' = Append(feed, e) /\ feed \in Seq(Occurrence)
  BY DEF Broadcast, PipeInv, TypeOK
<1>2. e \in Occurrence /\ e.id = id[e.msg]
  <2>1. msg \in Message
    BY FeedGrows
  <2> QED  BY <2>1 DEF IdSeen, Occurrence, PipeInv, TypeOK
<1> HIDE DEF e
<1>3. Numbered' = Numbered /\ ToSet(queue)' = ToSet(queue)
  BY <1>1 DEF Numbered, ToSet
<1>4. /\ Len(feed) \in Nat /\ Len(feed') = Len(feed) + 1
      /\ \A k \in 1 .. Len(feed) : feed'[k] = feed[k]
      /\ feed'[Len(feed) + 1] = e
  BY <1>1, <1>2
<1>5. \A k \in 1 .. Len(feed) + 1 : k \in 1 .. Len(feed) \/ k = Len(feed) + 1
  BY <1>4
<1>6. \A k \in 1 .. Len(feed') : feed'[k].id # 0 => feed'[k].id = id[feed'[k].msg]
  BY <1>2, <1>4, <1>5 DEF IdInv
<1> QED  BY <1>1, <1>3, <1>6 DEF IdInv

LEMMA IdInsert ==
  ASSUME PipeInv, ArrivalInv, StoreInv, IdInv, Insert PROVE IdInv'
<1>1. /\ msg \in Message /\ Inserted' = Inserted \union {msg} /\ msg \notin Inserted
  BY InsertIsLast
<1>2. /\ UNCHANGED <<id, idCounter, batch, numbered, stored, feed>>
      /\ queue \in Seq(Message)
      /\ queue' = queue \/ queue' = Append(queue, msg)
  BY DEF Insert, Refused, PipeInv, TypeOK
<1>3. \A m \in ToSet(queue') : m \in ToSet(queue) \/ m = msg
  <2>1. ToSet(Append(queue, msg)) = ToSet(queue) \union {msg}
    BY <1>1, <1>2, SetOfAppend
  <2> QED  BY <1>2, <2>1
<1>4. id[msg] = 0
  BY <1>1 DEF IdInv
<1>5. \A m \in Message : id[m] # 0 => m \in Inserted' \ ToSet(queue')
  BY <1>1, <1>3, <1>4 DEF IdInv
<1>6. Numbered' = Numbered /\ ToSet(queue)' = ToSet(queue')
  BY <1>2 DEF Numbered, ToSet
<1> QED  BY <1>2, <1>5, <1>6 DEF IdInv

\* What comes to the batch has no id yet.
LEMMA IdDrain ==
  ASSUME PipeInv, StoreInv, IdInv, DrainReceive, Inserted' = Inserted PROVE IdInv'
<1>1. /\ UNCHANGED <<id, idCounter, stored, feed>>
      /\ queue # <<>> /\ queue \in Seq(Message) /\ batch \in Seq(Message)
      /\ queue' = Tail(queue) /\ batch' = Append(batch, Head(queue))
      /\ numbered = -1 /\ numbered' \in {-1, 0}
  BY DEF DrainReceive, PipeInv, TypeOK
<1>2. Numbered = 0 /\ Numbered' = 0
  BY <1>1 DEF Numbered
<1>3. Head(queue) \in Message /\ ToSet(queue) = {Head(queue)} \union ToSet(queue')
  BY <1>1, SetOfTail
<1>4. id[Head(queue)] = 0
  BY <1>3 DEF IdInv
<1>5. /\ Len(batch) \in Nat /\ Len(batch') = Len(batch) + 1
      /\ \A k \in 1 .. Len(batch) : batch'[k] = batch[k]
      /\ batch'[Len(batch) + 1] = Head(queue)
  BY <1>1, <1>3
<1>6. \A k \in 1 .. Len(batch) + 1 : k \in 1 .. Len(batch) \/ k = Len(batch) + 1
  BY <1>5
<1>7. \A i \in 1 .. Len(batch) : id[batch[i]] = 0
  BY <1>2 DEF IdInv
<1>8. \A i \in 1 .. Len(batch') :
        id[batch'[i]] = IF i <= Numbered' THEN idCounter - Numbered' + i ELSE 0
  BY <1>2, <1>4, <1>5, <1>6, <1>7
<1>9. ToSet(queue)' = ToSet(queue')
  BY DEF ToSet
<1>10. \A m \in Message : id[m] # 0 => m \in Inserted' \ ToSet(queue)'
  BY <1>3, <1>9 DEF IdInv
<1>11. Numbered' <= idCounter /\ Numbered' <= Len(batch')
  BY <1>2, <1>5 DEF IdInv
<1> QED  BY <1>1, <1>2, <1>8, <1>10, <1>11 DEF IdInv

LEMMA IdTicker ==
  ASSUME IdInv, TickerFires, Inserted' = Inserted PROVE IdInv'
<1>1. Numbered' = Numbered /\ ToSet(queue)' = ToSet(queue)
  BY DEF TickerFires, Numbered, ToSet
<1> QED  BY <1>1 DEF IdInv, TickerFires

\* flush gives the next message of the batch an id that none has had.
LEMMA IdNumber ==
  ASSUME PipeInv, StoreInv, IdInv, FlushNumber, Inserted' = Inserted PROVE IdInv'
<1> DEFINE x == batch[numbered + 1]
<1>1. /\ UNCHANGED <<stored, feed, queue, batch>>
      /\ idCounter' = idCounter + 1 /\ id' = [id EXCEPT ![x] = idCounter + 1]
      /\ id \in [Message -> Nat] /\ idCounter \in Nat /\ batch \in Seq(Message)
      /\ numbered' = numbered + 1 /\ numbered \in Nat /\ numbered < Len(batch)
  BY DEF FlushNumber, NextId, PipeInv, TypeOK
<1>2. numbered + 1 \in 1 .. Len(batch) /\ Numbered = numbered /\ Numbered' = numbered + 1
  BY <1>1 DEF Numbered
<1>3. x \in Message /\ x \in ToSet(batch)
  BY <1>1, <1>2 DEF ToSet
<1>4. id[x] = 0
  BY <1>1, <1>2 DEF IdInv
<1>5. x \in Inserted /\ x \notin ToSet(queue) /\ x \notin InLog
  BY <1>3, MessageParts DEF StoreInv, Waiting, Before
<1>6. \A i \in 1 .. Len(batch) : i # numbered + 1 => batch[i] # x
  BY <1>1, <1>2, OrderedDistinct DEF StoreInv
<1>7. \A i \in 1 .. Len(batch) : batch[i] \in Message
  BY <1>1
<1> HIDE DEF x
<1>8. id'[x] = idCounter + 1 /\ \A m \in Message : m # x => id'[m] = id[m]
  BY <1>1, <1>3
<1>9. \A i \in 1 .. Len(batch) :
        id'[batch[i]] = IF i <= numbered + 1 THEN idCounter + 1 - (numbered + 1) + i ELSE 0
  <2> SUFFICES ASSUME NEW i \in 1 .. Len(batch)
               PROVE  id'[batch[i]] = IF i <= numbered + 1
                                      THEN idCounter + 1 - (numbered + 1) + i ELSE 0
    OBVIOUS
  <2>1. CASE i = numbered + 1
    BY <1>1, <1>8, <2>1 DEF x
  <2>2. CASE i # numbered + 1
    <3>1. id'[batch[i]] = id[batch[i]]
      BY <1>6, <1>7, <1>8, <2>2
    <3>2. id[batch[i]] = IF i <= numbered THEN idCounter - numbered + i ELSE 0
      BY <1>2 DEF IdInv
    <3> QED  BY <1>1, <2>2, <3>1, <3>2
  <2> QED  BY <2>1, <2>2
<1>10. \A m \in Message : id[m] \in Nat /\ id[m] <= idCounter /\ id'[m] \in Nat
  BY <1>1 DEF IdInv
<1>11. ToSet(queue)' = ToSet(queue)
  BY <1>1 DEF ToSet
<1>12. \A m \in Message : /\ id'[m] <= idCounter + 1
                          /\ id'[m] # 0 => m \in Inserted' \ ToSet(queue)'
  BY <1>1, <1>5, <1>8, <1>10, <1>11 DEF IdInv
<1>13. \A m, l \in Message : id'[m] # 0 /\ id'[m] = id'[l] => m = l
  <2> SUFFICES ASSUME NEW m \in Message, NEW l \in Message, id'[m] # 0, id'[m] = id'[l]
               PROVE  m = l
    OBVIOUS
  <2>1. CASE m # x /\ l # x
    BY <1>8, <2>1 DEF IdInv
  <2>2. CASE m = x \/ l = x
    BY <1>1, <1>8, <1>10, <2>2
  <2> QED  BY <2>1, <2>2
<1>14. \A e \in stored : e.id = id'[e.msg] /\ 0 < e.id /\ e.id <= idCounter + 1 - (numbered + 1)
  <2> SUFFICES ASSUME NEW e \in stored
               PROVE  e.id = id'[e.msg] /\ 0 < e.id /\ e.id <= idCounter + 1 - (numbered + 1)
    OBVIOUS
  <2>1. e.msg # x /\ e.msg \in Message
    BY <1>5, PlacesType DEF InLog
  <2>2. e.id = id[e.msg] /\ 0 < e.id /\ e.id <= idCounter - numbered
    BY <1>2 DEF IdInv
  <2> QED  BY <1>1, <1>8, <2>1, <2>2
<1>15. \A k \in 1 .. Len(feed) : feed[k].id # 0 => feed[k].id = id'[feed[k].msg]
  <2> SUFFICES ASSUME NEW k \in 1 .. Len(feed), feed[k].id # 0
               PROVE  feed[k].id = id'[feed[k].msg]
    OBVIOUS
  <2>1. feed[k].id = id[feed[k].msg] /\ feed[k].msg # x
    BY <1>4 DEF IdInv
  <2>2. feed[k].msg \in Message
    <3>1. feed[k] \in Occurrence
      BY DEF PipeInv, TypeOK
    <3> QED  BY <3>1 DEF Occurrence
  <2> QED  BY <1>8, <2>1, <2>2
<1>16. Numbered' <= idCounter' /\ Numbered' <= Len(batch)
  BY <1>1, <1>2 DEF IdInv
<1> QED
  BY <1>1, <1>2, <1>9, <1>12, <1>13, <1>14, <1>15, <1>16 DEF IdInv

\* A batch that is committed has ids above those of the log, in its order.
LEMMA IdCommit ==
  ASSUME PipeInv, StoreInv, IdInv, FlushCommit, Inserted' = Inserted PROVE IdInv'
<1>1. /\ UNCHANGED <<id, idCounter, feed, queue>>
      /\ batch' = <<>> /\ numbered' = -1 /\ numbered = Len(batch)
      /\ batch \in Seq(Message) /\ Len(batch) \in Nat /\ idCounter \in Nat
      /\ id \in [Message -> Nat]
  BY DEF FlushCommit, GivenUp, PipeInv, TypeOK
<1>2. /\ Numbered = Len(batch) /\ Numbered' = 0 /\ Len(batch') = 0
      /\ ToSet(queue)' = ToSet(queue)
  BY <1>1 DEF Numbered, ToSet
<1>3. \A m \in ToSet(batch) : \E i \in 1 .. Len(batch) : m = batch[i] /\ m \in Message
  BY <1>1 DEF ToSet
<1>4. \A i \in 1 .. Len(batch) : id[batch[i]] = idCounter - Len(batch) + i
  BY <1>1, <1>2 DEF IdInv
<1>5. Len(batch) <= idCounter
  BY <1>2 DEF IdInv
<1>6. \A m \in ToSet(batch) : idCounter - Len(batch) < id[m] /\ id[m] <= idCounter /\ 0 < id[m]
  <2> SUFFICES ASSUME NEW m \in ToSet(batch)
               PROVE  idCounter - Len(batch) < id[m] /\ id[m] <= idCounter /\ 0 < id[m]
    OBVIOUS
  <2>1. PICK i \in 1 .. Len(batch) : m = batch[i]
    BY <1>3
  <2> QED  BY <1>1, <1>4, <1>5, <2>1
<1>7. \A e \in stored' : \/ e \in stored
                         \/ e.msg \in ToSet(batch) /\ e.id = id[e.msg]
  BY DEF FlushCommit
<1>8. \A e \in stored : /\ e.id = id[e.msg] /\ 0 < e.id /\ e.id <= idCounter - Len(batch)
                        /\ e.msg \in InLog /\ e.id \in Nat
  BY <1>1, <1>2 DEF IdInv, InLog, PipeInv, TypeOK, Occurrence
<1>9. \A e \in stored' : e.id = id[e.msg] /\ 0 < e.id /\ e.id <= idCounter - 0
  BY <1>1, <1>6, <1>7, <1>8
<1>10. \A m, l \in ToSet(batch) : m.src = l.src /\ m.n < l.n => id[m] < id[l]
  <2> SUFFICES ASSUME NEW m \in ToSet(batch), NEW l \in ToSet(batch), m.src = l.src, m.n < l.n
               PROVE  id[m] < id[l]
    OBVIOUS
  <2>1. PICK i \in 1 .. Len(batch) : m = batch[i] /\ m \in Message
    BY <1>3
  <2>2. PICK j \in 1 .. Len(batch) : l = batch[j] /\ l \in Message
    BY <1>3
  <2>3. m.n \in Nat /\ l.n \in Nat
    BY <2>1, <2>2, MessageParts
  <2>4. ~(j < i)
    BY <2>1, <2>2, <2>3 DEF StoreInv, Ordered
  <2>5. i # j
    BY <2>1, <2>2, <2>3
  <2>6. i < j
    BY <1>1, <2>4, <2>5
  <2> QED  BY <1>1, <1>4, <2>1, <2>2, <2>6
<1>11. \A e, f \in stored' : e.msg.src = f.msg.src /\ e.msg.n < f.msg.n => e.id < f.id
  <2> SUFFICES ASSUME NEW e \in stored', NEW f \in stored', e.msg.src = f.msg.src,
                      e.msg.n < f.msg.n
               PROVE  e.id < f.id
    OBVIOUS
  <2>1. CASE e \in stored /\ f \in stored
    BY <2>1 DEF IdInv
  <2>2. CASE e \in stored /\ f.msg \in ToSet(batch) /\ f.id = id[f.msg]
    <3>1. f.msg \in Message /\ id[f.msg] \in Nat
      BY <1>1, <1>3, <2>2
    <3>2. e.id <= idCounter - Len(batch) /\ idCounter - Len(batch) < f.id /\ e.id \in Nat
      BY <1>6, <1>8, <2>2
    <3> QED  BY <1>1, <2>2, <3>1, <3>2
  <2>3. CASE f \in stored /\ e.msg \in ToSet(batch)
    <3>1. f.msg.n < e.msg.n /\ f.msg \in Message /\ e.msg \in Message
      BY <1>3, <1>8, <2>3, PlacesType DEF StoreInv, Before, Waiting
    <3> QED  BY <3>1, MessageParts
  <2>4. CASE e.msg \in ToSet(batch) /\ f.msg \in ToSet(batch) /\ e.id = id[e.msg] /\ f.id = id[f.msg]
    BY <1>10, <2>4
  <2> QED  BY <1>7, <2>1, <2>2, <2>3, <2>4
<1> QED
  BY <1>1, <1>2, <1>9, <1>11 DEF IdInv

LEMMA IdStep == PipeInv /\ ArrivalInv /\ StoreInv /\ IdInv /\ [Next]_vars => IdInv'
<1> SUFFICES ASSUME PipeInv, ArrivalInv, StoreInv, IdInv, [Next]_vars PROVE IdInv'
  OBVIOUS
<1>1. CASE Insert
  BY <1>1, IdInsert
<1>2. CASE ~Insert /\ (Broadcast \/ DrainReceive \/ TickerFires \/ FlushNumber \/ FlushCommit)
  BY <1>2, InsertedSame, IdBroadcast, IdDrain, IdTicker, IdNumber, IdCommit
<1>3. CASE ~Insert /\ ~(Broadcast \/ DrainReceive \/ TickerFires \/ FlushNumber \/ FlushCommit)
  <2>1. UNCHANGED <<id, idCounter, batch, numbered, stored, feed, queue>>
    BY <1>3 DEF Next, vars, Read, Offer, TransportReturns, Signal, Receive, TransportEnded,
                Done, Exit, Ended
  <2> QED  BY <1>3, <2>1, InsertedSame, IdQuiet
<1> QED  BY <1>1, <1>2, <1>3

-----------------------------------------------------------------------------
(***************************************************************************)
(* The order of all messages: main handles them one after the other, and   *)
(* each place they wait in, the ids and so the log keep that order.        *)
(***************************************************************************)

\* m comes before l in h.
Then(h, m, l) == \E j, k \in 1 .. Len(h) : j < k /\ h[j] = m /\ h[k] = l

OrderInv ==
  /\ \A i, j \in 1 .. Len(queue) : i < j => Then(Handled, queue[i], queue[j])
  /\ \A i, j \in 1 .. Len(batch) : i < j => Then(Handled, batch[i], batch[j])
  /\ \A m \in ToSet(batch), l \in ToSet(queue) : Then(Handled, m, l)
  /\ \A m \in Message, l \in Waiting : id[m] # 0 /\ id[l] = 0 => Then(Handled, m, l)
  /\ \A m, l \in Message : id[m] # 0 /\ id[m] < id[l] => Then(Handled, m, l)

\* Main handles every message once.
LEMMA HandledOnce ==
  ASSUME PipeInv, ArrivalInv,
         NEW j \in 1 .. Len(Handled), NEW k \in 1 .. Len(Handled), Handled[j] = Handled[k]
  PROVE  j = k
<1>1. FeedMsgs \in Seq(Message) /\ Ordered(FeedMsgs)
  BY FeedMsgsType DEF ArrivalInv
<1>2. CASE msg = NoMsg
  <2>1. Handled = FeedMsgs
    BY <1>1, <1>2, ConcatEmptySeq DEF Handled
  <2> QED  BY <1>1, <2>1, OrderedDistinct
<1>3. CASE msg # NoMsg
  <2>1. msg \in Message /\ InHands = {msg}
    BY <1>3 DEF PipeInv, TypeOK, InHands
  <2>2. Ordered(Append(FeedMsgs, msg))
    BY <1>1, <2>1, OrderedMore DEF ArrivalInv, InFeed
  <2>3. Handled = Append(FeedMsgs, msg) /\ Append(FeedMsgs, msg) \in Seq(Message)
    BY <1>1, <1>3, <2>1 DEF Handled
  <2> QED  BY <2>2, <2>3, OrderedDistinct
<1> QED  BY <1>2, <1>3

\* So no two messages were handled each before the other.
LEMMA ThenOneWay ==
  ASSUME PipeInv, ArrivalInv,
         NEW j \in 1 .. Len(Handled), NEW k \in 1 .. Len(Handled), Then(Handled, Handled[k], Handled[j])
  PROVE  ~(j < k)
<1>1. PICK a, b \in 1 .. Len(Handled) :
        a < b /\ Handled[a] = Handled[k] /\ Handled[b] = Handled[j]
  BY DEF Then
<1>2. a = k /\ b = j
  BY <1>1, HandledOnce
<1>3. Len(Handled) \in Nat
  BY HandledType
<1> QED  BY <1>1, <1>2, <1>3

\* A step only adds to what main has handled.
LEMMA HandledKept ==
  ASSUME PipeInv, [Next]_vars
  PROVE  /\ Len(Handled) \in Nat /\ Len(Handled') \in Nat /\ Len(Handled) <= Len(Handled')
         /\ \A k \in 1 .. Len(Handled) : Handled'[k] = Handled[k]
<1>1. FeedMsgs \in Seq(Message) /\ Handled \in Seq(Message)
  BY FeedMsgsType, HandledType
<1>2. CASE UNCHANGED <<feed, msg>>
  <2>1. Handled' = Handled
    BY <1>2 DEF Handled, FeedMsgs
  <2> QED  BY <1>1, <2>1
<1>3. CASE Receive
  <2>1. /\ messages \in Seq(Message) /\ messages # <<>> /\ msg = NoMsg
        /\ msg' = Head(messages) /\ UNCHANGED feed
    BY <1>3 DEF Receive, PipeInv, TypeOK, InHand
  <2>2. Head(messages) \in Message
    BY <2>1
  <2>3. msg' # NoMsg /\ msg' \in Message
    BY <2>1, <2>2, NoMsgAssumption
  <2>4. FeedMsgs' = FeedMsgs
    BY <2>1 DEF FeedMsgs
  <2>5. Handled = FeedMsgs
    BY <1>1, <2>1, ConcatEmptySeq DEF Handled
  <2>6. Handled' = Append(FeedMsgs, msg')
    BY <1>1, <2>3, <2>4 DEF Handled
  <2> QED  BY <1>1, <2>3, <2>5, <2>6
<1>4. CASE Broadcast
  <2>1. FeedMsgs' = Append(FeedMsgs, msg) /\ msg # NoMsg /\ msg \in Message /\ msg' = NoMsg
    BY <1>4, FeedGrows DEF Broadcast
  <2>2. Append(FeedMsgs, msg) = FeedMsgs \o <<msg>> /\ Append(FeedMsgs, msg) \in Seq(Message)
    BY <1>1, <2>1
  <2>3. Handled = Append(FeedMsgs, msg)
    BY <2>1, <2>2 DEF Handled
  <2>4. Handled' = Append(FeedMsgs, msg)
    BY <2>1, <2>2, ConcatEmptySeq DEF Handled
  <2> QED  BY <1>1, <2>3, <2>4
<1> QED
  BY <1>2, <1>3, <1>4
  DEF Next, vars, Read, Offer, TransportReturns, Signal, TransportEnded, Done, Insert, Exit,
      DrainReceive, TickerFires, FlushNumber, FlushCommit, Ended

LEMMA ThenKept ==
  ASSUME PipeInv, [Next]_vars, NEW m, NEW l, Then(Handled, m, l)
  PROVE  Then(Handled', m, l)
<1>1. PICK j, k \in 1 .. Len(Handled) : j < k /\ Handled[j] = m /\ Handled[k] = l
  BY DEF Then
<1>2. j \in 1 .. Len(Handled') /\ k \in 1 .. Len(Handled')
  BY HandledKept
<1>3. Handled'[j] = m /\ Handled'[k] = l
  BY <1>1, HandledKept
<1> QED  BY <1>1, <1>2, <1>3 DEF Then

\* What is inserted now was handled last.
LEMMA InsertIsThen ==
  ASSUME PipeInv, Insert, NEW m \in Inserted
  PROVE  Then(Handled', m, msg)
<1>1. pc = "insert" /\ msg # NoMsg /\ msg \in Message /\ UNCHANGED <<feed, msg>>
  BY DEF Insert, PipeInv, InHand, TypeOK
<1>2. m \in InFeed /\ FeedMsgs \in Seq(Message)
  BY <1>1, FeedMsgsType DEF Inserted
<1>3. PICK j \in 1 .. Len(FeedMsgs) : FeedMsgs[j] = m
  BY <1>2 DEF InFeed, ToSet
<1>4. Handled' = Append(FeedMsgs, msg)
  <2>1. Handled = Append(FeedMsgs, msg)
    BY <1>1, <1>2 DEF Handled
  <2> QED  BY <1>1, <2>1 DEF Handled, FeedMsgs
<1>5. /\ j < Len(FeedMsgs) + 1 /\ j \in 1 .. Len(Append(FeedMsgs, msg))
      /\ Len(FeedMsgs) + 1 \in 1 .. Len(Append(FeedMsgs, msg))
      /\ Append(FeedMsgs, msg)[j] = m /\ Append(FeedMsgs, msg)[Len(FeedMsgs) + 1] = msg
  BY <1>1, <1>2, <1>3
<1>6. Then(Append(FeedMsgs, msg), m, msg)
  BY <1>5 DEF Then
<1> QED  BY <1>4, <1>6

LEMMA OrderQuiet ==
  ASSUME PipeInv, OrderInv, [Next]_vars, UNCHANGED <<queue, batch, id>>
  PROVE  OrderInv'
<1>1. Waiting' = Waiting /\ ToSet(queue)' = ToSet(queue) /\ ToSet(batch)' = ToSet(batch)
  BY DEF Waiting, ToSet
<1> QED  BY <1>1, ThenKept DEF OrderInv

LEMMA OrderInsert ==
  ASSUME PipeInv, ArrivalInv, StoreInv, IdInv, OrderInv, Insert PROVE OrderInv'
<1>0. [Next]_vars
  BY DEF Next
<1>1. msg \in Message /\ msg \notin Inserted
  BY InsertIsLast
<1>2. /\ UNCHANGED <<id, batch, msg>> /\ queue \in Seq(Message)
      /\ queue' = queue \/ queue' = Append(queue, msg)
  BY DEF Insert, Refused, PipeInv, TypeOK
<1>3. CASE queue' = queue
  BY <1>0, <1>2, <1>3, OrderQuiet
<1>4. CASE queue' = Append(queue, msg)
  <2>1. /\ Len(queue) \in Nat /\ Len(queue') = Len(queue) + 1
        /\ \A i \in 1 .. Len(queue) : queue'[i] = queue[i] /\ queue[i] \in ToSet(queue)
        /\ queue'[Len(queue) + 1] = msg
    BY <1>1, <1>2, <1>4 DEF ToSet
  <2>2. \A i \in 1 .. Len(queue) + 1 : i \in 1 .. Len(queue) \/ i = Len(queue) + 1
    BY <2>1
  <2>3. \A m \in Inserted : Then(Handled', m, msg)
    BY InsertIsThen
  <2>4. \A m \in Waiting : m \in Inserted
    BY DEF StoreInv
  <2>5. \A i, j \in 1 .. Len(queue') : i < j => Then(Handled', queue'[i], queue'[j])
    <3> SUFFICES ASSUME NEW i \in 1 .. Len(queue'), NEW j \in 1 .. Len(queue'), i < j
                 PROVE  Then(Handled', queue'[i], queue'[j])
      OBVIOUS
    <3>1. i \in 1 .. Len(queue)
      BY <2>1
    <3>2. CASE j \in 1 .. Len(queue)
      <4>1. Then(Handled, queue[i], queue[j])
        BY <3>1, <3>2 DEF OrderInv
      <4> QED  BY <1>0, <2>1, <3>1, <3>2, <4>1, ThenKept
    <3>3. CASE j = Len(queue) + 1
      <4>1. queue[i] \in Inserted
        BY <2>1, <2>4, <3>1 DEF Waiting
      <4> QED  BY <1>2, <2>1, <2>3, <3>1, <3>3, <4>1
    <3> QED  BY <2>1, <2>2, <3>2, <3>3
  <2>6. ToSet(queue)' = ToSet(queue) \union {msg} /\ ToSet(batch)' = ToSet(batch)
    BY <1>1, <1>2, <1>4, SetOfAppend
  <2>7. \A i, j \in 1 .. Len(batch') : i < j => Then(Handled', batch'[i], batch'[j])
    BY <1>0, <1>2, ThenKept DEF OrderInv
  <2>8. \A m \in ToSet(batch)', l \in ToSet(queue)' : Then(Handled', m, l)
    <3> SUFFICES ASSUME NEW m \in ToSet(batch), NEW l \in ToSet(queue) \union {msg}
                 PROVE  Then(Handled', m, l)
      BY <2>6
    <3>1. CASE l \in ToSet(queue)
      BY <1>0, <3>1, ThenKept DEF OrderInv
    <3>2. CASE l = msg
      BY <1>2, <2>3, <2>4, <3>2 DEF Waiting
    <3> QED  BY <3>1, <3>2
  <2>9. \A m \in Message, l \in Waiting' : id'[m] # 0 /\ id'[l] = 0 => Then(Handled', m, l)
    <3> SUFFICES ASSUME NEW m \in Message, NEW l \in Waiting \union {msg}, id[m] # 0, id[l] = 0
                 PROVE  Then(Handled', m, l)
      BY <1>2, <2>6 DEF Waiting
    <3>1. CASE l \in Waiting
      BY <1>0, <3>1, ThenKept DEF OrderInv
    <3>2. CASE l = msg
      BY <1>2, <2>3, <3>2 DEF IdInv
    <3> QED  BY <3>1, <3>2
  <2>10. \A m, l \in Message : id'[m] # 0 /\ id'[m] < id'[l] => Then(Handled', m, l)
    BY <1>0, <1>2, ThenKept DEF OrderInv
  <2> QED  BY <2>5, <2>7, <2>8, <2>9, <2>10 DEF OrderInv
<1> QED  BY <1>2, <1>3, <1>4

LEMMA OrderDrain ==
  ASSUME PipeInv, OrderInv, DrainReceive PROVE OrderInv'
<1>0. [Next]_vars
  BY DEF Next
<1>1. /\ queue # <<>> /\ queue \in Seq(Message) /\ batch \in Seq(Message)
      /\ queue' = Tail(queue) /\ batch' = Append(batch, Head(queue)) /\ id' = id
  BY DEF DrainReceive, PipeInv, TypeOK
<1>2. Head(queue) \in Message /\ ToSet(queue) = {Head(queue)} \union ToSet(queue')
  BY <1>1, SetOfTail
<1>3. ToSet(batch') = ToSet(batch) \union {Head(queue)}
  BY <1>1, <1>2, SetOfAppend
<1>4. /\ ToSet(queue)' = ToSet(queue') /\ ToSet(batch)' = ToSet(batch') /\ Waiting' = Waiting
  BY <1>2, <1>3 DEF ToSet, Waiting
<1>5. /\ Len(queue) \in Nat /\ Len(queue) > 0 /\ Len(queue') = Len(queue) - 1
      /\ \A i \in 1 .. Len(queue') : queue'[i] = queue[i + 1] /\ i + 1 \in 1 .. Len(queue)
      /\ Head(queue) = queue[1]
  BY <1>1
<1>6. \A i, j \in 1 .. Len(queue') : i < j => Then(Handled', queue'[i], queue'[j])
  <2>1. \A i, j \in 1 .. Len(queue') : i < j => Then(Handled, queue[i + 1], queue[j + 1])
    BY <1>5 DEF OrderInv
  <2> QED  BY <1>0, <1>5, <2>1, ThenKept
<1>7. \A l \in ToSet(queue') : Then(Handled, Head(queue), l)
  <2> SUFFICES ASSUME NEW l \in ToSet(queue') PROVE Then(Handled, Head(queue), l)
    OBVIOUS
  <2>1. PICK i \in 1 .. Len(queue') : l = queue'[i]
    BY <1>1 DEF ToSet
  <2>2. 1 \in 1 .. Len(queue) /\ 1 < i + 1 /\ l = queue[i + 1] /\ i + 1 \in 1 .. Len(queue)
    BY <1>5, <2>1
  <2> QED  BY <1>5, <2>2 DEF OrderInv
<1>8. \A m \in ToSet(batch'), l \in ToSet(queue') : Then(Handled', m, l)
  BY <1>0, <1>2, <1>3, <1>7, ThenKept DEF OrderInv
<1>9. /\ Len(batch) \in Nat /\ Len(batch') = Len(batch) + 1
      /\ \A i \in 1 .. Len(batch) : batch'[i] = batch[i] /\ batch[i] \in ToSet(batch)
      /\ batch'[Len(batch) + 1] = Head(queue)
  BY <1>1, <1>2 DEF ToSet
<1>10. \A i, j \in 1 .. Len(batch') : i < j => Then(Handled', batch'[i], batch'[j])
  <2> SUFFICES ASSUME NEW i \in 1 .. Len(batch'), NEW j \in 1 .. Len(batch'), i < j
               PROVE  Then(Handled', batch'[i], batch'[j])
    OBVIOUS
  <2>1. i \in 1 .. Len(batch) /\ (j \in 1 .. Len(batch) \/ j = Len(batch) + 1)
    BY <1>9
  <2>2. Then(Handled, batch'[i], batch'[j])
    BY <1>2, <1>9, <2>1 DEF OrderInv
  <2> QED  BY <1>0, <2>2, ThenKept
<1>11. /\ \A m \in Message, l \in Waiting' : id'[m] # 0 /\ id'[l] = 0 => Then(Handled', m, l)
       /\ \A m, l \in Message : id'[m] # 0 /\ id'[m] < id'[l] => Then(Handled', m, l)
  BY <1>0, <1>1, <1>4, ThenKept DEF OrderInv
<1> QED  BY <1>4, <1>6, <1>8, <1>10, <1>11 DEF OrderInv

\* What is numbered now was handled after all that has an id, and before all that waits
\* without one.
LEMMA OrderNumber ==
  ASSUME PipeInv, StoreInv, IdInv, OrderInv, FlushNumber PROVE OrderInv'
<1> DEFINE x == batch[numbered + 1]
<1>0. [Next]_vars
  BY DEF Next
<1>1. /\ UNCHANGED <<queue, batch>>
      /\ id' = [id EXCEPT ![x] = idCounter + 1]
      /\ id \in [Message -> Nat] /\ idCounter \in Nat /\ batch \in Seq(Message)
      /\ numbered \in Nat /\ numbered < Len(batch) /\ Len(batch) \in Nat
  BY DEF FlushNumber, NextId, PipeInv, TypeOK
<1>2. numbered + 1 \in 1 .. Len(batch) /\ Numbered = numbered
  BY <1>1 DEF Numbered
<1>3. x \in Message /\ x \in ToSet(batch) /\ id[x] = 0
  BY <1>1, <1>2 DEF ToSet, IdInv
<1>4. \A l \in ToSet(batch) : l # x /\ id[l] = 0 => Then(Handled, x, l)
  <2> SUFFICES ASSUME NEW l \in ToSet(batch), l # x, id[l] = 0 PROVE Then(Handled, x, l)
    OBVIOUS
  <2>1. PICK i \in 1 .. Len(batch) : l = batch[i]
    BY <1>1 DEF ToSet
  <2>2. ~(i <= numbered)
    <3> SUFFICES ASSUME i <= numbered PROVE FALSE
      OBVIOUS
    <3>1. id[l] = idCounter - numbered + i /\ numbered <= idCounter
      BY <1>2, <2>1 DEF IdInv
    <3> QED  BY <1>1, <3>1
  <2>3. numbered + 1 < i
    BY <1>1, <2>1, <2>2
  <2> QED  BY <1>2, <2>1, <2>3 DEF OrderInv
<1> HIDE DEF x
<1>5. id'[x] = idCounter + 1 /\ \A m \in Message : m # x => id'[m] = id[m]
  BY <1>1, <1>3
<1>6. Waiting' = Waiting /\ ToSet(queue)' = ToSet(queue) /\ ToSet(batch)' = ToSet(batch)
  BY <1>1 DEF Waiting, ToSet
<1>7. Waiting \subseteq Message
  BY PlacesType DEF Waiting
<1>8. \A m \in Message, l \in Waiting : id'[m] # 0 /\ id'[l] = 0 => Then(Handled, m, l)
  <2> SUFFICES ASSUME NEW m \in Message, NEW l \in Waiting, id'[m] # 0, id'[l] = 0
               PROVE  Then(Handled, m, l)
    OBVIOUS
  <2>1. l # x /\ id[l] = 0
    BY <1>1, <1>5, <1>7
  <2>2. CASE m = x
    <3>1. l \in ToSet(batch) => Then(Handled, x, l)
      BY <1>4, <2>1
    <3>2. l \in ToSet(queue) => Then(Handled, x, l)
      BY <1>3 DEF OrderInv
    <3> QED  BY <2>2, <3>1, <3>2 DEF Waiting
  <2>3. CASE m # x
    BY <1>5, <2>1, <2>3 DEF OrderInv
  <2> QED  BY <2>2, <2>3
<1>9. \A m, l \in Message : id'[m] # 0 /\ id'[m] < id'[l] => Then(Handled, m, l)
  <2> SUFFICES ASSUME NEW m \in Message, NEW l \in Message, id'[m] # 0, id'[m] < id'[l]
               PROVE  Then(Handled, m, l)
    OBVIOUS
  <2>1. id[l] \in Nat /\ id[l] <= idCounter /\ id[m] \in Nat /\ id[m] <= idCounter
    BY <1>1 DEF IdInv
  <2>2. m # x
    <3>1. CASE l = x
      BY <1>1, <1>5, <3>1
    <3>2. CASE l # x
      BY <1>1, <1>5, <2>1, <3>2
    <3> QED  BY <3>1, <3>2
  <2>3. CASE l = x
    <3>1. x \in Waiting
      BY <1>3 DEF Waiting
    <3> QED  BY <1>3, <1>5, <2>2, <2>3, <3>1 DEF OrderInv
  <2>4. CASE l # x
    BY <1>5, <2>2, <2>4 DEF OrderInv
  <2> QED  BY <2>3, <2>4
<1>10. /\ \A m \in Message, l \in Waiting' : id'[m] # 0 /\ id'[l] = 0 => Then(Handled', m, l)
       /\ \A m, l \in Message : id'[m] # 0 /\ id'[m] < id'[l] => Then(Handled', m, l)
  BY <1>0, <1>6, <1>8, <1>9, ThenKept
<1>11. /\ \A i, j \in 1 .. Len(queue') : i < j => Then(Handled', queue'[i], queue'[j])
       /\ \A i, j \in 1 .. Len(batch') : i < j => Then(Handled', batch'[i], batch'[j])
       /\ \A m \in ToSet(batch)', l \in ToSet(queue)' : Then(Handled', m, l)
  BY <1>0, <1>1, <1>6, ThenKept DEF OrderInv
<1> QED  BY <1>10, <1>11 DEF OrderInv

LEMMA OrderCommit ==
  ASSUME PipeInv, OrderInv, FlushCommit PROVE OrderInv'
<1>0. [Next]_vars
  BY DEF Next
<1>1. batch' = <<>> /\ UNCHANGED <<queue, id>> /\ Len(<<>>) = 0 /\ DOMAIN <<>> = {}
  BY DEF FlushCommit, GivenUp
<1>2. ToSet(batch)' = {} /\ ToSet(queue)' = ToSet(queue) /\ Waiting' \subseteq Waiting
  BY <1>1 DEF ToSet, Waiting
<1>3. /\ \A i, j \in 1 .. Len(queue') : i < j => Then(Handled', queue'[i], queue'[j])
      /\ \A i, j \in 1 .. Len(batch') : i < j => Then(Handled', batch'[i], batch'[j])
      /\ \A m \in ToSet(batch)', l \in ToSet(queue)' : Then(Handled', m, l)
  BY <1>0, <1>1, <1>2, ThenKept DEF OrderInv
<1>4. /\ \A m \in Message, l \in Waiting' : id'[m] # 0 /\ id'[l] = 0 => Then(Handled', m, l)
      /\ \A m, l \in Message : id'[m] # 0 /\ id'[m] < id'[l] => Then(Handled', m, l)
  BY <1>0, <1>1, <1>2, ThenKept DEF OrderInv
<1> QED  BY <1>3, <1>4 DEF OrderInv

LEMMA OrderStep ==
  PipeInv /\ ArrivalInv /\ StoreInv /\ IdInv /\ OrderInv /\ [Next]_vars => OrderInv'
<1> SUFFICES ASSUME PipeInv, ArrivalInv, StoreInv, IdInv, OrderInv, [Next]_vars
             PROVE  OrderInv'
  OBVIOUS
<1>1. CASE Insert \/ DrainReceive \/ FlushNumber \/ FlushCommit
  BY <1>1, OrderInsert, OrderDrain, OrderNumber, OrderCommit
<1>2. CASE ~(Insert \/ DrainReceive \/ FlushNumber \/ FlushCommit)
  <2>1. UNCHANGED <<queue, batch, id>>
    BY <1>2 DEF Next, vars, Read, Offer, TransportReturns, Signal, Receive, TransportEnded,
                Done, Broadcast, Exit, TickerFires, Ended
  <2> QED  BY <2>1, OrderQuiet
<1> QED  BY <1>1, <1>2

PlaceInv == PipeInv /\ ArrivalInv /\ StoreInv /\ IdInv /\ OrderInv

LEMMA PlaceInit == Init => PlaceInv
<1> SUFFICES ASSUME Init PROVE PlaceInv
  OBVIOUS
<1>1. /\ messages = <<>> /\ queue = <<>> /\ batch = <<>> /\ feed = <<>> /\ msg = NoMsg
      /\ stored = {} /\ refused = {} /\ idCounter = 0 /\ numbered = -1 /\ pc = "select"
      /\ id = [m \in Message |-> 0] /\ held = [s \in Sources |-> 0]
  BY DEF Init
<1>2. Len(<<>>) = 0 /\ DOMAIN <<>> = {} /\ ToSet(<<>>) = {} /\ Ordered(<<>>)
  BY DEF ToSet, Ordered
<1>3. FeedMsgs = <<>>
  BY <1>1 DEF FeedMsgs
<1>4. InFeed = {} /\ InHands = {} /\ InLog = {} /\ Inserted = {} /\ Waiting = {}
  BY <1>1, <1>2, <1>3 DEF InFeed, InHands, InLog, Inserted, Waiting
<1>5. ArrivalInv
  BY <1>1, <1>2, <1>3, <1>4 DEF ArrivalInv, Before
<1>6. StoreInv
  BY <1>1, <1>2, <1>4 DEF StoreInv, Before
<1>7. IdInv
  BY <1>1, <1>2 DEF IdInv, Numbered
<1>8. OrderInv
  BY <1>1, <1>2, <1>4 DEF OrderInv
<1> QED  BY <1>5, <1>6, <1>7, <1>8, PipeInit DEF PlaceInv

LEMMA PlaceAlways == Spec => []PlaceInv
<1>1. PlaceInv /\ [Next]_vars => PlaceInv'
  BY PipeStep, ArrivalStep, StoreStep, IdStep, OrderStep DEF PlaceInv
<1> QED  BY <1>1, PlaceInit, PTL DEF Spec

\* Until the process ends, each message that main has inserted is in one of the places
\* where it may be lost, in the log, or was refused (main.go:299, badger.go:83-90, 163).
THEOREM PipelineNoneForgotten == Spec => []NoneForgotten
<1>1. PlaceInv => NoneForgotten
  <2> SUFFICES ASSUME PlaceInv PROVE NoneForgotten
    OBVIOUS
  <2>1. ToSet(queue) \intersect ToSet(batch) = {}
    BY PlacesType, MessageParts DEF PlaceInv, StoreInv, Before
  <2> QED
    BY <2>1 DEF PlaceInv, StoreInv, NoneForgotten, Inserted, InFeed, Waiting, InLog
<1> QED  BY <1>1, PlaceAlways, PTL

LEMMA StoredOncePerMessage ==
  ASSUME PlaceInv, NEW e \in stored, NEW f \in stored, e.msg = f.msg \/ e.id = f.id
  PROVE  e = f
<1>1. /\ e \in Occurrence /\ f \in Occurrence /\ e.msg \in Message /\ f.msg \in Message
      /\ e.id = id[e.msg] /\ f.id = id[f.msg] /\ 0 < e.id
  BY DEF PlaceInv, PipeInv, TypeOK, IdInv, Occurrence
<1>2. e.msg = f.msg /\ e.id = f.id
  BY <1>1 DEF PlaceInv, IdInv
<1> QED  BY <1>1, <1>2 DEF Occurrence

\* Through two bounded channels and a batch, messages of one source reach the log in
\* the order in which the source read them, and once (main.go:282-304, badger.go:93-174).
THEOREM PipelineLogOrder == Spec => []LogKeepsSourceOrder
<1>1. PlaceInv => LogKeepsSourceOrder
  <2> SUFFICES ASSUME PlaceInv, NEW e \in stored, NEW f \in stored,
                      e.msg.src = f.msg.src, e.msg.n <= f.msg.n
               PROVE  e.id <= f.id /\ (e.id = f.id => e = f)
    BY DEF LogKeepsSourceOrder
  <2>1. e.msg \in Message /\ f.msg \in Message /\ e.id \in Nat /\ f.id \in Nat
    BY DEF PlaceInv, PipeInv, TypeOK, Occurrence
  <2>2. CASE e.msg.n < f.msg.n
    <3>1. e.id < f.id
      BY <2>2 DEF PlaceInv, IdInv
    <3> QED  BY <2>1, <3>1
  <2>3. CASE ~(e.msg.n < f.msg.n)
    <3>1. e.msg.n = f.msg.n
      BY <2>1, <2>3, MessageParts
    <3>2. e.msg = f.msg
      BY <2>1, <3>1, SameMessage
    <3>3. e = f
      BY <3>2, StoredOncePerMessage
    <3> QED  BY <2>1, <3>3
  <2> QED  BY <2>2, <2>3
<1> QED  BY <1>1, PlaceAlways, PTL

\* Whatever the queue refuses and flushes lose, ids order the messages of the log as main
\* handled them and the live feed shows them, whichever sources they came from
\* (main.go:333-345, badger.go:83-90, 101-145).
THEOREM PipelineLogFollowsFeed == Spec => []LogFollowsFeed
<1>1. PlaceInv => LogFollowsFeed
  <2> SUFFICES ASSUME PlaceInv, NEW e \in stored, NEW f \in stored,
                      NEW j \in 1 .. Len(Handled), NEW k \in 1 .. Len(Handled),
                      Handled[j] = e.msg, Handled[k] = f.msg, j < k
               PROVE  e.id < f.id
    BY DEF LogFollowsFeed
  <2>1. /\ e.msg \in Message /\ f.msg \in Message /\ e.id \in Nat /\ f.id \in Nat
        /\ e.id = id[e.msg] /\ f.id = id[f.msg] /\ f.id # 0
    BY DEF PlaceInv, PipeInv, TypeOK, IdInv, Occurrence
  <2>2. e.id # f.id
    <3>1. CASE e.id = f.id
      <4>1. e.msg = f.msg
        BY <3>1, StoredOncePerMessage
      <4>2. j = k
        BY <4>1, HandledOnce DEF PlaceInv
      <4> QED  BY <4>2
    <3> QED  BY <3>1
  <2>3. ~(f.id < e.id)
    <3>1. CASE f.id < e.id
      <4>1. Then(Handled, f.msg, e.msg)
        BY <2>1, <3>1 DEF PlaceInv, OrderInv
      <4> QED  BY <4>1, ThenOneWay DEF PlaceInv
    <3> QED  BY <3>1
  <2> QED  BY <2>1, <2>2, <2>3
<1> QED  BY <1>1, PlaceAlways, PTL

\* Whenever flush writes the id of a message that main is marshalling, the feed shows no
\* id or the one that the log has (badger.go:133-134, hub.go:76-81).
THEOREM PipelineLiveIds == Spec => []LiveIdsTrue
<1>1. PlaceInv => LiveIdsTrue
  <2> SUFFICES ASSUME PlaceInv, NEW k \in 1 .. Len(feed), feed[k].id # 0
               PROVE  /\ \A e \in stored : e.msg = feed[k].msg <=> e.id = feed[k].id
                      /\ \A j \in 1 .. Len(feed) : feed[j].id = feed[k].id => j = k
    BY DEF LiveIdsTrue
  <2>1. /\ FeedMsgs \in Seq(Message) /\ Ordered(FeedMsgs) /\ Len(feed) \in Nat
    BY FeedMsgsType DEF PlaceInv, ArrivalInv, PipeInv, TypeOK
  <2>2. Len(FeedMsgs) = Len(feed) /\ \A j \in 1 .. Len(feed) : FeedMsgs[j] = feed[j].msg
    BY <2>1 DEF FeedMsgs
  <2>3. \A j \in 1 .. Len(feed) : feed[j].msg \in Message
    BY <2>1, <2>2
  <2>4. \A j \in 1 .. Len(feed) : feed[j].id # 0 => feed[j].id = id[feed[j].msg]
    BY DEF PlaceInv, IdInv
  <2>5. \A m \in Message : id[m] = feed[k].id => m = feed[k].msg
    BY <2>3, <2>4 DEF PlaceInv, IdInv
  <2>6. \A e \in stored : e.msg \in Message /\ e.id = id[e.msg]
    BY DEF PlaceInv, PipeInv, TypeOK, Occurrence, IdInv
  <2>7. \A e \in stored : e.msg = feed[k].msg <=> e.id = feed[k].id
    BY <2>4, <2>5, <2>6
  <2>8. \A j \in 1 .. Len(feed) : feed[j].id = feed[k].id => j = k
    <3> SUFFICES ASSUME NEW j \in 1 .. Len(feed), feed[j].id = feed[k].id PROVE j = k
      OBVIOUS
    <3>1. FeedMsgs[j] = FeedMsgs[k]
      BY <2>2, <2>3, <2>4, <2>5
    <3> QED  BY <2>1, <2>2, <3>1, OrderedDistinct
  <2> QED  BY <2>7, <2>8
<1> QED  BY <1>1, PlaceAlways, PTL

-----------------------------------------------------------------------------
(***************************************************************************)
(* The start and the end of the program.                                   *)
(***************************************************************************)
USE DEF ExitFor, GoTo

Phases == {"flags", "file", "modes", "signals", "store", "alerter", "server", "transport",
           "loop", "closing", "exited"}

\* The phases in which there is a context, and those in which the database is open.
Guarded == {"store", "alerter", "server", "transport", "loop", "closing"}
Running == Guarded \ {"store"}

\* The settings of the command line and the defaults.
Parsed == [o \in Options |-> IF o \in given.explicit THEN given.flags[o] ELSE Default(o)]

\* The types, with where a signal ends the program and where the database is open.
TypeInv ==
  /\ given \in Start /\ phase \in Phases
  /\ ctx \in {"none", "live", "done"} /\ signals \in {"default", "caught"}
  /\ store \in {"closed", "open"}
  /\ parts \in [alerter : BOOLEAN, auth : BOOLEAN, tls : BOOLEAN,
                transport : Modes \union {"none"}]

LifeInv ==
  /\ phase \in {"flags", "file", "modes", "signals"} => ctx = "none" /\ signals = "default"
  /\ phase \in Guarded => ctx # "none"
  /\ phase \in Guarded /\ signals = "default" => ctx = "done" /\ "transport" \in down
  /\ phase \in Running => store = "open"
  /\ phase \notin Running \union {"exited"} => store = "closed"
  /\ StoreLeftClosed

\* main's settings are those that were asked for, once the file is read.
SettingsInv ==
  /\ phase = "file" => cfg = Parsed
  /\ phase \in {"modes", "signals"} \union Guarded => cfg = Asked
  /\ phase \in {"signals"} \union Guarded \/ store = "open" =>
       \E m \in Modes : AskedModes(Asked) = {m}

\* What was started is what was asked for.
PartsInv ==
  /\ phase \in {"server", "transport", "loop"} =>
       (parts.alerter <=> Asked["alert_webhook"] # 0)
  /\ phase \in {"transport", "loop"} =>
       /\ parts.auth <=> Asked["auth_user"] # 0 /\ Asked["auth_pass"] # 0
       /\ parts.tls <=> Asked["tls_cert"] # 0 /\ Asked["tls_key"] # 0
  /\ phase = "loop" => AskedModes(Asked) = {parts.transport}

StartupInv == TypeInv /\ LifeInv /\ SettingsInv /\ PartsInv

\* modes == 1 means that one mode is asked for (main.go:247-261).
LEMMA OneMode ==
  ASSUME NEW settings, Cardinality(AskedModes(settings)) = 1
  PROVE  \E m \in Modes : AskedModes(settings) = {m}
<1>1. IsFiniteSet(Modes)
  <2>1. Modes = {"wrap"} \union {"proxy"} \union {"pid"} \union {"socket"}
    BY DEF Modes
  <2>2. \A x : IsFiniteSet({x})
    BY FS_Singleton
  <2>3. IsFiniteSet({"wrap"} \union {"proxy"})
    BY <2>2, FS_Union
  <2>4. IsFiniteSet({"wrap"} \union {"proxy"} \union {"pid"})
    BY <2>2, <2>3, FS_Union
  <2> QED  BY <2>1, <2>2, <2>4, FS_Union
<1>2. AskedModes(settings) \in SUBSET Modes
  BY DEF AskedModes
<1>3. IsFiniteSet(AskedModes(settings))
  BY <1>1, <1>2, FS_Subset
<1>4. PICK x : AskedModes(settings) = {x}
  BY <1>3, FS_Singleton
<1> QED  BY <1>2, <1>4

\* The order in which main looks at the modes does not matter when one is asked for
\* (main.go:315-324).
LEMMA ChosenIsAsked ==
  ASSUME NEW m \in Modes, AskedModes(cfg) = {m}
  PROVE  Chosen = m
<1>1. \A k \in Modes : Asks(cfg, k) <=> k = m
  BY DEF AskedModes
<1>2. m \in {"wrap", "proxy", "pid", "socket"}
  BY DEF Modes
<1>3. /\ Asks(cfg, "wrap") <=> m = "wrap"
      /\ Asks(cfg, "proxy") <=> m = "proxy"
      /\ Asks(cfg, "pid") <=> m = "pid"
  BY <1>1 DEF Modes
<1> QED  BY <1>2, <1>3 DEF Chosen

\* The two rounds of copying give what was asked for (main.go:117-219).
LEMMA TwoRounds ==
  ASSUME given \in Start, cfg = Parsed, given.fileState = "good"
  PROVE  FlagsAgain([o \in Options |->
           IF o \in FileOptions /\ Heard(o) THEN given.file[o] ELSE cfg[o]]) = Asked
<1> DEFINE Round == [o \in Options |->
             IF o \in FileOptions /\ Heard(o) THEN given.file[o] ELSE cfg[o]]
<1>1. FlagsAgain(Round) = [o \in Options |->
        IF o \in given.explicit \intersect FileOptions THEN given.flags[o] ELSE Round[o]]
  BY DEF FlagsAgain
<1>2. \A o \in Options : FlagsAgain(Round)[o] = Asked[o]
  <2> SUFFICES ASSUME NEW o \in Options PROVE FlagsAgain(Round)[o] = Asked[o]
    OBVIOUS
  <2>1. Round[o] = IF o \in FileOptions /\ Heard(o) THEN given.file[o] ELSE cfg[o]
    OBVIOUS
  <2>2. cfg[o] = IF o \in given.explicit THEN given.flags[o] ELSE Default(o)
    BY DEF Parsed
  <2>3. Asked[o] = IF o \in given.explicit THEN given.flags[o]
                   ELSE IF o \in FileOptions /\ Heard(o) THEN given.file[o] ELSE Default(o)
    BY DEF Asked
  <2>4. FlagsAgain(Round)[o] =
          IF o \in given.explicit \intersect FileOptions THEN given.flags[o] ELSE Round[o]
    BY <1>1
  <2> HIDE DEF Round
  <2> QED  BY <2>1, <2>2, <2>3, <2>4
<1>3. /\ Asked = [o \in Options |-> Asked[o]]
      /\ FlagsAgain(Round) = [o \in Options |-> FlagsAgain(Round)[o]]
  BY <1>1 DEF Asked
<1> QED  BY <1>2, <1>3

\* Without a file, the settings are those of the command line.
LEMMA NoFile ==
  ASSUME given.fileState = "none", cfg = Parsed
  PROVE  cfg = Asked
BY DEF Parsed, Asked

LEMMA StartupInit == ProgramInit => StartupInv
<1> SUFFICES ASSUME ProgramInit PROVE StartupInv
  OBVIOUS
<1>1. TypeInv
  BY StartupAssumption DEF ProgramInit, TypeInv, Phases, Nothing
<1>2. LifeInv /\ SettingsInv /\ PartsInv
  BY DEF ProgramInit, LifeInv, StoreLeftClosed, SettingsInv, PartsInv, Guarded, Running
<1> QED  BY <1>1, <1>2 DEF StartupInv

\* What was asked for does not change.
LEMMA AskedStays ==
  ASSUME given' = given
  PROVE  Asked' = Asked /\ AskedModes(Asked)' = AskedModes(Asked) /\ Parsed' = Parsed
<1>1. Asked' = Asked
  BY DEF Asked, Heard
<1> QED  BY <1>1 DEF Parsed, AskedModes, Asks

LEMMA BeforeSignals ==
  ASSUME StartupInv, ParseFlags \/ ReadFile \/ CheckModes
  PROVE  StartupInv'
<1> USE DEF StartupInv, TypeInv, Phases
<1>1. CASE ParseFlags
  <2>1. cfg' = Parsed /\ given' = given /\ Parsed' = Parsed
    BY <1>1, AskedStays DEF ParseFlags, Parsed
  <2> QED  BY <1>1, <2>1 DEF ParseFlags, LifeInv, StoreLeftClosed, SettingsInv, PartsInv, Guarded, Running
<1>2. CASE ReadFile
  <2>1. phase = "file" /\ cfg = Parsed /\ given' = given /\ Asked' = Asked
    BY <1>2, AskedStays DEF ReadFile, SettingsInv
  <2>2. phase' = "exited" \/ (phase' = "modes" /\ cfg' = Asked)
    <3>1. CASE given.fileState = "none"
      BY <1>2, <2>1, <3>1, NoFile DEF ReadFile
    <3>2. CASE given.fileState \in {"unreadable", "malformed"}
      BY <1>2, <3>2 DEF ReadFile
    <3>3. CASE given.fileState = "good"
      <4>1. cfg' = FlagsAgain([o \in Options |->
              IF o \in FileOptions /\ Heard(o) THEN given.file[o] ELSE cfg[o]])
        BY <1>2, <3>3 DEF ReadFile
      <4>2. phase' = "modes"
        BY <1>2, <3>3 DEF ReadFile
      <4> QED  BY <2>1, <3>3, <4>1, <4>2, TwoRounds
    <3> QED  BY <3>1, <3>2, <3>3 DEF Start
  <2>3. UNCHANGED <<given, ctx, signals, store, parts>>
    BY <1>2 DEF ReadFile
  <2> QED  BY <2>1, <2>2, <2>3 DEF LifeInv, StoreLeftClosed, SettingsInv, PartsInv, Guarded, Running
<1>3. CASE CheckModes
  <2>1. cfg = Asked /\ Asked' = Asked /\ AskedModes(Asked)' = AskedModes(Asked)
    BY <1>3, AskedStays DEF CheckModes, SettingsInv
  <2>2. phase' = "exited" \/ (phase' = "signals" /\ \E m \in Modes : AskedModes(Asked) = {m})
    BY <1>3, <2>1, OneMode DEF CheckModes
  <2>3. phase = "modes" /\ UNCHANGED <<given, cfg, ctx, signals, store, parts>>
    BY <1>3 DEF CheckModes
  <2> QED
    BY <2>1, <2>2, <2>3 DEF LifeInv, StoreLeftClosed, SettingsInv, PartsInv, Guarded, Running
<1> QED  BY <1>1, <1>2, <1>3

LEMMA StartingParts ==
  ASSUME StartupInv,
         CatchSignals \/ OpenStore \/ StartAlerter \/ StartServer \/ StartTransport
  PROVE  StartupInv'
<1> USE DEF StartupInv, TypeInv, Phases
<1>1. /\ given' = given /\ cfg' = cfg
      /\ Asked' = Asked /\ AskedModes(Asked)' = AskedModes(Asked)
  BY AskedStays DEF CatchSignals, OpenStore, StartAlerter, StartServer, StartTransport
<1>2. CASE CatchSignals
  BY <1>1, <1>2 DEF CatchSignals, LifeInv, StoreLeftClosed, SettingsInv, PartsInv, Guarded, Running
<1>3. CASE OpenStore
  BY <1>1, <1>3 DEF OpenStore, LifeInv, StoreLeftClosed, SettingsInv, PartsInv, Guarded, Running
<1>4. CASE StartAlerter
  BY <1>1, <1>4 DEF StartAlerter, LifeInv, StoreLeftClosed, SettingsInv, PartsInv, Guarded, Running
<1>5. CASE StartServer
  BY <1>1, <1>5 DEF StartServer, LifeInv, StoreLeftClosed, SettingsInv, PartsInv, Guarded, Running
<1>6. CASE StartTransport
  <2>1. phase = "transport" /\ cfg = Asked
    BY <1>6 DEF StartTransport, SettingsInv, Guarded
  <2>2. PICK m \in Modes : AskedModes(Asked) = {m}
    BY <2>1 DEF SettingsInv, Guarded
  <2>3. parts' = [parts EXCEPT !.transport = m]
    BY <1>6, <2>1, <2>2, ChosenIsAsked DEF StartTransport
  <2> QED
    BY <1>1, <1>6, <2>1, <2>2, <2>3
    DEF StartTransport, LifeInv, StoreLeftClosed, SettingsInv, PartsInv, Guarded, Running
<1> QED  BY <1>2, <1>3, <1>4, <1>5, <1>6

LEMMA RunningAndEnding ==
  ASSUME StartupInv,
         ServerStops \/ TransportStops \/ HearTransport \/ Return \/ Close \/ SignalComes
         \/ Finished
  PROVE  StartupInv'
<1> USE DEF StartupInv, TypeInv, Phases
<1>1. /\ given' = given /\ cfg' = cfg /\ parts' = parts
      /\ Asked' = Asked /\ AskedModes(Asked)' = AskedModes(Asked) /\ Parsed' = Parsed
  BY AskedStays
  DEF ServerStops, TransportStops, HearTransport, Return, Close, SignalComes, Finished, programVars
<1> USE DEF LifeInv, StoreLeftClosed, SettingsInv, PartsInv, Guarded, Running
<1>2. CASE ServerStops \/ TransportStops \/ Finished
  BY <1>1, <1>2 DEF ServerStops, TransportStops, Finished, programVars
<1>3. CASE HearTransport
  BY <1>1, <1>3 DEF HearTransport
<1>4. CASE Return
  BY <1>1, <1>4 DEF Return
<1>5. CASE Close
  BY <1>1, <1>5 DEF Close, CloseStore
<1>6. CASE SignalComes
  <2>1. CASE signals = "default"
    BY <1>1, <1>6, <2>1 DEF SignalComes
  <2>2. CASE signals = "caught"
    BY <1>1, <1>6, <2>2 DEF SignalComes
  <2> QED  BY <2>1, <2>2
<1> QED  BY <1>2, <1>3, <1>4, <1>5, <1>6

LEMMA StartupStep == StartupInv /\ [ProgramNext]_programVars => StartupInv'
<1> SUFFICES ASSUME StartupInv, [ProgramNext]_programVars PROVE StartupInv'
  OBVIOUS
<1>1. CASE UNCHANGED programVars
  <2>1. Asked' = Asked /\ AskedModes(Asked)' = AskedModes(Asked) /\ Parsed' = Parsed
    BY <1>1, AskedStays DEF programVars
  <2> QED
    BY <1>1, <2>1 DEF programVars, StartupInv, TypeInv, LifeInv, StoreLeftClosed, SettingsInv, PartsInv
<1>2. CASE ProgramNext
  BY <1>2, BeforeSignals, StartingParts, RunningAndEnding DEF ProgramNext, Boot
<1> QED  BY <1>1, <1>2

LEMMA StartupAlways == Program => []StartupInv
BY StartupInit, StartupStep, PTL DEF Program

\* For every command line and file: the settings in force are those asked for, the
\* program runs only if they ask for one mode, and it starts that mode, the alerter,
\* authentication and encryption exactly when they ask for them (main.go:81-332).
THEOREM StartupRunsAsAsked == Program => []RunsAsAsked
<1>1. StartupInv => RunsAsAsked
  <2> SUFFICES ASSUME StartupInv PROVE RunsAsAsked
    OBVIOUS
  <2>1. phase \notin {"flags", "file", "exited"} => cfg = Asked
    BY DEF StartupInv, TypeInv, SettingsInv, Phases, Guarded
  <2>2. store = "open" => \E m \in Modes : AskedModes(Asked) = {m}
    BY DEF StartupInv, LifeInv, StoreLeftClosed, SettingsInv, Running
  <2> QED  BY <2>1, <2>2 DEF StartupInv, PartsInv, RunsAsAsked
<1> QED  BY <1>1, StartupAlways, PTL

\* The program never ends with its database open, whatever ends it, except at a signal
\* that arrives after the transport has ended and main has heard of it: the cancel()
\* that main calls then also gives the signals back (main.go:272-285, 351-359).
THEOREM StartupStoreLeftClosed == Program => []StoreLeftClosed
<1>1. StartupInv => StoreLeftClosed
  BY DEF StartupInv, LifeInv
<1> QED  BY <1>1, StartupAlways, PTL
=============================================================================
