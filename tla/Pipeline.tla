------------------------------ MODULE Pipeline ------------------------------
(***************************************************************************)
(* The way of a message through the process (main.go): the goroutines of   *)
(* the transport forward a line, parse it and offer it to a bounded        *)
(* channel; main's loop takes it, pairs and counts it, inserts it into the *)
(* store's queue and broadcasts it; the store's drain goroutine gives it   *)
(* an id and commits it.  A message is one object, shared by pointer: the  *)
(* drain goroutine writes its id while main may be marshalling it for the  *)
(* live feed.  A transport that returns, or a signal, cancels the context, *)
(* and main returns when its select finds that out.  The cancel() of main  *)
(* also gives the signals back: one that comes later kills the process.    *)
(*                                                                         *)
(* The store and the feed appear here by what main and a message see of    *)
(* them; Store, Hub and Correlator have their details.                     *)
(***************************************************************************)
EXTENDS Integers, Sequences, SequencesExt

CONSTANTS
  Sources,    \* the goroutines of the transport that offer messages
  ChanCap,    \* capacity of the messages channel (1000)
  QueueCap,   \* capacity of Store.queue (4096)
  BatchSize,  \* messages that trigger a flush (256)
  NoMsg,      \* main is not handling a message
  MaxLines    \* bound: messages of each source

ASSUME PipelineAssumption ==
  /\ ChanCap \in Nat \ {0} /\ QueueCap \in Nat \ {0} /\ BatchSize \in Nat \ {0}
  /\ MaxLines \in Nat

\* A message: where it comes from and its place among the messages from there.
Message == [src : Sources, n : 1 .. MaxLines]

ASSUME NoMsgAssumption == NoMsg \notin Message

VARIABLES
  lines,      \* messages each source has read
  held,       \* the message a source has forwarded and parsed and not yet offered, or 0
  messages,   \* the channel
  transport,  \* Handler.Start: "running" or "returned"
  errChan,    \* Start's result waits in errChan
  cancelled,  \* the context is done
  killed,     \* a signal has killed the process
  pc,         \* where main is
  msg,        \* the message main is handling, or NoMsg
  id,         \* Message.ID of each message
  queue,      \* Store.queue
  batch,      \* runDrain's batch
  numbered,   \* messages of the batch that flush has given an id, or -1: no flush
  idCounter,  \* Store.idCounter
  stored,     \* what the database holds: [msg, id]
  feed,       \* what was broadcast: [msg, id]
  refused     \* history: messages the queue or the database did not take

vars == <<lines, held, messages, transport, errChan, cancelled, killed, pc, msg, id,
          queue, batch, numbered, idCounter, stored, feed, refused>>
sourceVars == <<lines, held>>
stopVars == <<transport, errChan, cancelled, killed>>
drainVars == <<batch, numbered, idCounter, id, stored>>

-----------------------------------------------------------------------------
(***************************************************************************)
(* Slips: what a plausible mistake would make of a definition below.  The  *)
(* specification does not use them; each one breaks a property.            *)
(***************************************************************************)

\* A source waits until the channel has room.
RefuseWaits(s) == FALSE /\ UNCHANGED messages

\* Insert waits until the queue has room.
RefusedWaits == FALSE /\ UNCHANGED <<queue, refused>>

\* main does not broadcast a message that the queue refused.
AfterInsertSkips == IF Len(queue) < QueueCap THEN "broadcast" ELSE "select"

\* The feed shows the id that the message is going to get.
IdSeenPredicted == idCounter + 1

\* flush takes an id from the counter without advancing it.
NextIdRepeated == idCounter

\* A batch that fails goes back into the queue for another try.
GivenUpForRetry == queue' = queue \o batch /\ UNCHANGED refused

-----------------------------------------------------------------------------
Init ==
  /\ lines = [s \in Sources |-> 0] /\ held = [s \in Sources |-> 0]
  /\ messages = <<>> /\ transport = "running" /\ errChan = FALSE /\ cancelled = FALSE
  /\ killed = FALSE /\ pc = "select" /\ msg = NoMsg /\ id = [m \in Message |-> 0]
  /\ queue = <<>> /\ batch = <<>> /\ numbered = -1 /\ idCounter = 0
  /\ stored = {} /\ feed = <<>> /\ refused = {}

Up == pc # "exited" /\ ~killed

\* A transport goroutine forwards a line and parses it.
Read(s) ==
  /\ Up /\ held[s] = 0 /\ lines[s] < MaxLines
  /\ lines' = [lines EXCEPT ![s] = @ + 1]
  /\ held' = [held EXCEPT ![s] = lines[s] + 1]
  /\ UNCHANGED <<messages, stopVars, pc, msg, queue, drainVars, feed, refused>>

\* The send would block, and what becomes of a message that is not sent.
ChannelFull == Len(messages) >= ChanCap
Refuse(s) == UNCHANGED messages

\* The non-blocking send of every transport: a full channel drops the message.
Offer(s) ==
  /\ Up /\ held[s] # 0
  /\ held' = [held EXCEPT ![s] = 0]
  /\ \/ /\ ~ChannelFull
        /\ messages' = Append(messages, [src |-> s, n |-> held[s]])
     \/ /\ ChannelFull
        /\ Refuse(s)
  /\ UNCHANGED <<lines, stopVars, pc, msg, queue, drainVars, feed, refused>>

\* Start returns, by itself or because the context is done, and its result is sent.
TransportReturns ==
  /\ Up /\ transport = "running"
  /\ transport' = "returned"
  /\ errChan' = TRUE
  /\ UNCHANGED <<sourceVars, messages, cancelled, killed, pc, msg, queue, drainVars, feed, refused>>

\* main has heard of the transport's end and called cancel(), the stop of
\* signal.NotifyContext: signals have their default action again.
Uncaught == transport = "returned" /\ ~errChan

\* An interrupt cancels the context, or kills the process.
Signal ==
  /\ Up
  /\ \/ ~Uncaught /\ ~cancelled /\ cancelled' = TRUE /\ UNCHANGED killed
     \/ Uncaught /\ killed' = TRUE /\ UNCHANGED cancelled
  /\ UNCHANGED <<sourceVars, messages, transport, errChan, pc, msg, queue, drainVars, feed, refused>>

\* The process is alive and main is at a place of its loop.
At(place) == ~killed /\ pc = place

\* main's select takes a message, pairs it and counts it.
Receive ==
  /\ At("select") /\ messages # <<>>
  /\ msg' = Head(messages)
  /\ messages' = Tail(messages)
  /\ pc' = "insert"
  /\ UNCHANGED <<sourceVars, stopVars, queue, drainVars, feed, refused>>

\* main's select takes Start's result and calls cancel().
TransportEnded ==
  /\ At("select") /\ errChan
  /\ errChan' = FALSE
  /\ cancelled' = TRUE
  /\ UNCHANGED <<sourceVars, messages, transport, killed, pc, msg, queue, drainVars, feed, refused>>

\* main's select finds the context done: main returns, and its deferred calls run.
Done ==
  /\ At("select") /\ cancelled
  /\ pc' = "closing"
  /\ UNCHANGED <<sourceVars, messages, stopVars, msg, queue, drainVars, feed, refused>>

\* store.Close closes the database and the process ends.
Exit ==
  /\ At("closing")
  /\ pc' = "exited"
  /\ UNCHANGED <<sourceVars, messages, stopVars, msg, queue, drainVars, feed, refused>>

\* Where main goes on after Insert, and what becomes of a message that is not queued.
AfterInsert == "broadcast"
Refused == refused' = refused \union {msg} /\ UNCHANGED queue

\* store.Insert: a full queue drops the message, and main goes on.
Insert ==
  /\ At("insert")
  /\ pc' = AfterInsert
  /\ \/ /\ Len(queue) < QueueCap
        /\ queue' = Append(queue, msg)
        /\ UNCHANGED refused
     \/ /\ Len(queue) >= QueueCap
        /\ Refused
  /\ UNCHANGED <<sourceVars, messages, stopVars, msg, drainVars, feed>>

\* The id that the marshalled message carries.
IdSeen == id[msg]

\* hub.Broadcast marshals the message as it is now.
Broadcast ==
  /\ At("broadcast")
  /\ feed' = Append(feed, [msg |-> msg, id |-> IdSeen])
  /\ pc' = "select"
  /\ msg' = NoMsg
  /\ UNCHANGED <<sourceVars, messages, stopVars, queue, drainVars, refused>>

\* runDrain takes a message, and flushes a full batch at once.
DrainReceive ==
  /\ Up /\ numbered = -1 /\ queue # <<>>
  /\ batch' = Append(batch, Head(queue))
  /\ queue' = Tail(queue)
  /\ numbered' = IF Len(batch') >= BatchSize THEN 0 ELSE -1
  /\ UNCHANGED <<sourceVars, messages, stopVars, pc, msg, id, idCounter, stored, feed, refused>>

\* runDrain's ticker fires.
TickerFires ==
  /\ Up /\ numbered = -1 /\ batch # <<>>
  /\ numbered' = 0
  /\ UNCHANGED <<sourceVars, messages, stopVars, pc, msg, id, queue, batch, idCounter,
                 stored, feed, refused>>

NextId == idCounter + 1

\* flush writes an id into the message that main may be marshalling.
FlushNumber ==
  /\ Up /\ 0 <= numbered /\ numbered < Len(batch)
  /\ idCounter' = NextId
  /\ id' = [id EXCEPT ![batch[numbered + 1]] = NextId]
  /\ numbered' = numbered + 1
  /\ UNCHANGED <<sourceVars, messages, stopVars, pc, msg, queue, batch, stored, feed, refused>>

\* What becomes of a batch whose transaction fails.
GivenUp == refused' = refused \union ToSet(batch) /\ UNCHANGED queue

\* flush's transaction commits, or all of it is given up.
FlushCommit ==
  /\ Up /\ numbered = Len(batch)
  /\ numbered' = -1
  /\ batch' = <<>>
  /\ \/ /\ stored' = stored \union {[msg |-> m, id |-> id[m]] : m \in ToSet(batch)}
        /\ UNCHANGED <<queue, refused>>
     \/ /\ GivenUp
        /\ UNCHANGED stored
  /\ UNCHANGED <<sourceVars, messages, stopVars, pc, msg, id, idCounter, feed>>

\* The process has ended.
Ended == ~Up /\ UNCHANGED vars

LoopStep == Receive \/ Insert \/ Broadcast \/ Exit

Next ==
  \/ \E s \in Sources : Read(s) \/ Offer(s)
  \/ TransportReturns \/ Signal
  \/ Receive \/ TransportEnded \/ Done \/ Insert \/ Broadcast \/ Exit
  \/ DrainReceive \/ TickerFires \/ FlushNumber \/ FlushCommit
  \/ Ended

Spec == Init /\ [][Next]_vars

\* The goroutines of the transport are scheduled; nothing is said of main.
FairSpec == Spec /\ \A s \in Sources : WF_vars(Offer(s))

\* main is scheduled, and its select picks among the ready cases at random, so that
\* none is passed over forever.  Nothing is said of the drain goroutine.
MainFair == WF_vars(LoopStep) /\ SF_vars(TransportEnded) /\ SF_vars(Done)

-----------------------------------------------------------------------------
(***************************************************************************)
(* Properties.                                                             *)
(***************************************************************************)

Occurrence == [msg : Message, id : Nat]

\* The types, with the bounds of the channel, the queue and the batch.
TypeOK ==
  /\ lines \in [Sources -> 0 .. MaxLines] /\ held \in [Sources -> 0 .. MaxLines]
  /\ messages \in Seq(Message) /\ Len(messages) <= ChanCap
  /\ transport \in {"running", "returned"} /\ errChan \in BOOLEAN
  /\ cancelled \in BOOLEAN /\ killed \in BOOLEAN
  /\ pc \in {"select", "insert", "broadcast", "closing", "exited"}
  /\ msg \in Message \union {NoMsg}
  /\ id \in [Message -> Nat] /\ idCounter \in Nat
  /\ queue \in Seq(Message) /\ Len(queue) <= QueueCap
  /\ batch \in Seq(Message) /\ Len(batch) <= BatchSize /\ numbered \in -1 .. BatchSize
  /\ stored \subseteq Occurrence /\ feed \in Seq(Occurrence)
  /\ refused \subseteq Message

FeedMsgs == [k \in 1 .. Len(feed) |-> feed[k].msg]
Handled == FeedMsgs \o (IF msg = NoMsg THEN <<>> ELSE <<msg>>)

\* The log orders the messages of all sources as main handled them and the live feed
\* shows them, although main goes on while they wait in the queue and in a batch, and
\* a batch that fails leaves a gap in the ids: who watched the feed finds its order in
\* the log.
LogFollowsFeed ==
  \A e, f \in stored : \A j, k \in 1 .. Len(Handled) :
    Handled[j] = e.msg /\ Handled[k] = f.msg /\ j < k => e.id < f.id

\* The log orders the messages of one source as the source read them, through two
\* bounded channels and a batch, and holds none of them twice.
LogKeepsSourceOrder ==
  \A e, f \in stored : e.msg.src = f.msg.src /\ e.msg.n <= f.msg.n =>
    (e.id <= f.id /\ (e.id = f.id => e = f))

\* A message that the live feed shows with an id has that id in the log too, and no
\* other message does, although the id may be written before, after or never while the
\* message is marshalled.  (Between two resets of the counter: Clear is in Store.)
LiveIdsTrue ==
  \A k \in 1 .. Len(feed) : feed[k].id # 0 =>
    /\ \A e \in stored : e.msg = feed[k].msg <=> e.id = feed[k].id
    /\ \A j \in 1 .. Len(feed) : feed[j].id = feed[k].id => j = k

\* Everything that main has inserted is in exactly one place: it waits in the queue or
\* in the batch, it is stored, or it was refused.  So what is neither stored nor
\* refused when the process ends is what waited then, and nothing else.
NoneForgotten ==
  LET inserted == ToSet(FeedMsgs) \union (IF pc = "broadcast" THEN {msg} ELSE {})
      waiting == ToSet(queue) \union ToSet(batch)
      kept == {e.msg : e \in stored}
  IN  /\ inserted = waiting \union kept \union refused
      /\ ToSet(queue) \intersect ToSet(batch) = {}
      /\ waiting \intersect kept = {} /\ (waiting \union kept) \intersect refused = {}

\* A transport goroutine goes on after every message, even when main takes none: the
\* wrapped program never waits for its observer.
SourcesNeverWait == \A s \in Sources : (held[s] # 0) ~> (held[s] = 0 \/ ~Up)

\* After a signal, or when the transport has returned, main returns if it is scheduled,
\* even when the store's drain goroutine hangs, or a signal after main's cancel() kills it.
MainStops == MainFair => ((cancelled \/ transport = "returned") ~> ~Up)
=============================================================================
