-------------------------------- MODULE Hub --------------------------------
(***************************************************************************)
(* The live feed of the dashboard (internal/server/hub.go and the handler  *)
(* handleWebSocket of server.go).  Main broadcasts every message under the *)
(* hub's read lock; each client has a bounded channel, a writePump         *)
(* goroutine that empties it, and a handler goroutine that reads until the *)
(* connection fails.  A client leaves through Unregister, which takes the  *)
(* write lock and may be called for the same client by its handler, by its *)
(* pump and by any number of eviction goroutines that Broadcast started    *)
(* when the client's channel was full.                                     *)
(*                                                                         *)
(* Broadcast and Unregister exclude each other by the RWMutex; everything  *)
(* else interleaves.  A send on a closed channel and the close of a closed *)
(* channel panic, and a panic of any goroutine ends the process.  The      *)
(* websocket library is not part of the repository: a connection that has  *)
(* failed or was closed by either side fails every later Read and Write.   *)
(***************************************************************************)
EXTENDS Integers, Sequences

CONSTANTS
  Conns,         \* the connections, and with them the Client objects
  Flaky,         \* bound: the connections that may leave or fail by themselves
  SendCap,       \* capacity of a client's send channel (256)
  MaxBroadcasts  \* bound: messages broadcast

ASSUME HubAssumption ==
  Flaky \subseteq Conns /\ SendCap \in Nat \ {0} /\ MaxBroadcasts \in Nat

VARIABLES
  clients,       \* Hub.clients
  send,          \* Client.send: what the channel holds
  closed,        \* Client.send has been closed
  conn,          \* Client.conn: "none", "open" or "closed"
  pump,          \* where writePump is
  inflight,      \* the message writePump has taken and not yet written
  reader,        \* where handleWebSocket is
  evictions,     \* eviction goroutines that have not yet taken the lock
  broadcasting,  \* Broadcast holds the read lock
  todo,          \* the clients Broadcast's loop has still to visit
  sent,          \* messages broadcast so far; the k-th one is the number k
  panicked,      \* a goroutine has panicked
  joined,        \* history: messages broadcast before the client registered
  delivered      \* history: what was written to the connection

vars == <<clients, send, closed, conn, pump, inflight, reader, evictions,
          broadcasting, todo, sent, panicked, joined, delivered>>
hubVars == <<clients, closed, panicked>>
broadcastVars == <<broadcasting, todo, sent>>
clientVars == <<send, conn, pump, inflight, reader, delivered>>

PumpStates == {"none", "ready", "writing", "leaving", "closing", "done"}
ReaderStates == {"none", "reading", "leaving", "done"}

-----------------------------------------------------------------------------
(***************************************************************************)
(* Slips: what a plausible mistake would make of a definition below.  The  *)
(* specification does not use them; each one breaks a property.            *)
(***************************************************************************)

\* Unregister closes the channel without looking whether the client is still there.
StillRegisteredUnchecked(c) == TRUE

\* Broadcast calls Unregister itself, with its read lock held.
EvictInline(c) ==
  /\ ~broadcasting
  /\ evictions' = [evictions EXCEPT ![c] = @ + 1]

\* Broadcast drops the message of a slow client and lets the client stay.
EvictNever(c) == UNCHANGED evictions

\* A client is evicted when one more message would fill its channel.
HasRoomForTwo(c) == Len(send[c]) + 1 < SendCap

\* writePump ends without closing the connection.
PumpCloseLeavesConn(c) ==
  /\ pump[c] = "closing"
  /\ pump' = [pump EXCEPT ![c] = "done"]
  /\ UNCHANGED <<hubVars, send, conn, inflight, reader, evictions, broadcastVars, joined, delivered>>

-----------------------------------------------------------------------------
Init ==
  /\ clients = {} /\ send = [c \in Conns |-> <<>>] /\ closed = [c \in Conns |-> FALSE]
  /\ conn = [c \in Conns |-> "none"]
  /\ pump = [c \in Conns |-> "none"] /\ inflight = [c \in Conns |-> 0]
  /\ reader = [c \in Conns |-> "none"] /\ evictions = [c \in Conns |-> 0]
  /\ broadcasting = FALSE /\ todo = {} /\ sent = 0 /\ panicked = FALSE
  /\ joined = [c \in Conns |-> 0] /\ delivered = [c \in Conns |-> <<>>]

\* The write lock can be taken: no Broadcast holds the read lock.
LockFree == ~broadcasting

\* handleWebSocket registers the connection it has accepted; Register starts the
\* pump, and the handler goes on to read.
Register(c) ==
  /\ LockFree /\ conn[c] = "none"
  /\ clients' = clients \union {c}
  /\ conn' = [conn EXCEPT ![c] = "open"]
  /\ pump' = [pump EXCEPT ![c] = "ready"]
  /\ reader' = [reader EXCEPT ![c] = "reading"]
  /\ joined' = [joined EXCEPT ![c] = sent]
  /\ UNCHANGED <<send, closed, inflight, evictions, broadcastVars, panicked, delivered>>

\* Unregister's test.
StillRegistered(c) == c \in clients

\* Unregister: the first call for a client deletes it and closes its channel.
Unregister(c) ==
  /\ LockFree
  /\ \/ /\ StillRegistered(c)
        /\ clients' = clients \ {c}
        /\ closed' = [closed EXCEPT ![c] = TRUE]
        /\ panicked' = closed[c]
     \/ /\ ~StillRegistered(c)
        /\ UNCHANGED hubVars

\* Broadcast takes the read lock and starts its loop over the clients.
BroadcastBegin ==
  /\ ~broadcasting /\ sent < MaxBroadcasts
  /\ broadcasting' = TRUE
  /\ sent' = sent + 1
  /\ todo' = clients
  /\ UNCHANGED <<hubVars, clientVars, evictions, joined>>

\* Whether a send would block, the channel after a send, and what Broadcast does with
\* a client that is too slow.
HasRoom(c) == Len(send[c]) < SendCap
Queue(q, n) == Append(q, n)
SpawnEviction(c) == evictions' = [evictions EXCEPT ![c] = @ + 1]

\* One turn of Broadcast's loop: a send that never blocks, or an eviction.
SendTo(c) ==
  /\ broadcasting /\ c \in todo
  /\ todo' = todo \ {c}
  /\ \/ /\ closed[c]
        /\ panicked' = TRUE
        /\ UNCHANGED <<send, evictions>>
     \/ /\ ~closed[c] /\ HasRoom(c)
        /\ send' = [send EXCEPT ![c] = Queue(@, sent)]
        /\ UNCHANGED <<evictions, panicked>>
     \/ /\ ~closed[c] /\ ~HasRoom(c)
        /\ SpawnEviction(c)
        /\ UNCHANGED <<send, panicked>>
  /\ UNCHANGED <<clients, closed, conn, pump, inflight, reader, delivered,
                 broadcasting, sent, joined>>

BroadcastEnd ==
  /\ broadcasting /\ todo = {}
  /\ broadcasting' = FALSE
  /\ UNCHANGED <<hubVars, clientVars, evictions, todo, sent, joined>>

\* An eviction goroutine gets the lock.
Evict(c) ==
  /\ evictions[c] > 0
  /\ evictions' = [evictions EXCEPT ![c] = @ - 1]
  /\ Unregister(c)
  /\ UNCHANGED <<clientVars, broadcastVars, joined>>

\* writePump receives a message; a closed channel still yields what it holds.
PumpTake(c) ==
  /\ pump[c] = "ready" /\ send[c] # <<>>
  /\ inflight' = [inflight EXCEPT ![c] = Head(send[c])]
  /\ send' = [send EXCEPT ![c] = Tail(@)]
  /\ pump' = [pump EXCEPT ![c] = "writing"]
  /\ UNCHANGED <<hubVars, conn, reader, delivered, evictions, broadcastVars, joined>>

\* writePump's loop ends with the channel.
PumpRangeEnds(c) ==
  /\ pump[c] = "ready" /\ send[c] = <<>> /\ closed[c]
  /\ pump' = [pump EXCEPT ![c] = "leaving"]
  /\ UNCHANGED <<hubVars, send, conn, inflight, reader, delivered, evictions, broadcastVars, joined>>

WriteOk(c) ==
  /\ pump[c] = "writing" /\ conn[c] = "open"
  /\ delivered' = [delivered EXCEPT ![c] = Append(@, inflight[c])]
  /\ pump' = [pump EXCEPT ![c] = "ready"]
  /\ UNCHANGED <<hubVars, send, conn, inflight, reader, evictions, broadcastVars, joined>>

\* The write fails: the connection is gone, or the peer has not read for 5 seconds,
\* and then the library closes the connection.
WriteFail(c) ==
  /\ pump[c] = "writing" /\ (c \in Flaky \/ conn[c] = "closed")
  /\ conn' = [conn EXCEPT ![c] = "closed"]
  /\ pump' = [pump EXCEPT ![c] = "leaving"]
  /\ UNCHANGED <<hubVars, send, inflight, reader, delivered, evictions, broadcastVars, joined>>

\* writePump's deferred calls: Unregister, then Close.
PumpUnregister(c) ==
  /\ pump[c] = "leaving"
  /\ pump' = [pump EXCEPT ![c] = "closing"]
  /\ Unregister(c)
  /\ UNCHANGED <<send, conn, inflight, reader, delivered, evictions, broadcastVars, joined>>

PumpClose(c) ==
  /\ pump[c] = "closing"
  /\ pump' = [pump EXCEPT ![c] = "done"]
  /\ conn' = [conn EXCEPT ![c] = "closed"]
  /\ UNCHANGED <<hubVars, send, inflight, reader, delivered, evictions, broadcastVars, joined>>

\* The browser closes the page, or the network does it for it.
PeerLeaves(c) ==
  /\ conn[c] = "open" /\ c \in Flaky
  /\ conn' = [conn EXCEPT ![c] = "closed"]
  /\ UNCHANGED <<hubVars, send, pump, inflight, reader, delivered, evictions, broadcastVars, joined>>

\* handleWebSocket: Read fails, Unregister, return.
ReadFails(c) ==
  /\ reader[c] = "reading" /\ conn[c] = "closed"
  /\ reader' = [reader EXCEPT ![c] = "leaving"]
  /\ UNCHANGED <<hubVars, send, conn, pump, inflight, delivered, evictions, broadcastVars, joined>>

ReaderUnregister(c) ==
  /\ reader[c] = "leaving"
  /\ reader' = [reader EXCEPT ![c] = "done"]
  /\ Unregister(c)
  /\ UNCHANGED <<send, conn, pump, inflight, delivered, evictions, broadcastVars, joined>>

\* Nothing is left of the connection but the objects.
Gone(c) ==
  /\ c \notin clients /\ conn[c] = "closed"
  /\ pump[c] = "done" /\ reader[c] = "done"

BroadcastStep == (\E c \in Conns : SendTo(c)) \/ BroadcastEnd
PumpStep(c) == PumpTake(c) \/ PumpRangeEnds(c) \/ WriteOk(c) \/ WriteFail(c) \/ PumpClose(c)

Next ==
  /\ ~panicked
  /\ \/ BroadcastBegin \/ BroadcastEnd
     \/ \E c \in Conns :
          \/ Register(c) \/ SendTo(c) \/ Evict(c)
          \/ PumpTake(c) \/ PumpRangeEnds(c) \/ WriteOk(c) \/ WriteFail(c)
          \/ PumpUnregister(c) \/ PumpClose(c)
          \/ PeerLeaves(c) \/ ReadFails(c) \/ ReaderUnregister(c)

Spec == Init /\ [][Next]_vars

\* Main's goroutine is scheduled; nothing is said of the clients.
FairSpec == Spec /\ WF_vars(BroadcastStep)

\* The goroutines of one client are scheduled, and writes end after 5 seconds at the
\* latest.  A call of Lock that waits keeps new readers out of the RWMutex, so it gets
\* its turn however often Broadcast takes the read lock: strong fairness.
ClientFair(c) ==
  /\ WF_vars(PumpStep(c)) /\ WF_vars(ReadFails(c))
  /\ SF_vars(Evict(c)) /\ SF_vars(PumpUnregister(c)) /\ SF_vars(ReaderUnregister(c))

-----------------------------------------------------------------------------
(***************************************************************************)
(* Properties.                                                             *)
(***************************************************************************)

\* The types, with the capacity of the clients' channels.
TypeOK ==
  /\ clients \subseteq Conns /\ todo \subseteq Conns
  /\ send \in [Conns -> Seq(Nat)] /\ \A c \in Conns : Len(send[c]) <= SendCap
  /\ closed \in [Conns -> BOOLEAN]
  /\ conn \in [Conns -> {"none", "open", "closed"}]
  /\ pump \in [Conns -> PumpStates] /\ inflight \in [Conns -> Nat]
  /\ reader \in [Conns -> ReaderStates] /\ evictions \in [Conns -> Nat]
  /\ broadcasting \in BOOLEAN /\ sent \in Nat /\ panicked \in BOOLEAN
  /\ joined \in [Conns -> Nat] /\ delivered \in [Conns -> Seq(Nat)]

\* Three kinds of goroutines may unregister a client, in any order, while messages
\* are broadcast: none of them ever closes a channel twice, and Broadcast never
\* sends on a closed one.
NoPanic == ~panicked

\* What a client has been and will be given: written, being written, waiting.
Feed(c) ==
  delivered[c] \o (IF pump[c] = "writing" THEN <<inflight[c]>> ELSE <<>>) \o send[c]

\* The broadcasts that have reached a client's turn since it registered.
Due(c) == sent - joined[c] - (IF c \in todo THEN 1 ELSE 0)

\* A client that stays misses nothing: without an eviction under way or a failed
\* write, its feed is every message broadcast since it registered, without a gap.
FeedComplete ==
  \A c \in clients :
    evictions[c] = 0 /\ pump[c] \in {"ready", "writing"} =>
      Feed(c) = [i \in 1 .. Due(c) |-> joined[c] + i]

\* Even a client that is being evicted gets its messages in the order of the
\* broadcasts and none of them twice.
FeedInOrder ==
  \A c \in Conns : \A i, j \in 1 .. Len(Feed(c)) : i < j => Feed(c)[i] < Feed(c)[j]

\* The refinement mapping: until Broadcast's turn of a client comes, the client is owed
\* the message.
Served(c) == pump[c] \in {"ready", "writing"}
Owed(c) ==
  IF Served(c)
  THEN (IF pump[c] = "writing" THEN <<inflight[c]>> ELSE <<>>) \o send[c]
         \o (IF c \in todo THEN <<sent>> ELSE <<>>)
  ELSE <<>>
Status(c) ==
  CASE conn[c] = "none" -> "outside"
    [] conn[c] # "none" /\ ~Served(c) -> "ended"
    [] conn[c] # "none" /\ Served(c) /\ c \notin clients -> "leaving"
    [] conn[c] # "none" /\ Served(c) /\ c \in clients /\ evictions[c] > 0 -> "slow"
    [] conn[c] # "none" /\ Served(c) /\ c \in clients /\ evictions[c] = 0 -> "following"
Standing == [c \in Conns |-> Status(c)]
Owing == [c \in Conns |-> Owed(c)]
Abstract == INSTANCE LiveFeed WITH status <- Standing, owed <- Owing

\* Goroutines, locks and channels implement the live feed as LiveFeed promises it.  A
\* broadcast looks as if it reached all clients at once, though it visits one after the
\* other while their pumps write (hub.go:21-34, 65-94).
ImplementsLiveFeed == Abstract!Spec

\* A client that was evicted or whose connection failed leaves the map, and neither
\* its pump nor its handler stays behind, whatever becomes of the other clients.
LeaversGone ==
  \A c \in Conns :
    ClientFair(c) => ((evictions[c] > 0 \/ conn[c] = "closed") ~> Gone(c))

\* Broadcast gives its lock back and main goes on, even if no client's pump ever runs
\* again and no eviction gets its turn.
BroadcastReturns == broadcasting ~> ~broadcasting
=============================================================================
