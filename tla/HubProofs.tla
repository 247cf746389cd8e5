----------------------------- MODULE HubProofs -----------------------------
(***************************************************************************)
(* For any number of connections, any channel capacity and any number of   *)
(* messages: the hub's types, the absence of panics, what a client of the  *)
(* live feed is given, and that the hub implements LiveFeed.               *)
(***************************************************************************)
EXTENDS Hub, SequenceTheorems, TLAPS

USE DEF hubVars, broadcastVars, clientVars, LockFree

\* What Unregister relies on: only registered clients have an open channel to close,
\* and nobody deletes a client while Broadcast goes through the map.
LockInv ==
  /\ \A c \in Conns : closed[c] => c \notin clients
  /\ \A c \in Conns : conn[c] = "none" => ~closed[c] /\ c \notin clients
  /\ todo \subseteq clients
  /\ ~broadcasting => todo = {}

HubInv == TypeOK /\ LockInv /\ NoPanic

LEMMA HubInit == Init => HubInv
<1> SUFFICES ASSUME Init PROVE HubInv
  OBVIOUS
<1>1. \A c \in Conns : send[c] = <<>> /\ Len(send[c]) <= SendCap /\ ~closed[c]
  <2>1. \A c \in Conns : send[c] = <<>> /\ ~closed[c]
    BY DEF Init
  <2>2. Len(<<>>) <= SendCap
    BY HubAssumption
  <2> QED  BY <2>1, <2>2
<1>2. /\ send \in [Conns -> Seq(Nat)] /\ delivered \in [Conns -> Seq(Nat)]
      /\ closed \in [Conns -> BOOLEAN]
  BY DEF Init
<1>3. /\ conn \in [Conns -> {"none", "open", "closed"}]
      /\ pump \in [Conns -> PumpStates] /\ reader \in [Conns -> ReaderStates]
  BY DEF Init, PumpStates, ReaderStates
<1>4. inflight \in [Conns -> Nat] /\ evictions \in [Conns -> Nat] /\ joined \in [Conns -> Nat]
  BY DEF Init
<1>5. broadcasting \in BOOLEAN /\ panicked \in BOOLEAN /\ sent \in Nat
  BY DEF Init
<1> QED
  BY <1>1, <1>2, <1>3, <1>4, <1>5 DEF Init, HubInv, TypeOK, LockInv, NoPanic

\* Unregister, whoever calls it, keeps the map and the channels in step.
LEMMA UnregisterKeeps ==
  ASSUME HubInv, NEW c \in Conns, Unregister(c), UNCHANGED todo
  PROVE  /\ clients' \subseteq Conns /\ closed' \in [Conns -> BOOLEAN]
         /\ panicked' \in BOOLEAN /\ ~panicked'
         /\ \A d \in Conns : closed'[d] => d \notin clients'
         /\ todo' \subseteq clients'
         /\ \A d \in Conns : closed'[d] => closed[d] \/ d \in clients
<1>1. CASE StillRegistered(c) /\ closed' = [closed EXCEPT ![c] = TRUE]
  BY <1>1 DEF HubInv, TypeOK, LockInv, NoPanic, Unregister, StillRegistered
<1>2. CASE UNCHANGED hubVars
  BY <1>2 DEF HubInv, TypeOK, LockInv, NoPanic
<1> QED  BY <1>1, <1>2 DEF Unregister
LEMMA RegisterStep == ASSUME HubInv, NEW c \in Conns, Register(c) PROVE HubInv'
<1>1. TypeOK'
  BY DEF HubInv, TypeOK, Register, PumpStates, ReaderStates
<1>2. LockInv' /\ NoPanic'
  BY DEF HubInv, TypeOK, LockInv, NoPanic, Register
<1> QED  BY <1>1, <1>2 DEF HubInv

LEMMA BroadcastSteps ==
  ASSUME HubInv, BroadcastBegin \/ BroadcastEnd PROVE HubInv'
<1>1. broadcasting' \in BOOLEAN
  BY DEF BroadcastBegin, BroadcastEnd
<1>2. sent' \in Nat /\ todo' \subseteq Conns
  BY DEF HubInv, TypeOK, BroadcastBegin, BroadcastEnd
<1>3. UNCHANGED <<hubVars, clientVars, evictions, joined>>
  BY DEF BroadcastBegin, BroadcastEnd
<1>4. TypeOK' /\ NoPanic'
  BY <1>1, <1>2, <1>3 DEF HubInv, TypeOK, NoPanic
<1>5. LockInv'
  BY <1>3 DEF HubInv, LockInv, BroadcastBegin, BroadcastEnd
<1> QED  BY <1>4, <1>5 DEF HubInv

LEMMA SendToStep == ASSUME HubInv, NEW c \in Conns, SendTo(c) PROVE HubInv'
<1>1. ~closed[c] /\ panicked' = panicked
  BY DEF HubInv, LockInv, SendTo
<1>2. send' \in [Conns -> Seq(Nat)] /\ \A d \in Conns : Len(send'[d]) <= SendCap
  <2>1. CASE send' = send
    BY <2>1 DEF HubInv, TypeOK
  <2>2. CASE HasRoom(c) /\ send' = [send EXCEPT ![c] = Queue(@, sent)]
    <3>1. send[c] \in Seq(Nat) /\ sent \in Nat /\ Len(send[c]) < SendCap
      BY <2>2 DEF HubInv, TypeOK, HasRoom
    <3>2. Append(send[c], sent) \in Seq(Nat) /\ Len(Append(send[c], sent)) <= SendCap
      BY <3>1, HubAssumption
    <3> QED  BY <2>2, <3>2 DEF HubInv, TypeOK, Queue
  <2> QED  BY <1>1, <2>1, <2>2 DEF SendTo
<1>3. evictions' \in [Conns -> Nat]
  <2>1. evictions \in [Conns -> Nat] /\ evictions[c] + 1 \in Nat
    BY DEF HubInv, TypeOK
  <2>2. evictions' = evictions \/ evictions' = [evictions EXCEPT ![c] = evictions[c] + 1]
    BY DEF SendTo, SpawnEviction
  <2> QED  BY <2>1, <2>2
<1>4. TypeOK'
  BY <1>1, <1>2, <1>3 DEF HubInv, TypeOK, SendTo
<1>5. LockInv' /\ NoPanic'
  BY <1>1 DEF HubInv, TypeOK, LockInv, NoPanic, SendTo
<1> QED  BY <1>4, <1>5 DEF HubInv

\* The three kinds of goroutines that call Unregister.
LEMMA UnregisterSteps ==
  ASSUME HubInv, NEW c \in Conns, Evict(c) \/ PumpUnregister(c) \/ ReaderUnregister(c)
  PROVE  HubInv'
<1>1. Unregister(c) /\ UNCHANGED <<send, conn, inflight, delivered, broadcastVars, joined>>
  BY DEF Evict, PumpUnregister, ReaderUnregister
<1>2. /\ evictions' \in [Conns -> Nat]
      /\ pump' \in [Conns -> PumpStates] /\ reader' \in [Conns -> ReaderStates]
  <2>1. CASE Evict(c)
    <3>1. evictions \in [Conns -> Nat] /\ evictions[c] - 1 \in Nat
      BY <2>1 DEF HubInv, TypeOK, Evict
    <3>2. evictions' = [evictions EXCEPT ![c] = evictions[c] - 1] /\ UNCHANGED <<pump, reader>>
      BY <2>1 DEF Evict
    <3> QED  BY <3>1, <3>2 DEF HubInv, TypeOK
  <2>2. CASE PumpUnregister(c)
    BY <2>2 DEF HubInv, TypeOK, PumpUnregister, PumpStates
  <2>3. CASE ReaderUnregister(c)
    BY <2>3 DEF HubInv, TypeOK, ReaderUnregister, ReaderStates
  <2> QED  BY <2>1, <2>2, <2>3
<1>3. TypeOK'
  <2>1. panicked' \in BOOLEAN
    BY <1>1, UnregisterKeeps
  <2> QED  BY <1>1, <1>2, <2>1, UnregisterKeeps DEF HubInv, TypeOK
<1>4. LockInv' /\ NoPanic'
  BY <1>1, UnregisterKeeps DEF HubInv, LockInv, NoPanic, Unregister
<1> QED  BY <1>3, <1>4 DEF HubInv

\* Steps of one client's pump, handler or peer that do not touch the hub.
LEMMA ClientSteps ==
  ASSUME HubInv, NEW c \in Conns,
         \/ PumpTake(c) \/ PumpRangeEnds(c) \/ WriteOk(c) \/ WriteFail(c) \/ PumpClose(c)
         \/ PeerLeaves(c) \/ ReadFails(c)
  PROVE  HubInv'
<1>1. CASE PumpTake(c)
  <2>1. send[c] \in Seq(Nat) /\ send[c] # <<>> /\ Len(send[c]) <= SendCap
    BY <1>1 DEF HubInv, TypeOK, PumpTake
  <2>2. /\ Head(send[c]) \in Nat /\ Tail(send[c]) \in Seq(Nat)
        /\ Len(Tail(send[c])) <= SendCap
    BY <2>1, HubAssumption
  <2> QED
    BY <1>1, <2>2 DEF HubInv, TypeOK, LockInv, NoPanic, PumpTake, PumpStates
<1>2. CASE WriteOk(c)
  <2>1. Append(delivered[c], inflight[c]) \in Seq(Nat)
    BY DEF HubInv, TypeOK
  <2> QED
    BY <1>2, <2>1 DEF HubInv, TypeOK, LockInv, NoPanic, WriteOk, PumpStates
<1>3. CASE PumpRangeEnds(c)
  BY <1>3 DEF HubInv, TypeOK, LockInv, NoPanic, PumpRangeEnds, PumpStates
<1>4. CASE WriteFail(c)
  BY <1>4 DEF HubInv, TypeOK, LockInv, NoPanic, WriteFail, PumpStates
<1>5. CASE PumpClose(c)
  BY <1>5 DEF HubInv, TypeOK, LockInv, NoPanic, PumpClose, PumpStates
<1>6. CASE PeerLeaves(c)
  BY <1>6 DEF HubInv, TypeOK, LockInv, NoPanic, PeerLeaves
<1>7. CASE ReadFails(c)
  BY <1>7 DEF HubInv, TypeOK, LockInv, NoPanic, ReadFails, ReaderStates
<1> QED  BY <1>1, <1>2, <1>3, <1>4, <1>5, <1>6, <1>7

LEMMA HubStep == HubInv /\ [Next]_vars => HubInv'
<1>1. HubInv /\ UNCHANGED vars => HubInv'
  BY DEF vars, HubInv, TypeOK, LockInv, NoPanic
<1> QED
  BY <1>1, RegisterStep, BroadcastSteps, SendToStep, UnregisterSteps, ClientSteps
  DEF Next

LEMMA HubAlways == Spec => []HubInv
BY HubInit, HubStep, PTL DEF Spec

\* The hub's state is well-formed and no client's channel outgrows its capacity
\* (hub.go:50-62, 86-93).
THEOREM HubTypes == Spec => []TypeOK
<1>1. HubInv => TypeOK
  BY DEF HubInv
<1> QED  BY HubAlways, <1>1, PTL

\* Whichever of its handler, its pump and its evictions unregister a client, and in
\* whatever order, no channel is closed twice and no Broadcast sends on a closed
\* one (hub.go:65-72, 83-93).
THEOREM HubNoPanic == Spec => []NoPanic
<1>1. HubInv => NoPanic
  BY DEF HubInv
<1> QED  BY HubAlways, <1>1, PTL
-----------------------------------------------------------------------------
(***************************************************************************)
(* What a client of the live feed is given.  A feed grows at its end only, *)
(* by the message that Broadcast has just counted, and no goroutine of the *)
(* client changes it until a write fails.                                  *)
(***************************************************************************)
\* The broadcasts that have had their turn at a client.
Reached(c) == sent - (IF c \in todo THEN 1 ELSE 0)

\* A feed is in order and holds nothing that was not broadcast.
InOrder(c) ==
  /\ \A i, j \in 1 .. Len(Feed(c)) : i < j => Feed(c)[i] < Feed(c)[j]
  /\ \A i \in 1 .. Len(Feed(c)) : Feed(c)[i] <= Reached(c)

\* Nothing was missed, unless an eviction is on its way or a write has failed.
Complete(c) ==
  c \in clients /\ evictions[c] = 0 /\ pump[c] \in {"ready", "writing"} =>
    Feed(c) = [i \in 1 .. Due(c) |-> joined[c] + i]

Unused(c) == conn[c] = "none" => pump[c] = "none" /\ send[c] = <<>> /\ delivered[c] = <<>>

FeedInv ==
  \A c \in Conns : InOrder(c) /\ Complete(c) /\ Unused(c) /\ joined[c] <= Reached(c)

-----------------------------------------------------------------------------
(***************************************************************************)
(* The steps of the pump, on sequences.                                    *)
(***************************************************************************)

LEMMA TakeKeeps ==
  ASSUME NEW d \in Seq(Nat), NEW q \in Seq(Nat), q # <<>>
  PROVE  (d \o <<>>) \o q = (d \o <<Head(q)>>) \o Tail(q)
<1>1. /\ Head(q) \in Nat /\ Tail(q) \in Seq(Nat) /\ <<Head(q)>> \in Seq(Nat)
      /\ q = <<Head(q)>> \o Tail(q)
  OBVIOUS
<1>2. d \o <<>> = d
  BY ConcatEmptySeq
<1>3. (d \o <<Head(q)>>) \o Tail(q) = d \o (<<Head(q)>> \o Tail(q))
  BY <1>1, ConcatAssociative
<1> QED  BY <1>1, <1>2, <1>3

LEMMA WriteKeeps ==
  ASSUME NEW d \in Seq(Nat), NEW x \in Nat, NEW q \in Seq(Nat)
  PROVE  (d \o <<x>>) \o q = (Append(d, x) \o <<>>) \o q
<1>1. Append(d, x) \in Seq(Nat) /\ Append(d, x) = d \o <<x>>
  OBVIOUS
<1>2. Append(d, x) \o <<>> = Append(d, x)
  BY <1>1, ConcatEmptySeq
<1> QED  BY <1>1, <1>2

LEMMA AppendAtEnd ==
  ASSUME NEW d \in Seq(Nat), NEW q \in Seq(Nat), NEW x \in Nat
  PROVE  d \o Append(q, x) = Append(d \o q, x)
<1>1. Append(q, x) = q \o <<x>> /\ <<x>> \in Seq(Nat) /\ d \o q \in Seq(Nat)
  OBVIOUS
<1>2. Append(d \o q, x) = (d \o q) \o <<x>>
  BY <1>1
<1>3. (d \o q) \o <<x>> = d \o (q \o <<x>>)
  BY <1>1, ConcatAssociative
<1> QED  BY <1>1, <1>2, <1>3

\* A sequence in order, with numbers up to a bound.
Ordered(s, bound) ==
  /\ \A i, j \in 1 .. Len(s) : i < j => s[i] < s[j]
  /\ \A i \in 1 .. Len(s) : s[i] <= bound

LEMMA OrderedAppend ==
  ASSUME NEW s \in Seq(Nat), NEW x \in Nat, NEW bound \in Int, Ordered(s, bound), bound < x
  PROVE  Ordered(Append(s, x), x)
<1>1. /\ Len(Append(s, x)) = Len(s) + 1 /\ Len(s) \in Nat
      /\ \A i \in 1 .. Len(s) : Append(s, x)[i] = s[i] /\ s[i] \in Nat
      /\ Append(s, x)[Len(s) + 1] = x
  OBVIOUS
<1>2. \A i \in 1 .. Len(s) + 1 : i \in 1 .. Len(s) \/ i = Len(s) + 1
  BY <1>1
<1> QED  BY <1>1, <1>2 DEF Ordered

LEMMA OrderedWithout ==
  ASSUME NEW d \in Seq(Nat), NEW x \in Nat, NEW q \in Seq(Nat), NEW bound \in Int,
         Ordered((d \o <<x>>) \o q, bound)
  PROVE  Ordered((d \o <<>>) \o q, bound)
<1> DEFINE whole == (d \o <<x>>) \o q
           rest == (d \o <<>>) \o q
<1>1. <<x>> \in Seq(Nat) /\ Len(<<x>>) = 1 /\ d \o <<x>> \in Seq(Nat)
      /\ Len(d \o <<x>>) = Len(d) + 1 /\ d \o <<>> = d
  BY ConcatEmptySeq
<1>2. /\ Len(whole) = Len(d) + 1 + Len(q)
      /\ \A i \in 1 .. Len(d) : whole[i] = d[i]
      /\ \A i \in 1 .. Len(q) : whole[Len(d) + 1 + i] = q[i]
  <2>1. /\ Len(whole) = Len(d \o <<x>>) + Len(q)
        /\ \A i \in 1 .. Len(d \o <<x>>) + Len(q) :
             whole[i] = IF i <= Len(d \o <<x>>) THEN (d \o <<x>>)[i]
                        ELSE q[i - Len(d \o <<x>>)]
    BY <1>1, ConcatProperties
  <2>2. \A i \in 1 .. Len(d) : (d \o <<x>>)[i] = d[i]
    BY <1>1, ConcatProperties, LenProperties
  <2>3. Len(d) \in Nat /\ Len(q) \in Nat
    OBVIOUS
  <2> HIDE DEF whole
  <2>4. \A i \in 1 .. Len(d) : whole[i] = d[i]
    BY <1>1, <2>1, <2>2, <2>3
  <2>5. \A i \in 1 .. Len(q) : whole[Len(d) + 1 + i] = q[i]
    <3> SUFFICES ASSUME NEW i \in 1 .. Len(q) PROVE whole[Len(d) + 1 + i] = q[i]
      OBVIOUS
    <3>1. Len(d) + 1 + i \in 1 .. Len(d) + 1 + Len(q) /\ ~(Len(d) + 1 + i <= Len(d) + 1)
      BY <2>3
    <3>2. (Len(d) + 1 + i) - (Len(d) + 1) = i
      BY <2>3
    <3> QED  BY <1>1, <2>1, <3>1, <3>2
  <2> QED  BY <1>1, <2>1, <2>4, <2>5
<1>3. /\ Len(rest) = Len(d) + Len(q)
      /\ \A i \in 1 .. Len(d) + Len(q) :
           rest[i] = IF i <= Len(d) THEN d[i] ELSE q[i - Len(d)]
  BY <1>1, ConcatProperties
<1>4. Len(d) \in Nat /\ Len(q) \in Nat
  OBVIOUS
<1> DEFINE Place(i) == IF i <= Len(d) THEN i ELSE i + 1
<1> HIDE DEF whole, rest
<1>5. \A i \in 1 .. Len(rest) : Place(i) \in 1 .. Len(whole) /\ rest[i] = whole[Place(i)]
  <2> SUFFICES ASSUME NEW i \in 1 .. Len(rest)
               PROVE  Place(i) \in 1 .. Len(whole) /\ rest[i] = whole[Place(i)]
    OBVIOUS
  <2>1. CASE i <= Len(d)
    <3>1. i \in 1 .. Len(d) /\ Place(i) = i
      BY <1>3, <1>4, <2>1
    <3>2. rest[i] = d[i]
      BY <1>3, <1>4, <3>1
    <3>3. whole[i] = d[i] /\ i \in 1 .. Len(whole)
      BY <1>2, <1>4, <3>1
    <3> QED  BY <3>1, <3>2, <3>3
  <2>2. CASE ~(i <= Len(d))
    <3>1. i - Len(d) \in 1 .. Len(q) /\ Len(d) + 1 + (i - Len(d)) = i + 1
      BY <1>3, <1>4, <2>2
    <3>2. whole[i + 1] = q[i - Len(d)]
      BY <1>2, <3>1
    <3> QED  BY <1>2, <1>3, <1>4, <2>2, <3>1, <3>2
  <2> QED  BY <2>1, <2>2
<1>6. \A i, j \in 1 .. Len(rest) : i < j => Place(i) < Place(j)
  BY <1>3, <1>4
<1>7. Ordered(whole, bound)
  BY DEF whole
<1> HIDE DEF Place
<1>8. Ordered(rest, bound)
  BY <1>5, <1>6, <1>7 DEF Ordered
<1> QED  BY <1>8 DEF rest

-----------------------------------------------------------------------------
(***************************************************************************)
(* The steps of the hub.                                                   *)
(***************************************************************************)

LEMMA FeedType == ASSUME HubInv, NEW c \in Conns PROVE Feed(c) \in Seq(Nat)
<1>1. delivered[c] \in Seq(Nat) /\ send[c] \in Seq(Nat) /\ inflight[c] \in Nat
  BY DEF HubInv, TypeOK
<1>2. delivered[c] \o <<>> \in Seq(Nat) /\ delivered[c] \o <<inflight[c]>> \in Seq(Nat)
  BY <1>1
<1>3. (delivered[c] \o <<>>) \o send[c] \in Seq(Nat)
      /\ (delivered[c] \o <<inflight[c]>>) \o send[c] \in Seq(Nat)
  BY <1>1, <1>2
<1> QED  BY <1>3 DEF Feed

\* The parts of a feed are its own: nothing else changes it.
LEMMA FeedSame ==
  ASSUME NEW c \in Conns, delivered'[c] = delivered[c], send'[c] = send[c],
         (pump'[c] = "writing") = (pump[c] = "writing"), inflight'[c] = inflight[c]
  PROVE  Feed(c)' = Feed(c)
BY DEF Feed

LEMMA FeedInit == Init => FeedInv
<1> SUFFICES ASSUME Init, NEW c \in Conns
             PROVE  InOrder(c) /\ Complete(c) /\ Unused(c) /\ joined[c] <= Reached(c)
  BY DEF FeedInv
<1>1. /\ delivered[c] = <<>> /\ send[c] = <<>> /\ pump[c] = "none" /\ joined[c] = 0
      /\ sent = 0 /\ todo = {} /\ clients = {}
  BY DEF Init
<1>2. Feed(c) = (<<>> \o <<>>) \o <<>>
  BY <1>1 DEF Feed
<1>3. Feed(c) = <<>>
  BY <1>2
<1>4. Len(Feed(c)) = 0
  BY <1>3
<1> QED  BY <1>1, <1>4 DEF InOrder, Complete, Unused, Reached

\* A step that leaves the feeds and Broadcast alone, and takes clients away at most.
LEMMA QuietStep ==
  ASSUME FeedInv, UNCHANGED <<sent, todo, joined>>,
         \A c \in Conns : Feed(c)' = Feed(c),
         \A c \in Conns :
           c \in clients' /\ evictions'[c] = 0 /\ pump'[c] \in {"ready", "writing"} =>
             c \in clients /\ evictions[c] = 0 /\ pump[c] \in {"ready", "writing"},
         \A c \in Conns : Unused(c)'
  PROVE  FeedInv'
<1> SUFFICES ASSUME NEW c \in Conns
             PROVE  (InOrder(c) /\ Complete(c) /\ Unused(c) /\ joined[c] <= Reached(c))'
  BY DEF FeedInv
<1>1. InOrder(c) /\ Complete(c) /\ joined[c] <= Reached(c)
  BY DEF FeedInv
<1>2. Reached(c)' = Reached(c) /\ Due(c)' = Due(c) /\ joined'[c] = joined[c]
  BY DEF Reached, Due
<1>3. Feed(c)' = Feed(c)
  OBVIOUS
<1>4. InOrder(c)'
  BY <1>1, <1>2, <1>3 DEF InOrder
<1>5. Complete(c)'
  BY <1>1, <1>2, <1>3 DEF Complete
<1> QED  BY <1>1, <1>2, <1>4, <1>5

\* The pump moves messages from the channel to the connection.
LEMMA PumpMoves ==
  ASSUME HubInv, FeedInv, NEW c \in Conns, PumpTake(c) \/ WriteOk(c)
  PROVE  FeedInv'
<1> USE DEF HubInv, TypeOK
<1>1. /\ delivered[c] \in Seq(Nat) /\ send[c] \in Seq(Nat) /\ inflight[c] \in Nat
      /\ UNCHANGED <<sent, todo, joined, clients, evictions, conn>>
  BY DEF PumpTake, WriteOk
<1>2. Feed(c)' = Feed(c)
  <2>1. CASE PumpTake(c)
    <3>1. /\ pump[c] = "ready" /\ pump'[c] = "writing" /\ send[c] # <<>>
          /\ inflight'[c] = Head(send[c]) /\ send'[c] = Tail(send[c])
          /\ delivered'[c] = delivered[c]
      BY <2>1 DEF PumpTake
    <3>2. Feed(c) = (delivered[c] \o <<>>) \o send[c]
      BY <3>1 DEF Feed
    <3>3. Feed(c)' = (delivered[c] \o <<Head(send[c])>>) \o Tail(send[c])
      BY <3>1 DEF Feed
    <3> QED  BY <1>1, <3>1, <3>2, <3>3, TakeKeeps
  <2>2. CASE WriteOk(c)
    <3>1. /\ pump[c] = "writing" /\ pump'[c] = "ready"
          /\ delivered'[c] = Append(delivered[c], inflight[c]) /\ send'[c] = send[c]
      BY <2>2 DEF WriteOk
    <3>2. Feed(c) = (delivered[c] \o <<inflight[c]>>) \o send[c]
      BY <3>1 DEF Feed
    <3>3. Feed(c)' = (Append(delivered[c], inflight[c]) \o <<>>) \o send[c]
      BY <3>1 DEF Feed
    <3> QED  BY <1>1, <3>2, <3>3, WriteKeeps
  <2> QED  BY <2>1, <2>2
<1>3. \A d \in Conns : d # c => Feed(d)' = Feed(d)
  <2> SUFFICES ASSUME NEW d \in Conns, d # c PROVE Feed(d)' = Feed(d)
    OBVIOUS
  <2>1. /\ delivered'[d] = delivered[d] /\ send'[d] = send[d]
        /\ pump'[d] = pump[d] /\ inflight'[d] = inflight[d]
    BY DEF PumpTake, WriteOk
  <2> QED  BY <2>1, FeedSame
<1>4. \A d \in Conns : pump'[d] \in {"ready", "writing"} => pump[d] \in {"ready", "writing"}
  BY DEF PumpTake, WriteOk
<1>5. conn[c] # "none"
  BY DEF FeedInv, Unused, PumpTake, WriteOk
<1>6. \A d \in Conns : Unused(d)'
  <2>1. \A d \in Conns : Unused(d)
    BY DEF FeedInv
  <2>2. \A d \in Conns : d # c => pump'[d] = pump[d] /\ send'[d] = send[d]
                                  /\ delivered'[d] = delivered[d]
    BY DEF PumpTake, WriteOk
  <2> QED  BY <1>1, <1>5, <2>1, <2>2 DEF Unused
<1> HIDE DEF HubInv, TypeOK
<1> QED  BY <1>1, <1>2, <1>3, <1>4, <1>6, QuietStep

\* A client's goroutines end, or its connection does.
LEMMA ClientEnds ==
  ASSUME HubInv, FeedInv, NEW c \in Conns,
         \/ PumpRangeEnds(c) \/ PumpClose(c) \/ PeerLeaves(c) \/ ReadFails(c)
         \/ Evict(c) \/ PumpUnregister(c) \/ ReaderUnregister(c)
  PROVE  FeedInv'
<1> USE DEF HubInv, TypeOK
<1>1. UNCHANGED <<sent, todo, joined, delivered, send, inflight>>
  BY DEF PumpRangeEnds, PumpClose, PeerLeaves, ReadFails, Evict, PumpUnregister,
         ReaderUnregister
<1>2. /\ \A d \in Conns : pump'[d] # pump[d] =>
           pump[d] \notin {"writing", "none"} /\ pump'[d] \notin {"ready", "writing"}
      /\ \A d \in Conns : conn'[d] = "none" => conn[d] = "none"
  BY DEF PumpRangeEnds, PumpClose, PeerLeaves, ReadFails, Evict, PumpUnregister,
         ReaderUnregister
<1>3. \A d \in Conns : Feed(d)' = Feed(d)
  BY <1>1, <1>2, FeedSame
<1>4. clients' \subseteq clients
  BY DEF PumpRangeEnds, PumpClose, PeerLeaves, ReadFails, Evict, PumpUnregister,
         ReaderUnregister, Unregister
<1>5. \A d \in Conns : d \in clients' /\ evictions'[d] = 0 => evictions[d] = 0
  <2>1. CASE Evict(c)
    <3>1. c \notin clients'
      BY <2>1 DEF Evict, Unregister, StillRegistered
    <3>2. \A d \in Conns : d # c => evictions'[d] = evictions[d]
      BY <2>1 DEF Evict
    <3> QED  BY <3>1, <3>2
  <2>2. CASE ~Evict(c)
    <3>1. UNCHANGED evictions
      BY <2>2 DEF PumpRangeEnds, PumpClose, PeerLeaves, ReadFails, PumpUnregister,
                  ReaderUnregister
    <3> QED  BY <3>1
  <2> QED  BY <2>1, <2>2
<1>6. \A d \in Conns : Unused(d)'
  BY <1>1, <1>2 DEF FeedInv, Unused
<1> HIDE DEF HubInv, TypeOK
<1>7. UNCHANGED <<sent, todo, joined>>
  BY <1>1
<1> QED  BY <1>2, <1>3, <1>4, <1>5, <1>6, <1>7, QuietStep

LEMMA BroadcastEnds == ASSUME FeedInv, BroadcastEnd PROVE FeedInv'
<1>1. UNCHANGED <<sent, todo, joined, clients, evictions, send, conn, pump, inflight, delivered>>
  BY DEF BroadcastEnd
<1>2. \A d \in Conns : Feed(d)' = Feed(d)
  BY <1>1, FeedSame
<1>3. \A d \in Conns : Unused(d)'
  BY <1>1 DEF FeedInv, Unused
<1> QED  BY <1>1, <1>2, <1>3, QuietStep

\* A client joins with nothing to get yet.
LEMMA Joins == ASSUME HubInv, FeedInv, NEW c \in Conns, Register(c) PROVE FeedInv'
<1>1. /\ UNCHANGED <<send, delivered, inflight, evictions, sent, todo>>
      /\ conn[c] = "none" /\ todo = {} /\ sent \in Nat
  BY DEF Register, HubInv, LockInv, TypeOK
<1>2. /\ pump'[c] = "ready" /\ joined'[c] = sent /\ conn'[c] = "open"
      /\ pump[c] = "none" /\ send[c] = <<>> /\ delivered[c] = <<>>
  BY <1>1 DEF Register, HubInv, TypeOK, FeedInv, Unused
<1>3. \A d \in Conns : d # c =>
        /\ pump'[d] = pump[d] /\ joined'[d] = joined[d] /\ conn'[d] = conn[d]
        /\ (d \in clients' <=> d \in clients)
  BY DEF Register, HubInv, TypeOK
<1>4. \A d \in Conns : Feed(d)' = Feed(d)
  <2> SUFFICES ASSUME NEW d \in Conns PROVE Feed(d)' = Feed(d)
    OBVIOUS
  <2>1. /\ delivered'[d] = delivered[d] /\ send'[d] = send[d] /\ inflight'[d] = inflight[d]
    BY <1>1
  <2>2. (pump'[d] = "writing") = (pump[d] = "writing")
    <3>1. CASE d = c
      BY <1>2, <3>1
    <3>2. CASE d # c
      BY <1>3, <3>2
    <3> QED  BY <3>1, <3>2
  <2> QED  BY <2>1, <2>2, FeedSame
<1> SUFFICES ASSUME NEW d \in Conns
             PROVE  (InOrder(d) /\ Complete(d) /\ Unused(d) /\ joined[d] <= Reached(d))'
  BY DEF FeedInv
<1>5. InOrder(d) /\ Complete(d) /\ Unused(d) /\ joined[d] <= Reached(d)
  BY DEF FeedInv
<1>6. Reached(d)' = Reached(d) /\ Reached(d) = sent
  BY <1>1 DEF Reached
<1>7. InOrder(d)'
  BY <1>4, <1>5, <1>6 DEF InOrder
<1>8. CASE d # c
  <2>1. /\ pump'[d] = pump[d] /\ joined'[d] = joined[d] /\ conn'[d] = conn[d]
        /\ (d \in clients' <=> d \in clients)
    BY <1>3, <1>8
  <2>2. UNCHANGED <<sent, todo, evictions, send, delivered>>
    BY <1>1
  <2>3. Due(d)' = Due(d)
    BY <2>1, <2>2 DEF Due
  <2>4. Complete(d)'
    BY <1>4, <1>5, <2>1, <2>2, <2>3 DEF Complete
  <2>5. Unused(d)' /\ (joined[d] <= Reached(d))'
    BY <1>5, <1>6, <2>1, <2>2 DEF Unused
  <2> QED  BY <1>7, <2>4, <2>5
<1>9. CASE d = c
  <2>1. Feed(c) = (<<>> \o <<>>) \o <<>>
    BY <1>2 DEF Feed
  <2>2. Feed(c) = <<>>
    BY <2>1
  <2>3. Due(c)' = 0
    BY <1>1, <1>2 DEF Due
  <2>4. \A n \in Nat : [i \in 1 .. 0 |-> n + i] = <<>>
    OBVIOUS
  <2>5. Complete(c)'
    BY <1>1, <1>2, <1>4, <2>2, <2>3, <2>4 DEF Complete
  <2>6. Unused(c)' /\ (joined[c] <= Reached(c))'
    BY <1>1, <1>2, <1>6, <1>9 DEF Unused
  <2> QED  BY <1>7, <1>9, <2>5, <2>6
<1> QED  BY <1>8, <1>9

\* A message counts for every client at once, and is owed to those that are registered.
LEMMA Begins == ASSUME HubInv, FeedInv, BroadcastBegin PROVE FeedInv'
<1>1. /\ UNCHANGED <<send, delivered, inflight, evictions, joined, pump, conn, clients>>
      /\ sent' = sent + 1 /\ todo' = clients /\ todo = {} /\ sent \in Nat
      /\ joined \in [Conns -> Nat]
  BY DEF BroadcastBegin, HubInv, LockInv, TypeOK
<1>2. \A d \in Conns : Feed(d)' = Feed(d)
  BY <1>1, FeedSame
<1> SUFFICES ASSUME NEW d \in Conns
             PROVE  (InOrder(d) /\ Complete(d) /\ Unused(d) /\ joined[d] <= Reached(d))'
  BY DEF FeedInv
<1>3. InOrder(d) /\ Complete(d) /\ Unused(d) /\ joined[d] <= Reached(d)
  BY DEF FeedInv
<1>4. Reached(d) <= Reached(d)' /\ Reached(d) \in Nat /\ Reached(d)' \in Nat
  BY <1>1 DEF Reached
<1>5. InOrder(d)'
  <2>1. \A i \in 1 .. Len(Feed(d)) : Feed(d)[i] \in Nat
    BY FeedType
  <2> QED  BY <1>2, <1>3, <1>4, <2>1 DEF InOrder
<1>6. d \in clients => Due(d)' = Due(d)
  BY <1>1 DEF Due
<1>7. Complete(d)'
  BY <1>1, <1>2, <1>3, <1>6 DEF Complete
<1>8. Unused(d)'
  BY <1>1, <1>3 DEF Unused
<1>9. (joined[d] <= Reached(d))'
  BY <1>1, <1>3, <1>4
<1> QED  BY <1>5, <1>7, <1>8, <1>9

\* A write that fails loses its message, and no other one goes out after it.
LEMMA WriteFails == ASSUME HubInv, FeedInv, NEW c \in Conns, WriteFail(c) PROVE FeedInv'
<1>1. /\ UNCHANGED <<send, delivered, inflight, evictions, joined, sent, todo, clients>>
      /\ pump[c] = "writing" /\ pump'[c] = "leaving" /\ conn'[c] = "closed"
  BY DEF WriteFail, HubInv, TypeOK
<1>2. \A d \in Conns : d # c => pump'[d] = pump[d] /\ conn'[d] = conn[d]
  BY DEF WriteFail
<1>3. \A d \in Conns : d # c => Feed(d)' = Feed(d)
  BY <1>1, <1>2, FeedSame
<1> SUFFICES ASSUME NEW d \in Conns
             PROVE  (InOrder(d) /\ Complete(d) /\ Unused(d) /\ joined[d] <= Reached(d))'
  BY DEF FeedInv
<1>4. InOrder(d) /\ Complete(d) /\ Unused(d) /\ joined[d] <= Reached(d)
  BY DEF FeedInv
<1>5. Reached(d)' = Reached(d) /\ Due(d)' = Due(d) /\ Reached(d) \in Int
  BY <1>1 DEF Reached, Due, HubInv, TypeOK
<1>6. CASE d # c
  BY <1>1, <1>2, <1>3, <1>4, <1>5, <1>6 DEF InOrder, Complete, Unused
<1>7. CASE d = c
  <2>1. delivered[c] \in Seq(Nat) /\ send[c] \in Seq(Nat) /\ inflight[c] \in Nat
    BY DEF HubInv, TypeOK
  <2>2. Feed(c) = (delivered[c] \o <<inflight[c]>>) \o send[c]
    BY <1>1 DEF Feed
  <2>3. Feed(c)' = (delivered[c] \o <<>>) \o send[c]
    BY <1>1 DEF Feed
  <2>4. Ordered(Feed(c), Reached(c))
    BY <1>4, <1>7 DEF InOrder, Ordered
  <2>5. Ordered(Feed(c)', Reached(c))
    BY <1>5, <1>7, <2>1, <2>2, <2>3, <2>4, OrderedWithout
  <2>6. InOrder(c)'
    BY <1>5, <1>7, <2>5 DEF InOrder, Ordered
  <2> QED  BY <1>1, <1>4, <1>5, <1>7, <2>6 DEF Complete, Unused
<1> QED  BY <1>6, <1>7

\* The next number continues a run of numbers.
LEMMA RunContinues ==
  ASSUME NEW n \in Nat, NEW first \in Nat
  PROVE  Append([i \in 1 .. n |-> first + i], first + n + 1)
           = [i \in 1 .. n + 1 |-> first + i]
OBVIOUS

\* Broadcast's turn at a client: the message goes to the end, or the client is evicted.
LEMMA Sends == ASSUME HubInv, FeedInv, NEW c \in Conns, SendTo(c) PROVE FeedInv'
<1>1. /\ UNCHANGED <<delivered, inflight, joined, pump, conn, clients, sent>>
      /\ c \in todo /\ todo' = todo \ {c} /\ c \in clients
      /\ sent \in Nat /\ joined \in [Conns -> Nat]
      /\ delivered \in [Conns -> Seq(Nat)] /\ send \in [Conns -> Seq(Nat)]
      /\ inflight \in [Conns -> Nat] /\ evictions \in [Conns -> Nat]
  BY DEF SendTo, HubInv, LockInv, TypeOK
<1>2. \A d \in Conns : d # c => send'[d] = send[d] /\ evictions'[d] = evictions[d]
  BY <1>1 DEF SendTo, SpawnEviction
<1>3. \A d \in Conns : d # c => Feed(d)' = Feed(d)
  BY <1>1, <1>2, FeedSame
<1>4. conn[c] # "none"
  BY <1>1 DEF HubInv, LockInv
<1> SUFFICES ASSUME NEW d \in Conns
             PROVE  (InOrder(d) /\ Complete(d) /\ Unused(d) /\ joined[d] <= Reached(d))'
  BY DEF FeedInv
<1>5. InOrder(d) /\ Complete(d) /\ Unused(d) /\ joined[d] <= Reached(d)
  BY DEF FeedInv
<1>6. CASE d # c
  <2>1. Reached(d)' = Reached(d) /\ Due(d)' = Due(d)
    BY <1>1, <1>6 DEF Reached, Due
  <2> QED  BY <1>1, <1>2, <1>3, <1>5, <1>6, <2>1 DEF InOrder, Complete, Unused
<1>7. CASE d = c
  <2>1. /\ Reached(c) = sent - 1 /\ Reached(c)' = sent
        /\ Due(c) = sent - joined[c] - 1 /\ Due(c)' = sent - joined[c]
    BY <1>1 DEF Reached, Due
  <2>2. joined[c] \in Nat /\ joined[c] <= sent - 1
    BY <1>1, <1>5, <1>7, <2>1
  <2>3. Unused(c)' /\ (joined[c] <= Reached(c))'
    <3>1. conn'[c] # "none" /\ joined'[c] = joined[c]
      BY <1>1, <1>4
    <3>2. joined'[c] <= Reached(c)'
      BY <2>1, <2>2, <3>1, <1>1
    <3> QED  BY <3>1, <3>2 DEF Unused
  <2>4. Feed(c) \in Seq(Nat)
    BY FeedType
  <2>5. CASE HasRoom(c) /\ send' = [send EXCEPT ![c] = Queue(@, sent)] /\ UNCHANGED evictions
    <3>1. send'[c] = Append(send[c], sent)
      BY <1>1, <2>5 DEF Queue
    <3>2. Feed(c)' = Append(Feed(c), sent)
      <4> DEFINE front == delivered[c] \o (IF pump[c] = "writing" THEN <<inflight[c]>> ELSE <<>>)
      <4>1. Feed(c) = front \o send[c]
        BY DEF Feed
      <4>2. Feed(c)' = front \o Append(send[c], sent)
        BY <1>1, <3>1 DEF Feed
      <4>3. front \in Seq(Nat) /\ send[c] \in Seq(Nat)
        BY <1>1
      <4> HIDE DEF front
      <4>4. front \o Append(send[c], sent) = Append(front \o send[c], sent)
        BY <1>1, <4>3, AppendAtEnd
      <4> QED  BY <4>1, <4>2, <4>4
    <3>3. InOrder(c)'
      <4>1. Ordered(Feed(c), sent - 1)
        BY <1>5, <1>7, <2>1 DEF InOrder, Ordered
      <4>2. Ordered(Append(Feed(c), sent), sent)
        BY <1>1, <2>4, <4>1, OrderedAppend
      <4> QED  BY <2>1, <3>2, <4>2 DEF InOrder, Ordered
    <3>4. Complete(c)'
      <4> SUFFICES ASSUME evictions[c] = 0, pump[c] \in {"ready", "writing"}
                   PROVE  Append(Feed(c), sent) = [i \in 1 .. sent - joined[c] |-> joined[c] + i]
        BY <1>1, <2>1, <2>5, <3>2 DEF Complete
      <4>1. Feed(c) = [i \in 1 .. sent - joined[c] - 1 |-> joined[c] + i]
        BY <1>1, <1>5, <1>7, <2>1 DEF Complete
      <4>2. /\ sent - joined[c] - 1 \in Nat
            /\ joined[c] + (sent - joined[c] - 1) + 1 = sent
            /\ (sent - joined[c] - 1) + 1 = sent - joined[c]
        BY <1>1, <2>2
      <4> QED  BY <2>2, <4>1, <4>2, RunContinues
    <3> QED  BY <1>7, <2>3, <3>3, <3>4
  <2>6. CASE SpawnEviction(c) /\ UNCHANGED send
    <3>1. evictions'[c] # 0
      BY <1>1, <2>6 DEF SpawnEviction
    <3>2. Feed(c)' = Feed(c)
      BY <1>1, <2>6, FeedSame
    <3>3. \A i \in 1 .. Len(Feed(c)) : Feed(c)[i] \in Nat
      BY <2>4
    <3>4. InOrder(c)'
      BY <1>1, <1>5, <1>7, <2>1, <3>2, <3>3 DEF InOrder
    <3> QED  BY <1>7, <2>3, <3>1, <3>4 DEF Complete
  <2>7. ~closed[c]
    BY <1>1 DEF HubInv, LockInv
  <2> QED  BY <2>5, <2>6, <2>7 DEF SendTo
<1> QED  BY <1>6, <1>7

LEMMA FeedStep == HubInv /\ FeedInv /\ [Next]_vars => FeedInv'
<1> SUFFICES ASSUME HubInv, FeedInv, [Next]_vars PROVE FeedInv'
  OBVIOUS
<1>1. CASE UNCHANGED vars
  <2>1. UNCHANGED <<sent, todo, joined, clients, evictions, send, conn, pump, inflight, delivered>>
    BY <1>1 DEF vars
  <2>2. (\A d \in Conns : Feed(d)' = Feed(d)) /\ \A d \in Conns : Unused(d)'
    BY <2>1, FeedSame DEF FeedInv, Unused
  <2> QED  BY <2>1, <2>2, QuietStep
<1>2. CASE Next
  <2>1. CASE BroadcastBegin \/ BroadcastEnd
    BY <2>1, Begins, BroadcastEnds
  <2>2. CASE \E c \in Conns : Register(c) \/ SendTo(c) \/ WriteFail(c)
    BY <2>2, Joins, Sends, WriteFails
  <2>3. CASE \E c \in Conns : PumpTake(c) \/ WriteOk(c)
    BY <2>3, PumpMoves
  <2>4. CASE \E c \in Conns : \/ PumpRangeEnds(c) \/ PumpClose(c) \/ PeerLeaves(c)
                              \/ ReadFails(c) \/ Evict(c) \/ PumpUnregister(c)
                              \/ ReaderUnregister(c)
    BY <2>4, ClientEnds
  <2> QED  BY <1>2, <2>1, <2>2, <2>3, <2>4 DEF Next
<1> QED  BY <1>1, <1>2

LEMMA FeedAlways == Spec => []FeedInv
BY HubInit, HubStep, FeedInit, FeedStep, PTL DEF Spec

\* A client that stays is given every message broadcast since it registered, without a
\* gap, whoever joins, leaves or is evicted beside it (hub.go:21-34, 76-94).
THEOREM HubFeedComplete == Spec => []FeedComplete
<1>1. FeedInv /\ HubInv => FeedComplete
  BY DEF FeedInv, Complete, FeedComplete, HubInv, TypeOK
<1> QED  BY FeedAlways, HubAlways, <1>1, PTL

\* No client is given a message twice or out of order, not even one that is being
\* evicted (hub.go:21-34, 76-94).
THEOREM HubFeedInOrder == Spec => []FeedInOrder
<1>1. FeedInv => FeedInOrder
  BY DEF FeedInv, InOrder, FeedInOrder
<1> QED  BY FeedAlways, <1>1, PTL

-----------------------------------------------------------------------------
(***************************************************************************)
(* The hub implements LiveFeed.  A client that cannot fail by itself is    *)
(* only closed by its pump, at the pump's end, so that its handler cannot  *)
(* unregister it before.                                                   *)
(***************************************************************************)
SoundInv ==
  \A c \in Conns :
    /\ c \notin Flaky /\ conn[c] = "closed" => pump[c] = "done"
    /\ reader[c] \in {"leaving", "done"} => conn[c] = "closed"
    /\ conn[c] = "none" => evictions[c] = 0

LEMMA SoundInit == Init => SoundInv
BY DEF Init, SoundInv

LEMMA SoundStep == HubInv /\ FeedInv /\ SoundInv /\ [Next]_vars => SoundInv'
<1> SUFFICES ASSUME HubInv, FeedInv, SoundInv, [Next]_vars PROVE SoundInv'
  OBVIOUS
<1> USE DEF HubInv, TypeOK
<1>1. CASE UNCHANGED vars
  BY <1>1 DEF vars, SoundInv
<1>2. CASE BroadcastBegin \/ BroadcastEnd
  BY <1>2 DEF BroadcastBegin, BroadcastEnd, SoundInv
<1>3. ASSUME NEW c \in Conns, Register(c) PROVE SoundInv'
  BY <1>3 DEF Register, SoundInv
<1>4. ASSUME NEW c \in Conns, SendTo(c) PROVE SoundInv'
  <2>1. conn[c] # "none" /\ UNCHANGED <<conn, pump, reader>>
    BY <1>4 DEF SendTo, LockInv
  <2>2. \A d \in Conns : d # c => evictions'[d] = evictions[d]
    BY <1>4 DEF SendTo, SpawnEviction
  <2> QED  BY <2>1, <2>2 DEF SoundInv
<1>5. ASSUME NEW c \in Conns, Evict(c) PROVE SoundInv'
  <2>1. conn[c] # "none" /\ UNCHANGED <<conn, pump, reader>>
    BY <1>5 DEF Evict, SoundInv
  <2>2. \A d \in Conns : d # c => evictions'[d] = evictions[d]
    BY <1>5 DEF Evict
  <2> QED  BY <2>1, <2>2 DEF SoundInv
<1>6. ASSUME NEW c \in Conns,
             \/ PumpTake(c) \/ PumpRangeEnds(c) \/ WriteOk(c) \/ PumpUnregister(c) \/ PeerLeaves(c)
      PROVE  SoundInv'
  BY <1>6 DEF PumpTake, PumpRangeEnds, WriteOk, PumpUnregister, PeerLeaves, SoundInv
<1>7. ASSUME NEW c \in Conns, WriteFail(c) \/ PumpClose(c) PROVE SoundInv'
  BY <1>7 DEF WriteFail, PumpClose, SoundInv
<1>8. ASSUME NEW c \in Conns, ReadFails(c) \/ ReaderUnregister(c) PROVE SoundInv'
  BY <1>8 DEF ReadFails, ReaderUnregister, SoundInv
<1> QED  BY <1>1, <1>2, <1>3, <1>4, <1>5, <1>6, <1>7, <1>8 DEF Next

\* What the refinement relies on.
LinkInv == HubInv /\ FeedInv /\ SoundInv

LEMMA LinkAlways == Spec => []LinkInv
BY HubInit, HubStep, FeedInit, FeedStep, SoundInit, SoundStep, PTL DEF Spec, LinkInv

\* The five ways a client can stand.
LEMMA StatusIs ==
  ASSUME HubInv, NEW c \in Conns
  PROVE  /\ Status(c) = "outside" <=> conn[c] = "none"
         /\ Status(c) = "ended" <=> conn[c] # "none" /\ ~Served(c)
         /\ Status(c) = "leaving" <=> conn[c] # "none" /\ Served(c) /\ c \notin clients
         /\ Status(c) = "slow" <=>
              conn[c] # "none" /\ Served(c) /\ c \in clients /\ evictions[c] > 0
         /\ Status(c) = "following" <=>
              conn[c] # "none" /\ Served(c) /\ c \in clients /\ evictions[c] = 0
<1>1. evictions[c] \in Nat
  BY DEF HubInv, TypeOK
<1> QED  BY <1>1 DEF Status

\* A client whose own parts of the hub do not change.
Untouched(c) ==
  /\ send'[c] = send[c] /\ pump'[c] = pump[c] /\ inflight'[c] = inflight[c]
  /\ conn'[c] = conn[c] /\ evictions'[c] = evictions[c]
  /\ (c \in clients' <=> c \in clients) /\ (c \in todo' <=> c \in todo)

LEMMA UntouchedStays ==
  ASSUME NEW c \in Conns, Untouched(c), sent' = sent
  PROVE  Status(c)' = Status(c) /\ Owed(c)' = Owed(c)
BY DEF Untouched, Status, Owed, Served

\* The abstract state, when at most one client's part of it changes.
LEMMA OneMoves ==
  ASSUME NEW c \in Conns, sent' = sent, \A d \in Conns : d # c => Untouched(d)
  PROVE  /\ Standing' = [Standing EXCEPT ![c] = Status(c)']
         /\ Owing' = [Owing EXCEPT ![c] = Owed(c)']
<1>1. \A d \in Conns : d # c => Status(d)' = Status(d) /\ Owed(d)' = Owed(d)
  BY UntouchedStays
<1> QED  BY <1>1 DEF Standing, Owing

LEMMA NoneMoves ==
  ASSUME \A d \in Conns : Status(d)' = Status(d) /\ Owed(d)' = Owed(d)
  PROVE  Standing' = Standing /\ Owing' = Owing
BY DEF Standing, Owing

\* What is owed, on sequences: p is in the pump, q waits, r is still to be sent.
LEMMA OwedTaken ==
  ASSUME NEW q \in Seq(Nat), q # <<>>, NEW r \in Seq(Nat)
  PROVE  (<<>> \o q) \o r = (<<Head(q)>> \o Tail(q)) \o r
<1>1. <<>> \o q = <<Head(q)>> \o Tail(q)
  OBVIOUS
<1> QED  BY <1>1

LEMMA OwedWritten ==
  ASSUME NEW x \in Nat, NEW q \in Seq(Nat), NEW r \in Seq(Nat)
  PROVE  /\ (<<x>> \o q) \o r # <<>> /\ Head((<<x>> \o q) \o r) = x
         /\ Tail((<<x>> \o q) \o r) = (<<>> \o q) \o r
<1> DEFINE s == q \o r
<1>1. s \in Seq(Nat) /\ (<<x>> \o q) \o r = <<x>> \o s /\ (<<>> \o q) \o r = s
  <2>1. (<<x>> \o q) \o r = <<x>> \o (q \o r)
    <3>1. <<x>> \in Seq(Nat)
      OBVIOUS
    <3> QED  BY <3>1, ConcatAssociative
  <2>2. <<>> \o q = q
    OBVIOUS
  <2> QED  BY <2>1, <2>2
<1> HIDE DEF s
<1>2. <<x>> \o s # <<>> /\ Head(<<x>> \o s) = x /\ Tail(<<x>> \o s) = s
  <2>1. s \in Seq(Nat)
    BY <1>1
  <2>2. <<x>> \o s \in Seq(Nat) /\ Len(<<x>> \o s) = 1 + Len(s) /\ (<<x>> \o s)[1] = x
    BY <2>1
  <2>3. <<x>> \o s # <<>> /\ Head(<<x>> \o s) = x
    BY <2>1, <2>2
  <2>4. Tail(<<x>> \o s) = s
    BY <2>1
  <2> QED  BY <2>3, <2>4
<1> QED  BY <1>1, <1>2

LEMMA OwedSent ==
  ASSUME NEW p \in Seq(Nat), NEW q \in Seq(Nat), NEW x \in Nat
  PROVE  /\ (p \o q) \o <<x>> = (p \o Append(q, x)) \o <<>>
         /\ (p \o q) \o <<x>> = Append((p \o q) \o <<>>, x)
         /\ Len((p \o q) \o <<x>>) = Len(p) + Len(q) + 1
         /\ Abstract!Front((p \o q) \o <<x>>) = (p \o q) \o <<>>
<1> DEFINE s == p \o q
<1>1. s \in Seq(Nat) /\ Len(s) = Len(p) + Len(q)
  BY ConcatProperties
<1>2. p \o Append(q, x) = Append(s, x) /\ Append(s, x) \in Seq(Nat)
  BY AppendAtEnd
<1> HIDE DEF s
<1>3. /\ s \o <<x>> = Append(s, x) /\ s \o <<>> = s /\ Append(s, x) \o <<>> = Append(s, x)
      /\ Len(Append(s, x)) = Len(s) + 1
  BY <1>1, <1>2
<1>4. SubSeq(Append(s, x), 1, Len(s)) = s
  BY <1>1
<1>5. Abstract!Front(Append(s, x)) = s
  <2>1. (Len(s) + 1) - 1 = Len(s)
    BY <1>1
  <2> QED  BY <1>3, <1>4, <2>1 DEF Abstract!Front
<1> QED  BY <1>1, <1>2, <1>3, <1>5 DEF s

\* The parts of what is owed are sequences of messages.
InPump(c) == IF pump[c] = "writing" THEN <<inflight[c]>> ELSE <<>>

LEMMA OwedParts ==
  ASSUME HubInv, NEW c \in Conns
  PROVE  /\ InPump(c) \in Seq(Nat) /\ send[c] \in Seq(Nat) /\ sent \in Nat
         /\ <<sent>> \in Seq(Nat) /\ <<>> \in Seq(Nat)
         /\ Served(c) => Owed(c) = (InPump(c) \o send[c])
                                     \o (IF c \in todo THEN <<sent>> ELSE <<>>)
         /\ ~Served(c) => Owed(c) = <<>>
<1>1. inflight[c] \in Nat /\ send[c] \in Seq(Nat) /\ sent \in Nat
  BY DEF HubInv, TypeOK
<1>2. InPump(c) \in Seq(Nat) /\ <<sent>> \in Seq(Nat) /\ <<>> \in Seq(Nat)
  BY <1>1 DEF InPump
<1>3. /\ Served(c) => Owed(c) = (InPump(c) \o send[c])
                                 \o (IF c \in todo THEN <<sent>> ELSE <<>>)
      /\ ~Served(c) => Owed(c) = <<>>
  BY DEF InPump, Owed
<1> QED  BY <1>1, <1>2, <1>3

LEMMA RegisterMaps ==
  ASSUME LinkInv, NEW c \in Conns, Register(c) PROVE Abstract!Join(c)
<1> USE DEF LinkInv
<1>1. /\ UNCHANGED <<send, delivered, inflight, evictions, sent, todo>>
      /\ conn[c] = "none" /\ todo = {}
  BY DEF Register, HubInv, LockInv
<1>2. /\ pump'[c] = "ready" /\ conn'[c] = "open" /\ c \in clients'
      /\ pump[c] = "none" /\ send[c] = <<>> /\ evictions[c] = 0
  BY <1>1 DEF Register, HubInv, TypeOK, FeedInv, Unused, SoundInv
<1>3. \A d \in Conns : d # c => Untouched(d)
  BY DEF Register, HubInv, TypeOK, Untouched
<1>4. Status(c) = "outside" /\ Status(c)' = "following"
  BY <1>1, <1>2 DEF Status, Served
<1>5. Owed(c) = <<>> /\ Owed(c)' = (<<>> \o <<>>) \o <<>>
  BY <1>1, <1>2 DEF Owed, Served
<1>6. (<<>> \o <<>>) \o <<>> = <<>>
  OBVIOUS
<1>7. Standing' = [Standing EXCEPT ![c] = "following"] /\ Owing' = [Owing EXCEPT ![c] = <<>>]
  BY <1>1, <1>3, <1>4, <1>5, <1>6, OneMoves
<1>8. Standing[c] = "outside" /\ Owing' = Owing
  BY <1>4, <1>5, <1>7 DEF Standing, Owing
<1> QED  BY <1>1, <1>7, <1>8 DEF Abstract!Join

LEMMA BeginMaps ==
  ASSUME LinkInv, BroadcastBegin PROVE Abstract!Publish
<1> USE DEF LinkInv
<1>1. /\ UNCHANGED <<send, delivered, inflight, evictions, pump, conn, clients>>
      /\ sent' = sent + 1 /\ todo' = clients /\ todo = {} /\ sent \in Nat
  BY DEF BroadcastBegin, HubInv, LockInv, TypeOK
<1>2. \A d \in Conns : Status(d)' = Status(d)
  BY <1>1 DEF Status, Served
<1>3. ASSUME NEW d \in Conns
      PROVE  Owed(d)' = IF Abstract!Present(d) THEN Append(Owed(d), sent') ELSE Owed(d)
  <2>1. Abstract!Present(d) <=> Served(d) /\ d \in clients
    <3>1. Abstract!Present(d) <=> Status(d) \in {"following", "slow"}
      BY DEF Abstract!Present, Standing
    <3>2. evictions[d] \in Nat /\ (d \in clients => conn[d] # "none")
      BY DEF HubInv, TypeOK, LockInv
    <3> QED  BY <3>1, <3>2, StatusIs
  <2>2. Owed(d)' = IF Served(d)
                   THEN (InPump(d) \o send[d]) \o (IF d \in clients THEN <<sent + 1>> ELSE <<>>)
                   ELSE <<>>
    BY <1>1 DEF Owed, Served, InPump
  <2>3. Owed(d) = IF Served(d) THEN (InPump(d) \o send[d]) \o <<>> ELSE <<>>
    BY <1>1 DEF Owed, Served, InPump
  <2>4. (InPump(d) \o send[d]) \o <<sent + 1>> = Append((InPump(d) \o send[d]) \o <<>>, sent + 1)
    <3>1. sent + 1 \in Nat /\ InPump(d) \in Seq(Nat) /\ send[d] \in Seq(Nat)
      BY <1>1, OwedParts
    <3> QED  BY <3>1, OwedSent
  <2> QED  BY <1>1, <2>1, <2>2, <2>3, <2>4
<1>4. Standing' = Standing
  BY <1>2 DEF Standing
<1>5. Owing' = [d \in Conns |-> IF Abstract!Present(d) THEN Append(Owing[d], sent') ELSE Owing[d]]
  <2>1. \A d \in Conns : Owing[d] = Owed(d)
    BY DEF Owing
  <2>2. Owing' = [d \in Conns |-> Owed(d)']
    BY DEF Owing
  <2>3. \A d \in Conns :
          Owed(d)' = IF Abstract!Present(d) THEN Append(Owing[d], sent') ELSE Owing[d]
    BY <1>3, <2>1
  <2> HIDE DEF Owing
  <2> QED  BY <2>2, <2>3
<1> QED  BY <1>1, <1>4, <1>5 DEF Abstract!Publish

\* A message that finds room is owed as it was; one that finds none is missed.
LEMMA SendMaps ==
  ASSUME LinkInv, NEW c \in Conns, SendTo(c)
  PROVE  Abstract!Miss(c) \/ UNCHANGED <<sent, Standing, Owing, delivered>>
<1> USE DEF LinkInv
<1>1. /\ UNCHANGED <<clients, conn, pump, inflight, delivered, sent>>
      /\ c \in todo /\ todo' = todo \ {c} /\ c \in clients /\ ~closed[c] /\ conn[c] # "none"
      /\ evictions[c] \in Nat
  BY DEF SendTo, HubInv, LockInv, TypeOK
<1>2. \A d \in Conns : d # c => Untouched(d)
  BY <1>1 DEF SendTo, SpawnEviction, Untouched, HubInv, TypeOK
<1>3. /\ InPump(c) \in Seq(Nat) /\ send[c] \in Seq(Nat) /\ sent \in Nat
      /\ Served(c) => Owed(c) = (InPump(c) \o send[c]) \o <<sent>>
  BY <1>1, OwedParts
<1>4. CASE ~Served(c)
  <2>1. Status(c) = "ended" /\ Status(c)' = "ended" /\ Owed(c)' = Owed(c)
    BY <1>1, <1>4 DEF Status, Owed, Served
  <2>2. \A d \in Conns : Status(d)' = Status(d) /\ Owed(d)' = Owed(d)
    BY <1>1, <1>2, <2>1, UntouchedStays
  <2> QED  BY <1>1, <2>2, NoneMoves
<1>5. CASE Served(c) /\ HasRoom(c)
  <2>1. send'[c] = Append(send[c], sent) /\ UNCHANGED evictions
    BY <1>1, <1>5 DEF SendTo, Queue, HubInv, TypeOK
  <2>2. Owed(c)' = (InPump(c) \o Append(send[c], sent)) \o <<>>
    BY <1>1, <1>5, <2>1 DEF Owed, Served, InPump
  <2>3. Owed(c)' = Owed(c)
    BY <1>3, <1>5, <2>2, OwedSent
  <2>4. Status(c)' = Status(c)
    BY <1>1, <2>1 DEF Status, Served
  <2>5. \A d \in Conns : Status(d)' = Status(d) /\ Owed(d)' = Owed(d)
    BY <1>1, <1>2, <2>3, <2>4, UntouchedStays
  <2> QED  BY <1>1, <2>5, NoneMoves
<1>6. CASE Served(c) /\ ~HasRoom(c)
  <2>1. UNCHANGED send /\ evictions'[c] = evictions[c] + 1
    BY <1>1, <1>6 DEF SendTo, SpawnEviction, HubInv, TypeOK
  <2>2. Owed(c)' = (InPump(c) \o send[c]) \o <<>>
    BY <1>1, <1>6, <2>1 DEF Owed, Served, InPump
  <2>3. Owed(c)' = Abstract!Front(Owed(c)) /\ Len(Owed(c)) > SendCap
    <3>1. Len(Owed(c)) = Len(InPump(c)) + Len(send[c]) + 1 /\ Owed(c)' = Abstract!Front(Owed(c))
      <4>1. /\ Len((InPump(c) \o send[c]) \o <<sent>>) = Len(InPump(c)) + Len(send[c]) + 1
            /\ Abstract!Front((InPump(c) \o send[c]) \o <<sent>>) = (InPump(c) \o send[c]) \o <<>>
        BY <1>3, OwedSent
      <4> QED  BY <1>3, <1>6, <2>2, <4>1
    <3>2. Len(send[c]) >= SendCap /\ Len(send[c]) \in Nat /\ Len(InPump(c)) \in Nat
      BY <1>3, <1>6, HubAssumption DEF HasRoom
    <3> QED  BY <3>1, <3>2, HubAssumption
  <2>4. Status(c)' = "slow" /\ Status(c) \in {"following", "slow"}
    <3>1. evictions'[c] > 0 /\ ~(evictions'[c] = 0)
      BY <1>1, <2>1
    <3>2. Status(c)' = "slow"
      BY <1>1, <1>6, <3>1 DEF Status, Served
    <3> QED  BY <1>1, <1>6, <3>2, StatusIs
  <2>5. Standing' = [Standing EXCEPT ![c] = "slow"]
        /\ Owing' = [Owing EXCEPT ![c] = Abstract!Front(Owed(c))]
    BY <1>1, <1>2, <2>3, <2>4, OneMoves
  <2>6. Standing[c] = Status(c) /\ Owing[c] = Owed(c)
    BY DEF Standing, Owing
  <2> QED  BY <1>1, <2>3, <2>4, <2>5, <2>6 DEF Abstract!Miss, Abstract!Present
<1> QED  BY <1>4, <1>5, <1>6

LEMMA TakeMaps ==
  ASSUME LinkInv, NEW c \in Conns, PumpTake(c)
  PROVE  UNCHANGED <<sent, Standing, Owing, delivered>>
<1> USE DEF LinkInv
<1>1. /\ UNCHANGED <<clients, conn, evictions, delivered, sent, todo>>
      /\ pump[c] = "ready" /\ pump'[c] = "writing" /\ send[c] # <<>>
      /\ inflight'[c] = Head(send[c]) /\ send'[c] = Tail(send[c])
  BY DEF PumpTake, HubInv, TypeOK
<1>2. \A d \in Conns : d # c => Untouched(d)
  BY DEF PumpTake, Untouched, HubInv, TypeOK
<1> DEFINE r == IF c \in todo THEN <<sent>> ELSE <<>>
<1>3. /\ Owed(c) = (<<>> \o send[c]) \o r
      /\ Owed(c)' = (<<Head(send[c])>> \o Tail(send[c])) \o r
  BY <1>1 DEF Owed, Served
<1>4. send[c] \in Seq(Nat) /\ r \in Seq(Nat)
  BY OwedParts
<1> HIDE DEF r
<1>5. Owed(c)' = Owed(c)
  BY <1>1, <1>3, <1>4, OwedTaken
<1>6. Status(c)' = Status(c)
  BY <1>1 DEF Status, Served
<1>7. \A d \in Conns : Status(d)' = Status(d) /\ Owed(d)' = Owed(d)
  BY <1>1, <1>2, <1>5, <1>6, UntouchedStays
<1> QED  BY <1>1, <1>7, NoneMoves

LEMMA WriteMaps ==
  ASSUME LinkInv, NEW c \in Conns, WriteOk(c) PROVE Abstract!Give(c)
<1> USE DEF LinkInv
<1>1. /\ UNCHANGED <<clients, conn, evictions, send, inflight, sent, todo>>
      /\ pump[c] = "writing" /\ pump'[c] = "ready" /\ conn[c] = "open"
      /\ delivered' = [delivered EXCEPT ![c] = Append(delivered[c], inflight[c])]
  BY DEF WriteOk, HubInv, TypeOK
<1>2. \A d \in Conns : d # c => Untouched(d)
  BY DEF WriteOk, Untouched, HubInv, TypeOK
<1> DEFINE r == IF c \in todo THEN <<sent>> ELSE <<>>
<1>3. /\ Owed(c) = (<<inflight[c]>> \o send[c]) \o r
      /\ Owed(c)' = (<<>> \o send[c]) \o r
  BY <1>1 DEF Owed, Served
<1>4. send[c] \in Seq(Nat) /\ r \in Seq(Nat) /\ inflight[c] \in Nat
  BY OwedParts DEF HubInv, TypeOK
<1> HIDE DEF r
<1>5. Owed(c) # <<>> /\ Head(Owed(c)) = inflight[c] /\ Owed(c)' = Tail(Owed(c))
  <2>1. /\ (<<inflight[c]>> \o send[c]) \o r # <<>>
        /\ Head((<<inflight[c]>> \o send[c]) \o r) = inflight[c]
        /\ Tail((<<inflight[c]>> \o send[c]) \o r) = (<<>> \o send[c]) \o r
    BY <1>4, OwedWritten
  <2> QED  BY <1>3, <2>1
<1>6. Status(c)' = Status(c) /\ Status(c) \in {"following", "slow", "leaving"}
  <2>1. Served(c) /\ evictions[c] \in Nat
    BY <1>1 DEF Served, HubInv, TypeOK
  <2>2. Status(c) \in {"following", "slow", "leaving"}
    BY <1>1, <2>1, StatusIs
  <2>3. Status(c)' = Status(c)
    BY <1>1 DEF Status, Served
  <2> QED  BY <2>2, <2>3
<1>7. Standing' = [Standing EXCEPT ![c] = Status(c)]
      /\ Owing' = [Owing EXCEPT ![c] = Tail(Owed(c))]
  BY <1>1, <1>2, <1>5, <1>6, OneMoves
<1>8. Standing[c] = Status(c) /\ Owing[c] = Owed(c) /\ Standing' = Standing
  BY <1>7 DEF Standing, Owing
<1> QED  BY <1>1, <1>5, <1>6, <1>7, <1>8 DEF Abstract!Give, Abstract!Served

\* A pump that ends: after a failed write, or with a channel that is closed and empty.
LEMMA PumpEndsMaps ==
  ASSUME LinkInv, NEW c \in Conns, WriteFail(c) \/ PumpRangeEnds(c) PROVE Abstract!End(c)
<1> USE DEF LinkInv
<1>1. /\ UNCHANGED <<clients, evictions, send, inflight, sent, todo, delivered>>
      /\ Served(c) /\ pump'[c] = "leaving" /\ conn[c] # "none" /\ conn'[c] # "none"
      /\ evictions[c] \in Nat
  <2>1. pump[c] \in {"ready", "writing"} /\ pump'[c] = "leaving"
        /\ UNCHANGED <<clients, evictions, send, inflight, sent, todo, delivered>>
    BY DEF WriteFail, PumpRangeEnds, HubInv, TypeOK
  <2>2. conn[c] # "none"
    BY <2>1 DEF FeedInv, Unused
  <2>3. conn'[c] = "closed" \/ conn'[c] = conn[c]
    BY DEF WriteFail, PumpRangeEnds, HubInv, TypeOK
  <2> QED  BY <2>1, <2>2, <2>3 DEF Served, HubInv, TypeOK
<1>2. \A d \in Conns : d # c => Untouched(d)
  BY DEF WriteFail, PumpRangeEnds, Untouched, HubInv, TypeOK
<1>3. Status(c)' = "ended" /\ Owed(c)' = <<>>
  BY <1>1 DEF Status, Owed, Served
<1>4. Status(c) \in {"following", "slow", "leaving"}
  BY <1>1, StatusIs
<1>5. c \in Flaky \/ (Status(c) = "leaving" /\ Owed(c) = <<>>)
  <2>1. CASE WriteFail(c)
    BY <2>1 DEF WriteFail, SoundInv
  <2>2. CASE PumpRangeEnds(c)
    <3>1. pump[c] = "ready" /\ send[c] = <<>> /\ c \notin clients /\ c \notin todo
      BY <2>2 DEF PumpRangeEnds, HubInv, LockInv
    <3>2. Owed(c) = (<<>> \o <<>>) \o <<>>
      BY <1>1, <3>1 DEF Owed
    <3>3. (<<>> \o <<>>) \o <<>> = <<>>
      OBVIOUS
    <3> QED  BY <1>1, <3>1, <3>2, <3>3, StatusIs
  <2> QED  BY <2>1, <2>2
<1>6. Standing' = [Standing EXCEPT ![c] = "ended"] /\ Owing' = [Owing EXCEPT ![c] = <<>>]
  BY <1>1, <1>2, <1>3, OneMoves
<1>7. Standing[c] = Status(c) /\ Owing[c] = Owed(c)
  BY DEF Standing, Owing
<1> QED  BY <1>1, <1>4, <1>5, <1>6, <1>7 DEF Abstract!End, Abstract!Served

\* Only a client that missed a message, or whose connection can fail, is unregistered
\* while its pump goes on.
LEMMA UnregisterMaps ==
  ASSUME LinkInv, NEW c \in Conns, Evict(c) \/ PumpUnregister(c) \/ ReaderUnregister(c)
  PROVE  Abstract!Leave(c) \/ UNCHANGED <<sent, Standing, Owing, delivered>>
<1> USE DEF LinkInv
<1>1. /\ Unregister(c) /\ UNCHANGED <<send, conn, inflight, sent, todo, delivered>>
      /\ todo = {} /\ evictions \in [Conns -> Nat] /\ Served(c)' = Served(c)
  BY DEF Evict, PumpUnregister, ReaderUnregister, Unregister, HubInv, LockInv, TypeOK, Served
<1>2. c \notin clients' /\ \A d \in Conns : d # c => (d \in clients' <=> d \in clients)
  BY <1>1 DEF Unregister, StillRegistered
<1>3. \A d \in Conns : d # c => Untouched(d)
  BY <1>1, <1>2 DEF Evict, PumpUnregister, ReaderUnregister, Untouched, HubInv, TypeOK
<1>4. Owed(c)' = Owed(c)
  <2>1. pump'[c] = pump[c] \/ (~Served(c) /\ ~Served(c)')
    BY DEF Evict, PumpUnregister, ReaderUnregister, Served, HubInv, TypeOK
  <2> QED  BY <1>1, <2>1 DEF Owed, Served
<1>5. CASE Served(c) /\ c \in clients /\ conn[c] # "none"
  <2>1. Status(c)' = "leaving"
    BY <1>1, <1>2, <1>5 DEF Status
  <2>2. Status(c) = "slow" \/ (Status(c) = "following" /\ c \in Flaky)
    <3>1. CASE Evict(c)
      BY <1>5, <3>1, StatusIs DEF Evict
    <3>2. CASE PumpUnregister(c)
      BY <1>5, <3>2 DEF PumpUnregister, Served
    <3>3. CASE ReaderUnregister(c)
      <4>1. c \in Flaky
        BY <1>5, <3>3 DEF ReaderUnregister, SoundInv, Served
      <4>2. evictions[c] \in Nat
        BY <1>1
      <4> QED  BY <1>5, <4>1, <4>2, StatusIs
    <3> QED  BY <3>1, <3>2, <3>3
  <2>3. Standing' = [Standing EXCEPT ![c] = "leaving"] /\ Owing' = [Owing EXCEPT ![c] = Owed(c)]
    BY <1>1, <1>3, <1>4, <2>1, OneMoves
  <2>4. Standing[c] = Status(c) /\ Owing' = Owing
    BY <2>3 DEF Standing, Owing
  <2> QED  BY <1>1, <2>2, <2>3, <2>4 DEF Abstract!Leave
<1>6. CASE ~(Served(c) /\ c \in clients /\ conn[c] # "none")
  <2>1. Status(c)' = Status(c)
    <3>1. CASE conn[c] = "none"
      BY <1>1, <3>1 DEF Status
    <3>2. CASE conn[c] # "none" /\ ~Served(c)
      BY <1>1, <3>2 DEF Status
    <3>3. CASE conn[c] # "none" /\ Served(c) /\ c \notin clients
      BY <1>1, <1>2, <3>3 DEF Status
    <3> QED  BY <1>6, <3>1, <3>2, <3>3
  <2>2. \A d \in Conns : Status(d)' = Status(d) /\ Owed(d)' = Owed(d)
    BY <1>1, <1>3, <1>4, <2>1, UntouchedStays
  <2> QED  BY <1>1, <2>2, NoneMoves
<1> QED  BY <1>5, <1>6

\* The end of a broadcast, the end of a connection and the reader's notice of it are
\* steps of the code only.
LEMMA QuietMaps ==
  ASSUME LinkInv,
         \/ BroadcastEnd \/ UNCHANGED vars
         \/ \E c \in Conns : PumpClose(c) \/ PeerLeaves(c) \/ ReadFails(c)
  PROVE  UNCHANGED <<sent, Standing, Owing, delivered>>
<1> USE DEF LinkInv
<1>1. UNCHANGED <<clients, evictions, send, inflight, sent, todo, delivered>>
  BY DEF BroadcastEnd, vars, PumpClose, PeerLeaves, ReadFails
<1>2. ASSUME NEW d \in Conns PROVE Status(d)' = Status(d) /\ Owed(d)' = Owed(d)
  <2>1. (conn[d] = "none" <=> conn'[d] = "none")
        /\ (pump'[d] = pump[d] \/ (~Served(d) /\ ~Served(d)'))
    <3>1. CASE BroadcastEnd \/ UNCHANGED vars
      BY <3>1 DEF BroadcastEnd, vars
    <3>2. ASSUME NEW c \in Conns, PumpClose(c)
          PROVE  (conn[d] = "none" <=> conn'[d] = "none")
                 /\ (pump'[d] = pump[d] \/ (~Served(d) /\ ~Served(d)'))
      <4>1. conn[c] # "none"
        BY <3>2 DEF PumpClose, FeedInv, Unused
      <4> QED  BY <3>2, <4>1 DEF PumpClose, Served, HubInv, TypeOK
    <3>3. ASSUME NEW c \in Conns, PeerLeaves(c) \/ ReadFails(c)
          PROVE  (conn[d] = "none" <=> conn'[d] = "none") /\ pump'[d] = pump[d]
      BY <3>3 DEF PeerLeaves, ReadFails, HubInv, TypeOK
    <3> QED  BY <3>1, <3>2, <3>3
  <2>2. Served(d)' = Served(d)
    BY <2>1 DEF Served
  <2>3. Status(d)' = Status(d)
    BY <1>1, <2>1, <2>2 DEF Status
  <2> QED  BY <1>1, <2>1, <2>2, <2>3 DEF Owed, Served
<1> QED  BY <1>1, <1>2, NoneMoves

LEMMA InitMaps == Init => Abstract!Init
<1> SUFFICES ASSUME Init PROVE Abstract!Init
  OBVIOUS
<1>1. \A c \in Conns : Status(c) = "outside" /\ Owed(c) = <<>>
  BY DEF Init, Status, Owed, Served
<1>2. Standing = [c \in Conns |-> "outside"] /\ Owing = [c \in Conns |-> <<>>]
  BY <1>1 DEF Standing, Owing
<1> QED  BY <1>2 DEF Init, Abstract!Init

\* Locks, goroutines and bounded channels implement the live feed as LiveFeed promises it:
\* every step of the hub is one of its steps or none, for any number of clients and any
\* capacity (hub.go:21-34, 65-94).
THEOREM HubImplementsLiveFeed == Spec => ImplementsLiveFeed
<1>1. LinkInv /\ [Next]_vars => [Abstract!Next]_(Abstract!vars)
  <2> SUFFICES ASSUME LinkInv, [Next]_vars
               PROVE  Abstract!Next \/ UNCHANGED <<sent, Standing, Owing, delivered>>
    BY DEF Abstract!vars
  <2>1. CASE BroadcastBegin
    BY <2>1, BeginMaps DEF Abstract!Next
  <2>2. ASSUME NEW c \in Conns, Register(c) PROVE Abstract!Next
    BY <2>2, RegisterMaps DEF Abstract!Next
  <2>3. ASSUME NEW c \in Conns, SendTo(c)
        PROVE  Abstract!Next \/ UNCHANGED <<sent, Standing, Owing, delivered>>
    BY <2>3, SendMaps DEF Abstract!Next
  <2>4. ASSUME NEW c \in Conns, PumpTake(c)
        PROVE  UNCHANGED <<sent, Standing, Owing, delivered>>
    BY <2>4, TakeMaps
  <2>5. ASSUME NEW c \in Conns, WriteOk(c) PROVE Abstract!Next
    BY <2>5, WriteMaps DEF Abstract!Next
  <2>6. ASSUME NEW c \in Conns, WriteFail(c) \/ PumpRangeEnds(c) PROVE Abstract!Next
    BY <2>6, PumpEndsMaps DEF Abstract!Next
  <2>7. ASSUME NEW c \in Conns, Evict(c) \/ PumpUnregister(c) \/ ReaderUnregister(c)
        PROVE  Abstract!Next \/ UNCHANGED <<sent, Standing, Owing, delivered>>
    BY <2>7, UnregisterMaps DEF Abstract!Next
  <2>8. CASE \/ BroadcastEnd \/ UNCHANGED vars
             \/ \E c \in Conns : PumpClose(c) \/ PeerLeaves(c) \/ ReadFails(c)
    BY <2>8, QuietMaps
  <2> QED  BY <2>1, <2>2, <2>3, <2>4, <2>5, <2>6, <2>7, <2>8 DEF Next
<1> QED  BY <1>1, InitMaps, LinkAlways, PTL DEF Spec, ImplementsLiveFeed, Abstract!Spec
=============================================================================
