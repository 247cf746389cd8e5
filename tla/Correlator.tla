----------------------------- MODULE Correlator -----------------------------
(***************************************************************************)
(* Pairing of responses with requests (internal/engine/correlator.go).     *)
(* Main passes every message it receives from the transport to Process,    *)
(* which keeps the pending requests in a fixed array of slots, indexed by  *)
(* a hash of the JSON-RPC id: a request overwrites whatever its slot holds *)
(* and a response is paired only with a request of exactly its id.         *)
(*                                                                         *)
(* Messages are stamped when a transport goroutine parses them and are     *)
(* processed later.  Several goroutines parse and send, so they may be     *)
(* processed in any order, and a message may be dropped on the way: it     *)
(* then stays in "observed".  The turn of a processed message, its place   *)
(* in the order of the Process calls, stands for the method and the span   *)
(* of a request.                                                           *)
(***************************************************************************)
EXTENDS Integers, Sequences, SequencesExt

CONSTANTS
  Ids,        \* the JSON-RPC ids: sequences of bytes
  Hash,       \* hashString, as a function of the ids
  NumSlots,   \* slots of the array (4096)
  NoId,       \* a message without an id
  NoRequest,  \* PendingSlot{}: the slot is empty
  Milli,      \* readings of the clock in a millisecond
  MaxQueued,  \* bound: messages observed and not yet processed (1000 and a few)
  MaxMsgs,    \* bound: messages observed in all
  MaxTime     \* bound: readings of the clock

ASSUME CorrelatorAssumption ==
  /\ Hash \in [Ids -> Nat] /\ NumSlots \in Nat \ {0} /\ Milli \in Nat \ {0}
  /\ MaxQueued \in Nat /\ MaxMsgs \in Nat /\ MaxTime \in Nat
  /\ NoId \notin Ids

Pending == [id : Ids, sentAt : Nat, turn : Nat]

ASSUME NoRequestAssumption == NoRequest \notin Pending

VARIABLES
  now,       \* the clock
  seen,      \* messages stamped by a transport so far
  observed,  \* messages stamped by a transport and not yet processed
  slots,     \* Correlator.slots
  log,       \* history: the messages in the order they were processed
  matches    \* history: the responses that were paired: [req, resp, latency]

vars == <<now, seen, observed, slots, log, matches>>

Slots == 0 .. NumSlots - 1
\* "notification" is any message without an id: the parser gives a notification that
\* type, and no type to a response whose id is null.
Types == {"request", "response", "notification"}
Message == [n : Nat \ {0}, id : Ids \union {NoId}, type : Types, ts : Nat]

-----------------------------------------------------------------------------
(***************************************************************************)
(* Slips: what a plausible mistake would make of a definition below.  The  *)
(* specification does not use them; each one breaks a property.            *)
(***************************************************************************)

\* A slot belongs to a response by its hash alone.
PairsBySlot(slot, m) == slot # NoRequest

\* The pending request is stamped when it is processed.
PendingNow(m) == [id |-> m.id, sentAt |-> now, turn |-> Len(log) + 1]

\* A request waits for a free slot instead of taking one.
PlacedIfFree(m) ==
  IF slots[Hash[m.id] % NumSlots] = NoRequest
  THEN [slots EXCEPT ![Hash[m.id] % NumSlots] =
          [id |-> m.id, sentAt |-> m.ts, turn |-> Len(log) + 1]]
  ELSE slots

-----------------------------------------------------------------------------
\* hashString: h = h*31 + b in a word of the machine.
HashString(s, wordSize) == FoldLeft(LAMBDA h, b : (h * 31 + b) % wordSize, 0, s)

SlotOf(id) == Hash[id] % NumSlots

Init ==
  /\ now = 0 /\ seen = 0 /\ observed = {}
  /\ slots = [i \in Slots |-> NoRequest]
  /\ log = <<>> /\ matches = {}

Tick ==
  /\ now < MaxTime
  /\ now' = now + 1
  /\ UNCHANGED <<seen, observed, slots, log, matches>>

\* A transport goroutine parses a message and stamps it.
Observe(id, type) ==
  /\ seen < MaxMsgs /\ seen - Len(log) < MaxQueued
  /\ id = NoId <=> type = "notification"
  /\ seen' = seen + 1
  /\ observed' = observed \union {[n |-> seen + 1, id |-> id, type |-> type, ts |-> now]}
  /\ UNCHANGED <<now, slots, log, matches>>

Receive(m) ==
  /\ observed' = observed \ {m}
  /\ log' = Append(log, m)

\* Process of a message without an id returns at once.
ProcessIgnored(m) ==
  /\ m.id = NoId
  /\ Receive(m)
  /\ UNCHANGED <<now, seen, slots, matches>>

\* The slot of a request, and the array with it in place.
PendingOf(m) == [id |-> m.id, sentAt |-> m.ts, turn |-> Len(log) + 1]
Placed(m) == [slots EXCEPT ![SlotOf(m.id)] = PendingOf(m)]

\* Process of a request: whatever its slot held is overwritten.
ProcessRequest(m) ==
  /\ m.id # NoId /\ m.type = "request"
  /\ Receive(m)
  /\ slots' = Placed(m)
  /\ UNCHANGED <<now, seen, matches>>

\* Process's test: the slot holds a request with the response's id.  An empty slot
\* has the empty id, and a response that gets here has another.
Pairs(slot, m) == slot # NoRequest /\ slot.id = m.id

\* time.Since(slot.SentAt).Milliseconds(): it ends when the response is processed, not
\* when it was stamped, and what is left of a millisecond is cut off.
Latency(slot) == (now - slot.sentAt) \div Milli

\* The array after a request was answered.
Freed(i) == [slots EXCEPT ![i] = NoRequest]

\* Process of a response: it is paired with the pending request, which gives it
\* its method and the time since the request's stamp, or it is left as it is.
ProcessResponse(m) ==
  /\ m.id # NoId /\ m.type = "response"
  /\ Receive(m)
  /\ LET i == SlotOf(m.id)
         slot == slots[i]
     IN  \/ /\ Pairs(slot, m)
            /\ matches' = matches \union
                 {[req |-> slot.turn, resp |-> Len(log) + 1, latency |-> Latency(slot)]}
            /\ slots' = Freed(i)
         \/ /\ ~Pairs(slot, m)
            /\ UNCHANGED <<slots, matches>>
  /\ UNCHANGED <<now, seen>>

Process(m) == ProcessIgnored(m) \/ ProcessRequest(m) \/ ProcessResponse(m)

\* The bounds are reached.
Finished == now = MaxTime /\ Len(log) = MaxMsgs /\ UNCHANGED vars

Next ==
  \/ Tick
  \/ \E id \in Ids \union {NoId}, type \in Types : Observe(id, type)
  \/ \E m \in observed : Process(m)
  \/ Finished

Spec == Init /\ [][Next]_vars

-----------------------------------------------------------------------------
(***************************************************************************)
(* Properties.                                                             *)
(***************************************************************************)

\* The types; every latency is a natural number.
TypeOK ==
  /\ now \in Nat /\ seen \in Nat /\ observed \subseteq Message
  /\ slots \in [Slots -> Pending \union {NoRequest}]
  /\ log \in Seq(Message)
  /\ matches \subseteq [req : Nat, resp : Nat, latency : Nat]

Turns == 1 .. Len(log)

IsRequest(k, id) == log[k].type = "request" /\ log[k].id = id

\* A response is paired with the last request before it that carries its id: not
\* with one whose hash is the same, and not with an older one with the same id.
PairedWithLatest ==
  \A p \in matches :
    /\ p.req \in Turns /\ p.resp \in Turns /\ p.req < p.resp
    /\ log[p.resp].type = "response" /\ IsRequest(p.req, log[p.resp].id)
    /\ \A k \in Turns : p.req < k /\ k < p.resp => ~IsRequest(k, log[p.resp].id)

\* A request is paired at most once, so its span ends at most once, even when the
\* response is repeated.
PairedOnce == \A p, q \in matches : p.req = q.req => p = q

\* The latency of a pair, in whole milliseconds, falls short of the time between its
\* two messages by less than a millisecond, however long the request waited before it
\* was processed: an exchange of n milliseconds or more has a latency of at least n.
\* (One of less than a millisecond may have latency 0, which the store and the alerter
\* take for none.)
LatencyCoversExchange ==
  \A p \in matches : (p.latency + 1) * Milli > log[p.resp].ts - log[p.req].ts

\* The slots implement pairing by id.
Waiting == {[id |-> slots[i].id, turn |-> slots[i].turn] :
              i \in {j \in Slots : slots[j] # NoRequest}}
Answered == {<<p.req, p.resp>> : p \in matches}
Heard == [k \in 1 .. Len(log) |-> [type |-> log[k].type, id |-> log[k].id]]
Abstract == INSTANCE Correlation WITH
              heard <- Heard,
              waiting <- Waiting,
              answered <- Answered
ImplementsCorrelation == Abstract!Spec
=============================================================================
