-------------------------- MODULE CorrelatorProofs --------------------------
(***************************************************************************)
(* For any ids, any hash function, any number of slots and messages in any *)
(* order: responses are paired as Correlation promises.                    *)
(***************************************************************************)
EXTENDS Correlator, SequenceTheorems, TLAPS

USE DEF Turns, IsRequest

\* What a full slot holds: the last request with its id, not yet paired, in the slot
\* that the id's hash names.
HoldsLatest(i) ==
  /\ SlotOf(slots[i].id) = i
  /\ slots[i].turn \in Turns
  /\ IsRequest(slots[i].turn, slots[i].id)
  /\ slots[i].sentAt = log[slots[i].turn].ts
  /\ \A k \in Turns : slots[i].turn < k => ~IsRequest(k, slots[i].id)
  /\ \A p \in matches : p.req # slots[i].turn

SlotInv == \A i \in Slots : slots[i] # NoRequest => HoldsLatest(i)

\* No stamp lies in the future, and what has no id is neither request nor response.
StampInv ==
  /\ \A m \in observed : m.ts <= now /\ (m.id = NoId <=> m.type = "notification")
  /\ \A k \in Turns : log[k].ts <= now

PairInv == PairedWithLatest /\ PairedOnce /\ LatencyCoversExchange

CorrInv == TypeOK /\ SlotInv /\ StampInv /\ PairInv

\* Every id has a slot (correlator.go:48).
LEMMA SlotOfType == \A id \in Ids : SlotOf(id) \in Slots
BY CorrelatorAssumption DEF SlotOf, Slots

\* What Milliseconds() cuts off is less than a millisecond (correlator.go:79).
LEMMA DivFloor ==
  ASSUME NEW d \in Nat
  PROVE  d \div Milli \in Nat /\ (d \div Milli + 1) * Milli > d
BY CorrelatorAssumption

\* Processing a message adds it at the end of the order and changes nothing before.
LEMMA ReceiveLog ==
  ASSUME TypeOK, NEW m \in observed, Receive(m)
  PROVE  /\ m \in Message /\ log' \in Seq(Message) /\ Len(log) \in Nat
         /\ Len(log') = Len(log) + 1 /\ log'[Len(log) + 1] = m
         /\ \A k \in Turns : log'[k] = log[k]
         /\ observed' \subseteq observed
BY DEF TypeOK, Receive

LEMMA CorrInit == Init => CorrInv
<1> SUFFICES ASSUME Init PROVE CorrInv
  OBVIOUS
<1>1. log = <<>> /\ Len(log) = 0 /\ log \in Seq(Message) /\ matches = {} /\ observed = {}
  BY DEF Init
<1>2. slots \in [Slots -> Pending \union {NoRequest}] /\ \A i \in Slots : slots[i] = NoRequest
  BY DEF Init
<1>3. TypeOK
  BY <1>1, <1>2 DEF Init, TypeOK
<1>4. SlotInv /\ StampInv /\ PairInv
  BY <1>1, <1>2
  DEF SlotInv, StampInv, PairInv, PairedWithLatest, PairedOnce, LatencyCoversExchange
<1> QED  BY <1>3, <1>4 DEF CorrInv

\* The pairs so far stay good when another message is processed.
LEMMA PairsKept ==
  ASSUME CorrInv, NEW m \in observed, Receive(m)
  PROVE  \A p \in matches :
           /\ p.req \in Turns' /\ p.resp \in Turns' /\ p.req < p.resp
           /\ log'[p.resp].type = "response" /\ IsRequest(p.req, log[p.resp].id)'
           /\ \A k \in Turns' : p.req < k /\ k < p.resp => ~IsRequest(k, log[p.resp].id)'
           /\ (p.latency + 1) * Milli > log'[p.resp].ts - log'[p.req].ts
<1> SUFFICES ASSUME NEW p \in matches
             PROVE  /\ p.req \in Turns' /\ p.resp \in Turns' /\ p.req < p.resp
                    /\ log'[p.resp].type = "response" /\ IsRequest(p.req, log[p.resp].id)'
                    /\ \A k \in Turns' :
                         p.req < k /\ k < p.resp => ~IsRequest(k, log[p.resp].id)'
                    /\ (p.latency + 1) * Milli > log'[p.resp].ts - log'[p.req].ts
  OBVIOUS
<1>1. /\ Len(log) \in Nat /\ Len(log') = Len(log) + 1
      /\ \A k \in Turns : log'[k] = log[k]
  BY ReceiveLog DEF CorrInv
<1>2. /\ p.req \in Turns /\ p.resp \in Turns /\ p.req < p.resp
      /\ log[p.resp].type = "response" /\ IsRequest(p.req, log[p.resp].id)
      /\ \A k \in Turns : p.req < k /\ k < p.resp => ~IsRequest(k, log[p.resp].id)
      /\ (p.latency + 1) * Milli > log[p.resp].ts - log[p.req].ts
  BY DEF CorrInv, PairInv, PairedWithLatest, LatencyCoversExchange
<1>3. \A k \in Turns' : k < p.resp => k \in Turns
  BY <1>1, <1>2
<1> QED  BY <1>1, <1>2, <1>3
\* The stamps stay in the past when another message is processed.
LEMMA StampsKept ==
  ASSUME CorrInv, NEW m \in observed, Receive(m), now' = now
  PROVE  StampInv' /\ m.ts <= now
<1>1. /\ Len(log) \in Nat /\ Len(log') = Len(log) + 1 /\ log'[Len(log) + 1] = m
      /\ \A k \in Turns : log'[k] = log[k]
      /\ observed' \subseteq observed
  BY ReceiveLog DEF CorrInv
<1>2. \A k \in Turns' : k \in Turns \/ k = Len(log) + 1
  BY <1>1
<1> QED  BY <1>1, <1>2 DEF CorrInv, StampInv

\* A slot that a step leaves alone still holds what SlotInv says, unless the message
\* processed is a request with its id.
LEMMA SlotKept ==
  ASSUME CorrInv, NEW m \in observed, Receive(m), NEW i \in Slots,
         slots'[i] = slots[i], slots[i] # NoRequest,
         ~(m.type = "request" /\ m.id = slots[i].id),
         \A p \in matches' : p \in matches \/ p.req # slots[i].turn
  PROVE  HoldsLatest(i)'
<1>1. /\ Len(log) \in Nat /\ Len(log') = Len(log) + 1 /\ log'[Len(log) + 1] = m
      /\ \A k \in Turns : log'[k] = log[k]
  BY ReceiveLog DEF CorrInv
<1>2. \A k \in Turns' : k \in Turns \/ k = Len(log) + 1
  BY <1>1
<1>3. HoldsLatest(i)
  BY DEF CorrInv, SlotInv
<1> QED  BY <1>1, <1>2, <1>3 DEF HoldsLatest

LEMMA PendingType ==
  ASSUME TypeOK, NEW m \in observed, m.id # NoId PROVE PendingOf(m) \in Pending /\ m.id \in Ids
<1>1. m.id \in Ids /\ m.ts \in Nat /\ Len(log) + 1 \in Nat
  BY DEF TypeOK, Message
<1> QED  BY <1>1 DEF PendingOf, Pending

LEMMA RestStep ==
  ASSUME CorrInv,
         \/ Tick \/ UNCHANGED vars
         \/ \E id \in Ids \union {NoId}, type \in Types : Observe(id, type)
  PROVE  CorrInv'
<1>0. log' = log /\ matches' = matches /\ slots' = slots /\ Turns' = Turns
  BY DEF Tick, Observe, vars
<1>1. now' \in Nat /\ now' >= now /\ now \in Nat /\ seen' \in Nat
  BY DEF Tick, Observe, vars, CorrInv, TypeOK
<1>2. /\ observed' \subseteq Message
      /\ \A m \in observed' : m.ts <= now' /\ (m.id = NoId <=> m.type = "notification")
  <2>1. CASE Tick \/ UNCHANGED vars
    <3>1. observed' = observed /\ \A m \in observed : m.ts \in Nat
      BY <2>1 DEF Tick, vars, CorrInv, TypeOK, Message
    <3> QED  BY <1>1, <3>1 DEF CorrInv, TypeOK, StampInv
  <2>2. ASSUME NEW id \in Ids \union {NoId}, NEW type \in Types, Observe(id, type)
        PROVE  /\ observed' \subseteq Message
               /\ \A m \in observed' :
                    m.ts <= now' /\ (m.id = NoId <=> m.type = "notification")
    <3> DEFINE m == [n |-> seen + 1, id |-> id, type |-> type, ts |-> now]
    <3>1. m \in Message /\ m.ts = now /\ (m.id = NoId <=> m.type = "notification")
      BY <2>2 DEF Message, CorrInv, TypeOK, Observe
    <3> HIDE DEF m
    <3>2. observed' = observed \union {m}
      BY <2>2 DEF Observe, m
    <3> QED  BY <1>1, <2>2, <3>1, <3>2 DEF Observe, CorrInv, TypeOK, StampInv
  <2> QED  BY <2>1, <2>2
<1>3. \A k \in Turns : log[k].ts <= now'
  <2>1. \A k \in Turns : log[k] \in Message
    BY DEF CorrInv, TypeOK
  <2>2. \A k \in Turns : log[k].ts \in Nat
    BY <2>1 DEF Message
  <2> QED  BY <1>1, <2>2 DEF CorrInv, TypeOK, StampInv
<1>4. TypeOK' /\ SlotInv' /\ StampInv'
  BY <1>0, <1>1, <1>2, <1>3 DEF CorrInv, TypeOK, SlotInv, HoldsLatest, StampInv
<1>5. PairInv'
  BY <1>0 DEF CorrInv, PairInv, PairedWithLatest, PairedOnce, LatencyCoversExchange
<1> QED  BY <1>4, <1>5 DEF CorrInv
LEMMA IgnoredStep == ASSUME CorrInv, NEW m \in observed, ProcessIgnored(m) PROVE CorrInv'
<1>0. /\ Receive(m) /\ UNCHANGED <<now, seen, slots, matches>>
  BY DEF ProcessIgnored
<1>1. TypeOK'
  BY <1>0, ReceiveLog DEF CorrInv, TypeOK
<1>2. SlotInv'
  <2> SUFFICES ASSUME NEW i \in Slots, slots[i] # NoRequest
               PROVE  HoldsLatest(i)'
    BY <1>0 DEF SlotInv
  <2>1. slots[i].id # m.id
    BY CorrelatorAssumption DEF ProcessIgnored, CorrInv, TypeOK, Pending
  <2> QED  BY <1>0, <2>1, SlotKept
<1>3. StampInv'
  BY <1>0, StampsKept
<1>4. PairInv'
  BY <1>0, PairsKept
  DEF CorrInv, PairInv, PairedWithLatest, PairedOnce, LatencyCoversExchange
<1> QED  BY <1>1, <1>2, <1>3, <1>4 DEF CorrInv

LEMMA RequestStep == ASSUME CorrInv, NEW m \in observed, ProcessRequest(m) PROVE CorrInv'
<1> DEFINE s == SlotOf(m.id)
<1>0. /\ Receive(m) /\ UNCHANGED <<now, seen, matches>> /\ m.id # NoId
      /\ m.type = "request" /\ slots' = [slots EXCEPT ![s] = PendingOf(m)]
  BY DEF ProcessRequest, Placed
<1>1. PendingOf(m) \in Pending /\ s \in Slots /\ PendingOf(m) # NoRequest
  BY <1>0, PendingType, SlotOfType, NoRequestAssumption DEF CorrInv
<1>2. TypeOK'
  BY <1>0, <1>1, ReceiveLog DEF CorrInv, TypeOK
<1>3. /\ slots'[s] = PendingOf(m)
      /\ \A i \in Slots : i # s => slots'[i] = slots[i]
  BY <1>0, <1>1 DEF CorrInv, TypeOK
<1>4. SlotInv'
  <2> SUFFICES ASSUME NEW i \in Slots, slots'[i] # NoRequest
               PROVE  HoldsLatest(i)'
    BY DEF SlotInv
  <2>1. CASE i = s
    <3>1. slots'[i].id = m.id /\ slots'[i].turn = Len(log) + 1 /\ slots'[i].sentAt = m.ts
      BY <1>3, <2>1 DEF PendingOf
    <3>2. /\ Len(log) \in Nat /\ Len(log') = Len(log) + 1 /\ log'[Len(log) + 1] = m
      BY <1>0, ReceiveLog DEF CorrInv
    <3>3. \A p \in matches' : p.req # Len(log) + 1
      BY <1>0, <3>2 DEF CorrInv, PairInv, PairedWithLatest
    <3> QED  BY <1>0, <2>1, <3>1, <3>2, <3>3 DEF HoldsLatest
  <2>2. CASE i # s
    <3>1. slots'[i] = slots[i] /\ slots[i] # NoRequest
      BY <1>3, <2>2
    <3>2. slots[i].id # m.id
      BY <2>2, <3>1 DEF CorrInv, SlotInv, HoldsLatest
    <3> QED  BY <1>0, <3>1, <3>2, SlotKept
  <2> QED  BY <2>1, <2>2
<1>5. StampInv'
  BY <1>0, StampsKept
<1>6. PairInv'
  BY <1>0, PairsKept
  DEF CorrInv, PairInv, PairedWithLatest, PairedOnce, LatencyCoversExchange
<1> QED  BY <1>2, <1>4, <1>5, <1>6 DEF CorrInv

LEMMA StrayStep ==
  ASSUME CorrInv, NEW m \in observed, ProcessResponse(m), UNCHANGED <<slots, matches>>
  PROVE  CorrInv'
<1>0. /\ Receive(m) /\ UNCHANGED <<now, seen, slots, matches>> /\ m.type = "response"
  BY DEF ProcessResponse
<1>1. TypeOK'
  BY <1>0, ReceiveLog DEF CorrInv, TypeOK
<1>2. SlotInv'
  <2> SUFFICES ASSUME NEW i \in Slots, slots[i] # NoRequest
               PROVE  HoldsLatest(i)'
    BY <1>0 DEF SlotInv
  <2> QED  BY <1>0, SlotKept
<1>3. StampInv'
  BY <1>0, StampsKept
<1>4. PairInv'
  BY <1>0, PairsKept
  DEF CorrInv, PairInv, PairedWithLatest, PairedOnce, LatencyCoversExchange
<1> QED  BY <1>1, <1>2, <1>3, <1>4 DEF CorrInv
LEMMA PairedStep ==
  ASSUME CorrInv, NEW m \in observed, ProcessResponse(m),
         Pairs(slots[SlotOf(m.id)], m), slots' = Freed(SlotOf(m.id)),
         matches' = matches \union
           {[req |-> slots[SlotOf(m.id)].turn, resp |-> Len(log) + 1,
             latency |-> Latency(slots[SlotOf(m.id)])]}
  PROVE  CorrInv'
<1> DEFINE s == SlotOf(m.id)
           slot == slots[s]
           new == [req |-> slot.turn, resp |-> Len(log) + 1, latency |-> Latency(slot)]
<1>0. /\ Receive(m) /\ now' = now /\ seen' = seen /\ m.id # NoId /\ m.type = "response"
      /\ slots' = [slots EXCEPT ![s] = NoRequest] /\ matches' = matches \union {new}
  BY DEF ProcessResponse, Freed
<1>1. /\ m \in Message /\ m.id \in Ids /\ s \in Slots /\ slot # NoRequest /\ slot.id = m.id
  BY <1>0, SlotOfType DEF Pairs, CorrInv, TypeOK, Message
<1>2. HoldsLatest(s)
  BY <1>1 DEF CorrInv, SlotInv
<1>3. /\ Len(log) \in Nat /\ Len(log') = Len(log) + 1 /\ log'[Len(log) + 1] = m
      /\ \A k \in Turns : log'[k] = log[k]
  BY <1>0, ReceiveLog DEF CorrInv
<1>4. slot.turn \in Turns /\ slot.sentAt = log[slot.turn].ts
  BY <1>2 DEF HoldsLatest
<1>5. log[slot.turn].ts \in Nat /\ log[slot.turn].ts <= now /\ now \in Nat /\ m.ts <= now
  <2>1. log[slot.turn] \in Message
    BY <1>4 DEF CorrInv, TypeOK
  <2> QED  BY <1>0, <1>4, <2>1 DEF CorrInv, StampInv, TypeOK, Message
<1>6. /\ new.req = slot.turn /\ new.resp = Len(log) + 1
      /\ new.latency \in Nat /\ (new.latency + 1) * Milli > now - log[slot.turn].ts
  <2>1. now - log[slot.turn].ts \in Nat
    BY <1>5
  <2>2. new.latency = (now - log[slot.turn].ts) \div Milli
    BY <1>4 DEF Latency
  <2> HIDE DEF new
  <2>3. new.latency \in Nat /\ (new.latency + 1) * Milli > now - log[slot.turn].ts
    BY <2>1, <2>2, DivFloor
  <2> QED  BY <2>3 DEF new
<1>7. TypeOK'
  <2>1. new \in [req : Nat, resp : Nat, latency : Nat]
    BY <1>3, <1>4, <1>6
  <2> HIDE DEF new
  <2> QED  BY <1>0, <2>1, ReceiveLog DEF CorrInv, TypeOK
<1> HIDE DEF new, slot
<1>8. SlotInv'
  <2> SUFFICES ASSUME NEW i \in Slots, slots'[i] # NoRequest
               PROVE  HoldsLatest(i)'
    BY DEF SlotInv
  <2>1. i # s /\ slots'[i] = slots[i]
    BY <1>0, <1>1 DEF CorrInv, TypeOK
  <2>2. slots[i].turn # slot.turn
    <3>1. HoldsLatest(i)
      BY <2>1 DEF CorrInv, SlotInv
    <3>2. IsRequest(slot.turn, m.id) /\ IsRequest(slots[i].turn, slots[i].id)
      BY <1>1, <1>2, <3>1 DEF HoldsLatest, slot
    <3> QED  BY <2>1, <3>1, <3>2 DEF HoldsLatest
  <2> QED  BY <1>0, <1>6, <2>1, <2>2, SlotKept
<1>9. StampInv'
  BY <1>0, StampsKept
<1>10. PairInv'
  <2>1. PairedWithLatest'
    <3>1. /\ IsRequest(slot.turn, m.id)
          /\ \A k \in Turns : slot.turn < k => ~IsRequest(k, m.id)
      BY <1>1, <1>2 DEF HoldsLatest, slot
    <3>2. /\ new.req \in Turns' /\ new.resp \in Turns' /\ new.req < new.resp
          /\ log'[new.resp].type = "response"
          /\ log'[new.req].type = "request" /\ log'[new.req].id = log'[new.resp].id
      BY <1>0, <1>3, <1>4, <1>6, <3>1
    <3>3. \A k \in Turns' :
            new.req < k /\ k < new.resp =>
              ~(log'[k].type = "request" /\ log'[k].id = log'[new.resp].id)
      BY <1>3, <1>4, <1>6, <3>1
    <3> QED  BY <1>0, <3>2, <3>3, PairsKept DEF PairedWithLatest
  <2>2. PairedOnce'
    <3>1. \A p \in matches : p.req # new.req
      BY <1>2, <1>6 DEF HoldsLatest, slot
    <3> QED  BY <1>0, <3>1 DEF CorrInv, PairInv, PairedOnce
  <2>3. LatencyCoversExchange'
    <3> DEFINE cover == (new.latency + 1) * Milli
    <3>1. cover \in Int /\ cover > now - log[slot.turn].ts
      BY <1>6, CorrelatorAssumption
    <3>2. log'[new.resp].ts <= now /\ log'[new.resp].ts \in Nat
      BY <1>1, <1>3, <1>5, <1>6 DEF Message
    <3>3. log'[new.req].ts = log[slot.turn].ts
      BY <1>3, <1>4, <1>6
    <3> HIDE DEF cover
    <3>4. cover > log'[new.resp].ts - log'[new.req].ts
      BY <1>5, <3>1, <3>2, <3>3
    <3> USE DEF cover
    <3> QED  BY <1>0, <3>4, PairsKept DEF LatencyCoversExchange
  <2> QED  BY <2>1, <2>2, <2>3 DEF PairInv
<1> QED  BY <1>7, <1>8, <1>9, <1>10 DEF CorrInv

LEMMA ResponseStep == ASSUME CorrInv, NEW m \in observed, ProcessResponse(m) PROVE CorrInv'
BY PairedStep, StrayStep DEF ProcessResponse

LEMMA CorrStep == CorrInv /\ [Next]_vars => CorrInv'
<1> SUFFICES ASSUME CorrInv, [Next]_vars PROVE CorrInv'
  OBVIOUS
<1>1. ASSUME NEW m \in observed, Process(m) PROVE CorrInv'
  BY <1>1, IgnoredStep, RequestStep, ResponseStep DEF Process
<1> QED  BY <1>1, RestStep DEF Next, Finished

LEMMA CorrAlways == Spec => []CorrInv
BY CorrInit, CorrStep, PTL DEF Spec

\* The correlator's state is well-formed, and no latency is negative
\* (correlator.go:69-79).
THEOREM CorrelatorTypes == Spec => []TypeOK
<1>1. CorrInv => TypeOK
  BY DEF CorrInv
<1> QED  BY CorrAlways, <1>1, PTL

\* A response is paired with the last request that carries its id, whatever hashes
\* collide and in whatever order messages are processed (correlator.go:76-79).
THEOREM CorrelatorPairsLatest == Spec => []PairedWithLatest
<1>1. CorrInv => PairedWithLatest
  BY DEF CorrInv, PairInv
<1> QED  BY CorrAlways, <1>1, PTL

\* A request is paired once and its span ended once, also when its response is
\* repeated (correlator.go:98-101).
THEOREM CorrelatorPairsOnce == Spec => []PairedOnce
<1>1. CorrInv => PairedOnce
  BY DEF CorrInv, PairInv
<1> QED  BY CorrAlways, <1>1, PTL

\* A latency falls short of the time between the two messages by less than the
\* millisecond that the conversion cuts off (correlator.go:71, 79).
THEOREM CorrelatorLatency == Spec => []LatencyCoversExchange
<1>1. CorrInv => LatencyCoversExchange
  BY DEF CorrInv, PairInv
<1> QED  BY CorrAlways, <1>1, PTL
-----------------------------------------------------------------------------
(***************************************************************************)
(* The slots implement pairing by id.                                      *)
(***************************************************************************)

\* The request that a full slot stands for.
WaitsIn(i) == [id |-> slots[i].id, turn |-> slots[i].turn]

LEMMA WaitingIn == \A w : w \in Waiting <=> \E i \in Slots : slots[i] # NoRequest /\ w = WaitsIn(i)
BY DEF Waiting, WaitsIn

LEMMA HeardGrows ==
  ASSUME CorrInv, NEW m \in observed, Receive(m)
  PROVE  /\ Heard' = Append(Heard, [type |-> m.type, id |-> m.id])
         /\ Len(Heard') = Len(log) + 1
<1>1. /\ Len(log) \in Nat /\ Len(log') = Len(log) + 1 /\ log'[Len(log) + 1] = m
      /\ \A k \in Turns : log'[k] = log[k]
  BY ReceiveLog DEF CorrInv
<1>2. /\ Heard \in Seq([type : Types, id : Ids \union {NoId}]) /\ Len(Heard) = Len(log)
      /\ Heard' \in Seq([type : Types, id : Ids \union {NoId}]) /\ Len(Heard') = Len(log) + 1
  <2>1. /\ \A k \in Turns : log[k].type \in Types /\ log[k].id \in Ids \union {NoId}
        /\ \A k \in Turns' : log'[k].type \in Types /\ log'[k].id \in Ids \union {NoId}
    <3>1. \A n \in Message : n.type \in Types /\ n.id \in Ids \union {NoId}
      BY DEF Message
    <3>2. (\A k \in Turns : log[k] \in Message) /\ (\A k \in Turns' : log'[k] \in Message)
      BY ReceiveLog DEF CorrInv, TypeOK
    <3> QED  BY <3>1, <3>2
  <2> QED  BY <1>1, <2>1 DEF Heard
<1> DEFINE one == [type |-> m.type, id |-> m.id]
           Words == [type : Types, id : Ids \union {NoId}]
<1>3. one \in Words
  BY DEF CorrInv, TypeOK, Message
<1>4. /\ \A k \in Turns : Heard'[k] = Heard[k]
      /\ Heard'[Len(log) + 1] = one
  BY <1>1 DEF Heard
<1> HIDE DEF one, Words
<1>5. /\ Append(Heard, one) \in Seq(Words) /\ Len(Append(Heard, one)) = Len(log) + 1
      /\ \A k \in Turns : Append(Heard, one)[k] = Heard[k]
      /\ Append(Heard, one)[Len(log) + 1] = one
  BY <1>1, <1>2, <1>3, AppendProperties DEF Words
<1>6. \A k \in 1 .. Len(log) + 1 : k \in Turns \/ k = Len(log) + 1
  BY <1>1
<1>7. \A k \in 1 .. Len(Heard') : Heard'[k] = Append(Heard, one)[k]
  BY <1>2, <1>4, <1>5, <1>6
<1>8. Heard' \in Seq(Words)
  BY <1>2 DEF Words
<1>9. Heard' = Append(Heard, one)
  BY <1>2, <1>5, <1>7, <1>8, SeqEqual
<1> QED  BY <1>2, <1>9 DEF one

\* A message without an id, and one that finds no request.
LEMMA UnpairedRefines ==
  ASSUME CorrInv, NEW m \in observed, Receive(m), UNCHANGED <<slots, matches>>,
         \/ m.id = NoId
         \/ m.id # NoId /\ m.type = "response" /\ ~Pairs(slots[SlotOf(m.id)], m)
  PROVE  Abstract!Next
<1>1. Waiting' = Waiting /\ Answered' = Answered
  BY DEF Waiting, Answered
<1>2. Heard' = Append(Heard, [type |-> m.type, id |-> m.id])
  BY HeardGrows
<1>3. CASE m.id = NoId
  <2>1. m.type = "notification"
    BY <1>3 DEF CorrInv, StampInv
  <2>2. Abstract!Notify
    BY <1>1, <1>2, <1>3, <2>1 DEF Abstract!Notify, Abstract!Hear
  <2> QED  BY <2>2 DEF Abstract!Next
<1>4. CASE m.id # NoId
  <2>1. m.id \in Ids
    BY <1>4, PendingType DEF CorrInv
  <2>2. \A w \in Waiting : w.id # m.id
    <3> SUFFICES ASSUME NEW i \in Slots, slots[i] # NoRequest, slots[i].id = m.id
                 PROVE  FALSE
      BY WaitingIn DEF WaitsIn
    <3>1. SlotOf(m.id) = i
      BY DEF CorrInv, SlotInv, HoldsLatest
    <3> QED  BY <1>4, <3>1 DEF Pairs
  <2>3. Abstract!Stray(m.id)
    BY <1>1, <1>2, <1>4, <2>2 DEF Abstract!Stray, Abstract!Hear, Abstract!WaitingFor
  <2> QED  BY <2>1, <2>3 DEF Abstract!Next
<1> QED  BY <1>3, <1>4

\* Full slots stand for different requests.
LEMMA SlotsApart ==
  ASSUME CorrInv, NEW i \in Slots, NEW j \in Slots, i # j,
         slots[i] # NoRequest, slots[j] # NoRequest
  PROVE  WaitsIn(i) # WaitsIn(j)
BY DEF CorrInv, SlotInv, HoldsLatest, WaitsIn

\* What one slot's change does to the set of waiting requests.
LEMMA SlotChange ==
  ASSUME CorrInv, NEW i \in Slots, NEW new \in Pending \union {NoRequest},
         slots' = [slots EXCEPT ![i] = new]
  PROVE  \A w : w \in Waiting' <=>
                  \/ w \in Waiting /\ ~(slots[i] # NoRequest /\ w = WaitsIn(i))
                  \/ new # NoRequest /\ w = [id |-> new.id, turn |-> new.turn]
<1>1. slots'[i] = new /\ \A j \in Slots : j # i => slots'[j] = slots[j]
  BY DEF CorrInv, TypeOK
<1>2. \A w : w \in Waiting' <=>
               \E j \in Slots : slots'[j] # NoRequest
                                /\ w = [id |-> slots'[j].id, turn |-> slots'[j].turn]
  BY DEF Waiting
<1>3. \A j \in Slots :
        j # i /\ slots[j] # NoRequest /\ slots[i] # NoRequest => WaitsIn(j) # WaitsIn(i)
  BY SlotsApart
<1>4. \A j \in Slots :
        j # i => [id |-> slots'[j].id, turn |-> slots'[j].turn] = WaitsIn(j)
  BY <1>1 DEF WaitsIn
<1> SUFFICES ASSUME NEW w
             PROVE  w \in Waiting' <=>
                      \/ w \in Waiting /\ ~(slots[i] # NoRequest /\ w = WaitsIn(i))
                      \/ new # NoRequest /\ w = [id |-> new.id, turn |-> new.turn]
  OBVIOUS
<1>5. ASSUME w \in Waiting'
      PROVE  \/ w \in Waiting /\ ~(slots[i] # NoRequest /\ w = WaitsIn(i))
             \/ new # NoRequest /\ w = [id |-> new.id, turn |-> new.turn]
  <2>1. PICK j \in Slots : slots'[j] # NoRequest
                           /\ w = [id |-> slots'[j].id, turn |-> slots'[j].turn]
    BY <1>2, <1>5
  <2>2. CASE j = i
    BY <1>1, <2>1, <2>2
  <2>3. CASE j # i
    <3>1. slots[j] # NoRequest /\ w = WaitsIn(j)
      BY <1>1, <1>4, <2>1, <2>3
    <3> QED  BY <1>3, <2>3, <3>1, WaitingIn
  <2> QED  BY <2>2, <2>3
<1>6. ASSUME w \in Waiting, ~(slots[i] # NoRequest /\ w = WaitsIn(i))
      PROVE  w \in Waiting'
  <2>1. PICK j \in Slots : slots[j] # NoRequest /\ w = WaitsIn(j)
    BY <1>6, WaitingIn
  <2>2. j # i
    BY <1>6, <2>1
  <2>3. slots'[j] # NoRequest
    BY <1>1, <2>1, <2>2
  <2> QED  BY <1>2, <1>4, <2>1, <2>2, <2>3
<1>7. ASSUME new # NoRequest, w = [id |-> new.id, turn |-> new.turn]
      PROVE  w \in Waiting'
  BY <1>1, <1>2, <1>7
<1> QED  BY <1>5, <1>6, <1>7

\* A request takes its slot: at most the one that held it is forgotten.
LEMMA RequestRefines ==
  ASSUME CorrInv, NEW m \in observed, ProcessRequest(m) PROVE Abstract!Next
<1> DEFINE s == SlotOf(m.id)
           lost == IF slots[s] = NoRequest THEN {} ELSE {WaitsIn(s)}
           new == [id |-> m.id, turn |-> Len(Heard')]
<1>1. /\ Receive(m) /\ matches' = matches /\ m.id # NoId /\ m.type = "request"
      /\ slots' = [slots EXCEPT ![s] = PendingOf(m)]
  BY DEF ProcessRequest, Placed
<1>2. m.id \in Ids /\ s \in Slots /\ PendingOf(m) \in Pending /\ PendingOf(m) # NoRequest
  BY <1>1, PendingType, SlotOfType, NoRequestAssumption DEF CorrInv
<1>3. Heard' = Append(Heard, [type |-> "request", id |-> m.id]) /\ Len(Heard') = Len(log) + 1
  BY <1>1, HeardGrows
<1>4. new = [id |-> PendingOf(m).id, turn |-> PendingOf(m).turn]
  BY <1>3 DEF PendingOf
<1>5. lost \in SUBSET Waiting /\ \A v, w \in lost : v = w
  BY <1>2, WaitingIn
<1>6. Abstract!WaitingFor(m.id) \subseteq lost
  <2> SUFFICES ASSUME NEW i \in Slots, slots[i] # NoRequest, slots[i].id = m.id
               PROVE  WaitsIn(i) \in lost
    BY WaitingIn DEF Abstract!WaitingFor, WaitsIn
  <2>1. s = i
    BY DEF CorrInv, SlotInv, HoldsLatest
  <2> QED  BY <2>1
<1>7. Waiting' = (Waiting \ lost) \union {new}
  <2>1. \A w : w \in Waiting' <=>
                 \/ w \in Waiting /\ ~(slots[s] # NoRequest /\ w = WaitsIn(s))
                 \/ w = new
    BY <1>1, <1>2, <1>4, SlotChange
  <2>2. \A w : w \in lost <=> slots[s] # NoRequest /\ w = WaitsIn(s)
    OBVIOUS
  <2> HIDE DEF lost, new
  <2> QED  BY <2>1, <2>2
<1>8. Answered' = Answered
  BY <1>1 DEF Answered
<1> HIDE DEF lost
<1>9. Abstract!Ask(m.id)
  BY <1>3, <1>5, <1>6, <1>7, <1>8 DEF Abstract!Ask, Abstract!Hear
<1> QED  BY <1>2, <1>9 DEF Abstract!Next

\* A paired response answers the request in its slot.
LEMMA PairedRefines ==
  ASSUME CorrInv, NEW m \in observed, ProcessResponse(m),
         Pairs(slots[SlotOf(m.id)], m), slots' = Freed(SlotOf(m.id)),
         matches' = matches \union
           {[req |-> slots[SlotOf(m.id)].turn, resp |-> Len(log) + 1,
             latency |-> Latency(slots[SlotOf(m.id)])]}
  PROVE  Abstract!Next
<1> DEFINE s == SlotOf(m.id)
           w == WaitsIn(s)
           new == [req |-> slots[s].turn, resp |-> Len(log) + 1, latency |-> Latency(slots[s])]
<1>1. /\ Receive(m) /\ m.id # NoId /\ m.type = "response"
      /\ slots' = [slots EXCEPT ![s] = NoRequest] /\ matches' = matches \union {new}
  BY DEF ProcessResponse, Freed
<1>2. s \in Slots /\ slots[s] # NoRequest /\ slots[s].id = m.id
  BY <1>1, PendingType, SlotOfType DEF Pairs, CorrInv
<1>3. /\ Heard' = Append(Heard, [type |-> "response", id |-> w.id])
      /\ Len(Heard') = Len(log) + 1
  BY <1>1, <1>2, HeardGrows DEF WaitsIn
<1>4. w \in Waiting
  BY <1>2, WaitingIn
<1>5. Waiting' = Waiting \ {w}
  BY <1>1, <1>2, SlotChange
<1>6. Answered' = Answered \union {<<w.turn, Len(Heard')>>}
  <2>1. new.req = w.turn /\ new.resp = Len(Heard')
    BY <1>3 DEF WaitsIn
  <2> HIDE DEF new
  <2>2. \A a : a \in Answered' <=> \E p \in matches' : a = <<p.req, p.resp>>
    BY DEF Answered
  <2>3. \A a : a \in Answered <=> \E p \in matches : a = <<p.req, p.resp>>
    BY DEF Answered
  <2> HIDE DEF w
  <2> QED  BY <1>1, <2>1, <2>2, <2>3
<1>7. Abstract!Answer(w)
  BY <1>3, <1>5, <1>6 DEF Abstract!Answer, Abstract!Hear
<1> QED  BY <1>4, <1>7 DEF Abstract!Next

\* The slots implement pairing by id: a step of the correlator is one of the abstract
\* specification or changes nothing of it (correlator.go:43-104).
THEOREM CorrelatorImplementsCorrelation == Spec => ImplementsCorrelation
<1>1. Init => Abstract!Init
  BY DEF Init, Abstract!Init, Heard, Waiting, Answered
<1>2. CorrInv /\ [Next]_vars => [Abstract!Next]_(Abstract!vars)
  <2> SUFFICES ASSUME CorrInv, [Next]_vars
               PROVE  Abstract!Next \/ UNCHANGED <<Heard, Waiting, Answered>>
    BY DEF Abstract!vars
  <2>1. CASE UNCHANGED <<log, slots, matches>>
    BY <2>1 DEF Heard, Waiting, Answered
  <2>2. ASSUME NEW m \in observed, Process(m) PROVE Abstract!Next
    <3>1. CASE ProcessIgnored(m)
      BY <3>1, UnpairedRefines DEF ProcessIgnored
    <3>2. CASE ProcessRequest(m)
      BY <3>2, RequestRefines
    <3>3. CASE ProcessResponse(m)
      BY <3>3, PairedRefines, UnpairedRefines DEF ProcessResponse
    <3> QED  BY <2>2, <3>1, <3>2, <3>3 DEF Process
  <2> QED  BY <2>1, <2>2 DEF Next, Tick, Observe, Finished, vars
<1> QED  BY <1>1, <1>2, CorrAlways, PTL DEF Spec, ImplementsCorrelation, Abstract!Spec
=============================================================================
