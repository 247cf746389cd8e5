---------------------------- MODULE Correlation ----------------------------
(***************************************************************************)
(* What pairing responses with requests promises, without slots or hashes: *)
(* a response is paired with the request that waits with its id whenever   *)
(* there is one, a newer request takes the place of an older one with the  *)
(* same id, an answered request waits no longer, and a new request makes   *)
(* the correlator forget at most one that waits.                           *)
(***************************************************************************)
EXTENDS Integers, Sequences

CONSTANTS
  Ids,  \* the JSON-RPC ids
  NoId  \* a message without an id

VARIABLES
  heard,     \* the messages in the order they are processed: [type, id]
  waiting,   \* requests that wait for a response: [id, turn]
  answered   \* pairs of turns: <<request, response>>

vars == <<heard, waiting, answered>>

Init == heard = <<>> /\ waiting = {} /\ answered = {}

Hear(type, id) == heard' = Append(heard, [type |-> type, id |-> id])

WaitingFor(id) == {w \in waiting : w.id = id}

\* A request: one with its id is replaced, or else one other may be forgotten.
Ask(id) ==
  /\ Hear("request", id)
  /\ \E lost \in SUBSET waiting :
       /\ \A v, w \in lost : v = w
       /\ WaitingFor(id) \subseteq lost
       /\ waiting' = (waiting \ lost) \union {[id |-> id, turn |-> Len(heard')]}
  /\ UNCHANGED answered

\* A response to the waiting request w.
Answer(w) ==
  /\ Hear("response", w.id)
  /\ waiting' = waiting \ {w}
  /\ answered' = answered \union {<<w.turn, Len(heard')>>}

\* A response that no request waits for.
Stray(id) ==
  /\ WaitingFor(id) = {}
  /\ Hear("response", id)
  /\ UNCHANGED <<waiting, answered>>

\* A message without an id.
Notify == Hear("notification", NoId) /\ UNCHANGED <<waiting, answered>>

Next ==
  \/ \E id \in Ids : Ask(id) \/ Stray(id)
  \/ \E w \in waiting : Answer(w)
  \/ Notify

Spec == Init /\ [][Next]_vars
=============================================================================
