------------------------------ MODULE LiveFeed ------------------------------
(***************************************************************************)
(* What the live feed promises to a dashboard, without locks, goroutines   *)
(* and channels.  A message is published to all that are present at once,  *)
(* and each of them is given what it is owed, in order.  A client misses a *)
(* message only when SendCap others wait for it, and must leave then; one  *)
(* whose connection is sound leaves for no other reason, and not before it *)
(* was given all that it was owed.                                         *)
(***************************************************************************)
EXTENDS Integers, Sequences, SequencesExt

CONSTANTS
  Conns,    \* the connections
  Flaky,    \* those that may fail
  SendCap   \* messages that may wait for a client

VARIABLES
  sent,      \* messages published; the k-th one is the number k
  status,    \* of a client: "outside", "following", "slow", "leaving", "ended"
  owed,      \* what a client is still to be given
  delivered  \* what it was given

vars == <<sent, status, owed, delivered>>

Init ==
  /\ sent = 0 /\ status = [c \in Conns |-> "outside"]
  /\ owed = [c \in Conns |-> <<>>] /\ delivered = [c \in Conns |-> <<>>]

Present(c) == status[c] \in {"following", "slow"}
Served(c) == status[c] \in {"following", "slow", "leaving"}

Join(c) ==
  /\ status[c] = "outside"
  /\ status' = [status EXCEPT ![c] = "following"]
  /\ UNCHANGED <<sent, owed, delivered>>

Publish ==
  /\ sent' = sent + 1
  /\ owed' = [c \in Conns |-> IF Present(c) THEN Append(owed[c], sent') ELSE owed[c]]
  /\ UNCHANGED <<status, delivered>>

\* Too much waits: the client misses the last message.
Miss(c) ==
  /\ Present(c) /\ Len(owed[c]) > SendCap
  /\ status' = [status EXCEPT ![c] = "slow"]
  /\ owed' = [owed EXCEPT ![c] = Front(@)]
  /\ UNCHANGED <<sent, delivered>>

Give(c) ==
  /\ Served(c) /\ owed[c] # <<>>
  /\ delivered' = [delivered EXCEPT ![c] = Append(@, Head(owed[c]))]
  /\ owed' = [owed EXCEPT ![c] = Tail(@)]
  /\ UNCHANGED <<sent, status>>

\* Nothing that is published from now on is for the client.
Leave(c) ==
  /\ status[c] = "slow" \/ (status[c] = "following" /\ c \in Flaky)
  /\ status' = [status EXCEPT ![c] = "leaving"]
  /\ UNCHANGED <<sent, owed, delivered>>

\* Nothing more is given to it.
End(c) ==
  /\ Served(c)
  /\ c \in Flaky \/ (status[c] = "leaving" /\ owed[c] = <<>>)
  /\ status' = [status EXCEPT ![c] = "ended"]
  /\ owed' = [owed EXCEPT ![c] = <<>>]
  /\ UNCHANGED <<sent, delivered>>

Next ==
  \/ Publish
  \/ \E c \in Conns : Join(c) \/ Miss(c) \/ Give(c) \/ Leave(c) \/ End(c)

Spec == Init /\ [][Next]_vars
=============================================================================
