------------------------------- MODULE Socket -------------------------------
(***************************************************************************)
(* The socket transport (internal/transport/socket.go): Start accepts a    *)
(* client on one Unix socket, handleConnection dials the target on another *)
(* and starts a copying goroutine per direction, whose writes go through a *)
(* socketInterceptor that keeps the lines of what was passed on.  The      *)
(* first of the two that ends, or the context, makes handleConnection      *)
(* close both connections, which ends the other one.                       *)
(*                                                                         *)
(* One connection is modelled: connections share the listener and the      *)
(* context and nothing else.  Handing a line to the parser and the channel *)
(* never waits, and is in Pipeline.                                        *)
(***************************************************************************)
EXTENDS Integers, Sequences, SequencesExt

CONSTANTS
  SockCap,   \* bytes that a socket holds for a program that does not read
  Texts      \* bound: what may be written in each direction, with all its prefixes

Directions == {"IN", "OUT"}
Peers == {"client", "target"}

\* A line feed, and everything else.
Bytes == {"lf", "x"}

ASSUME SocketAssumption ==
  SockCap \in Nat \ {0} /\ Texts \in [Directions -> SUBSET Seq(Bytes)]

Source(d) == IF d = "IN" THEN "client" ELSE "target"
Sink(d) == IF d = "IN" THEN "target" ELSE "client"
Opposite(d) == IF d = "IN" THEN "OUT" ELSE "IN"

VARIABLES
  ctxDone,    \* the context is cancelled
  listening,  \* the listener is open
  start,      \* Start: "accepting" or "returned"
  handler,    \* handleConnection: "none", "queued" (not accepted yet), "refused",
              \* "dialing", "serving" (its select), "closing" or "done"
  peer,       \* the other programs: "none", "open", "shut" (writes no more), "closed"
  conn,       \* clientConn and targetConn: "none", "open" or "closed"
  copier,     \* io.Copy: "none", "reading", "writing", "reporting" or "done"
  errs,       \* values in errChan
  sent,       \* what was written in each direction
  read,       \* how many of these bytes the copier has read
  passed,     \* how many of them the socket on the other side has taken
  taken,      \* how many of them the program on the other side has read
  recorded,   \* how many of them the interceptor has put into its buffer
  buf,        \* socketInterceptor.buf
  found       \* the lines it has handed to the parser

vars == <<ctxDone, listening, start, handler, peer, conn, copier, errs, sent, read, passed,
          taken, recorded, buf, found>>
startVars == <<ctxDone, listening, start>>
recordVars == <<recorded, buf, found>>
byteVars == <<sent, read, passed, taken>>

-----------------------------------------------------------------------------
(***************************************************************************)
(* Slips: what a plausible mistake would make of a definition below.  The  *)
(* specification does not use them; each one breaks a property.            *)
(***************************************************************************)

\* The interceptor keeps all of what it was given, passed on or not.
WrittenAssumed(d) == SubSeq(sent[d], recorded[d] + 1, read[d])

\* errChan is not buffered.
CanReportToSelect == handler = "serving"

\* handleConnection does not wait for its goroutines.
CopyEndedUnasked == TRUE

\* handleConnection does not look at the context.
CancelUnseen == FALSE

-----------------------------------------------------------------------------
Init ==
  /\ ctxDone = FALSE /\ listening = TRUE /\ start = "accepting" /\ handler = "none"
  /\ peer = [p \in Peers |-> "none"] /\ conn = [p \in Peers |-> "none"]
  /\ copier = [d \in Directions |-> "none"] /\ errs = 0
  /\ sent = [d \in Directions |-> <<>>] /\ read = [d \in Directions |-> 0]
  /\ passed = [d \in Directions |-> 0] /\ taken = [d \in Directions |-> 0]
  /\ recorded = [d \in Directions |-> 0]
  /\ buf = [d \in Directions |-> <<>>] /\ found = [d \in Directions |-> <<>>]

\* The other programs: a client connects, both write, read, shut their side and leave.
Connect ==
  /\ handler = "none" /\ listening
  /\ handler' = "queued"
  /\ peer' = [peer EXCEPT !["client"] = "open"]
  /\ UNCHANGED <<startVars, conn, copier, errs, byteVars, recordVars>>

PeerWrites(d, byte) ==
  /\ peer[Source(d)] = "open" /\ conn[Source(d)] # "closed" /\ handler # "refused"
  /\ Append(sent[d], byte) \in Texts[d]
  /\ sent' = [sent EXCEPT ![d] = Append(@, byte)]
  /\ UNCHANGED <<startVars, handler, peer, conn, copier, errs, read, passed, taken, recordVars>>

PeerReads(d) ==
  /\ peer[Sink(d)] \in {"open", "shut"} /\ taken[d] < passed[d]
  /\ taken' = [taken EXCEPT ![d] = @ + 1]
  /\ UNCHANGED <<startVars, handler, peer, conn, copier, errs, sent, read, passed, recordVars>>

PeerLeaves(p) ==
  /\ \/ peer[p] = "open" /\ peer' = [peer EXCEPT ![p] = "shut"]
     \/ peer[p] \in {"open", "shut"} /\ peer' = [peer EXCEPT ![p] = "closed"]
  /\ UNCHANGED <<startVars, handler, conn, copier, errs, byteVars, recordVars>>

Cancel ==
  /\ ~ctxDone
  /\ ctxDone' = TRUE
  /\ UNCHANGED <<listening, start, handler, peer, conn, copier, errs, byteVars, recordVars>>

\* A closed listener refuses the client it has not accepted.
Refused == IF handler = "queued" THEN "refused" ELSE handler

\* The goroutine that waits for the context.
CloseListener ==
  /\ ctxDone /\ listening
  /\ listening' = FALSE
  /\ handler' = Refused
  /\ UNCHANGED <<ctxDone, start, peer, conn, copier, errs, byteVars, recordVars>>

Accept ==
  /\ start = "accepting" /\ handler = "queued"
  /\ handler' = "dialing"
  /\ conn' = [conn EXCEPT !["client"] = "open"]
  /\ UNCHANGED <<startVars, peer, copier, errs, byteVars, recordVars>>

\* Accept fails: Start returns if the context is done, and tries again otherwise.
AcceptFails ==
  /\ start = "accepting" /\ ctxDone
  /\ start' = "returned"
  /\ listening' = FALSE
  /\ handler' = Refused
  /\ UNCHANGED <<ctxDone, peer, conn, copier, errs, byteVars, recordVars>>

\* On a closed listener it does fail.
AcceptOnClosed == ~listening /\ AcceptFails

\* A dial with a context that is done fails.
DialOk ==
  /\ handler = "dialing" /\ ~ctxDone
  /\ handler' = "serving"
  /\ conn' = [conn EXCEPT !["target"] = "open"]
  /\ peer' = [peer EXCEPT !["target"] = "open"]
  /\ copier' = [d \in Directions |-> "reading"]
  /\ UNCHANGED <<startVars, errs, byteVars, recordVars>>

DialFails ==
  /\ handler = "dialing"
  /\ handler' = "closing"
  /\ UNCHANGED <<startVars, peer, conn, copier, errs, byteVars, recordVars>>

\* io.Copy reads as much as there is, or less.
CopyRead(d) ==
  /\ copier[d] = "reading" /\ conn[Source(d)] = "open"
  /\ \E n \in read[d] + 1 .. Len(sent[d]) : read' = [read EXCEPT ![d] = n]
  /\ copier' = [copier EXCEPT ![d] = "writing"]
  /\ UNCHANGED <<startVars, handler, peer, conn, errs, sent, passed, taken, recordVars>>

\* The end of the stream, or a connection that was closed.
CopyReadEnds(d) ==
  /\ copier[d] = "reading"
  /\ \/ conn[Source(d)] = "closed"
     \/ peer[Source(d)] \in {"shut", "closed"} /\ read[d] = Len(sent[d])
  /\ copier' = [copier EXCEPT ![d] = "reporting"]
  /\ UNCHANGED <<startVars, handler, peer, conn, errs, byteVars, recordVars>>

SinkOpen(d) == conn[Sink(d)] = "open" /\ peer[Sink(d)] # "closed"

\* The embedded Writer's Write, byte by byte.
PassByte(d) ==
  /\ copier[d] = "writing" /\ passed[d] < read[d]
  /\ SinkOpen(d) /\ passed[d] - taken[d] < SockCap
  /\ passed' = [passed EXCEPT ![d] = @ + 1]
  /\ UNCHANGED <<startVars, handler, peer, conn, copier, errs, sent, read, taken, recordVars>>

\* What Write says that it has written of its argument: p[:n].
Written(d) == SubSeq(sent[d], recorded[d] + 1, passed[d])

\* An empty line is none.
Line(line) == IF line = <<>> THEN <<>> ELSE <<line>>

\* The interceptor's loop: each line feed ends a line of the buffer.
Take(st, byte) ==
  IF byte = "lf" THEN [buf |-> <<>>, found |-> st.found \o Line(st.buf)]
                 ELSE [st EXCEPT !.buf = Append(@, byte)]

Record(d) ==
  LET st == FoldLeft(Take, [buf |-> buf[d], found |-> found[d]], Written(d))
  IN  /\ recorded' = [recorded EXCEPT ![d] = @ + Len(Written(d))]
      /\ buf' = [buf EXCEPT ![d] = st.buf]
      /\ found' = [found EXCEPT ![d] = st.found]

\* Write returns after its last byte, or with an error and what it has done so far.
WriteReturns(d) ==
  /\ copier[d] = "writing"
  /\ \/ passed[d] = read[d] /\ copier' = [copier EXCEPT ![d] = "reading"]
     \/ passed[d] < read[d] /\ ~SinkOpen(d) /\ copier' = [copier EXCEPT ![d] = "reporting"]
  /\ Record(d)
  /\ UNCHANGED <<startVars, handler, peer, conn, errs, byteVars>>

\* A goroutine sends its result and ends.
CanReport == errs < 2

Report(d) ==
  /\ copier[d] = "reporting" /\ CanReport
  /\ copier' = [copier EXCEPT ![d] = "done"]
  /\ errs' = errs + 1
  /\ UNCHANGED <<startVars, handler, peer, conn, byteVars, recordVars>>

\* The cases of handleConnection's select.
CopyEnded == errs > 0
Cancelled == ctxDone

StopServing ==
  /\ handler = "serving"
  /\ \/ CopyEnded /\ errs' = errs - 1
     \/ Cancelled /\ UNCHANGED errs
  /\ handler' = "closing"
  /\ UNCHANGED <<startVars, peer, conn, copier, byteVars, recordVars>>

\* The deferred calls: both connections are closed, the target's first.
CloseBoth ==
  /\ handler = "closing"
  /\ handler' = "done"
  /\ conn' = [p \in Peers |-> IF conn[p] = "open" THEN "closed" ELSE conn[p]]
  /\ UNCHANGED <<startVars, peer, copier, errs, byteVars, recordVars>>

\* No goroutine of the transport is left.
Over ==
  /\ handler \in {"none", "refused", "done"}
  /\ \A d \in Directions : copier[d] \in {"none", "done"}

Finished == start = "returned" /\ Over /\ UNCHANGED vars

CopyStep(d) == CopyRead(d) \/ CopyReadEnds(d) \/ PassByte(d) \/ WriteReturns(d) \/ Report(d)
HandlerStep == DialOk \/ DialFails \/ StopServing \/ CloseBoth

Next ==
  \/ Connect \/ Cancel \/ CloseListener \/ Accept \/ AcceptFails
  \/ DialOk \/ DialFails \/ StopServing \/ CloseBoth
  \/ \E p \in Peers : PeerLeaves(p)
  \/ \E d \in Directions :
       \/ \E byte \in Bytes : PeerWrites(d, byte)
       \/ PeerReads(d)
       \/ CopyRead(d) \/ CopyReadEnds(d) \/ PassByte(d) \/ WriteReturns(d) \/ Report(d)
  \/ Finished

Spec == Init /\ [][Next]_vars

\* The goroutines are scheduled; the programs on both sides do as they like.
FairSpec ==
  /\ Spec
  /\ WF_vars(CloseListener) /\ WF_vars(Accept) /\ WF_vars(AcceptOnClosed)
  /\ WF_vars(HandlerStep)
  /\ \A d \in Directions : WF_vars(CopyStep(d))

\* The programs on both sides read what they are sent.
PeersRead == \A d \in Directions : WF_vars(PeerReads(d))

-----------------------------------------------------------------------------
(***************************************************************************)
(* Properties.                                                             *)
(***************************************************************************)

\* The lines of a stream, by the places of its line feeds.
LinesOf(s) ==
  LET Feeds == {i \in DOMAIN s : s[i] = "lf"}
      Before(i) == Max({0} \union {j \in Feeds : j < i})
  IN  FoldLeft(LAMBDA ls, i : ls \o IF i \in Feeds THEN Line(SubSeq(s, Before(i) + 1, i - 1))
                                                 ELSE <<>>,
               <<>>, [i \in DOMAIN s |-> i])

\* However a stream is cut into pieces, and wherever a write fails: outside Write, the
\* lines that were captured are the lines of exactly what was passed on.
SeenIsPassed ==
  \A d \in Directions :
    copier[d] # "writing" => found[d] = LinesOf(SubSeq(sent[d], 1, passed[d]))

\* A program that writes and leaves is heard to its last byte, if the other one stays
\* and says nothing that the leaver would refuse to read.
LastWordsPassed ==
  \A d \in Directions :
    /\ handler \in {"closing", "done"} /\ conn["target"] # "none" /\ ~ctxDone
    /\ sent[Opposite(d)] = <<>> /\ peer[Sink(d)] = "open"
    => passed[d] = Len(sent[d])

\* When one program leaves, the other is told, as long as programs read.  Nothing stays
\* behind: no goroutine waits forever to report to a handleConnection that has returned.
LeaverNoticed ==
  PeersRead =>
    \A p \in Peers : (peer[p] \in {"shut", "closed"} /\ handler = "serving") ~> Over

\* A cancelled context ends everything, whatever the programs on both sides do, also
\* a Write to one that does not read.
CancelEndsAll == ctxDone ~> (start = "returned" /\ Over)
=============================================================================
