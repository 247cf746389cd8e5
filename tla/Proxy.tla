------------------------------- MODULE Proxy -------------------------------
(***************************************************************************)
(* The HTTP proxy transport (internal/transport/proxy.go), for one         *)
(* exchange: RoundTrip receives the whole request, lets the HTTP library   *)
(* send it to the target through a bodyInterceptor, and gives the          *)
(* response's body to the library through a second interceptor, of the     *)
(* kind that the content type asks for.  An interceptor keeps what it      *)
(* hands on until a line is complete.                                      *)
(*                                                                         *)
(* The library sends the request in one goroutine and copies the response  *)
(* in another one; both read through the interceptors in pieces of their   *)
(* own choice.  Exchanges share nothing but the channel, at which a        *)
(* message never waits: that is in Pipeline.                               *)
(***************************************************************************)
EXTENDS Integers, Sequences, SequencesExt

CONSTANTS
  Objects,    \* JSON objects without a line feed
  Exchanges,  \* bound: the bodies of a request and of its response
  MaxPiece,   \* bytes that the library reads at once (32 KB)
  Limit,      \* bytes that an interceptor keeps (10 MB)
  WireBuffer  \* bytes of a request that the library holds back until its end (4 KB)

Directions == {"IN", "OUT"}

\* What bodies are made of: white space, the record separator of json-seq, the
\* "data:" of an event stream, objects, and anything else.
Pieces == {"lf", "blank", "rs", "data", "other"} \union Objects

ASSUME ProxyAssumption ==
  /\ MaxPiece \in Nat \ {0} /\ Limit \in Nat \ {0} /\ WireBuffer \in Nat
  /\ Exchanges \subseteq [Directions -> Seq(Pieces)]

VARIABLES
  body,      \* what the client and the target send
  framing,   \* of the request: "length" or "chunked"
  kind,      \* of the response: "stream" or "body"
  patient,   \* the target answers only when it has the whole request
  client,    \* "open" or "gone"
  link,      \* the connection to the target: "up" or "broken"
  trip,      \* RoundTrip and the copy that follows it: "receiving", "sending",
             \* "copying", "done"
  got,       \* bytes of the request that ReadAll has received
  moved,     \* bytes of each body that were handed on
  ended,     \* how the reading of each body ended: "open", "eof", "error", "limit"
  buf,       \* the interceptors' buffers
  captured   \* what was handed to the channel: [dir, object]

vars == <<body, framing, kind, patient, client, link, trip, got, moved, ended, buf, captured>>
world == <<body, framing, kind, patient>>

-----------------------------------------------------------------------------
(***************************************************************************)
(* Slips: what a plausible mistake would make of a definition below.  The  *)
(* specification does not use them; each one breaks a property.            *)
(***************************************************************************)

\* The limit is one of the whole body.
TooLongBody(d, n) == n > 0 /\ moved[d] + n > Limit

\* A last line without a line feed is forgotten.
LeftoverForgotten(d, st) == st

\* Lines are looked for at the end of the body only.
SplitLater(d, st, data) == [st EXCEPT !.buf = @ \o data]

-----------------------------------------------------------------------------
Init ==
  /\ body \in Exchanges
  /\ framing \in {"length", "chunked"} /\ kind \in {"stream", "body"} /\ patient \in BOOLEAN
  /\ client = "open" /\ link = "up" /\ trip = "receiving" /\ got = 0
  /\ moved = [d \in Directions |-> 0] /\ ended = [d \in Directions |-> "open"]
  /\ buf = [d \in Directions |-> <<>>] /\ captured = <<>>

\* bytes.TrimSpace and bytes.TrimPrefix
TrimSpace(s) ==
  LET Solid == {i \in DOMAIN s : s[i] \notin {"blank", "lf"}}
  IN  IF Solid = {} THEN <<>> ELSE SubSeq(s, Min(Solid), Max(Solid))
TrimPrefix(s, piece) == IF s # <<>> /\ s[1] = piece THEN Tail(s) ELSE s

\* What the parser is given of a line: an event stream's line without its "data:", if
\* an object begins there, and any other line as it is.
Payload(d, line) ==
  LET payload == IF line # <<>> /\ line[1] = "data" THEN TrimSpace(Tail(line)) ELSE line
  IN  CASE d = "IN" \/ kind = "body" -> line
        [] d = "OUT" /\ kind = "stream" ->
             IF payload # <<>> /\ payload[1] \in Objects THEN payload ELSE <<>>

\* The messages of a line: one if the parser finds an object and nothing else.
MessagesOf(d, line) ==
  LET text == TrimSpace(Payload(d, TrimPrefix(TrimSpace(line), "rs")))
  IN  IF Len(text) = 1 /\ text[1] \in Objects THEN <<[dir |-> d, object |-> text[1]]>> ELSE <<>>

\* The loop over the complete lines of the buffer.
Take(d, st, piece) ==
  IF piece = "lf"
  THEN [buf |-> <<>>, captured |-> st.captured \o MessagesOf(d, st.buf)]
  ELSE [st EXCEPT !.buf = Append(@, piece)]
Split(d, st, data) == FoldLeft(LAMBDA s, piece : Take(d, s, piece), st, data)

\* At the end of the body, the rest of the buffer is a line.
Leftover(d, st) == [buf |-> <<>>, captured |-> st.captured \o MessagesOf(d, st.buf)]

\* What the interceptor refuses to keep.
TooLong(d, n) == n > 0 /\ Len(buf[d]) + n > Limit

\* An interceptor's Read hands on n bytes, unless they are too many, and learns whether
\* the body goes on ("open"), is at its end ("eof") or has failed ("error").
Read(d, n, how) ==
  IF TooLong(d, n)
  THEN /\ ended' = [ended EXCEPT ![d] = "limit"]
       /\ UNCHANGED <<moved, buf, captured>>
  ELSE LET data == SubSeq(body[d], moved[d] + 1, moved[d] + n)
           lines == Split(d, [buf |-> buf[d], captured |-> captured], data)
           st == IF how = "eof" THEN Leftover(d, lines) ELSE lines
       IN  /\ moved' = [moved EXCEPT ![d] = @ + n]
           /\ ended' = [ended EXCEPT ![d] = how]
           /\ buf' = [buf EXCEPT ![d] = st.buf]
           /\ captured' = st.captured

\* RoundTrip receives the request.  It takes what it has received for all of it, also
\* when the client has gone in the middle.
Receive(n) ==
  /\ trip = "receiving"
  /\ got' = n
  /\ client' = IF n < Len(body["IN"]) THEN "gone" ELSE client
  /\ trip' = "sending"
  /\ UNCHANGED <<world, link, moved, ended, buf, captured>>

Sending == trip # "receiving" /\ ended["IN"] = "open"

\* The library reads a piece of the request to send it.  It gives up the connection if
\* it gets an error instead.
SendPiece(n) ==
  /\ Sending /\ link = "up" /\ moved["IN"] + n <= got
  /\ Read("IN", n, "open")
  /\ link' = IF TooLong("IN", n) THEN "broken" ELSE link
  /\ UNCHANGED <<world, client, trip, got>>

\* It reads the request's end, and gives up the connection if the request is shorter
\* than it was said to be.
SendEnd ==
  /\ Sending /\ link = "up" /\ moved["IN"] = got
  /\ Read("IN", 0, "eof")
  /\ link' = IF framing = "length" /\ got < Len(body["IN"]) THEN "broken" ELSE link
  /\ UNCHANGED <<world, client, trip, got>>

\* The library stops sending: the connection has failed or the exchange is over.
SendFails ==
  /\ Sending /\ (link = "broken" \/ trip = "done")
  /\ ended' = [ended EXCEPT !["IN"] = "error"]
  /\ UNCHANGED <<world, client, link, trip, got, moved, buf, captured>>

\* The target has the whole request.  One that is small is held back until its end was
\* read; of a larger one, the bytes are on the wire when they were read.
Arrived ==
  \/ ended["IN"] = "eof"
  \/ framing = "length" /\ moved["IN"] = Len(body["IN"]) /\ got > WireBuffer

\* The target answers, and RoundTrip returns the response to be copied.
Answer ==
  /\ trip = "sending" /\ link = "up" /\ (patient => Arrived)
  /\ trip' = "copying"
  /\ UNCHANGED <<world, client, link, got, moved, ended, buf, captured>>

\* RoundTrip returns an error.
Fail ==
  /\ trip = "sending" /\ (link = "broken" \/ client = "gone")
  /\ trip' = "done"
  /\ UNCHANGED <<world, client, link, got, moved, ended, buf, captured>>

\* The library copies a piece of the response to the client.  The copy ends with the
\* body, with an error of either side, or with one of the interceptor.
CopyPiece(n, how) ==
  /\ trip = "copying"
  /\ moved["OUT"] + n <= Len(body["OUT"])
  /\ how = "open" => n > 0
  /\ how = "eof" => moved["OUT"] + n = Len(body["OUT"])
  /\ how = "error" => link = "broken" \/ client = "gone"
  /\ Read("OUT", n, how)
  /\ trip' = IF ended'["OUT"] # "open" \/ client = "gone" THEN "done" ELSE trip
  /\ UNCHANGED <<world, client, link, got>>

\* The other programs leave.
ClientLeaves ==
  /\ client = "open" /\ trip \in {"sending", "copying"}
  /\ client' = "gone"
  /\ UNCHANGED <<world, link, trip, got, moved, ended, buf, captured>>

LinkBreaks ==
  /\ link = "up" /\ trip \in {"sending", "copying"}
  /\ link' = "broken"
  /\ UNCHANGED <<world, client, trip, got, moved, ended, buf, captured>>

Finished == trip = "done" /\ ended["IN"] # "open" /\ UNCHANGED vars

Next ==
  \/ \E n \in 0 .. Len(body["IN"]) : Receive(n)
  \/ \E n \in 1 .. MaxPiece : SendPiece(n)
  \/ SendEnd \/ SendFails \/ Answer \/ Fail
  \/ \E n \in 0 .. MaxPiece, how \in {"open", "eof", "error"} : CopyPiece(n, how)
  \/ ClientLeaves \/ LinkBreaks
  \/ Finished

Spec == Init /\ [][Next]_vars

-----------------------------------------------------------------------------
(***************************************************************************)
(* Properties.                                                             *)
(***************************************************************************)

\* The line that ends before a place: what lies between the last line feed before that
\* place and the place.
LineAt(s, i) ==
  LET Feeds == {j \in 1 .. Len(s) : j < i /\ s[j] = "lf"}
  IN  SubSeq(s, Max({0} \union Feeds) + 1, i - 1)

\* The places where the lines of a body end that were handed on: at line feeds, and at the
\* end of the body if that was read.
LineEnds(d) ==
  {i \in 1 .. moved[d] : body[d][i] = "lf"}
    \union (IF ended[d] = "eof" THEN {moved[d] + 1} ELSE {})

\* Wherever the library cuts a body, and wherever it is broken off: the messages that
\* were captured are those of the complete lines that were handed on, each once and in
\* their order, and the last line counts exactly when the body's end was read
\* (proxy.go:183-224, 241-297).
MessageAt(d, i) == MessagesOf(d, LineAt(body[d], i))
Telling(d) == {i \in LineEnds(d) : MessageAt(d, i) # <<>>}
CapturedOf(d) == {j \in DOMAIN captured : captured[j].dir = d}
CapturedIsPassed ==
  \A d \in Directions :
    \E place \in [CapturedOf(d) -> Telling(d)] :
      /\ \A j, k \in CapturedOf(d) : j < k => place[j] < place[k]
      /\ \A i \in Telling(d) : \E j \in CapturedOf(d) : place[j] = i
      /\ \A j \in CapturedOf(d) : MessageAt(d, place[j]) = <<captured[j]>>

\* Watching aborts an exchange only for a line that, with a piece, does not fit the
\* buffer; a body may be of any length (proxy.go:179, 237).
OnlyLongLinesAbort ==
  \A d \in Directions :
    ended[d] = "limit" =>
      \E i \in 1 .. Len(body[d]) + 1 :
        /\ i <= Len(body[d]) => body[d][i] = "lf"
        /\ Len(LineAt(body[d], i)) > Limit - MaxPiece

\* If the target waits for the whole request, and that ends with a line feed or is small,
\* what it asks is captured before what is answered; the correlator relies on that
\* order (proxy.go:207; correlator.go:78).
RequestFirst ==
  patient /\ (Len(body["IN"]) <= WireBuffer \/ Last(body["IN"]) = "lf") =>
    \A i, j \in DOMAIN captured :
      captured[i].dir = "OUT" /\ captured[j].dir = "IN" => j < i
=============================================================================
