------------------------------- MODULE Stdio -------------------------------
(***************************************************************************)
(* The stdio transport (internal/transport/stdio.go): the wrapped command  *)
(* and MCPWatch are joined by three pipes, and each stream has a goroutine *)
(* whose scanner reads through a TeeReader, so that every byte is passed   *)
(* on before the scanner sees it.  A scanner ends for good at a line that  *)
(* does not fit its buffer, and with it ends the forwarding.  Standard     *)
(* input's goroutine then closes the command's input; Start, which scans   *)
(* standard output itself, then calls cmd.Wait, and Wait closes the pipes  *)
(* once the command has exited.                                            *)
(*                                                                         *)
(* Bytes move one at a time: a scanner that reads many at once does what   *)
(* it would do after reading them one by one.  The client reads whatever   *)
(* it is passed.  Handing a line to the parser and the channel never       *)
(* waits, and is in Pipeline.                                              *)
(***************************************************************************)
EXTENDS Integers, Sequences, SequencesExt

CONSTANTS
  PipeCap,   \* bytes that a pipe holds
  LineLimit, \* bytes that a scanner's buffer holds (1 MB)
  MaxBytes   \* bound: bytes of each stream

Streams == {"in", "out", "err"}

ASSUME StdioAssumption ==
  PipeCap \in Nat \ {0} /\ LineLimit \in Nat \ {0} /\ MaxBytes \in [Streams -> Nat]

Bytes == {"x", "lf"}

VARIABLES
  sent,       \* what the client wrote on "in", the command on "out" and "err"
  forwarded,  \* how many of them a goroutine has passed on
  received,   \* how many bytes of its input the command has read
  clientDone, \* the client has closed its end of standard input
  command,    \* "running", "writing" (in a write that has yet to be done) or "exited"
  target,     \* the stream of the command's last write
  buf,        \* what each scanner has read of the line under way
  lines,      \* the lines each scanner has found
  scanner,    \* "reading", "ended", or "tooLong"
  inputOpen,  \* stdinPipe is not closed
  start       \* Start: "scanning" standard output, "waiting" in cmd.Wait, "returned"

vars == <<sent, forwarded, received, clientDone, command, target, buf, lines, scanner,
          inputOpen, start>>
commandVars == <<received, command, target>>
scanVars == <<forwarded, buf, lines, scanner, inputOpen, start>>

\* The bytes of a stream that wait to be read by its goroutine.
Waiting(s) == Len(sent[s]) - forwarded[s]

\* Bytes in the pipe to the command.
InPipe == forwarded["in"] - received

-----------------------------------------------------------------------------
(***************************************************************************)
(* Slips: what a plausible mistake would make of a definition below.  The  *)
(* specification does not use them; each one breaks a property.            *)
(***************************************************************************)

\* Start waits for the command without reading its output to the end.
OutputReadEarly == TRUE

\* A line that ends with the stream and not with a line feed is not a line.
LastLineOnlyComplete(line) == <<>>

\* The goroutine that scans standard input leaves the command's input open.
InputAfterLeft(s) == inputOpen

\* Standard error is read once standard output has come to its end.
CanForwardInTurn(s) ==
  /\ s = "in" => InPipe < PipeCap /\ command # "exited" /\ inputOpen
  /\ s = "err" => start # "scanning"

\* Start waits for standard input's goroutine too.
OutputAndInputRead == start = "waiting" /\ scanner["in"] # "reading"

-----------------------------------------------------------------------------
Init ==
  /\ sent = [s \in Streams |-> <<>>] /\ forwarded = [s \in Streams |-> 0]
  /\ received = 0 /\ clientDone = FALSE /\ command = "running" /\ target = "out"
  /\ buf = [s \in Streams |-> <<>>] /\ lines = [s \in Streams |-> <<>>]
  /\ scanner = [s \in Streams |-> "reading"]
  /\ inputOpen = TRUE /\ start = "scanning"

Send(s, byte) ==
  /\ Waiting(s) < PipeCap
  /\ sent' = [sent EXCEPT ![s] = Append(@, byte)]

ClientWrites(byte) ==
  /\ ~clientDone /\ Len(sent["in"]) < MaxBytes["in"]
  /\ Send("in", byte)
  /\ UNCHANGED <<clientDone, commandVars, scanVars>>

ClientCloses ==
  /\ ~clientDone
  /\ clientDone' = TRUE
  /\ UNCHANGED <<sent, commandVars, scanVars>>

CommandReads ==
  /\ command = "running" /\ InPipe > 0
  /\ received' = received + 1
  /\ UNCHANGED <<sent, clientDone, command, target, scanVars>>

\* The command writes, and waits while the pipe is full.
CommandBeginsWrite(s) ==
  /\ command = "running" /\ Len(sent[s]) < MaxBytes[s]
  /\ command' = "writing"
  /\ target' = s
  /\ UNCHANGED <<sent, clientDone, received, scanVars>>

CommandWrites(byte) ==
  /\ command = "writing"
  /\ Send(target, byte)
  /\ command' = "running"
  /\ UNCHANGED <<clientDone, received, target, scanVars>>

CommandExits ==
  /\ command = "running"
  /\ command' = "exited"
  /\ UNCHANGED <<sent, clientDone, received, target, scanVars>>

\* The context is cancelled, and the command is killed.
Kill ==
  /\ command # "exited"
  /\ command' = "exited"
  /\ UNCHANGED <<sent, clientDone, received, target, scanVars>>

\* Whether a goroutine can pass a byte on: the client takes all, the command's input
\* has a pipe.
CanForward(s) == s = "in" => InPipe < PipeCap /\ command # "exited" /\ inputOpen

\* Wait has closed the read ends of the command's pipes.
ReadEndOpen(s) == s = "in" \/ start # "returned"

\* The scanner's buffer is full and holds no line feed.
TooLong(line) == Len(line) >= LineLimit

\* What becomes of the command's input and of Start when a scanner ends.
InputAfter(s) == inputOpen /\ s # "in"
StartAfter(s) == IF s = "out" THEN "waiting" ELSE start

\* A scanner's goroutine reads a byte and passes it on; a line feed ends a line, and
\* with a line that is too long the scanner ends.
Forward(s) ==
  /\ scanner[s] = "reading" /\ Waiting(s) > 0 /\ ReadEndOpen(s) /\ CanForward(s)
  /\ forwarded' = [forwarded EXCEPT ![s] = @ + 1]
  /\ LET byte == sent[s][forwarded[s] + 1]
         line == Append(buf[s], byte)
     IN  \/ /\ byte = "lf"
            /\ lines' = [lines EXCEPT ![s] = Append(@, buf[s])]
            /\ buf' = [buf EXCEPT ![s] = <<>>]
            /\ UNCHANGED <<scanner, inputOpen, start>>
         \/ /\ byte # "lf" /\ ~TooLong(line)
            /\ buf' = [buf EXCEPT ![s] = line]
            /\ UNCHANGED <<lines, scanner, inputOpen, start>>
         \/ /\ byte # "lf" /\ TooLong(line)
            /\ buf' = [buf EXCEPT ![s] = line]
            /\ scanner' = [scanner EXCEPT ![s] = "tooLong"]
            /\ inputOpen' = InputAfter(s) /\ start' = StartAfter(s)
            /\ UNCHANGED lines
  /\ UNCHANGED <<sent, clientDone, commandVars>>

\* No further byte can be passed on: the writer has closed the stream and it is read,
\* the command's input is broken, or Wait has closed the pipe.
StreamOver(s) ==
  \/ ~ReadEndOpen(s)
  \/ s = "in" /\ Waiting(s) = 0 /\ clientDone
  \/ s = "in" /\ Waiting(s) > 0 /\ (command = "exited" \/ ~inputOpen)
  \/ s # "in" /\ Waiting(s) = 0 /\ command = "exited"

\* The line that is left when the stream is over, if there is one.
LastLine(line) == IF line = <<>> THEN <<>> ELSE <<line>>

\* A scanner ends with its stream.
End(s) ==
  /\ scanner[s] = "reading" /\ StreamOver(s)
  /\ scanner' = [scanner EXCEPT ![s] = "ended"]
  /\ lines' = [lines EXCEPT ![s] = @ \o LastLine(buf[s])]
  /\ buf' = [buf EXCEPT ![s] = <<>>]
  /\ inputOpen' = InputAfter(s) /\ start' = StartAfter(s)
  /\ UNCHANGED <<sent, clientDone, commandVars, forwarded>>

\* Start reads standard output to its end before it waits.
OutputRead == start = "waiting"

\* cmd.Wait: the command has exited, and the pipes are closed.
Wait ==
  /\ OutputRead /\ start # "returned" /\ command = "exited"
  /\ start' = "returned"
  /\ inputOpen' = FALSE
  /\ UNCHANGED <<sent, clientDone, commandVars, forwarded, buf, lines, scanner>>

\* Start has returned, and no goroutine has anything left to do.
Finished ==
  /\ start = "returned" /\ scanner["err"] # "reading"
  /\ UNCHANGED vars

Next ==
  \/ \E byte \in Bytes : ClientWrites(byte) \/ CommandWrites(byte)
  \/ ClientCloses \/ CommandReads \/ CommandExits \/ Kill
  \/ \E s \in {"out", "err"} : CommandBeginsWrite(s)
  \/ \E s \in Streams : Forward(s) \/ End(s)
  \/ Wait \/ Finished

Spec == Init /\ [][Next]_vars

\* The goroutines are scheduled and the kernel does a write for which there is room.
\* Nothing is said of what the client and the command want to do.
FairSpec ==
  /\ Spec
  /\ \A s \in Streams : WF_vars(Forward(s) \/ End(s))
  /\ WF_vars(Wait) /\ WF_vars(\E byte \in Bytes : CommandWrites(byte))

-----------------------------------------------------------------------------
(***************************************************************************)
(* Properties.                                                             *)
(***************************************************************************)

\* The bytes of a stream that were passed on.
Passed(s) == SubSeq(sent[s], 1, forwarded[s])

\* A sequence of bytes is cut at its line feeds; what follows the last one is the rest.
PutByte(cut, byte) ==
  IF byte = "lf" THEN [done |-> Append(cut.done, cut.rest), rest |-> <<>>]
                 ELSE [cut EXCEPT !.rest = Append(@, byte)]
Cut(bytes) == FoldLeft(PutByte, [done |-> <<>>, rest |-> <<>>], bytes)

\* The lines of a sequence of bytes, the last of which may lack its line feed.
LinesOf(bytes) ==
  Cut(bytes).done \o (IF Cut(bytes).rest = <<>> THEN <<>> ELSE <<Cut(bytes).rest>>)

\* When Start has returned, the client has been passed all that the command wrote on its
\* standard output, and every line of it was found, the last one without a line feed
\* too, unless a line was too long: Start reads to the end before it waits.
OutputComplete ==
  start = "returned" /\ scanner["out"] # "tooLong" =>
    Passed("out") = sent["out"] /\ lines["out"] = LinesOf(sent["out"])

\* Nothing passes by the observer: the lines found and the one under way are those of the
\* bytes that were passed on, on every stream, however its scanner ended; and a line is
\* left unfound only when it fills the buffer, which is when the scanner gives up: one
\* that is a byte shorter is found.
SeenIsPassed ==
  \A s \in Streams :
    /\ LinesOf(Passed(s)) = lines[s] \o (IF buf[s] = <<>> THEN <<>> ELSE <<buf[s]>>)
    /\ scanner[s] = "ended" => buf[s] = <<>>
    /\ scanner[s] = "tooLong" <=> Len(buf[s]) = LineLimit
    /\ \A i \in 1 .. Len(lines[s]) : Len(lines[s][i]) < LineLimit

\* A command that waits in a write goes on: the pipe is emptied, even when nobody takes
\* what the scanners find, unless a line was too long.
CommandGoesOn ==
  command = "writing" /\ scanner[target] # "tooLong" ~> (command # "writing" \/ scanner[target] = "tooLong")

\* The command's end is noticed: Start returns, even after a line that was too long.
ExitNoticed == (command = "exited") ~> (start = "returned")

\* The command is held in a write for ever: nobody reads the pipe since a line was too long.
Stuck == command = "writing" /\ scanner[target] = "tooLong" /\ Waiting(target) >= PipeCap

\* When the client closes standard input, the command finds its own input closed, if it
\* goes on reading what came before, between its writes, and does not exit or get stuck
\* behind a line that was too long.
CloseReachesCommand ==
  SF_vars(CommandReads) => (clientDone ~> (~inputOpen \/ command = "exited" \/ Stuck))
=============================================================================
