-------------------------------- MODULE Ebpf --------------------------------
(***************************************************************************)
(* The eBPF transport: the tracepoint programs of bpf/tracer.c copy what   *)
(* the traced process reads from its standard input and writes to its      *)
(* standard output and error into events, the kernel hands the events over *)
(* through one small ring per CPU and drops them when a ring is full, and  *)
(* the loop of ebpf_linux.go collects them in one buffer per stream and    *)
(* extracts JSON texts or lines from it.                                   *)
(*                                                                         *)
(* The traced process does its transfers one after the other, each on any  *)
(* CPU.  What it transfers on a stream is given by the items of which the  *)
(* stream is made, cut anywhere.                                           *)
(***************************************************************************)
EXTENDS StreamBuffer

CONSTANTS
  Fds,        \* the streams that are traced, of 0, 1 and 2
  Cpus,       \* the CPUs
  ChunkSize,  \* bytes of an event's payload (4096), a power of two
  RingCap,    \* events a ring holds (7 of the real size)
  Texts,      \* JSON texts that standard input and output are made of
  Garbage,    \* other pieces that they may hold between texts
  Lines,      \* lines that standard error is made of
  MaxItems,   \* bound: items of a stream
  MaxBytes,   \* bound: bytes of all streams together
  MaxTransfer, \* bound: bytes of one read or write
  MaxMishaps  \* bound: dropped events and short writes

ASSUME EbpfAssumption ==
  /\ Fds \subseteq 0 .. 2
  /\ ChunkSize \in Nat \ {0} /\ RingCap \in Nat \ {0}
  /\ Texts \subseteq Seq(Bytes) /\ Garbage \subseteq Seq(Bytes)
  /\ Lines \subseteq Seq(Bytes \ {"lf"})
  /\ MaxItems \in Nat /\ MaxBytes \in Nat /\ MaxTransfer \in Nat \ {0} /\ MaxMishaps \in Nat

\* Every text is a JSON text, and no text can begin in what stands between them.
ASSUME TextsAssumption ==
  /\ \A text \in Texts : IsText(text)
  /\ \A piece \in Garbage : \A i \in DOMAIN piece : piece[i] # "open"

VARIABLES
  items,   \* what each stream is made of
  moved,   \* bytes of each stream that the process has transferred
  rings,   \* the events in each CPU's ring: [fd, size, data]
  lost,    \* events dropped on each CPU and not yet reported
  buf,     \* streamBuffer.buf of each stream
  texts,   \* what was extracted from each stream
  mishaps, \* history: events dropped, and writes that transferred less than they were given
  copied,  \* history: the bytes that the tracer put into events
  seen     \* history: the bytes that the loop has read from events

vars == <<items, moved, rings, lost, buf, texts, mishaps, copied, seen>>

Events == [fd : Fds, data : Seq(Bytes)]

\* The bytes of a stream: a line feed ends each line of standard error.
BytesOf(fd, item) == IF fd = 2 THEN Append(item, "lf") ELSE item

Stream(fd) == FlattenSeq([k \in 1 .. Len(items[fd]) |-> BytesOf(fd, items[fd][k])])

ItemsOf(fd) == IF fd = 2 THEN Lines ELSE Texts \union Garbage

-----------------------------------------------------------------------------
Init ==
  /\ items \in [Fds -> BoundedSeq(Lines \union Texts \union Garbage, MaxItems)]
  /\ \A fd \in Fds : ToSet(items[fd]) \subseteq ItemsOf(fd)
  /\ MapThenSumSet(LAMBDA fd : Len(Stream(fd)), Fds) <= MaxBytes
  /\ moved = [fd \in Fds |-> 0]
  /\ rings = [cpu \in Cpus |-> <<>>] /\ lost = [cpu \in Cpus |-> 0]
  /\ buf = [fd \in Fds |-> <<>>] /\ texts = [fd \in Fds |-> <<>>]
  /\ mishaps = 0
  /\ copied = [fd \in Fds |-> <<>>] /\ seen = [fd \in Fds |-> <<>>]

\* len &= 4095
Captured(len) == len % ChunkSize

RingFull(cpu) == Len(rings[cpu]) >= RingCap

\* The start of data goes into an event, and the event into the CPU's ring or nowhere.
Output(fd, data, cpu, short) ==
  /\ copied' = [copied EXCEPT ![fd] = @ \o data]
  /\ \/ /\ ~RingFull(cpu)
        /\ rings' = [rings EXCEPT ![cpu] = Append(@, [fd |-> fd, data |-> data])]
        /\ mishaps' = mishaps + short
        /\ UNCHANGED lost
     \/ /\ RingFull(cpu)
        /\ lost' = [lost EXCEPT ![cpu] = @ + 1]
        /\ mishaps' = mishaps + short + 1
        /\ UNCHANGED rings
  /\ mishaps' <= MaxMishaps
  /\ UNCHANGED <<items, buf, texts, seen>>

\* The next len bytes of a stream, and of those what the tracer copies.
NextBytes(fd, len) == SubSeq(Stream(fd), moved[fd] + 1, moved[fd] + Captured(len))

\* A read, copied when it returns, or a write that transfers all it was given:
\* trace_read_enter and trace_read_exit, or trace_write.
Transfer(fd, len, cpu) ==
  /\ moved[fd] + len <= Len(Stream(fd))
  /\ moved' = [moved EXCEPT ![fd] = @ + len]
  /\ Output(fd, NextBytes(fd, len), cpu, 0)

\* trace_write copies when the write begins.  One that fails or transfers less than it
\* was given is copied in full nevertheless, and the process writes the rest again.
ShortWrite(fd, len, done, cpu) ==
  /\ fd # 0
  /\ moved[fd] + len <= Len(Stream(fd)) /\ done < len
  /\ moved' = [moved EXCEPT ![fd] = @ + done]
  /\ Output(fd, NextBytes(fd, len), cpu, 1)

Extract(fd, data) == IF fd = 2 THEN ExtractLines(data) ELSE ExtractJSON(data)

\* The loop reads an event, adds it to its stream's buffer and extracts what is complete.
ReadEvent(cpu) ==
  /\ rings[cpu] # <<>>
  /\ rings' = [rings EXCEPT ![cpu] = Tail(@)]
  /\ LET event == Head(rings[cpu])
         found == Extract(event.fd, buf[event.fd] \o event.data)
     IN  /\ buf' = [buf EXCEPT ![event.fd] = found.rest]
         /\ texts' = [texts EXCEPT ![event.fd] = @ \o found.texts]
         /\ seen' = [seen EXCEPT ![event.fd] = @ \o event.data]
  /\ UNCHANGED <<items, moved, lost, mishaps, copied>>

\* The loop reads the report of lost events, and only logs it.
ReadLost(cpu) ==
  /\ lost[cpu] > 0
  /\ lost' = [lost EXCEPT ![cpu] = 0]
  /\ UNCHANGED <<items, moved, rings, buf, texts, mishaps, copied, seen>>

Quiet == \A cpu \in Cpus : rings[cpu] = <<>> /\ lost[cpu] = 0

\* Everything is transferred and read.
Finished == Quiet /\ (\A fd \in Fds : moved[fd] = Len(Stream(fd))) /\ UNCHANGED vars

Next ==
  \/ \E fd \in Fds, len \in 1 .. MaxTransfer, cpu \in Cpus : Transfer(fd, len, cpu)
  \/ \E fd \in Fds, len \in 1 .. MaxTransfer, done \in 0 .. MaxTransfer - 1, cpu \in Cpus :
       ShortWrite(fd, len, done, cpu)
  \/ \E cpu \in Cpus : ReadEvent(cpu) \/ ReadLost(cpu)
  \/ Finished

Spec == Init /\ [][Next]_vars

-----------------------------------------------------------------------------
(***************************************************************************)
(* Properties.                                                             *)
(***************************************************************************)

\* What is extracted does not depend on where the stream is cut into events: it is
\* what the extraction finds in all bytes so far at once, whatever they are.
CutsDoNotMatter == \A fd \in Fds : texts[fd] = Extract(fd, seen[fd]).texts

\* The texts and lines of which a stream is made.
WantedOf(fd, item) ==
  IF fd = 2 THEN <<Trimmed(item)>> ELSE IF item \in Texts THEN <<item>> ELSE <<>>

Wanted(fd) == FlattenSeq([k \in 1 .. Len(items[fd]) |-> WantedOf(fd, items[fd][k])])

\* Without dropped events and short writes, and while the rings do not reorder a stream,
\* exactly its texts are extracted, in their order, with strings, escapes and garbage in
\* between: none too many while it is under way, all of them when it was read.
TextsFound ==
  mishaps = 0 =>
    \A fd \in Fds : IsPrefix(seen[fd], copied[fd]) =>
      /\ IsPrefix(texts[fd], Wanted(fd))
      /\ Quiet /\ moved[fd] = Len(Stream(fd)) => texts[fd] = Wanted(fd)

\* tracer.c, of the payload: "Increased to 4KB chunks".  What is transferred in pieces of
\* up to that size is copied whole.
ChunksCopiedWhole == mishaps = 0 => \A fd \in Fds : copied[fd] = SubSeq(Stream(fd), 1, moved[fd])
=============================================================================
