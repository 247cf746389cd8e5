---------------------------- MODULE StreamBuffer ----------------------------
(***************************************************************************)
(* How the eBPF transport cuts a stream of bytes into JSON texts and lines *)
(* (internal/transport/ebpf_parser.go).  A byte is one of a few kinds: an  *)
(* opening or a closing bracket, of which the code tells braces and square *)
(* brackets apart nowhere, a quote, a backslash, a line feed, a carriage   *)
(* return, or any other.                                                   *)
(***************************************************************************)
EXTENDS Integers, Sequences, FiniteSets, SequencesExt

Bytes == {"open", "close", "quote", "backslash", "lf", "cr", "other"}

\* What an extraction gives: the texts it found and the bytes the buffer keeps.
Extraction(texts, rest) == [texts |-> texts, rest |-> rest]

\* The first place of a byte in data, or 0 (bytes.IndexAny, bytes.IndexByte).
IndexOf(data, byte) == SelectInSeq(data, LAMBDA b : b = byte)

DropFirst(data, n) == SubSeq(data, n + 1, Len(data))

-----------------------------------------------------------------------------
(***************************************************************************)
(* Slips: what a plausible mistake would make of a definition below.  The  *)
(* specification does not use them; each one breaks a property.            *)
(***************************************************************************)

\* Brackets count inside strings too.
CountsAlways(scan) == TRUE

\* What is not complete is thrown away with the garbage before it.
KeptNothing(data) == <<>>

-----------------------------------------------------------------------------
ScanStart == [depth |-> 0, inString |-> FALSE, escape |-> FALSE, at |-> 0, end |-> 0]

\* Brackets count outside strings only.
Counts(scan) == ~scan.inString

\* One turn of extractJSON's inner loop; "end" is where the first text closes.
ScanByte(scan, byte) ==
  LET next == [scan EXCEPT !.at = @ + 1]
  IN  CASE scan.end # 0 -> scan
        [] scan.end = 0 /\ scan.escape -> [next EXCEPT !.escape = FALSE]
        [] scan.end = 0 /\ ~scan.escape ->
             CASE byte = "backslash" -> [next EXCEPT !.escape = TRUE]
               [] byte = "quote" -> [next EXCEPT !.inString = ~@]
               [] byte = "open" /\ Counts(scan) -> [next EXCEPT !.depth = @ + 1]
               [] byte = "close" /\ Counts(scan) ->
                    [next EXCEPT !.depth = @ - 1,
                                 !.end = IF scan.depth = 1 THEN next.at ELSE 0]
               [] OTHER -> next

\* Where the text that starts data is complete, or 0.
TextEnd(data) == FoldLeft(ScanByte, ScanStart, data).end

\* What the buffer keeps of a text that is not complete yet.
Kept(data) == data

\* One turn of extractJSON's outer loop: garbage before a bracket is skipped, a
\* complete text is taken, and an incomplete one stays in the buffer.
TakeText(found) ==
  LET start == IndexOf(found.rest, "open")
      data == DropFirst(found.rest, start - 1)
      end == TextEnd(data)
  IN  CASE start = 0 -> Extraction(found.texts, <<>>)
        [] start # 0 /\ end = 0 -> Extraction(found.texts, Kept(data))
        [] start # 0 /\ end # 0 ->
             Extraction(Append(found.texts, SubSeq(data, 1, end)), DropFirst(data, end))

\* extractJSON.  Every turn but the last takes a text, so there are enough of them.
ExtractJSON(buf) ==
  FoldLeft(LAMBDA found, k : TakeText(found), Extraction(<<>>, buf), [k \in 1 .. Len(buf) |-> k])

\* A line without its carriage return.
Trimmed(line) == IF line # <<>> /\ Last(line) = "cr" THEN Front(line) ELSE line

\* One turn of extractLines' loop.
TakeLine(found) ==
  LET lf == IndexOf(found.rest, "lf")
  IN  IF lf = 0
      THEN found
      ELSE Extraction(Append(found.texts, Trimmed(SubSeq(found.rest, 1, lf - 1))),
                      DropFirst(found.rest, lf))

ExtractLines(buf) ==
  FoldLeft(LAMBDA found, k : TakeLine(found), Extraction(<<>>, buf), [k \in 1 .. Len(buf) |-> k])

-----------------------------------------------------------------------------
(***************************************************************************)
(* What a JSON text is, as JSON has it: a bracket that the text's last     *)
(* byte closes, where brackets count outside strings, and a quote that a   *)
(* backslash escapes ends no string.                                       *)
(***************************************************************************)
\* The byte at i stands behind an odd number of backslashes.
Escaped(data, i) ==
  \E j \in 1 .. i : /\ \A k \in j .. i - 1 : data[k] = "backslash"
                   /\ (j = 1 \/ data[j - 1] # "backslash")
                   /\ (i - j) % 2 = 1

\* The byte at i stands behind an odd number of quotes.
Quotes(data, i) == {k \in 1 .. i : data[k] = "quote" /\ ~Escaped(data, k)}
InString(data, i) == Cardinality(Quotes(data, i - 1)) % 2 = 1

Brackets(data, i, bracket) ==
  {k \in 1 .. i : data[k] = bracket /\ ~Escaped(data, k) /\ ~InString(data, k)}

\* How many brackets are open after i bytes.
Depth(data, i) == Cardinality(Brackets(data, i, "open")) - Cardinality(Brackets(data, i, "close"))

IsText(data) ==
  /\ data # <<>> /\ data[1] = "open"
  /\ Depth(data, Len(data)) = 0
  /\ \A i \in 1 .. Len(data) - 1 : Depth(data, i) > 0
=============================================================================
