---------------------------- MODULE StdioProofs ----------------------------
(***************************************************************************)
(* For pipes and scanner buffers of any size, and streams of any length:   *)
(* the lines found are those of the bytes passed on, and Start returns     *)
(* only when all of the command's output has been passed on.               *)
(***************************************************************************)
EXTENDS Stdio, WellFoundedInduction, TLAPS

-----------------------------------------------------------------------------
(***************************************************************************)
(* Folding a sequence.  A fold is defined by recursion over the subsets of *)
(* the sequence's places; that this recursion defines anything, and that   *)
(* its values at 1 .. n follow from each other, takes an induction, which  *)
(* the well-foundedness of the natural numbers gives.                      *)
(***************************************************************************)
\* A property of natural numbers that zero has and that every successor takes over.
LEMMA Induction ==
  ASSUME NEW Good, 0 \in Good, \A n \in Nat : n \in Good => n + 1 \in Good
  PROVE  Nat \subseteq Good
<1> SUFFICES ASSUME Nat \ Good # {} PROVE FALSE
  OBVIOUS
<1>1. PICK n \in Nat \ Good : \A m \in Nat \ Good : ~(m < n)
  <2>1. PICK n \in Nat \ Good : \A m \in Nat \ Good : ~(<<m, n>> \in OpToRel(<, Nat))
    BY NatLessThanWellFounded, WFMin
  <2> QED  BY <2>1 DEF OpToRel
<1>2. n # 0 /\ n - 1 \in Nat /\ n - 1 < n
  OBVIOUS
<1> QED  BY <1>1, <1>2

\* The greatest of some numbers up to n, if n is one of them.
LEMMA MaxIsTop ==
  ASSUME NEW n \in Nat, NEW S \in SUBSET (1 .. n), n \in S PROVE Max(S) = n
<1>1. \A x \in S : x \in 1 .. n
  OBVIOUS
<1>2. \A y \in S : n >= y
  BY <1>1
<1>3. \A x \in S : (\A y \in S : x >= y) => x = n
  BY <1>1
<1> QED  BY <1>2, <1>3 DEF Max

\* The recursion by which a step function F is folded over a sequence, and that it has
\* a solution.
FoldedBy(F, base, seq, g) ==
  \A S \in SUBSET (1 .. Len(seq)) :
    /\ g[S] = IF S = {} THEN base ELSE F[<<g[S \ {Max(S)}], seq[Max(S)]>>]
    /\ S # {} => Max(S) \in S

LEMMA FoldExists ==
  ASSUME NEW A, NEW E, NEW F \in [A \X E -> A], NEW base \in A, NEW seq \in Seq(E)
  PROVE  \E g \in [SUBSET (1 .. Len(seq)) -> A] : FoldedBy(F, base, seq, g)
<1> DEFINE Solves(g, n) ==
             \A S \in SUBSET (1 .. n) :
               /\ g[S] = IF S = {} THEN base ELSE F[<<g[S \ {Max(S)}], seq[Max(S)]>>]
               /\ S # {} => Max(S) \in S
           Solved(n) == \E g \in [SUBSET (1 .. n) -> A] : Solves(g, n)
           Good == {n \in Nat : n <= Len(seq) => Solved(n)}
<1>1. 0 \in Good
  <2> DEFINE g == [S \in SUBSET (1 .. 0) |-> base]
  <2>1. \A S \in SUBSET (1 .. 0) : S = {}
    OBVIOUS
  <2>2. g \in [SUBSET (1 .. 0) -> A]
    OBVIOUS
  <2>3. \A S \in SUBSET (1 .. 0) : g[S] = base
    OBVIOUS
  <2> HIDE DEF g
  <2>4. Solves(g, 0)
    BY <2>1, <2>3
  <2> QED  BY <2>2, <2>4
<1>2. ASSUME NEW n \in Nat, n \in Good PROVE n + 1 \in Good
  <2> HIDE DEF Solved
  <2> SUFFICES ASSUME n + 1 <= Len(seq) PROVE Solved(n + 1)
    OBVIOUS
  <2>0. Solved(n)
    BY <1>2
  <2> USE DEF Solved
  <2>1. PICK g \in [SUBSET (1 .. n) -> A] : Solves(g, n)
    BY <2>0
  <2> DEFINE h == [S \in SUBSET (1 .. n + 1) |->
                     IF n + 1 \in S THEN F[<<g[S \ {n + 1}], seq[n + 1]>>] ELSE g[S]]
  <2>2. seq[n + 1] \in E
    OBVIOUS
  <2>3. \A S \in SUBSET (1 .. n + 1) :
          /\ n + 1 \in S => S \ {n + 1} \in SUBSET (1 .. n)
          /\ n + 1 \notin S => S \in SUBSET (1 .. n)
    OBVIOUS
  <2>4. h \in [SUBSET (1 .. n + 1) -> A]
    <3> SUFFICES ASSUME NEW S \in SUBSET (1 .. n + 1) PROVE h[S] \in A
      OBVIOUS
    <3> QED  BY <2>1, <2>2, <2>3
  <2>5. \A S \in SUBSET (1 .. n) : h[S] = g[S]
    OBVIOUS
  <2>6. Solves(h, n + 1)
    <3> SUFFICES ASSUME NEW S \in SUBSET (1 .. n + 1)
                 PROVE  /\ h[S] = IF S = {} THEN base ELSE F[<<h[S \ {Max(S)}], seq[Max(S)]>>]
                        /\ S # {} => Max(S) \in S
      OBVIOUS
    <3>1. CASE n + 1 \in S
      <4>1. Max(S) = n + 1
        BY <3>1, MaxIsTop
      <4>2. h[S \ {n + 1}] = g[S \ {n + 1}]
        BY <2>3, <2>5, <3>1
      <4> QED  BY <3>1, <4>1, <4>2
    <3>2. CASE n + 1 \notin S
      <4>1. S \in SUBSET (1 .. n) /\ S \ {Max(S)} \in SUBSET (1 .. n)
        BY <2>3, <3>2
      <4>2. h[S] = g[S] /\ h[S \ {Max(S)}] = g[S \ {Max(S)}]
        BY <2>5, <4>1
      <4> HIDE DEF h
      <4> QED  BY <2>1, <4>1, <4>2
    <3> QED  BY <3>1, <3>2
  <2> QED  BY <2>4, <2>6
<1>3. Len(seq) \in Good
  <2>1. Len(seq) \in Nat
    OBVIOUS
  <2> HIDE DEF Good
  <2> QED  BY <1>1, <1>2, <2>1, Induction
<1>4. Solved(Len(seq))
  <2> HIDE DEF Solved
  <2> QED  BY <1>3
<1> QED  BY <1>4 DEF FoldedBy

Cuts == [done : Seq(Seq(Bytes)), rest : Seq(Bytes)]
Uncut == [done |-> <<>>, rest |-> <<>>]

LEMMA PutByteType ==
  ASSUME NEW cut \in Cuts, NEW byte \in Bytes PROVE PutByte(cut, byte) \in Cuts
BY DEF PutByte, Cuts

\* The cuts of a sequence's beginnings follow from each other.
CutsFrom(bytes, f) ==
  /\ f[0] = Uncut
  /\ \A i \in 1 .. Len(bytes) : f[i] = PutByte(f[i - 1], bytes[i])

\* A sequence is cut one byte after the other.
LEMMA CutSteps ==
  ASSUME NEW bytes \in Seq(Bytes)
  PROVE  \E f \in [0 .. Len(bytes) -> Cuts] : CutsFrom(bytes, f) /\ Cut(bytes) = f[Len(bytes)]
<1> DEFINE F == [p \in Cuts \X Bytes |-> PutByte(p[1], p[2])]
           places == 1 .. Len(bytes)
           It == CHOOSE it : it = [S \in SUBSET places |->
                   IF S = {} THEN Uncut ELSE PutByte(it[S \ {Max(S)}], bytes[Max(S)])]
<1>1. Cut(bytes) = It[places]
  <2>1. DOMAIN bytes = places
    OBVIOUS
  <2> QED  BY <2>1 DEF Cut, FoldLeft, MapThenFoldSet, Uncut
<1>2. F \in [Cuts \X Bytes -> Cuts] /\ Uncut \in Cuts
  BY PutByteType DEF Cuts, Uncut
<1>3. PICK g \in [SUBSET places -> Cuts] : FoldedBy(F, Uncut, bytes, g)
  <2> HIDE DEF F
  <2> QED  BY <1>2, FoldExists
<1>4. \A S \in SUBSET places :
        g[S] = IF S = {} THEN Uncut ELSE PutByte(g[S \ {Max(S)}], bytes[Max(S)])
  <2> SUFFICES ASSUME NEW S \in SUBSET places, S # {}
               PROVE  g[S] = PutByte(g[S \ {Max(S)}], bytes[Max(S)])
    BY <1>3 DEF FoldedBy
  <2>1. g[S] = F[<<g[S \ {Max(S)}], bytes[Max(S)]>>] /\ Max(S) \in S
    BY <1>3 DEF FoldedBy
  <2>2. S \ {Max(S)} \in SUBSET places /\ Max(S) \in 1 .. Len(bytes)
    BY <2>1
  <2>3. g[S \ {Max(S)}] \in Cuts /\ bytes[Max(S)] \in Bytes
    BY <1>3, <2>2
  <2> QED  BY <2>1, <2>3
<1>5. It = [S \in SUBSET places |->
              IF S = {} THEN Uncut ELSE PutByte(It[S \ {Max(S)}], bytes[Max(S)])]
  <2>1. g = [S \in SUBSET places |->
              IF S = {} THEN Uncut ELSE PutByte(g[S \ {Max(S)}], bytes[Max(S)])]
    BY <1>3, <1>4
  <2>2. \E it : it = [S \in SUBSET places |->
              IF S = {} THEN Uncut ELSE PutByte(it[S \ {Max(S)}], bytes[Max(S)])]
    BY <2>1
  <2> QED  BY <2>2
<1> HIDE DEF It, F
<1> DEFINE f == [i \in 0 .. Len(bytes) |-> It[1 .. i]]
<1>6. f[0] = Uncut /\ It[places] = f[Len(bytes)]
  <2>1. 1 .. 0 = {} /\ {} \in SUBSET places
    OBVIOUS
  <2>2. It[{}] = Uncut
    BY <1>5, <2>1
  <2> QED  BY <2>1, <2>2
<1>7. ASSUME NEW i \in 1 .. Len(bytes) PROVE f[i] = PutByte(f[i - 1], bytes[i])
  <2>1. Max(1 .. i) = i
    BY MaxIsTop
  <2>2. (1 .. i) \ {i} = 1 .. i - 1 /\ (1 .. i) \in SUBSET places /\ 1 .. i # {}
    OBVIOUS
  <2>3. It[1 .. i] = PutByte(It[(1 .. i) \ {Max(1 .. i)}], bytes[Max(1 .. i)])
    BY <1>5, <2>2
  <2>4. f[i] = It[1 .. i] /\ f[i - 1] = It[1 .. i - 1]
    OBVIOUS
  <2> HIDE DEF f
  <2> QED  BY <2>1, <2>2, <2>3, <2>4
<1>8. f \in [0 .. Len(bytes) -> Cuts]
  <2> DEFINE Good == {i \in Nat : i <= Len(bytes) => f[i] \in Cuts}
  <2> HIDE DEF f
  <2>1. 0 \in Good
    BY <1>2, <1>6
  <2>2. ASSUME NEW i \in Nat, i \in Good PROVE i + 1 \in Good
    <3> SUFFICES ASSUME i + 1 <= Len(bytes) PROVE f[i + 1] \in Cuts
      OBVIOUS
    <3>1. i + 1 \in 1 .. Len(bytes) /\ f[(i + 1) - 1] \in Cuts /\ bytes[i + 1] \in Bytes
      BY <2>2
    <3> QED  BY <1>7, <3>1, PutByteType
  <2>3. Nat \subseteq Good
    <3> HIDE DEF Good
    <3> QED  BY <2>1, <2>2, Induction
  <2>4. \A i \in 0 .. Len(bytes) : i \in Nat /\ f[i] \in Cuts
    BY <2>3
  <2> QED  BY <2>4 DEF f
<1> HIDE DEF f
<1>9. CutsFrom(bytes, f)
  BY <1>6, <1>7 DEF CutsFrom
<1> QED  BY <1>1, <1>6, <1>8, <1>9

LEMMA CutEmpty == Cut(<<>>) = Uncut
<1>1. <<>> \in Seq(Bytes) /\ Len(<<>>) = 0
  OBVIOUS
<1> QED  BY <1>1, CutSteps DEF CutsFrom

LEMMA CutAppend ==
  ASSUME NEW bytes \in Seq(Bytes), NEW byte \in Bytes
  PROVE  Cut(bytes) \in Cuts /\ Cut(Append(bytes, byte)) = PutByte(Cut(bytes), byte)
<1> DEFINE more == Append(bytes, byte)
           n == Len(bytes)
<1>1. n \in Nat /\ more \in Seq(Bytes) /\ Len(more) = n + 1 /\ more[n + 1] = byte
      /\ \A i \in 1 .. n : more[i] = bytes[i]
  OBVIOUS
<1> HIDE DEF more, n
<1>2. PICK f \in [0 .. n -> Cuts] : CutsFrom(bytes, f) /\ Cut(bytes) = f[n]
  BY CutSteps DEF n
<1>3. PICK g \in [0 .. n + 1 -> Cuts] : CutsFrom(more, g) /\ Cut(more) = g[n + 1]
  BY <1>1, CutSteps
<1> DEFINE Good == {i \in Nat : i <= n => g[i] = f[i]}
<1>4. 0 \in Good
  BY <1>2, <1>3 DEF CutsFrom
<1>5. ASSUME NEW i \in Nat, i \in Good PROVE i + 1 \in Good
  <2> SUFFICES ASSUME i + 1 <= n PROVE g[i + 1] = f[i + 1]
    OBVIOUS
  <2>1. g[i] = f[i] /\ more[i + 1] = bytes[i + 1] /\ i + 1 \in 1 .. n
    BY <1>1, <1>5
  <2>2. g[i + 1] = PutByte(g[(i + 1) - 1], more[i + 1])
    BY <1>1, <1>3, <2>1 DEF CutsFrom
  <2>3. f[i + 1] = PutByte(f[(i + 1) - 1], bytes[i + 1])
    BY <1>2, <2>1 DEF CutsFrom, n
  <2>4. (i + 1) - 1 = i
    OBVIOUS
  <2> QED  BY <2>1, <2>2, <2>3, <2>4
<1>6. n \in Good
  <2> HIDE DEF Good
  <2> QED  BY <1>1, <1>4, <1>5, Induction
<1>7. g[n + 1] = PutByte(g[(n + 1) - 1], more[n + 1]) /\ (n + 1) - 1 = n
  BY <1>1, <1>3 DEF CutsFrom
<1> QED  BY <1>1, <1>2, <1>3, <1>6, <1>7 DEF more

-----------------------------------------------------------------------------
(***************************************************************************)
(* The inductive invariant.                                                *)
(***************************************************************************)
\* What the variables hold; no goroutine passes on what was not written.
TypeInv ==
  /\ sent \in [Streams -> Seq(Bytes)] /\ forwarded \in [Streams -> Nat]
  /\ \A s \in Streams : forwarded[s] <= Len(sent[s])
  /\ command \in {"running", "writing", "exited"} /\ target \in {"out", "err"}
  /\ buf \in [Streams -> Seq(Bytes)] /\ lines \in [Streams -> Seq(Seq(Bytes))]
  /\ scanner \in [Streams -> {"reading", "ended", "tooLong"}]
  /\ start \in {"scanning", "waiting", "returned"}

\* What a scanner has found is the cut of what was passed on, and when it has ended,
\* the rest is a line too.
ScanInv ==
  \A s \in Streams :
    /\ scanner[s] # "ended" => Cut(Passed(s)) = [done |-> lines[s], rest |-> buf[s]]
    /\ scanner[s] = "ended" => buf[s] = <<>> /\ lines[s] = LinesOf(Passed(s))

\* Start scans standard output until its scanner ends, which is after the command.
StartInv ==
  /\ scanner["out"] = "reading" <=> start = "scanning"
  /\ scanner["out"] = "ended" => command = "exited" /\ forwarded["out"] = Len(sent["out"])

\* Only the line at which a scanner gave up fills the buffer.
BoundInv ==
  \A s \in Streams :
    /\ scanner[s] = "tooLong" => Len(buf[s]) = LineLimit
    /\ scanner[s] # "tooLong" => Len(buf[s]) < LineLimit
    /\ \A i \in 1 .. Len(lines[s]) : Len(lines[s][i]) < LineLimit

StdioInv == TypeInv /\ ScanInv /\ StartInv /\ BoundInv

LEMMA StdioInit == Init => StdioInv
<1> SUFFICES ASSUME Init PROVE StdioInv
  OBVIOUS
<1>1. TypeInv
  <2>1. <<>> \in Seq(Bytes) /\ <<>> \in Seq(Seq(Bytes)) /\ Len(<<>>) = 0
    OBVIOUS
  <2> QED  BY <2>1 DEF Init, TypeInv, Streams
<1>2. ScanInv
  <2>1. \A s \in Streams : Passed(s) = <<>>
    BY DEF Init, Passed
  <2> QED  BY <2>1, CutEmpty DEF Init, ScanInv, Uncut
<1>3. StartInv
  BY DEF Init, StartInv, Streams
<1>4. BoundInv
  <2>1. Len(<<>>) = 0 /\ 0 < LineLimit
    BY StdioAssumption
  <2>2. \A s \in Streams : buf[s] = <<>> /\ lines[s] = <<>> /\ scanner[s] = "reading"
    BY DEF Init
  <2> QED  BY <2>1, <2>2 DEF BoundInv
<1> QED  BY <1>1, <1>2, <1>3, <1>4 DEF StdioInv

\* What is written after it does not change the beginning of a stream.
LEMMA PassedSame ==
  ASSUME NEW bytes \in Seq(Bytes), NEW byte \in Bytes, NEW n \in Nat, n <= Len(bytes)
  PROVE  SubSeq(Append(bytes, byte), 1, n) = SubSeq(bytes, 1, n)
OBVIOUS

\* The next byte is put to what was passed on.
LEMMA PassedMore ==
  ASSUME NEW bytes \in Seq(Bytes), NEW n \in Nat, n < Len(bytes)
  PROVE  /\ SubSeq(bytes, 1, n) \in Seq(Bytes) /\ bytes[n + 1] \in Bytes
         /\ SubSeq(bytes, 1, n + 1) = Append(SubSeq(bytes, 1, n), bytes[n + 1])
OBVIOUS

\* A write changes only what is sent.
LEMMA SendStep ==
  ASSUME StdioInv, NEW s \in Streams, NEW byte \in Bytes, Send(s, byte),
         command' \in {"running", "writing", "exited"}, target' = target,
         UNCHANGED scanVars, s = "out" => command # "exited",
         s # "out" => (command' = command \/ command # "exited")
  PROVE  StdioInv'
<1> USE DEF StdioInv
<1>1. sent' \in [Streams -> Seq(Bytes)]
      /\ \A t \in Streams : sent'[t] = sent[t] \/ (t = s /\ sent'[t] = Append(sent[t], byte))
  BY DEF Send, TypeInv
<1>2. \A t \in Streams : Len(sent[t]) <= Len(sent'[t])
  <2> SUFFICES ASSUME NEW t \in Streams PROVE Len(sent[t]) <= Len(sent'[t])
    OBVIOUS
  <2>1. sent[t] \in Seq(Bytes)
    BY DEF TypeInv
  <2>2. Len(sent[t]) \in Nat /\ Len(Append(sent[t], byte)) = Len(sent[t]) + 1
    BY <2>1
  <2>3. CASE sent'[t] = sent[t]
    BY <2>2, <2>3
  <2>4. CASE sent'[t] = Append(sent[t], byte)
    BY <2>2, <2>4
  <2> QED  BY <1>1, <2>3, <2>4
<1>3. TypeInv'
  BY <1>1, <1>2 DEF TypeInv, scanVars
<1>4. ASSUME NEW t \in Streams PROVE Passed(t)' = Passed(t)
  <2>1. sent[t] \in Seq(Bytes) /\ forwarded[t] \in Nat /\ forwarded[t] <= Len(sent[t])
        /\ forwarded' = forwarded
    BY DEF TypeInv, scanVars
  <2>2. CASE sent'[t] = sent[t]
    BY <2>1, <2>2 DEF Passed
  <2>3. CASE sent'[t] = Append(sent[t], byte)
    BY <2>1, <2>3, PassedSame DEF Passed
  <2> QED  BY <1>1, <2>2, <2>3
<1>5. ScanInv'
  BY <1>4 DEF ScanInv, scanVars
<1>6. StartInv'
  BY <1>1 DEF StartInv, TypeInv, Send, scanVars, Streams
<1>7. BoundInv'
  BY DEF BoundInv, scanVars
<1> QED  BY <1>3, <1>5, <1>6, <1>7

\* What the client and the command do beside.
LEMMA OutsideStep ==
  ASSUME StdioInv, UNCHANGED <<sent, forwarded, buf, lines, scanner, start>>,
         command' \in {"running", "writing", "exited"}, command = "exited" => command' = "exited",
         target' \in {"out", "err"}
  PROVE  StdioInv'
<1>1. \A s \in Streams : Passed(s)' = Passed(s)
  BY DEF Passed
<1> QED  BY <1>1 DEF StdioInv, TypeInv, ScanInv, StartInv, BoundInv

\* The lines found stay below the buffer's size with one more that does.
LEMMA ShortAppend ==
  ASSUME NEW found \in Seq(Seq(Bytes)), NEW line \in Seq(Bytes), Len(line) < LineLimit,
         \A i \in 1 .. Len(found) : Len(found[i]) < LineLimit
  PROVE  \A i \in 1 .. Len(Append(found, line)) : Len(Append(found, line)[i]) < LineLimit
<1> SUFFICES ASSUME NEW i \in 1 .. Len(Append(found, line))
             PROVE  Len(Append(found, line)[i]) < LineLimit
  OBVIOUS
<1>1. i \in 1 .. Len(found) \/ i = Len(found) + 1
  OBVIOUS
<1>2. CASE i \in 1 .. Len(found)
  <2>1. Append(found, line)[i] = found[i]
    BY <1>2
  <2> QED  BY <1>2, <2>1
<1>3. CASE i = Len(found) + 1
  <2>1. Append(found, line)[i] = line
    BY <1>3
  <2> QED  BY <2>1
<1> QED  BY <1>1, <1>2, <1>3

LEMMA ForwardStep == ASSUME StdioInv, NEW s \in Streams, Forward(s) PROVE StdioInv'
<1> USE DEF StdioInv
<1> DEFINE byte == sent[s][forwarded[s] + 1]
           line == Append(buf[s], byte)
<1>1. forwarded[s] \in Nat /\ sent[s] \in Seq(Bytes) /\ forwarded[s] < Len(sent[s])
      /\ buf[s] \in Seq(Bytes) /\ lines[s] \in Seq(Seq(Bytes)) /\ scanner[s] = "reading"
  BY DEF Forward, Waiting, TypeInv
<1>2. Passed(s) \in Seq(Bytes) /\ byte \in Bytes
  BY <1>1, PassedMore DEF Passed
<1>3. UNCHANGED <<sent, command, target>> /\ forwarded' = [forwarded EXCEPT ![s] = @ + 1]
  BY DEF Forward, commandVars
<1>4. Passed(s)' = Append(Passed(s), byte)
  BY <1>1, <1>3, PassedMore DEF Passed, TypeInv
<1>5. Cut(Passed(s)) = [done |-> lines[s], rest |-> buf[s]]
  BY <1>1 DEF ScanInv
<1>6. Cut(Passed(s)') = PutByte([done |-> lines[s], rest |-> buf[s]], byte)
  BY <1>2, <1>4, <1>5, CutAppend
<1>7. /\ byte = "lf" => lines' = [lines EXCEPT ![s] = Append(@, buf[s])]
                        /\ buf' = [buf EXCEPT ![s] = <<>>] /\ scanner' = scanner /\ start' = start
      /\ byte # "lf" => lines' = lines /\ buf' = [buf EXCEPT ![s] = line]
      /\ \/ scanner' = scanner /\ start' = start
         \/ scanner' = [scanner EXCEPT ![s] = "tooLong"] /\ start' = StartAfter(s)
  BY DEF Forward
<1>8. line \in Seq(Bytes) /\ Append(lines[s], buf[s]) \in Seq(Seq(Bytes))
      /\ <<>> \in Seq(Bytes)
  BY <1>1, <1>2
<1> HIDE DEF byte, line
<1>9. /\ scanner' \in [Streams -> {"reading", "ended", "tooLong"}] /\ scanner'[s] # "ended"
      /\ \A t \in Streams \ {s} : scanner'[t] = scanner[t]
  BY <1>1, <1>7 DEF TypeInv
<1>10. /\ buf' \in [Streams -> Seq(Bytes)] /\ lines' \in [Streams -> Seq(Seq(Bytes))]
       /\ \A t \in Streams \ {s} : buf'[t] = buf[t] /\ lines'[t] = lines[t]
       /\ [done |-> lines'[s], rest |-> buf'[s]]
            = PutByte([done |-> lines[s], rest |-> buf[s]], byte)
  <2>1. CASE byte = "lf"
    BY <1>7, <1>8, <2>1 DEF TypeInv, PutByte
  <2>2. CASE byte # "lf"
    BY <1>7, <1>8, <2>2 DEF TypeInv, PutByte, line
  <2> QED  BY <2>1, <2>2
<1>11. /\ forwarded' \in [Streams -> Nat] /\ \A t \in Streams : forwarded'[t] <= Len(sent'[t])
       /\ \A t \in Streams \ {s} : forwarded'[t] = forwarded[t]
  BY <1>1, <1>3 DEF TypeInv
<1>12. TypeInv'
  BY <1>3, <1>7, <1>9, <1>10, <1>11 DEF TypeInv, StartAfter
<1>13. \A t \in Streams \ {s} : Passed(t)' = Passed(t)
  BY <1>3, <1>11 DEF Passed
<1>14. ScanInv'
  <2>1. Cut(Passed(s)') = [done |-> lines'[s], rest |-> buf'[s]]
    BY <1>6, <1>10
  <2>2. ASSUME NEW t \in Streams \ {s}
        PROVE  Passed(t)' = Passed(t) /\ lines'[t] = lines[t] /\ buf'[t] = buf[t]
               /\ scanner'[t] = scanner[t]
    BY <1>9, <1>10, <1>13
  <2> QED  BY <1>9, <2>1, <2>2 DEF ScanInv
<1>15. StartInv'
  <2>1. CASE s = "out"
    BY <1>1, <1>7, <1>9, <2>1 DEF StartInv, StartAfter, TypeInv, Streams
  <2>2. CASE s # "out"
    <3>1. start' = start /\ scanner'["out"] = scanner["out"]
          /\ forwarded'["out"] = forwarded["out"]
      BY <1>7, <1>9, <1>11, <2>2 DEF StartAfter, Streams
    <3> QED  BY <1>3, <3>1 DEF StartInv
  <2> QED  BY <2>1, <2>2
<1>16. BoundInv'
  <2>1. /\ Len(buf[s]) < LineLimit /\ Len(buf[s]) \in Nat /\ Len(line) = Len(buf[s]) + 1
        /\ \A i \in 1 .. Len(lines[s]) : Len(lines[s][i]) < LineLimit
    <3>1. buf[s] \in Seq(Bytes) /\ byte \in Bytes
      BY <1>1, <1>2
    <3>2. Len(buf[s]) \in Nat /\ Len(line) = Len(buf[s]) + 1
      BY <3>1 DEF line
    <3>3. scanner[s] # "tooLong"
      BY <1>1
    <3> QED  BY <3>2, <3>3 DEF BoundInv
  <2>2. \/ byte = "lf" /\ scanner'[s] = "reading"
        \/ byte # "lf" /\ scanner'[s] = "reading" /\ ~(Len(line) >= LineLimit)
        \/ byte # "lf" /\ scanner'[s] = "tooLong" /\ Len(line) >= LineLimit
    BY <1>1 DEF Forward, TooLong, byte, line, TypeInv
  <2>3. CASE byte = "lf"
    <3>1. scanner'[s] = "reading" /\ buf'[s] = <<>> /\ lines'[s] = Append(lines[s], buf[s])
      BY <1>7, <2>2, <2>3 DEF TypeInv
    <3>2. Len(<<>>) = 0 /\ 0 < LineLimit
      BY StdioAssumption
    <3>3. \A i \in 1 .. Len(lines'[s]) : Len(lines'[s][i]) < LineLimit
      BY <1>1, <2>1, <3>1, ShortAppend
    <3>4. /\ scanner'[s] # "tooLong" /\ Len(buf'[s]) < LineLimit
      BY <3>1, <3>2
    <3> QED  BY <1>9, <1>10, <3>3, <3>4 DEF BoundInv
  <2>4. CASE byte # "lf"
    <3>1. lines'[s] = lines[s] /\ buf'[s] = line
      BY <1>7, <2>4 DEF TypeInv
    <3>2. scanner'[s] = "tooLong" => Len(line) = LineLimit
      BY <2>1, <2>2, StdioAssumption
    <3>3. scanner'[s] # "tooLong" => Len(line) < LineLimit
      BY <2>1, <2>2, <2>4, StdioAssumption
    <3> QED  BY <1>9, <1>10, <2>1, <3>1, <3>2, <3>3 DEF BoundInv
  <2> QED  BY <2>3, <2>4
<1> QED  BY <1>12, <1>14, <1>15, <1>16

LEMMA EndStep == ASSUME StdioInv, NEW s \in Streams, End(s) PROVE StdioInv'
<1> USE DEF StdioInv
<1>1. /\ UNCHANGED <<sent, forwarded, command, target>> /\ scanner[s] = "reading"
      /\ scanner' = [scanner EXCEPT ![s] = "ended"] /\ buf' = [buf EXCEPT ![s] = <<>>]
      /\ lines' = [lines EXCEPT ![s] = @ \o LastLine(buf[s])] /\ start' = StartAfter(s)
  BY DEF End, commandVars
<1>2. lines[s] \o LastLine(buf[s]) \in Seq(Seq(Bytes)) /\ <<>> \in Seq(Bytes)
  <2>1. lines[s] \in Seq(Seq(Bytes)) /\ buf[s] \in Seq(Bytes)
    BY DEF TypeInv
  <2>2. LastLine(buf[s]) \in Seq(Seq(Bytes))
    BY <2>1 DEF LastLine
  <2> QED  BY <2>1, <2>2
<1>3. TypeInv'
  BY <1>1, <1>2 DEF TypeInv, StartAfter
<1>4. \A t \in Streams : Passed(t)' = Passed(t)
  BY <1>1 DEF Passed
<1>5. lines[s] \o LastLine(buf[s]) = LinesOf(Passed(s))
  <2>1. Cut(Passed(s)) = [done |-> lines[s], rest |-> buf[s]]
    BY <1>1 DEF ScanInv
  <2>2. Cut(Passed(s)).done = lines[s] /\ Cut(Passed(s)).rest = buf[s]
    BY <2>1
  <2> QED  BY <2>2 DEF LinesOf, LastLine
<1>6. ScanInv'
  <2>1. scanner'[s] = "ended" /\ buf'[s] = <<>> /\ lines'[s] = LinesOf(Passed(s))
    BY <1>1, <1>5 DEF TypeInv
  <2>2. \A t \in Streams \ {s} : scanner'[t] = scanner[t] /\ buf'[t] = buf[t] /\ lines'[t] = lines[t]
    BY <1>1 DEF TypeInv
  <2>3. \A t \in Streams : LinesOf(Passed(t))' = LinesOf(Passed(t)) /\ Cut(Passed(t))' = Cut(Passed(t))
    BY <1>4 DEF LinesOf
  <2> QED  BY <2>1, <2>2, <2>3 DEF ScanInv
<1>7. StartInv'
  <2>1. CASE s = "out"
    <3>1. start = "scanning"
      BY <1>1, <2>1 DEF StartInv
    <3>2. Waiting("out") = 0 /\ command = "exited"
      BY <2>1, <3>1 DEF End, StreamOver, ReadEndOpen
    <3>3. forwarded["out"] = Len(sent["out"])
      BY <3>2 DEF Waiting, TypeInv, Streams
    <3> QED  BY <1>1, <2>1, <3>2, <3>3 DEF StartInv, StartAfter, TypeInv, Streams
  <2>2. CASE s # "out"
    BY <1>1, <2>2 DEF StartInv, StartAfter, TypeInv, Streams
  <2> QED  BY <2>1, <2>2
<1>8. BoundInv'
  <2>1. /\ Len(buf[s]) < LineLimit /\ lines[s] \in Seq(Seq(Bytes)) /\ buf[s] \in Seq(Bytes)
        /\ \A i \in 1 .. Len(lines[s]) : Len(lines[s][i]) < LineLimit
    BY <1>1 DEF BoundInv, TypeInv
  <2>2. lines[s] \o LastLine(buf[s]) \in {lines[s], Append(lines[s], buf[s])}
    <3>1. \A found \in Seq(Seq(Bytes)), line \in Seq(Bytes) :
            found \o <<>> = found /\ found \o <<line>> = Append(found, line)
      OBVIOUS
    <3>2. LastLine(buf[s]) = <<>> \/ LastLine(buf[s]) = <<buf[s]>>
      BY DEF LastLine
    <3> QED  BY <2>1, <3>1, <3>2
  <2>3. \A i \in 1 .. Len(lines[s] \o LastLine(buf[s])) :
          Len((lines[s] \o LastLine(buf[s]))[i]) < LineLimit
    BY <2>1, <2>2, ShortAppend
  <2>4. scanner'[s] = "ended" /\ buf'[s] = <<>> /\ lines'[s] = lines[s] \o LastLine(buf[s])
    BY <1>1 DEF TypeInv
  <2>5. \A t \in Streams \ {s} : scanner'[t] = scanner[t] /\ buf'[t] = buf[t] /\ lines'[t] = lines[t]
    BY <1>1 DEF TypeInv
  <2>6. Len(buf'[s]) < LineLimit
    BY <2>4, StdioAssumption
  <2>7. \A i \in 1 .. Len(lines'[s]) : Len(lines'[s][i]) < LineLimit
    BY <2>3, <2>4
  <2> QED  BY <2>4, <2>5, <2>6, <2>7 DEF BoundInv
<1> QED  BY <1>3, <1>6, <1>7, <1>8

LEMMA WaitStep == ASSUME StdioInv, Wait PROVE StdioInv'
<1>1. \A s \in Streams : Passed(s)' = Passed(s)
  BY DEF Wait, Passed
<1>2. \A s \in Streams : LinesOf(Passed(s))' = LinesOf(Passed(s)) /\ Cut(Passed(s))' = Cut(Passed(s))
  BY <1>1 DEF LinesOf
<1>3. StartInv'
  BY DEF Wait, OutputRead, commandVars, StdioInv, StartInv
<1> QED  BY <1>2, <1>3 DEF Wait, commandVars, StdioInv, TypeInv, ScanInv, BoundInv

LEMMA StdioStep == StdioInv /\ [Next]_vars => StdioInv'
<1> SUFFICES ASSUME StdioInv, [Next]_vars PROVE StdioInv'
  OBVIOUS
<1>1. ASSUME NEW byte \in Bytes, ClientWrites(byte) PROVE StdioInv'
  <2>1. Send("in", byte) /\ UNCHANGED <<command, target, scanVars>> /\ "in" \in Streams
    BY <1>1 DEF ClientWrites, commandVars, Streams
  <2>2. command' \in {"running", "writing", "exited"}
    BY <2>1 DEF StdioInv, TypeInv
  <2> QED  BY <2>1, <2>2, SendStep
<1>2. ASSUME NEW byte \in Bytes, CommandWrites(byte) PROVE StdioInv'
  <2>1. Send(target, byte) /\ UNCHANGED <<target, scanVars>> /\ target \in Streams
        /\ command # "exited" /\ command' = "running"
    BY <1>2 DEF CommandWrites, Streams, StdioInv, TypeInv
  <2> QED  BY <2>1, SendStep
<1>3. CASE ClientCloses \/ CommandReads \/ CommandExits \/ Kill
  <2>1. /\ UNCHANGED <<sent, forwarded, buf, lines, scanner, start, target>>
        /\ command' = command \/ command' = "exited"
    BY <1>3 DEF ClientCloses, CommandReads, CommandExits, Kill, commandVars, scanVars
  <2> QED  BY <2>1, OutsideStep DEF StdioInv, TypeInv
<1>4. ASSUME NEW s \in {"out", "err"}, CommandBeginsWrite(s) PROVE StdioInv'
  BY <1>4, OutsideStep DEF CommandBeginsWrite, scanVars
<1>5. CASE Finished \/ UNCHANGED vars
  <2>1. UNCHANGED vars
    BY <1>5 DEF Finished
  <2> QED  BY <2>1, OutsideStep DEF vars, StdioInv, TypeInv
<1> QED  BY <1>1, <1>2, <1>3, <1>4, <1>5, ForwardStep, EndStep, WaitStep DEF Next

LEMMA StdioAlways == Spec => []StdioInv
BY StdioInit, StdioStep, PTL DEF Spec

-----------------------------------------------------------------------------
\* Whatever the order in which the client, the command and the goroutines go on, and
\* whatever ends a scanner, its lines and the one under way are those of the bytes that
\* its TeeReader has passed on; and it gives up at a line that fills its buffer and at no
\* shorter one.
THEOREM StdioSeenIsPassed == Spec => []SeenIsPassed
<1>1. ASSUME StdioInv, NEW s \in Streams
      PROVE  LinesOf(Passed(s)) = lines[s] \o (IF buf[s] = <<>> THEN <<>> ELSE <<buf[s]>>)
  <2>1. CASE scanner[s] # "ended"
    <3>1. Cut(Passed(s)) = [done |-> lines[s], rest |-> buf[s]]
      BY <1>1, <2>1 DEF StdioInv, ScanInv
    <3>2. Cut(Passed(s)).done = lines[s] /\ Cut(Passed(s)).rest = buf[s]
      BY <3>1
    <3> QED  BY <3>2 DEF LinesOf
  <2>2. CASE scanner[s] = "ended"
    <3>1. lines[s] \in Seq(Seq(Bytes)) /\ buf[s] = <<>> /\ lines[s] = LinesOf(Passed(s))
      BY <1>1, <2>2 DEF StdioInv, TypeInv, ScanInv
    <3> QED  BY <3>1
  <2> QED  BY <2>1, <2>2
<1>2. ASSUME StdioInv, NEW s \in Streams
      PROVE  /\ scanner[s] = "ended" => buf[s] = <<>>
             /\ scanner[s] = "tooLong" <=> Len(buf[s]) = LineLimit
             /\ \A i \in 1 .. Len(lines[s]) : Len(lines[s][i]) < LineLimit
  <2>1. Len(buf[s]) \in Nat /\ LineLimit \in Nat
    BY <1>2, StdioAssumption DEF StdioInv, TypeInv
  <2>2. scanner[s] = "ended" => buf[s] = <<>>
    BY <1>2 DEF StdioInv, ScanInv
  <2>3. /\ scanner[s] = "tooLong" => Len(buf[s]) = LineLimit
        /\ scanner[s] # "tooLong" => Len(buf[s]) < LineLimit
        /\ \A i \in 1 .. Len(lines[s]) : Len(lines[s][i]) < LineLimit
    BY <1>2 DEF StdioInv, BoundInv
  <2>4. Len(buf[s]) = LineLimit => scanner[s] = "tooLong"
    BY <2>1, <2>3
  <2> QED  BY <2>2, <2>3, <2>4
<1>3. StdioInv => SeenIsPassed
  BY <1>1, <1>2 DEF SeenIsPassed
<1> QED  BY <1>3, StdioAlways, PTL

\* Start, which scans standard output itself before it calls cmd.Wait, returns when all
\* of the command's output has been passed on and its lines are found, however the
\* command ended and whatever it still had in its pipe.
THEOREM StdioOutputComplete == Spec => []OutputComplete
<1>1. StdioInv => OutputComplete
  <2> SUFFICES ASSUME StdioInv, start = "returned", scanner["out"] # "tooLong"
               PROVE  Passed("out") = sent["out"] /\ lines["out"] = LinesOf(sent["out"])
    BY DEF OutputComplete
  <2>1. "out" \in Streams /\ scanner["out"] = "ended"
    BY DEF StdioInv, StartInv, TypeInv, Streams
  <2>2. forwarded["out"] = Len(sent["out"]) /\ sent["out"] \in Seq(Bytes)
    BY <2>1 DEF StdioInv, StartInv, TypeInv
  <2>3. Passed("out") = sent["out"]
    BY <2>2 DEF Passed
  <2> QED  BY <2>1, <2>3 DEF StdioInv, ScanInv
<1> QED  BY <1>1, StdioAlways, PTL
=============================================================================
