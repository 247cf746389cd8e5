----------------------------- MODULE EbpfProofs -----------------------------
(***************************************************************************)
(* For streams of any bytes, events of any size and rings of any capacity: *)
(* what is extracted from a stream does not depend on where it is cut into *)
(* events, and of a stream that is read undisturbed exactly its JSON texts *)
(* and lines are extracted.                                                *)
(***************************************************************************)
EXTENDS Ebpf, FiniteSetTheorems, WellFoundedInduction, TLAPS

-----------------------------------------------------------------------------
(***************************************************************************)
(* Folding a sequence.  A fold is defined by recursion over the subsets of *)
(* the sequence's places; that this recursion defines anything, and that   *)
(* its values at 1 .. n follow from each other, takes an induction, which  *)
(* the well-foundedness of the natural numbers gives.                      *)
(***************************************************************************)
\* A property of natural numbers that zero has and that every successor takes over.
LEMMA Induction ==
  ASSUME NEW Good, 0 \in Good, \A n \in Nat : n \in Good => n + 1 \in Good
  PROVE  Nat \subseteq Good
<1> SUFFICES ASSUME Nat \ Good # {} PROVE FALSE
  OBVIOUS
<1>1. PICK n \in Nat \ Good : \A m \in Nat \ Good : ~(m < n)
  <2>1. PICK n \in Nat \ Good : \A m \in Nat \ Good : ~(<<m, n>> \in OpToRel(<, Nat))
    BY NatLessThanWellFounded, WFMin
  <2> QED  BY <2>1 DEF OpToRel
<1>2. n # 0 /\ n - 1 \in Nat /\ n - 1 < n
  OBVIOUS
<1> QED  BY <1>1, <1>2

\* The greatest of some numbers up to n, if n is one of them.
LEMMA MaxIsTop ==
  ASSUME NEW n \in Nat, NEW S \in SUBSET (1 .. n), n \in S PROVE Max(S) = n
<1>1. \A x \in S : x \in 1 .. n
  OBVIOUS
<1>2. \A y \in S : n >= y
  BY <1>1
<1>3. \A x \in S : (\A y \in S : x >= y) => x = n
  BY <1>1
<1> QED  BY <1>2, <1>3 DEF Max

\* The recursion by which a step function F is folded over a sequence, and that it has
\* a solution.
FoldedBy(F, base, seq, g) ==
  \A S \in SUBSET (1 .. Len(seq)) :
    /\ g[S] = IF S = {} THEN base ELSE F[<<g[S \ {Max(S)}], seq[Max(S)]>>]
    /\ S # {} => Max(S) \in S

LEMMA FoldExists ==
  ASSUME NEW A, NEW E, NEW F \in [A \X E -> A], NEW base \in A, NEW seq \in Seq(E)
  PROVE  \E g \in [SUBSET (1 .. Len(seq)) -> A] : FoldedBy(F, base, seq, g)
<1> DEFINE Solves(g, n) ==
             \A S \in SUBSET (1 .. n) :
               /\ g[S] = IF S = {} THEN base ELSE F[<<g[S \ {Max(S)}], seq[Max(S)]>>]
               /\ S # {} => Max(S) \in S
           Solved(n) == \E g \in [SUBSET (1 .. n) -> A] : Solves(g, n)
           Good == {n \in Nat : n <= Len(seq) => Solved(n)}
<1>1. 0 \in Good
  <2> DEFINE g == [S \in SUBSET (1 .. 0) |-> base]
  <2>1. \A S \in SUBSET (1 .. 0) : S = {}
    OBVIOUS
  <2>2. g \in [SUBSET (1 .. 0) -> A]
    OBVIOUS
  <2>3. \A S \in SUBSET (1 .. 0) : g[S] = base
    OBVIOUS
  <2> HIDE DEF g
  <2>4. Solves(g, 0)
    BY <2>1, <2>3
  <2> QED  BY <2>2, <2>4
<1>2. ASSUME NEW n \in Nat, n \in Good PROVE n + 1 \in Good
  <2> HIDE DEF Solved
  <2> SUFFICES ASSUME n + 1 <= Len(seq) PROVE Solved(n + 1)
    OBVIOUS
  <2>0. Solved(n)
    BY <1>2
  <2> USE DEF Solved
  <2>1. PICK g \in [SUBSET (1 .. n) -> A] : Solves(g, n)
    BY <2>0
  <2> DEFINE h == [S \in SUBSET (1 .. n + 1) |->
                     IF n + 1 \in S THEN F[<<g[S \ {n + 1}], seq[n + 1]>>] ELSE g[S]]
  <2>2. seq[n + 1] \in E
    OBVIOUS
  <2>3. \A S \in SUBSET (1 .. n + 1) :
          /\ n + 1 \in S => S \ {n + 1} \in SUBSET (1 .. n)
          /\ n + 1 \notin S => S \in SUBSET (1 .. n)
    OBVIOUS
  <2>4. h \in [SUBSET (1 .. n + 1) -> A]
    <3> SUFFICES ASSUME NEW S \in SUBSET (1 .. n + 1) PROVE h[S] \in A
      OBVIOUS
    <3> QED  BY <2>1, <2>2, <2>3
  <2>5. \A S \in SUBSET (1 .. n) : h[S] = g[S]
    OBVIOUS
  <2>6. Solves(h, n + 1)
    <3> SUFFICES ASSUME NEW S \in SUBSET (1 .. n + 1)
                 PROVE  /\ h[S] = IF S = {} THEN base ELSE F[<<h[S \ {Max(S)}], seq[Max(S)]>>]
                        /\ S # {} => Max(S) \in S
      OBVIOUS
    <3>1. CASE n + 1 \in S
      <4>1. Max(S) = n + 1
        BY <3>1, MaxIsTop
      <4>2. h[S \ {n + 1}] = g[S \ {n + 1}]
        BY <2>3, <2>5, <3>1
      <4> QED  BY <3>1, <4>1, <4>2
    <3>2. CASE n + 1 \notin S
      <4>1. S \in SUBSET (1 .. n) /\ S \ {Max(S)} \in SUBSET (1 .. n)
        BY <2>3, <3>2
      <4>2. h[S] = g[S] /\ h[S \ {Max(S)}] = g[S \ {Max(S)}]
        BY <2>5, <4>1
      <4> HIDE DEF h
      <4> QED  BY <2>1, <4>1, <4>2
    <3> QED  BY <3>1, <3>2
  <2> QED  BY <2>4, <2>6
<1>3. Len(seq) \in Good
  <2>1. Len(seq) \in Nat
    OBVIOUS
  <2> HIDE DEF Good
  <2> QED  BY <1>1, <1>2, <2>1, Induction
<1>4. Solved(Len(seq))
  <2> HIDE DEF Solved
  <2> QED  BY <1>3
<1> QED  BY <1>4 DEF FoldedBy

\* A function that steps through the beginnings of a sequence by F, where that is defined.
StepsBy(A, E, F, base, seq, it) ==
  /\ it[{}] = base
  /\ \A S \in SUBSET (1 .. Len(seq)) :
       S # {} /\ it[S \ {Max(S)}] \in A /\ seq[Max(S)] \in E
         => it[S] = F[<<it[S \ {Max(S)}], seq[Max(S)]>>]

\* What a fold gives after each of a sequence's beginnings.
Folded(F, base, seq, f) ==
  f[0] = base /\ \A i \in 1 .. Len(seq) : f[i] = F[<<f[i - 1], seq[i]>>]

FoldsTo(A, F, base, seq, result) ==
  \E f \in [0 .. Len(seq) -> A] : Folded(F, base, seq, f) /\ f[Len(seq)] = result

LEMMA FoldSteps ==
  ASSUME NEW A, NEW E, NEW F \in [A \X E -> A], NEW base \in A, NEW seq \in Seq(E), NEW it,
         StepsBy(A, E, F, base, seq, it)
  PROVE  FoldsTo(A, F, base, seq, it[1 .. Len(seq)])
<1> DEFINE f == [i \in 0 .. Len(seq) |-> it[1 .. i]]
           Good == {i \in Nat : i <= Len(seq) => f[i] \in A}
<1>0. Len(seq) \in Nat
  OBVIOUS
<1>1. f[0] = base
  <2>1. 1 .. 0 = {}
    OBVIOUS
  <2> QED  BY <1>0, <2>1 DEF StepsBy
<1>2. ASSUME NEW i \in 1 .. Len(seq), f[i - 1] \in A
      PROVE  f[i] = F[<<f[i - 1], seq[i]>>] /\ f[i] \in A
  <2>1. /\ 1 .. i \in SUBSET (1 .. Len(seq)) /\ i \in 1 .. i /\ (1 .. i) \ {i} = 1 .. i - 1
        /\ i \in Nat
    BY <1>0
  <2>2. Max(1 .. i) = i
    BY <2>1, MaxIsTop
  <2>3. seq[i] \in E /\ f[i] = it[1 .. i] /\ f[i - 1] = it[1 .. i - 1]
    BY <1>0
  <2>4. 1 .. i # {} /\ it[(1 .. i) \ {Max(1 .. i)}] \in A /\ seq[Max(1 .. i)] \in E
    BY <1>2, <2>1, <2>2, <2>3
  <2>5. f[i] = F[<<f[i - 1], seq[i]>>]
    BY <2>1, <2>2, <2>3, <2>4 DEF StepsBy
  <2> HIDE DEF f
  <2> QED  BY <1>2, <2>3, <2>5
<1> HIDE DEF f
<1>3. Nat \subseteq Good
  <2>1. 0 \in Good
    BY <1>1
  <2>2. ASSUME NEW i \in Nat, i \in Good PROVE i + 1 \in Good
    <3> SUFFICES ASSUME i + 1 <= Len(seq) PROVE f[i + 1] \in A
      OBVIOUS
    <3>1. i + 1 \in 1 .. Len(seq) /\ (i + 1) - 1 = i /\ f[i] \in A
      BY <1>0, <2>2
    <3> QED  BY <1>2, <3>1
  <2> HIDE DEF Good
  <2> QED  BY <2>1, <2>2, Induction
<1>4. \A i \in 0 .. Len(seq) : f[i] \in A
  BY <1>0, <1>3
<1>5. \A i \in 1 .. Len(seq) : f[i] = F[<<f[i - 1], seq[i]>>]
  <2> SUFFICES ASSUME NEW i \in 1 .. Len(seq) PROVE f[i] = F[<<f[i - 1], seq[i]>>]
    OBVIOUS
  <2>1. i - 1 \in 0 .. Len(seq)
    BY <1>0
  <2> QED  BY <1>2, <1>4, <2>1
<1>6. f \in [0 .. Len(seq) -> A] /\ f[Len(seq)] = it[1 .. Len(seq)]
  BY <1>0, <1>4 DEF f
<1> QED  BY <1>1, <1>5, <1>6 DEF Folded, FoldsTo

\* What a fold gives is the same after the same beginning.
LEMMA FoldedAgree ==
  ASSUME NEW F, NEW base, NEW s, NEW t, NEW f, NEW g, NEW n \in Nat,
         n <= Len(s), n <= Len(t), Len(s) \in Nat, Len(t) \in Nat, \A i \in 1 .. n : s[i] = t[i],
         Folded(F, base, s, f), Folded(F, base, t, g)
  PROVE  f[n] = g[n]
<1> DEFINE Good == {i \in Nat : i <= n => f[i] = g[i]}
<1>1. 0 \in Good
  BY DEF Folded
<1>2. ASSUME NEW i \in Nat, i \in Good PROVE i + 1 \in Good
  <2> SUFFICES ASSUME i + 1 <= n PROVE f[i + 1] = g[i + 1]
    OBVIOUS
  <2>1. f[i] = g[i] /\ s[i + 1] = t[i + 1] /\ (i + 1) - 1 = i
    BY <1>2
  <2>2. i + 1 \in 1 .. Len(s) /\ i + 1 \in 1 .. Len(t)
    OBVIOUS
  <2>3. f[i + 1] = F[<<f[(i + 1) - 1], s[i + 1]>>] /\ g[i + 1] = F[<<g[(i + 1) - 1], t[i + 1]>>]
    BY <2>2 DEF Folded
  <2> QED  BY <2>1, <2>3
<1>3. Nat \subseteq Good
  <2> HIDE DEF Good
  <2> QED  BY <1>1, <1>2, Induction
<1> QED  BY <1>3

-----------------------------------------------------------------------------
(***************************************************************************)
(* The scan for the end of a text.                                         *)
(***************************************************************************)
Scans == [depth : Int, inString : BOOLEAN, escape : BOOLEAN, at : Nat, end : Nat]

Scan(data) == FoldLeft(ScanByte, ScanStart, data)

LEMMA ScanByteType ==
  ASSUME NEW scan \in Scans, NEW byte \in Bytes PROVE ScanByte(scan, byte) \in Scans
<1> DEFINE next == [scan EXCEPT !.at = @ + 1]
<1>1. next \in Scans /\ next.depth \in Int /\ next.at \in Nat /\ next.inString \in BOOLEAN
  BY DEF Scans
<1>2. CASE scan.end # 0
  BY <1>2 DEF ScanByte
<1>3. CASE scan.end = 0 /\ scan.escape
  <2>1. ScanByte(scan, byte) = [next EXCEPT !.escape = FALSE]
    BY <1>3 DEF ScanByte
  <2> QED  BY <1>1, <2>1 DEF Scans
<1>4. CASE scan.end = 0 /\ ~scan.escape
  <2>1. ScanByte(scan, byte) =
          CASE byte = "backslash" -> [next EXCEPT !.escape = TRUE]
            [] byte = "quote" -> [next EXCEPT !.inString = ~@]
            [] byte = "open" /\ Counts(scan) -> [next EXCEPT !.depth = @ + 1]
            [] byte = "close" /\ Counts(scan) ->
                 [next EXCEPT !.depth = @ - 1,
                              !.end = IF scan.depth = 1 THEN next.at ELSE 0]
            [] OTHER -> next
    BY <1>4 DEF ScanByte
  <2> HIDE DEF next
  <2>2. CASE byte = "backslash"
    BY <1>1, <2>1, <2>2 DEF Scans
  <2>3. CASE byte = "quote"
    BY <1>1, <2>1, <2>3 DEF Scans
  <2>4. CASE byte = "open" /\ Counts(scan)
    BY <1>1, <2>1, <2>4 DEF Scans
  <2>5. CASE byte = "close" /\ Counts(scan)
    <3>1. (IF scan.depth = 1 THEN next.at ELSE 0) \in Nat /\ next.depth - 1 \in Int
      BY <1>1
    <3>2. ScanByte(scan, byte) = [next EXCEPT !.depth = @ - 1,
                                    !.end = IF scan.depth = 1 THEN next.at ELSE 0]
      BY <2>1, <2>5
    <3> QED  BY <1>1, <3>1, <3>2 DEF Scans
  <2>6. CASE /\ byte # "backslash" /\ byte # "quote"
             /\ ~(byte = "open" /\ Counts(scan)) /\ ~(byte = "close" /\ Counts(scan))
    BY <1>1, <2>1, <2>6
  <2> QED  BY <2>2, <2>3, <2>4, <2>5, <2>6
<1> QED  BY <1>2, <1>3, <1>4 DEF Scans

ScanFun == [p \in Scans \X Bytes |-> ScanByte(p[1], p[2])]

LEMMA ScanFolds ==
  ASSUME NEW data \in Seq(Bytes)
  PROVE  FoldsTo(Scans, ScanFun, ScanStart, data, Scan(data))
<1> DEFINE places == 1 .. Len(data)
           it == CHOOSE it : it = [S \in SUBSET places |->
                   IF S = {} THEN ScanStart ELSE ScanByte(it[S \ {Max(S)}], data[Max(S)])]
<1>1. Scan(data) = it[places]
  <2>1. DOMAIN data = places
    OBVIOUS
  <2> QED  BY <2>1 DEF Scan, FoldLeft, MapThenFoldSet
<1>2. ScanFun \in [Scans \X Bytes -> Scans] /\ ScanStart \in Scans
      /\ \A scan \in Scans, byte \in Bytes : ScanFun[<<scan, byte>>] = ScanByte(scan, byte)
  <2>1. ScanStart \in Scans
    BY DEF ScanStart, Scans
  <2> QED  BY <2>1, ScanByteType DEF ScanFun
<1>3. PICK g \in [SUBSET places -> Scans] : FoldedBy(ScanFun, ScanStart, data, g)
  <2> HIDE DEF it
  <2> QED  BY <1>2, FoldExists
<1>4. g = [S \in SUBSET places |->
            IF S = {} THEN ScanStart ELSE ScanByte(g[S \ {Max(S)}], data[Max(S)])]
  <2> HIDE DEF it
  <2> SUFFICES ASSUME NEW S \in SUBSET places, S # {}
               PROVE  g[S] = ScanByte(g[S \ {Max(S)}], data[Max(S)])
    <3>1. g[{}] = ScanStart
      BY <1>3 DEF FoldedBy
    <3> QED  BY <1>3, <3>1
  <2>1. g[S] = ScanFun[<<g[S \ {Max(S)}], data[Max(S)]>>] /\ Max(S) \in S
    BY <1>3 DEF FoldedBy
  <2>2. S \ {Max(S)} \in SUBSET places /\ Max(S) \in 1 .. Len(data)
    BY <2>1
  <2>3. g[S \ {Max(S)}] \in Scans /\ data[Max(S)] \in Bytes
    BY <1>3, <2>2
  <2> QED  BY <1>2, <2>1, <2>3
<1>5. it = [S \in SUBSET places |->
             IF S = {} THEN ScanStart ELSE ScanByte(it[S \ {Max(S)}], data[Max(S)])]
  <2>1. \E h : h = [S \in SUBSET places |->
             IF S = {} THEN ScanStart ELSE ScanByte(h[S \ {Max(S)}], data[Max(S)])]
    BY <1>4
  <2> QED  BY <2>1
<1> HIDE DEF it
<1>6. it[{}] = ScanStart
  BY <1>5
<1>7. StepsBy(Scans, Bytes, ScanFun, ScanStart, data, it)
  BY <1>2, <1>5, <1>6 DEF StepsBy
<1>8. ASSUME NEW F \in [Scans \X Bytes -> Scans], NEW base \in Scans, NEW h,
             StepsBy(Scans, Bytes, F, base, data, h)
      PROVE  FoldsTo(Scans, F, base, data, h[1 .. Len(data)])
  BY <1>8, FoldSteps
<1> QED  BY <1>1, <1>2, <1>7, <1>8

LEMMA FoldsToSame ==
  ASSUME NEW A, NEW F, NEW base, NEW E, NEW seq \in Seq(E), NEW v, NEW w,
         FoldsTo(A, F, base, seq, v), FoldsTo(A, F, base, seq, w)
  PROVE  v = w
<1>1. PICK f \in [0 .. Len(seq) -> A] : Folded(F, base, seq, f) /\ f[Len(seq)] = v
  BY DEF FoldsTo
<1>2. PICK g \in [0 .. Len(seq) -> A] : Folded(F, base, seq, g) /\ g[Len(seq)] = w
  BY DEF FoldsTo
<1>3. Len(seq) \in Nat /\ Len(seq) <= Len(seq) /\ \A i \in 1 .. Len(seq) : seq[i] = seq[i]
  OBVIOUS
<1>4. f[Len(seq)] = g[Len(seq)]
  BY <1>1, <1>2, <1>3, FoldedAgree
<1> QED  BY <1>1, <1>2, <1>4

LEMMA FoldsToEmpty ==
  ASSUME NEW A, NEW F, NEW base, NEW v, FoldsTo(A, F, base, <<>>, v)
  PROVE  v = base
BY DEF FoldsTo, Folded

LEMMA FoldsToAppend ==
  ASSUME NEW A, NEW F, NEW base, NEW E, NEW seq \in Seq(E), NEW e \in E, NEW v, NEW w,
         FoldsTo(A, F, base, seq, v), FoldsTo(A, F, base, Append(seq, e), w)
  PROVE  v \in A /\ w = F[<<v, e>>]
<1> DEFINE n == Len(seq)
           longer == Append(seq, e)
<1>1. PICK f \in [0 .. n -> A] : Folded(F, base, seq, f) /\ f[n] = v
  BY DEF FoldsTo
<1>2. n \in Nat /\ Len(longer) = n + 1 /\ longer[n + 1] = e /\ \A i \in 1 .. n : seq[i] = longer[i]
  OBVIOUS
<1>3. PICK g \in [0 .. n + 1 -> A] : Folded(F, base, longer, g) /\ g[n + 1] = w
  <2> HIDE DEF longer, n
  <2>1. FoldsTo(A, F, base, longer, w)
    BY DEF longer
  <2> QED  BY <1>2, <2>1 DEF FoldsTo
<1> HIDE DEF longer, n
<1>4. f[n] = g[n]
  <2>1. n <= Len(seq) /\ n <= Len(longer) /\ Len(seq) \in Nat /\ Len(longer) \in Nat
    BY <1>2 DEF n
  <2> QED  BY <1>1, <1>2, <1>3, <2>1, FoldedAgree
<1>5. g[n + 1] = F[<<g[n], e>>]
  <2>1. n + 1 \in 1 .. Len(longer) /\ (n + 1) - 1 = n
    BY <1>2
  <2>2. g[n + 1] = F[<<g[(n + 1) - 1], longer[n + 1]>>]
    BY <1>3, <2>1 DEF Folded
  <2> QED  BY <1>2, <2>1, <2>2
<1>6. v \in A
  BY <1>1, <1>2
<1> QED  BY <1>1, <1>3, <1>4, <1>5, <1>6

\* A property of sequences that the empty one has and that appending keeps.
LEMMA SeqInduction ==
  ASSUME NEW E, NEW Good, <<>> \in Good,
         \A s \in Seq(E) : s \in Good => \A e \in E : Append(s, e) \in Good
  PROVE  Seq(E) \subseteq Good
<1> DEFINE Long == {n \in Nat : \A s \in Seq(E) : Len(s) = n => s \in Good}
<1>1. 0 \in Long
  <2>1. \A s \in Seq(E) : Len(s) = 0 => s = <<>>
    OBVIOUS
  <2> QED  BY <2>1
<1>2. ASSUME NEW n \in Nat, n \in Long PROVE n + 1 \in Long
  <2> SUFFICES ASSUME NEW s \in Seq(E), Len(s) = n + 1 PROVE s \in Good
    OBVIOUS
  <2> DEFINE front == SubSeq(s, 1, n)
  <2>1. front \in Seq(E) /\ Len(front) = n /\ s[n + 1] \in E /\ s = Append(front, s[n + 1])
    OBVIOUS
  <2> HIDE DEF front
  <2> QED  BY <1>2, <2>1
<1>3. Nat \subseteq Long
  <2> HIDE DEF Long
  <2> QED  BY <1>1, <1>2, Induction
<1> QED  BY <1>3

-----------------------------------------------------------------------------
(***************************************************************************)
(* Where a text ends.                                                      *)
(***************************************************************************)
LEMMA ScanSteps ==
  /\ Scan(<<>>) = ScanStart
  /\ \A data \in Seq(Bytes) :
       /\ Scan(data) \in Scans
       /\ \A byte \in Bytes : Scan(Append(data, byte)) = ScanByte(Scan(data), byte)
<1>1. <<>> \in Seq(Bytes)
  OBVIOUS
<1>2. Scan(<<>>) = ScanStart
  BY <1>1, ScanFolds, FoldsToEmpty
<1>3. ASSUME NEW data \in Seq(Bytes), NEW byte \in Bytes
      PROVE  Scan(data) \in Scans /\ Scan(Append(data, byte)) = ScanByte(Scan(data), byte)
  <2>1. FoldsTo(Scans, ScanFun, ScanStart, data, Scan(data))
    BY ScanFolds
  <2>2. FoldsTo(Scans, ScanFun, ScanStart, Append(data, byte), Scan(Append(data, byte)))
    <3>1. Append(data, byte) \in Seq(Bytes)
      OBVIOUS
    <3> QED  BY <3>1, ScanFolds
  <2>3. Scan(data) \in Scans /\ Scan(Append(data, byte)) = ScanFun[<<Scan(data), byte>>]
    BY <2>1, <2>2, FoldsToAppend
  <2> QED  BY <2>3 DEF ScanFun
<1>4. "lf" \in Bytes
  BY DEF Bytes
<1> QED  BY <1>2, <1>3, <1>4

\* The scan counts the bytes until a text ends, and stops there.
LEMMA ScanByteEnds ==
  ASSUME NEW scan \in Scans, NEW byte \in Bytes
  PROVE  LET next == ScanByte(scan, byte)
         IN  /\ scan.end # 0 => next = scan
             /\ scan.end = 0 => next.at = scan.at + 1 /\ next.end \in {0, next.at}
<1> DEFINE next == [scan EXCEPT !.at = @ + 1]
<1>1. CASE scan.end # 0
  BY <1>1 DEF ScanByte
<1>2. CASE scan.end = 0 /\ scan.escape
  <2>1. ScanByte(scan, byte) = [next EXCEPT !.escape = FALSE]
    BY <1>2 DEF ScanByte
  <2> QED  BY <1>2, <2>1 DEF Scans
<1>3. CASE scan.end = 0 /\ ~scan.escape
  <2>1. ScanByte(scan, byte) =
          CASE byte = "backslash" -> [next EXCEPT !.escape = TRUE]
            [] byte = "quote" -> [next EXCEPT !.inString = ~@]
            [] byte = "open" /\ Counts(scan) -> [next EXCEPT !.depth = @ + 1]
            [] byte = "close" /\ Counts(scan) ->
                 [next EXCEPT !.depth = @ - 1,
                              !.end = IF scan.depth = 1 THEN next.at ELSE 0]
            [] OTHER -> next
    BY <1>3 DEF ScanByte
  <2>2. next.at = scan.at + 1 /\ next.end = 0
    BY <1>3 DEF Scans
  <2>3. /\ DOMAIN next = {"depth", "inString", "escape", "at", "end"}
        /\ [next EXCEPT !.escape = TRUE].at = next.at /\ [next EXCEPT !.escape = TRUE].end = next.end
        /\ [next EXCEPT !.inString = ~@].at = next.at /\ [next EXCEPT !.inString = ~@].end = next.end
        /\ [next EXCEPT !.depth = @ + 1].at = next.at /\ [next EXCEPT !.depth = @ + 1].end = next.end
    BY DEF Scans
  <2>4. LET closed == [next EXCEPT !.depth = @ - 1, !.end = IF scan.depth = 1 THEN next.at ELSE 0]
        IN  closed.at = next.at /\ closed.end \in {0, next.at}
    BY <2>3
  <2> HIDE DEF next
  <2> QED  BY <1>3, <2>1, <2>2, <2>3, <2>4
<1> QED  BY <1>1, <1>2, <1>3 DEF Scans

LEMMA ScanCounts ==
  ASSUME NEW data \in Seq(Bytes)
  PROVE  LET scan == Scan(data)
         IN  /\ scan.end = 0 => scan.at = Len(data)
             /\ scan.end \in 0 .. Len(data)
<1> DEFINE Good == {s \in Seq(Bytes) : /\ Scan(s).end = 0 => Scan(s).at = Len(s)
                                       /\ Scan(s).end \in 0 .. Len(s)}
<1>1. <<>> \in Good
  BY ScanSteps DEF ScanStart
<1>2. ASSUME NEW s \in Seq(Bytes), s \in Good, NEW byte \in Bytes PROVE Append(s, byte) \in Good
  <2> DEFINE next == Scan(Append(s, byte))
  <2>1. next = ScanByte(Scan(s), byte) /\ Scan(s) \in Scans
    BY ScanSteps
  <2>2. /\ Append(s, byte) \in Seq(Bytes) /\ Len(Append(s, byte)) = Len(s) + 1 /\ Len(s) \in Nat
        /\ Scan(s).at \in Nat /\ Scan(s).end \in Nat
    BY <2>1 DEF Scans
  <2>3. /\ Scan(s).end # 0 => next = Scan(s)
        /\ Scan(s).end = 0 => next.at = Scan(s).at + 1 /\ next.end \in {0, next.at}
    BY <2>1, ScanByteEnds
  <2> HIDE DEF next
  <2>4. (next.end = 0 => next.at = Len(s) + 1) /\ next.end \in 0 .. Len(s) + 1
    BY <1>2, <2>2, <2>3
  <2> QED  BY <2>2, <2>4 DEF next
<1>3. Seq(Bytes) \subseteq Good
  <2> HIDE DEF Good
  <2> QED  BY <1>1, <1>2, SeqInduction
<1> QED  BY <1>3

\* A text ends where its last byte closes it, whatever follows.
LEMMA TextEndSteps ==
  /\ TextEnd(<<>>) = 0
  /\ \A data \in Seq(Bytes) :
       /\ TextEnd(data) \in 0 .. Len(data)
       /\ \A byte \in Bytes :
            IF TextEnd(data) = 0 THEN TextEnd(Append(data, byte)) \in {0, Len(data) + 1}
                                 ELSE TextEnd(Append(data, byte)) = TextEnd(data)
<1>1. \A data : TextEnd(data) = Scan(data).end
  BY DEF TextEnd, Scan
<1>2. TextEnd(<<>>) = 0
  BY <1>1, ScanSteps DEF ScanStart
<1>3. ASSUME NEW data \in Seq(Bytes), NEW byte \in Bytes
      PROVE  IF TextEnd(data) = 0 THEN TextEnd(Append(data, byte)) \in {0, Len(data) + 1}
                                  ELSE TextEnd(Append(data, byte)) = TextEnd(data)
  <2>1. Scan(Append(data, byte)) = ScanByte(Scan(data), byte) /\ Scan(data) \in Scans
    BY ScanSteps
  <2>2. Scan(data).end = 0 => Scan(data).at = Len(data)
    BY ScanCounts
  <2> QED  BY <1>1, <2>1, <2>2, ScanByteEnds
<1> QED  BY <1>1, <1>2, <1>3, ScanCounts

-----------------------------------------------------------------------------
(***************************************************************************)
(* One turn of the extraction.                                             *)
(***************************************************************************)
LEMMA LeastExists ==
  ASSUME NEW S \in SUBSET Nat, S # {}
  PROVE  Min(S) \in S /\ \A j \in S : Min(S) <= j
<1>1. PICK n \in S : \A m \in S : ~(m < n)
  <2>1. PICK n \in S : \A m \in S : ~(<<m, n>> \in OpToRel(<, Nat))
    BY NatLessThanWellFounded, WFMin
  <2> QED  BY <2>1 DEF OpToRel
<1>2. \A m \in S : n <= m
  BY <1>1
<1> QED  BY <1>2 DEF Min

\* The first place of a byte.
LEMMA FirstPlace ==
  ASSUME NEW data \in Seq(Bytes), NEW byte
  PROVE  LET i == IndexOf(data, byte)
         IN  \/ i = 0 /\ \A j \in 1 .. Len(data) : data[j] # byte
             \/ i \in 1 .. Len(data) /\ data[i] = byte /\ \A j \in 1 .. i - 1 : data[j] # byte
<1> DEFINE S == {j \in 1 .. Len(data) : data[j] = byte}
<1>1. IndexOf(data, byte) = IF S # {} THEN Min(S) ELSE 0
  BY DEF IndexOf, SelectInSeq
<1>2. CASE S = {}
  BY <1>1, <1>2
<1>3. CASE S # {}
  <2>1. S \in SUBSET Nat
    OBVIOUS
  <2> HIDE DEF S
  <2>2. Min(S) \in S /\ \A j \in S : Min(S) <= j
    BY <1>3, <2>1, LeastExists
  <2>3. Min(S) \in 1 .. Len(data) /\ data[Min(S)] = byte
    BY <2>2 DEF S
  <2>4. \A j \in 1 .. Min(S) - 1 : j \in 1 .. Len(data) /\ ~(Min(S) <= j)
    BY <2>3
  <2>5. \A j \in 1 .. Min(S) - 1 : data[j] # byte
    BY <2>2, <2>4 DEF S
  <2> QED  BY <1>1, <1>3, <2>3, <2>5
<1> QED  BY <1>2, <1>3

LEMMA FirstIs ==
  ASSUME NEW data \in Seq(Bytes), NEW byte, NEW i \in 1 .. Len(data), data[i] = byte,
         \A j \in 1 .. i - 1 : data[j] # byte
  PROVE  IndexOf(data, byte) = i
<1> DEFINE first == IndexOf(data, byte)
<1>1. \/ first = 0 /\ \A j \in 1 .. Len(data) : data[j] # byte
      \/ first \in 1 .. Len(data) /\ data[first] = byte /\ \A j \in 1 .. first - 1 : data[j] # byte
  BY FirstPlace
<1> HIDE DEF first
<1>2. first \in 1 .. Len(data) /\ data[first] = byte /\ \A j \in 1 .. first - 1 : data[j] # byte
  BY <1>1
<1>3. ~(first < i)
  <2> SUFFICES ASSUME first < i PROVE FALSE
    OBVIOUS
  <2>1. first \in 1 .. i - 1
    BY <1>2
  <2> QED  BY <1>2, <2>1
<1>4. ~(i < first)
  <2> SUFFICES ASSUME i < first PROVE FALSE
    OBVIOUS
  <2>1. i \in 1 .. first - 1
    BY <1>2
  <2> QED  BY <1>2, <2>1
<1>5. first = i
  BY <1>2, <1>3, <1>4
<1> QED  BY <1>5 DEF first

\* A byte that comes later does not change where the first one is.
LEMMA FirstStays ==
  ASSUME NEW data \in Seq(Bytes), NEW wanted, NEW byte \in Bytes
  PROVE  IndexOf(Append(data, byte), wanted) =
           IF IndexOf(data, wanted) # 0 THEN IndexOf(data, wanted)
           ELSE IF byte = wanted THEN Len(data) + 1 ELSE 0
<1> DEFINE longer == Append(data, byte)
<1>1. /\ longer \in Seq(Bytes) /\ Len(longer) = Len(data) + 1 /\ Len(data) \in Nat
      /\ longer[Len(data) + 1] = byte /\ \A j \in 1 .. Len(data) : longer[j] = data[j]
  OBVIOUS
<1> HIDE DEF longer
<1>2. CASE IndexOf(data, wanted) # 0
  <2> DEFINE i == IndexOf(data, wanted)
  <2>1. i \in 1 .. Len(data) /\ data[i] = wanted /\ \A j \in 1 .. i - 1 : data[j] # wanted
    BY <1>2, FirstPlace
  <2> HIDE DEF i
  <2>2. i \in 1 .. Len(longer) /\ longer[i] = wanted /\ \A j \in 1 .. i - 1 : longer[j] # wanted
    <3>1. \A j \in 1 .. i - 1 : j \in 1 .. Len(data)
      BY <2>1, <1>1
    <3> QED  BY <1>1, <2>1, <3>1
  <2>3. IndexOf(longer, wanted) = i
    BY <1>1, <2>2, FirstIs
  <2> QED  BY <1>2, <2>3 DEF i, longer
<1>3. CASE IndexOf(data, wanted) = 0
  <2>1. \A j \in 1 .. Len(data) : data[j] # wanted
    BY <1>3, FirstPlace
  <2>2. CASE byte = wanted
    <3>1. /\ Len(data) + 1 \in 1 .. Len(longer)
          /\ \A j \in 1 .. (Len(data) + 1) - 1 : longer[j] # wanted
      BY <1>1, <2>1
    <3>2. IndexOf(longer, wanted) = Len(data) + 1
      BY <1>1, <2>2, <3>1, FirstIs
    <3> QED  BY <1>3, <2>2, <3>2 DEF longer
  <2>3. CASE byte # wanted
    <3>1. \A j \in 1 .. Len(longer) : longer[j] # wanted
      BY <1>1, <2>1, <2>3
    <3>2. IndexOf(longer, wanted) = 0
      BY <1>1, <3>1, FirstPlace
    <3> QED  BY <1>3, <2>3, <3>2 DEF longer
  <2> QED  BY <2>2, <2>3
<1> QED  BY <1>2, <1>3

LEMMA SameSeq ==
  ASSUME NEW E, NEW a \in Seq(E), NEW b \in Seq(E), NEW n \in Nat, Len(a) = n, Len(b) = n,
         \A i \in 1 .. n : a[i] = b[i]
  PROVE  a = b
OBVIOUS

LEMMA DropType ==
  ASSUME NEW data \in Seq(Bytes), NEW n \in 0 .. Len(data)
  PROVE  /\ DropFirst(data, n) \in Seq(Bytes) /\ Len(DropFirst(data, n)) = Len(data) - n
         /\ \A i \in 1 .. Len(data) - n : DropFirst(data, n)[i] = data[n + i]
BY DEF DropFirst

LEMMA DropAll == ASSUME NEW data \in Seq(Bytes) PROVE DropFirst(data, Len(data)) = <<>>
BY DEF DropFirst

LEMMA DropNone == ASSUME NEW data \in Seq(Bytes) PROVE DropFirst(data, 0) = data
BY DEF DropFirst

\* What is dropped from the front does not see what is appended.
LEMMA DropAppend ==
  ASSUME NEW data \in Seq(Bytes), NEW n \in 0 .. Len(data), NEW byte \in Bytes
  PROVE  DropFirst(Append(data, byte), n) = Append(DropFirst(data, n), byte)
<1> DEFINE longer == Append(data, byte)
           left == DropFirst(data, n)
           size == Len(data) - n
<1>1. /\ longer \in Seq(Bytes) /\ Len(longer) = Len(data) + 1 /\ Len(data) \in Nat /\ size \in Nat
      /\ longer[Len(data) + 1] = byte /\ \A j \in 1 .. Len(data) : longer[j] = data[j]
      /\ n + (size + 1) = Len(data) + 1
  OBVIOUS
<1>2. left \in Seq(Bytes) /\ Len(left) = size /\ \A i \in 1 .. size : left[i] = data[n + i]
  BY DropType
<1> HIDE DEF longer, left
<1>3. /\ DropFirst(longer, n) \in Seq(Bytes) /\ Len(DropFirst(longer, n)) = size + 1
      /\ \A i \in 1 .. size + 1 : DropFirst(longer, n)[i] = longer[n + i]
  <2>1. n \in 0 .. Len(longer) /\ Len(longer) - n = size + 1
    BY <1>1
  <2> QED  BY <1>1, <2>1, DropType
<1>4. /\ Append(left, byte) \in Seq(Bytes) /\ Len(Append(left, byte)) = size + 1
      /\ Append(left, byte)[size + 1] = byte
      /\ \A i \in 1 .. size : Append(left, byte)[i] = left[i]
  BY <1>1, <1>2
<1> HIDE DEF size
<1>5. \A i \in 1 .. size + 1 : DropFirst(longer, n)[i] = Append(left, byte)[i]
  <2> SUFFICES ASSUME NEW i \in 1 .. size + 1 PROVE DropFirst(longer, n)[i] = Append(left, byte)[i]
    OBVIOUS
  <2>1. CASE i = size + 1
    BY <1>1, <1>3, <1>4, <2>1
  <2>2. CASE i # size + 1
    <3>1. i \in 1 .. size /\ n + i \in 1 .. Len(data)
      BY <1>1, <2>2 DEF size
    <3> QED  BY <1>1, <1>2, <1>3, <1>4, <3>1
  <2> QED  BY <2>1, <2>2
<1>6. DropFirst(longer, n) = Append(left, byte)
  BY <1>1, <1>3, <1>4, <1>5, SameSeq
<1> QED  BY <1>6 DEF longer, left

Founds == [texts : Seq(Seq(Bytes)), rest : Seq(Bytes)]

LEMMA ExtractionType ==
  /\ \A found \in Founds : /\ found.texts \in Seq(Seq(Bytes)) /\ found.rest \in Seq(Bytes)
                           /\ found = Extraction(found.texts, found.rest)
  /\ \A t \in Seq(Seq(Bytes)), r \in Seq(Bytes) :
       Extraction(t, r) \in Founds /\ Extraction(t, r).texts = t /\ Extraction(t, r).rest = r
BY DEF Founds, Extraction

LEMMA StartType ==
  ASSUME NEW data \in Seq(Bytes)
  PROVE  /\ Extraction(<<>>, data) \in Founds
         /\ Extraction(<<>>, data).texts = <<>> /\ Extraction(<<>>, data).rest = data
<1>1. <<>> \in Seq(Seq(Bytes))
  OBVIOUS
<1> QED  BY <1>1, ExtractionType

\* One turn of either loop.
Turn(fd, found) == IF fd = 2 THEN TakeLine(found) ELSE TakeText(found)

LEMMA TrimmedType ==
  ASSUME NEW line \in Seq(Bytes) PROVE Trimmed(line) \in Seq(Bytes)
<1>1. line # <<>> => Front(line) \in Seq(Bytes)
  BY DEF Front
<1> QED  BY <1>1 DEF Trimmed

\* What a turn does to a stream of texts: nothing is left before a bracket that opens, and
\* a text is taken where it ends.
LEMMA TextTurn ==
  ASSUME NEW found \in Founds
  PROVE  LET start == IndexOf(found.rest, "open")
             data == DropFirst(found.rest, start - 1)
             end == TextEnd(data)
         IN  \/ start = 0 /\ TakeText(found) = Extraction(found.texts, <<>>)
             \/ /\ start # 0 /\ end = 0 /\ TakeText(found) = Extraction(found.texts, data)
                /\ data \in Seq(Bytes) /\ Len(data) <= Len(found.rest) /\ IndexOf(data, "open") = 1
             \/ /\ start # 0 /\ end \in 1 .. Len(data)
                /\ data \in Seq(Bytes) /\ Len(data) <= Len(found.rest)
                /\ TakeText(found) =
                     Extraction(Append(found.texts, SubSeq(data, 1, end)), DropFirst(data, end))
<1> DEFINE start == IndexOf(found.rest, "open")
           data == DropFirst(found.rest, start - 1)
           end == TextEnd(data)
<1>0. found.rest \in Seq(Bytes)
  BY ExtractionType
<1>1. TakeText(found) =
        CASE start = 0 -> Extraction(found.texts, <<>>)
          [] start # 0 /\ end = 0 -> Extraction(found.texts, data)
          [] start # 0 /\ end # 0 ->
               Extraction(Append(found.texts, SubSeq(data, 1, end)), DropFirst(data, end))
  BY DEF TakeText, Kept
<1>2. CASE start = 0
  BY <1>1, <1>2
<1>3. CASE start # 0
  <2>1. start \in 1 .. Len(found.rest) /\ found.rest[start] = "open"
    BY <1>0, <1>3, FirstPlace
  <2>2. start - 1 \in 0 .. Len(found.rest) /\ Len(found.rest) \in Nat
    BY <1>0, <2>1
  <2> HIDE DEF start
  <2>3. /\ data \in Seq(Bytes) /\ Len(data) = Len(found.rest) - (start - 1)
        /\ \A i \in 1 .. Len(found.rest) - (start - 1) : data[i] = found.rest[(start - 1) + i]
    BY <1>0, <2>2, DropType
  <2>4. data[1] = "open" /\ 1 \in 1 .. Len(data) /\ Len(data) <= Len(found.rest)
    <3>1. (start - 1) + 1 = start /\ 1 \in 1 .. Len(found.rest) - (start - 1)
      BY <2>1, <2>2
    <3>2. data[1] = found.rest[(start - 1) + 1]
      BY <2>3, <3>1
    <3> QED  BY <2>1, <2>2, <2>3, <3>1, <3>2
  <2> HIDE DEF data
  <2>5. end \in 0 .. Len(data)
    BY <2>3, TextEndSteps
  <2>6. IndexOf(data, "open") = 1
    BY <2>3, <2>4, FirstIs
  <2> HIDE DEF end
  <2>7. end # 0 => end \in 1 .. Len(data)
    BY <2>5
  <2>8. \/ start # 0 /\ end = 0 /\ TakeText(found) = Extraction(found.texts, data)
        \/ /\ start # 0 /\ end # 0
           /\ TakeText(found) =
                     Extraction(Append(found.texts, SubSeq(data, 1, end)), DropFirst(data, end))
    BY <1>1, <1>3
  <2> QED  BY <2>3, <2>4, <2>6, <2>7, <2>8 DEF start, data, end
<1> QED  BY <1>2, <1>3

\* What a turn does to a stream of lines.
LEMMA LineTurn ==
  ASSUME NEW found \in Founds
  PROVE  LET lf == IndexOf(found.rest, "lf")
             line == Trimmed(SubSeq(found.rest, 1, lf - 1))
         IN  \/ lf = 0 /\ TakeLine(found) = found
             \/ /\ lf \in 1 .. Len(found.rest) /\ line \in Seq(Bytes)
                /\ TakeLine(found) = Extraction(Append(found.texts, line), DropFirst(found.rest, lf))
<1> DEFINE lf == IndexOf(found.rest, "lf")
<1>1. found.rest \in Seq(Bytes)
  BY ExtractionType
<1>2. lf = 0 \/ lf \in 1 .. Len(found.rest)
  BY <1>1, FirstPlace
<1>3. TakeLine(found) =
        IF lf = 0 THEN found
        ELSE Extraction(Append(found.texts, Trimmed(SubSeq(found.rest, 1, lf - 1))),
                        DropFirst(found.rest, lf))
  BY DEF TakeLine
<1> HIDE DEF lf
<1>4. lf \in 1 .. Len(found.rest) => Trimmed(SubSeq(found.rest, 1, lf - 1)) \in Seq(Bytes)
  <2>1. lf \in 1 .. Len(found.rest) => SubSeq(found.rest, 1, lf - 1) \in Seq(Bytes)
    BY <1>1
  <2> QED  BY <2>1, TrimmedType
<1>5. lf \in 1 .. Len(found.rest) => lf # 0
  BY <1>1
<1> QED  BY <1>2, <1>3, <1>4, <1>5 DEF lf

LEMMA TakenTypes ==
  ASSUME NEW data \in Seq(Bytes), NEW end \in 1 .. Len(data)
  PROVE  /\ SubSeq(data, 1, end) \in Seq(Bytes)
         /\ DropFirst(data, end) \in Seq(Bytes) /\ Len(DropFirst(data, end)) < Len(data)
<1>1. end \in 0 .. Len(data) /\ Len(data) \in Nat /\ Len(data) - end < Len(data)
  OBVIOUS
<1>2. SubSeq(data, 1, end) \in Seq(Bytes)
  OBVIOUS
<1> QED  BY <1>1, <1>2, DropType

\* A turn takes a text from the front, or it is the last that changes anything.
LEMMA TurnTypes ==
  ASSUME NEW fd, NEW found \in Founds
  PROVE  /\ Turn(fd, found) \in Founds
         /\ \/ Len(Turn(fd, found).rest) < Len(found.rest)
            \/ Turn(fd, Turn(fd, found)) = Turn(fd, found)
         /\ Len(Turn(fd, found).rest) <= Len(found.rest)
         /\ found.rest = <<>> => Turn(fd, found) = found
<1>0. found.texts \in Seq(Seq(Bytes)) /\ found.rest \in Seq(Bytes)
      /\ found = Extraction(found.texts, found.rest) /\ Len(found.rest) \in Nat
      /\ <<>> \in Seq(Bytes)
  BY ExtractionType
<1>1. CASE fd = 2
  <2>1. Turn(fd, found) = TakeLine(found) /\ \A x : Turn(fd, x) = TakeLine(x)
    BY <1>1 DEF Turn
  <2> DEFINE lf == IndexOf(found.rest, "lf")
             line == Trimmed(SubSeq(found.rest, 1, lf - 1))
  <2>2. \/ lf = 0 /\ TakeLine(found) = found
        \/ /\ lf \in 1 .. Len(found.rest) /\ line \in Seq(Bytes)
           /\ TakeLine(found) = Extraction(Append(found.texts, line), DropFirst(found.rest, lf))
    BY LineTurn
  <2> HIDE DEF lf, line
  <2>3. CASE lf = 0 /\ TakeLine(found) = found
    BY <2>1, <2>3
  <2>4. CASE /\ lf \in 1 .. Len(found.rest) /\ line \in Seq(Bytes)
             /\ TakeLine(found) = Extraction(Append(found.texts, line), DropFirst(found.rest, lf))
    <3>1. DropFirst(found.rest, lf) \in Seq(Bytes)
          /\ Len(DropFirst(found.rest, lf)) < Len(found.rest)
      BY <1>0, <2>4, TakenTypes
    <3>2. Append(found.texts, line) \in Seq(Seq(Bytes))
      BY <1>0, <2>4
    <3>3. TakeLine(found) \in Founds /\ TakeLine(found).rest = DropFirst(found.rest, lf)
      <4> DEFINE taken == Append(found.texts, line)
                 left == DropFirst(found.rest, lf)
      <4>1. taken \in Seq(Seq(Bytes)) /\ left \in Seq(Bytes)
            /\ TakeLine(found) = Extraction(taken, left)
        BY <2>4, <3>1, <3>2
      <4> HIDE DEF taken, left
      <4>2. TakeLine(found) \in Founds /\ TakeLine(found).rest = left
        BY <4>1, ExtractionType
      <4> QED  BY <4>2 DEF left
    <3>4. found.rest # <<>> /\ Len(DropFirst(found.rest, lf)) \in Nat
      BY <2>4, <3>1
    <3> QED  BY <1>0, <2>1, <3>1, <3>3, <3>4
  <2> QED  BY <2>2, <2>3, <2>4
<1>2. CASE fd # 2
  <2>1. Turn(fd, found) = TakeText(found) /\ \A x : Turn(fd, x) = TakeText(x)
    BY <1>2 DEF Turn
  <2> DEFINE start == IndexOf(found.rest, "open")
             data == DropFirst(found.rest, start - 1)
             end == TextEnd(data)
  <2>2. \/ start = 0 /\ TakeText(found) = Extraction(found.texts, <<>>)
        \/ /\ start # 0 /\ end = 0 /\ TakeText(found) = Extraction(found.texts, data)
           /\ data \in Seq(Bytes) /\ Len(data) <= Len(found.rest) /\ IndexOf(data, "open") = 1
        \/ /\ start # 0 /\ end \in 1 .. Len(data)
           /\ data \in Seq(Bytes) /\ Len(data) <= Len(found.rest)
           /\ TakeText(found) =
                Extraction(Append(found.texts, SubSeq(data, 1, end)), DropFirst(data, end))
    BY TextTurn
  <2>e. \A s : s = <<>> => IndexOf(s, "open") = 0
    <3>1. Len(<<>>) = 0 /\ <<>> \in Seq(Bytes)
      OBVIOUS
    <3>2. IndexOf(<<>>, "open") = 0 \/ IndexOf(<<>>, "open") \in 1 .. Len(<<>>)
      BY <3>1, FirstPlace
    <3> QED  BY <3>1, <3>2
  <2>s. found.rest = <<>> => start = 0
    BY <2>e
  <2>t. TextEnd(data) = end
    OBVIOUS
  <2> HIDE DEF start, data, end
  <2>3. CASE start = 0 /\ TakeText(found) = Extraction(found.texts, <<>>)
    <3> DEFINE next == Extraction(found.texts, <<>>)
    <3>0. Len(<<>>) = 0
      OBVIOUS
    <3>1. next \in Founds /\ next.texts = found.texts /\ next.rest = <<>>
      BY <1>0, ExtractionType
    <3> HIDE DEF next
    <3>2. IndexOf(next.rest, "open") = 0
      BY <2>e, <3>1
    <3>3. TakeText(next) = Extraction(found.texts, <<>>)
      BY <3>1, <3>2 DEF TakeText
    <3> QED  BY <1>0, <2>1, <2>3, <3>0, <3>1, <3>3 DEF next
  <2>4. CASE /\ start # 0 /\ end = 0 /\ TakeText(found) = Extraction(found.texts, data)
             /\ data \in Seq(Bytes) /\ Len(data) <= Len(found.rest) /\ IndexOf(data, "open") = 1
    <3> DEFINE next == Extraction(found.texts, data)
    <3>1. next \in Founds /\ next.texts = found.texts /\ next.rest = data
      BY <1>0, <2>4, ExtractionType
    <3> HIDE DEF next
    <3>2. IndexOf(next.rest, "open") = 1 /\ DropFirst(next.rest, 1 - 1) = data /\ 1 - 1 = 0
      BY <2>4, <3>1, DropNone
    <3>3. TakeText(next) = Extraction(found.texts, data)
      BY <2>4, <2>t, <3>1, <3>2 DEF TakeText, Kept
    <3> QED  BY <2>1, <2>4, <2>s, <3>1, <3>3 DEF next
  <2>5. CASE /\ start # 0 /\ end \in 1 .. Len(data)
             /\ data \in Seq(Bytes) /\ Len(data) <= Len(found.rest)
             /\ TakeText(found) =
                  Extraction(Append(found.texts, SubSeq(data, 1, end)), DropFirst(data, end))
    <3>1. SubSeq(data, 1, end) \in Seq(Bytes) /\ DropFirst(data, end) \in Seq(Bytes)
          /\ Len(DropFirst(data, end)) < Len(data)
      BY <2>5, TakenTypes
    <3>2. Append(found.texts, SubSeq(data, 1, end)) \in Seq(Seq(Bytes))
      BY <1>0, <3>1
    <3>3. TakeText(found) \in Founds /\ TakeText(found).rest = DropFirst(data, end)
      <4> DEFINE taken == Append(found.texts, SubSeq(data, 1, end))
                 left == DropFirst(data, end)
      <4>1. taken \in Seq(Seq(Bytes)) /\ left \in Seq(Bytes)
            /\ TakeText(found) = Extraction(taken, left)
        BY <2>5, <3>1, <3>2
      <4> HIDE DEF taken, left
      <4>2. TakeText(found) \in Founds /\ TakeText(found).rest = left
        BY <4>1, ExtractionType
      <4> QED  BY <4>2 DEF left
    <3>4. Len(data) \in Nat /\ Len(DropFirst(data, end)) \in Nat
      BY <2>5, <3>1
    <3>5. Len(TakeText(found).rest) < Len(found.rest) /\ Len(TakeText(found).rest) <= Len(found.rest)
      BY <1>0, <2>5, <3>1, <3>3, <3>4
    <3> QED  BY <2>1, <2>5, <2>s, <3>3, <3>5
  <2> QED  BY <2>2, <2>3, <2>4, <2>5
<1> QED  BY <1>1, <1>2

\* Texts found before do not matter to a turn.
Prefixed(texts0, found) == Extraction(texts0 \o found.texts, found.rest)

LEMMA ConcatAppend ==
  ASSUME NEW E, NEW p \in Seq(E), NEW s \in Seq(E), NEW e \in E
  PROVE  p \o Append(s, e) = Append(p \o s, e)
OBVIOUS

LEMMA PrefixedType ==
  ASSUME NEW p \in Seq(Seq(Bytes)), NEW found \in Founds
  PROVE  /\ Prefixed(p, found) \in Founds
         /\ Prefixed(p, found).texts = p \o found.texts /\ Prefixed(p, found).rest = found.rest
<1>1. p \o found.texts \in Seq(Seq(Bytes)) /\ found.rest \in Seq(Bytes)
  <2>1. found.texts \in Seq(Seq(Bytes)) /\ found.rest \in Seq(Bytes)
    BY ExtractionType
  <2> QED  BY <2>1
<1> QED  BY <1>1, ExtractionType DEF Prefixed

LEMMA TurnPrefixed ==
  ASSUME NEW fd, NEW p \in Seq(Seq(Bytes)), NEW found \in Founds
  PROVE  Turn(fd, Prefixed(p, found)) = Prefixed(p, Turn(fd, found))
<1> DEFINE longer == Prefixed(p, found)
<1>1. longer \in Founds /\ longer.texts = p \o found.texts /\ longer.rest = found.rest
  BY PrefixedType
<1>2. found.texts \in Seq(Seq(Bytes)) /\ found.rest \in Seq(Bytes)
      /\ found = Extraction(found.texts, found.rest)
  BY ExtractionType
<1>3. \A t, r : /\ Extraction(t, r).texts = t /\ Extraction(t, r).rest = r
                /\ Prefixed(p, Extraction(t, r)) = Extraction(p \o t, r)
  BY DEF Extraction, Prefixed
<1>4. \A s \in Seq(Bytes) : p \o Append(found.texts, s) = Append(p \o found.texts, s)
  <2>1. \A a \in Seq(Seq(Bytes)), s \in Seq(Bytes) : p \o Append(a, s) = Append(p \o a, s)
    BY ConcatAppend
  <2> QED  BY <1>2, <2>1
<1> HIDE DEF longer
<1>5. CASE fd = 2
  <2> DEFINE lf == IndexOf(found.rest, "lf")
             line == Trimmed(SubSeq(found.rest, 1, lf - 1))
  <2>1. TakeLine(found) = IF lf = 0 THEN found
                          ELSE Extraction(Append(found.texts, line), DropFirst(found.rest, lf))
    BY DEF TakeLine
  <2>2. TakeLine(longer) = IF lf = 0 THEN longer
                           ELSE Extraction(Append(longer.texts, line), DropFirst(found.rest, lf))
    BY <1>1 DEF TakeLine
  <2>3. lf # 0 => line \in Seq(Bytes)
    BY LineTurn
  <2> HIDE DEF lf, line
  <2>4. TakeLine(longer) = Prefixed(p, TakeLine(found))
    <3>1. CASE lf = 0
      BY <2>1, <2>2, <3>1 DEF longer
    <3>2. CASE lf # 0
      <4>1. p \o Append(found.texts, line) = Append(longer.texts, line)
        BY <1>1, <1>4, <2>3, <3>2
      <4>2. /\ TakeLine(found) = Extraction(Append(found.texts, line), DropFirst(found.rest, lf))
            /\ TakeLine(longer) = Extraction(Append(longer.texts, line), DropFirst(found.rest, lf))
        BY <2>1, <2>2, <3>2
      <4> QED  BY <1>3, <4>1, <4>2
    <3> QED  BY <3>1, <3>2
  <2> QED  BY <1>5, <2>4 DEF Turn, longer
<1>6. CASE fd # 2
  <2> DEFINE start == IndexOf(found.rest, "open")
             data == DropFirst(found.rest, start - 1)
             end == TextEnd(data)
  <2>1. TakeText(found) =
          CASE start = 0 -> Extraction(found.texts, <<>>)
            [] start # 0 /\ end = 0 -> Extraction(found.texts, data)
            [] start # 0 /\ end # 0 ->
                 Extraction(Append(found.texts, SubSeq(data, 1, end)), DropFirst(data, end))
    BY DEF TakeText, Kept
  <2>2. TakeText(longer) =
          CASE start = 0 -> Extraction(longer.texts, <<>>)
            [] start # 0 /\ end = 0 -> Extraction(longer.texts, data)
            [] start # 0 /\ end # 0 ->
                 Extraction(Append(longer.texts, SubSeq(data, 1, end)), DropFirst(data, end))
    BY <1>1 DEF TakeText, Kept
  <2>3. start # 0 /\ end # 0 => SubSeq(data, 1, end) \in Seq(Bytes)
    <3>1. start # 0 /\ end # 0 => data \in Seq(Bytes) /\ end \in 1 .. Len(data)
      BY TextTurn
    <3> HIDE DEF start, data, end
    <3> QED  BY <3>1, TakenTypes
  <2> HIDE DEF start, data, end
  <2>4. TakeText(longer) = Prefixed(p, TakeText(found))
    <3>1. CASE start = 0
      BY <1>1, <1>3, <2>1, <2>2, <3>1
    <3>2. CASE start # 0 /\ end = 0
      BY <1>1, <1>3, <2>1, <2>2, <3>2
    <3>3. CASE start # 0 /\ end # 0
      <4> DEFINE text == SubSeq(data, 1, end)
      <4>1. text \in Seq(Bytes)
        BY <2>3, <3>3
      <4>2. /\ TakeText(found) = Extraction(Append(found.texts, text), DropFirst(data, end))
            /\ TakeText(longer) = Extraction(Append(longer.texts, text), DropFirst(data, end))
        BY <2>1, <2>2, <3>3
      <4> HIDE DEF text
      <4>3. p \o Append(found.texts, text) = Append(longer.texts, text)
        BY <1>1, <1>4, <4>1
      <4> QED  BY <1>3, <4>2, <4>3
    <3> QED  BY <3>1, <3>2, <3>3
  <2> QED  BY <1>6, <2>4 DEF Turn, longer
<1> QED  BY <1>5, <1>6

-----------------------------------------------------------------------------
(***************************************************************************)
(* The extraction's loop: n turns, one after the other.                    *)
(***************************************************************************)
Numbers(n) == [k \in 1 .. n |-> k]

TurnFun(fd) == [p \in Founds \X Nat |-> Turn(fd, p[1])]

Turns(fd, found, n) == CHOOSE v : FoldsTo(Founds, TurnFun(fd), found, Numbers(n), v)

LEMMA NumbersType ==
  ASSUME NEW n \in Nat
  PROVE  /\ Numbers(n) \in Seq(Nat) /\ Len(Numbers(n)) = n
         /\ Append(Numbers(n), n + 1) = Numbers(n + 1)
<1>1. /\ Numbers(n) \in Seq(Nat) /\ Len(Numbers(n)) = n /\ \A k \in 1 .. n : Numbers(n)[k] = k
      /\ Numbers(n + 1) \in Seq(Nat) /\ Len(Numbers(n + 1)) = n + 1
      /\ \A k \in 1 .. n + 1 : Numbers(n + 1)[k] = k
  BY DEF Numbers
<1>2. /\ Append(Numbers(n), n + 1) \in Seq(Nat) /\ Len(Append(Numbers(n), n + 1)) = n + 1
      /\ \A k \in 1 .. n + 1 : Append(Numbers(n), n + 1)[k] = k
  BY <1>1
<1> QED  BY <1>1, <1>2, SameSeq

LEMMA TurnFunType ==
  ASSUME NEW fd
  PROVE  /\ TurnFun(fd) \in [Founds \X Nat -> Founds]
         /\ \A found \in Founds, k \in Nat : TurnFun(fd)[<<found, k>>] = Turn(fd, found)
BY TurnTypes DEF TurnFun

LEMMA FoldFound ==
  ASSUME NEW A, NEW E, NEW F \in [A \X E -> A], NEW base \in A, NEW seq \in Seq(E)
  PROVE  \E v : FoldsTo(A, F, base, seq, v)
<1>1. PICK g \in [SUBSET (1 .. Len(seq)) -> A] : FoldedBy(F, base, seq, g)
  BY FoldExists
<1>2. g[{}] = base /\ \A S \in SUBSET (1 .. Len(seq)) :
        S # {} => g[S] = F[<<g[S \ {Max(S)}], seq[Max(S)]>>]
  BY <1>1 DEF FoldedBy
<1>3. StepsBy(A, E, F, base, seq, g)
  BY <1>2 DEF StepsBy
<1> QED  BY <1>3, FoldSteps

LEMMA TurnsSteps ==
  ASSUME NEW fd, NEW found \in Founds
  PROVE  /\ Turns(fd, found, 0) = found
         /\ \A n \in Nat : /\ Turns(fd, found, n) \in Founds
                           /\ Turns(fd, found, n + 1) = Turn(fd, Turns(fd, found, n))
<1>1. ASSUME NEW n \in Nat
      PROVE  FoldsTo(Founds, TurnFun(fd), found, Numbers(n), Turns(fd, found, n))
  <2>1. \E v : FoldsTo(Founds, TurnFun(fd), found, Numbers(n), v)
    <3>1. ASSUME NEW F \in [Founds \X Nat -> Founds], NEW s \in Seq(Nat)
          PROVE  \E v : FoldsTo(Founds, F, found, s, v)
      BY FoldFound
    <3> QED  BY <3>1, TurnFunType, NumbersType
  <2> QED  BY <2>1 DEF Turns
<1>2. Turns(fd, found, 0) = found
  <2>1. 0 \in Nat /\ Numbers(0) = <<>>
    BY DEF Numbers
  <2>2. FoldsTo(Founds, TurnFun(fd), found, <<>>, Turns(fd, found, 0))
    BY <1>1, <2>1
  <2> QED  BY <2>2, FoldsToEmpty
<1>3. ASSUME NEW n \in Nat
      PROVE  /\ Turns(fd, found, n) \in Founds
             /\ Turns(fd, found, n + 1) = Turn(fd, Turns(fd, found, n))
  <2>1. /\ FoldsTo(Founds, TurnFun(fd), found, Numbers(n), Turns(fd, found, n))
        /\ FoldsTo(Founds, TurnFun(fd), found, Append(Numbers(n), n + 1), Turns(fd, found, n + 1))
        /\ Numbers(n) \in Seq(Nat) /\ n + 1 \in Nat
    <3>1. n + 1 \in Nat
      OBVIOUS
    <3>2. FoldsTo(Founds, TurnFun(fd), found, Numbers(n + 1), Turns(fd, found, n + 1))
      BY <1>1, <3>1
    <3>3. Numbers(n) \in Seq(Nat) /\ Append(Numbers(n), n + 1) = Numbers(n + 1)
      BY NumbersType
    <3> QED  BY <1>1, <3>1, <3>2, <3>3
  <2>2. /\ Turns(fd, found, n) \in Founds
        /\ Turns(fd, found, n + 1) = TurnFun(fd)[<<Turns(fd, found, n), n + 1>>]
    <3>1. ASSUME NEW F, NEW seq \in Seq(Nat), NEW e \in Nat, NEW v, NEW w,
                 FoldsTo(Founds, F, found, seq, v), FoldsTo(Founds, F, found, Append(seq, e), w)
          PROVE  v \in Founds /\ w = F[<<v, e>>]
      BY <3>1, FoldsToAppend
    <3> QED  BY <2>1, <3>1
  <2> QED  BY <2>1, <2>2, TurnFunType
<1> QED  BY <1>2, <1>3

\* The first turn and then the others.
LEMMA TurnsFirst ==
  ASSUME NEW fd, NEW found \in Founds, NEW n \in Nat
  PROVE  Turns(fd, found, n + 1) = Turns(fd, Turn(fd, found), n)
<1> DEFINE Good == {k \in Nat : Turns(fd, found, k + 1) = Turns(fd, Turn(fd, found), k)}
<1>0. Turn(fd, found) \in Founds
  BY TurnTypes
<1>1. 0 \in Good
  <2>1. Turns(fd, found, 0 + 1) = Turn(fd, Turns(fd, found, 0))
    BY TurnsSteps
  <2> QED  BY <1>0, <2>1, TurnsSteps
<1>2. ASSUME NEW k \in Nat, k \in Good PROVE k + 1 \in Good
  <2>1. k + 1 \in Nat /\ Turns(fd, found, k + 1) = Turns(fd, Turn(fd, found), k)
    BY <1>2
  <2>2. Turns(fd, found, (k + 1) + 1) = Turn(fd, Turns(fd, found, k + 1))
    BY <2>1, TurnsSteps
  <2>3. Turns(fd, Turn(fd, found), k + 1) = Turn(fd, Turns(fd, Turn(fd, found), k))
    BY <1>0, TurnsSteps
  <2> QED  BY <2>1, <2>2, <2>3
<1>3. Nat \subseteq Good
  <2> HIDE DEF Good
  <2> QED  BY <1>1, <1>2, Induction
<1> QED  BY <1>3

LEMMA TurnsPrefixed ==
  ASSUME NEW fd, NEW p \in Seq(Seq(Bytes)), NEW found \in Founds, NEW n \in Nat
  PROVE  Turns(fd, Prefixed(p, found), n) = Prefixed(p, Turns(fd, found, n))
<1> DEFINE Good == {k \in Nat : Turns(fd, Prefixed(p, found), k) = Prefixed(p, Turns(fd, found, k))}
<1>0. Prefixed(p, found) \in Founds
  BY PrefixedType
<1>1. 0 \in Good
  BY <1>0, TurnsSteps
<1>2. ASSUME NEW k \in Nat, k \in Good PROVE k + 1 \in Good
  <2>1. Turns(fd, Prefixed(p, found), k) = Prefixed(p, Turns(fd, found, k))
        /\ Turns(fd, found, k) \in Founds
    BY <1>2, TurnsSteps
  <2>2. Turns(fd, Prefixed(p, found), k + 1) = Turn(fd, Turns(fd, Prefixed(p, found), k))
    BY <1>0, TurnsSteps
  <2>3. Turns(fd, found, k + 1) = Turn(fd, Turns(fd, found, k))
    BY TurnsSteps
  <2> QED  BY <2>1, <2>2, <2>3, TurnPrefixed
<1>3. Nat \subseteq Good
  <2> HIDE DEF Good
  <2> QED  BY <1>1, <1>2, Induction
<1> QED  BY <1>3

LEMMA TurnsQuiet ==
  ASSUME NEW fd, NEW found \in Founds, Turn(fd, found) = found, NEW n \in Nat
  PROVE  Turns(fd, found, n) = found
<1> DEFINE Good == {k \in Nat : Turns(fd, found, k) = found}
<1>1. 0 \in Good
  BY TurnsSteps
<1>2. ASSUME NEW k \in Nat, k \in Good PROVE k + 1 \in Good
  <2>1. Turns(fd, found, k + 1) = Turn(fd, Turns(fd, found, k)) /\ Turns(fd, found, k) = found
    BY <1>2, TurnsSteps
  <2> QED  BY <2>1
<1>3. Nat \subseteq Good
  <2> HIDE DEF Good
  <2> QED  BY <1>1, <1>2, Induction
<1> QED  BY <1>3

\* A turn for every byte that is left is enough, and more change nothing.
LEMMA TurnsEnough ==
  ASSUME NEW fd, NEW found \in Founds, NEW n \in Nat, n >= Len(found.rest)
  PROVE  Turns(fd, found, n) = Turns(fd, found, Len(found.rest))
<1> DEFINE size == Len(found.rest)
           Settled(k) == \/ Len(Turns(fd, found, k).rest) + k <= size
                         \/ Turn(fd, Turns(fd, found, k)) = Turns(fd, found, k)
           Good == {k \in Nat : Settled(k)}
<1>0. size \in Nat
  <2>1. found.rest \in Seq(Bytes)
    BY ExtractionType
  <2> QED  BY <2>1
<1>1. 0 \in Good
  BY <1>0, TurnsSteps
<1>2. ASSUME NEW k \in Nat, k \in Good PROVE k + 1 \in Good
  <2> DEFINE now == Turns(fd, found, k)
             next == Turns(fd, found, k + 1)
  <2>1. now \in Founds /\ next = Turn(fd, now)
    BY TurnsSteps
  <2>2. Len(now.rest) + k <= size \/ Turn(fd, now) = now
    BY <1>2
  <2> HIDE DEF now, next
  <2>3. Len(now.rest) \in Nat /\ Len(next.rest) \in Nat
    <3>1. now.rest \in Seq(Bytes) /\ next.rest \in Seq(Bytes)
      BY <2>1, TurnTypes, ExtractionType
    <3> QED  BY <3>1
  <2>4. Len(next.rest) < Len(now.rest) \/ Turn(fd, next) = next
    BY <2>1, TurnTypes
  <2>5. Len(next.rest) + (k + 1) <= size \/ Turn(fd, next) = next
    <3>1. CASE Turn(fd, now) = now
      BY <2>1, <3>1
    <3>2. CASE Len(now.rest) + k <= size /\ Len(next.rest) < Len(now.rest)
      <4> DEFINE a == Len(now.rest)
                 b == Len(next.rest)
      <4> HIDE DEF a, b, size
      <4>1. a + k <= size /\ b < a /\ a \in Nat /\ b \in Nat
        BY <2>3, <3>2 DEF a, b
      <4>2. b + (k + 1) <= size
        BY <1>0, <4>1
      <4> QED  BY <4>2 DEF b
    <3> QED  BY <2>2, <2>4, <3>1, <3>2
  <2>6. Settled(k + 1)
    BY <2>5 DEF next
  <2> HIDE DEF Settled
  <2> QED  BY <2>6
<1>3. Nat \subseteq Good
  <2> HIDE DEF Good
  <2> QED  BY <1>1, <1>2, Induction
<1> DEFINE last == Turns(fd, found, size)
<1>4. last \in Founds /\ Turn(fd, last) = last
  <2>1. last \in Founds
    BY <1>0, TurnsSteps
  <2>2. Settled(size)
    BY <1>0, <1>3
  <2>3. Len(last.rest) + size <= size => last.rest = <<>>
    <3>1. last.rest \in Seq(Bytes)
      BY <2>1, ExtractionType
    <3> HIDE DEF last, size
    <3>2. Len(last.rest) \in Nat /\ (Len(last.rest) = 0 => last.rest = <<>>)
      BY <3>1
    <3> QED  BY <1>0, <3>2
  <2> QED  BY <2>1, <2>2, <2>3, TurnTypes
<1> DEFINE Same == {k \in Nat : Turns(fd, found, size + k) = last}
<1>5. 0 \in Same
  BY <1>0
<1>6. ASSUME NEW k \in Nat, k \in Same PROVE k + 1 \in Same
  <2> HIDE DEF size, last
  <2>1. size + k \in Nat /\ size + (k + 1) = (size + k) + 1
    BY <1>0
  <2>3. Turns(fd, found, size + k) = last
    BY <1>6
  <2>2. Turns(fd, found, (size + k) + 1) = Turn(fd, Turns(fd, found, size + k))
    BY <2>1, TurnsSteps
  <2> QED  BY <1>4, <2>1, <2>2, <2>3
<1>7. Nat \subseteq Same
  <2> HIDE DEF Same
  <2> QED  BY <1>5, <1>6, Induction
<1>8. n - size \in Nat /\ size + (n - size) = n
  BY <1>0
<1> HIDE DEF size, last
<1>9. Turns(fd, found, size + (n - size)) = last
  BY <1>7, <1>8
<1> QED  BY <1>8, <1>9 DEF last, size

LEMMA JSONFolds ==
  ASSUME NEW fd, fd # 2, NEW data \in Seq(Bytes)
  PROVE  FoldsTo(Founds, TurnFun(fd), Extraction(<<>>, data), Numbers(Len(data)), ExtractJSON(data))
<1> DEFINE seq == Numbers(Len(data))
           start == Extraction(<<>>, data)
           places == 1 .. Len(seq)
           it == CHOOSE it : it = [S \in SUBSET places |->
                   IF S = {} THEN start ELSE TakeText(it[S \ {Max(S)}])]
<1>1. ExtractJSON(data) = it[places]
  <2>1. DOMAIN seq = places /\ Len(data) \in Nat
    BY NumbersType
  <2>2. DOMAIN [k \in 1 .. Len(data) |-> k] = places
    BY <2>1 DEF Numbers
  <2> QED  BY <2>2 DEF ExtractJSON, FoldLeft, MapThenFoldSet
<1>2. /\ TurnFun(fd) \in [Founds \X Nat -> Founds] /\ start \in Founds /\ seq \in Seq(Nat)
      /\ \A found \in Founds, k \in Nat : TurnFun(fd)[<<found, k>>] = TakeText(found)
  <2>1. start \in Founds
    BY StartType
  <2>2. seq \in Seq(Nat)
    BY NumbersType
  <2>3. \A found : Turn(fd, found) = TakeText(found)
    BY DEF Turn
  <2> QED  BY <2>1, <2>2, <2>3, TurnFunType
<1> HIDE DEF start, seq
<1>3. PICK g \in [SUBSET places -> Founds] : FoldedBy(TurnFun(fd), start, seq, g)
  <2> HIDE DEF it
  <2>1. ASSUME NEW F \in [Founds \X Nat -> Founds]
        PROVE  \E g \in [SUBSET places -> Founds] : FoldedBy(F, start, seq, g)
    BY <1>2, FoldExists
  <2> QED  BY <1>2, <2>1
<1>4. g = [S \in SUBSET places |-> IF S = {} THEN start ELSE TakeText(g[S \ {Max(S)}])]
  <2> HIDE DEF it
  <2> SUFFICES ASSUME NEW S \in SUBSET places, S # {}
               PROVE  g[S] = TakeText(g[S \ {Max(S)}])
    <3>1. g[{}] = start
      BY <1>3 DEF FoldedBy
    <3> QED  BY <1>3, <3>1
  <2>1. g[S] = TurnFun(fd)[<<g[S \ {Max(S)}], seq[Max(S)]>>] /\ Max(S) \in S
    BY <1>3 DEF FoldedBy
  <2>2. S \ {Max(S)} \in SUBSET places /\ Max(S) \in 1 .. Len(seq)
    BY <2>1
  <2>3. g[S \ {Max(S)}] \in Founds /\ seq[Max(S)] \in Nat
    BY <1>2, <1>3, <2>2
  <2> QED  BY <1>2, <2>1, <2>3
<1>5. it = [S \in SUBSET places |-> IF S = {} THEN start ELSE TakeText(it[S \ {Max(S)}])]
  <2>1. \E h : h = [S \in SUBSET places |-> IF S = {} THEN start ELSE TakeText(h[S \ {Max(S)}])]
    BY <1>4
  <2> QED  BY <2>1
<1> HIDE DEF it
<1>6. it[{}] = start
  BY <1>5
<1>7. StepsBy(Founds, Nat, TurnFun(fd), start, seq, it)
  BY <1>2, <1>5, <1>6 DEF StepsBy
<1>8. ASSUME NEW F \in [Founds \X Nat -> Founds], StepsBy(Founds, Nat, F, start, seq, it)
      PROVE  FoldsTo(Founds, F, start, seq, it[1 .. Len(seq)])
  BY <1>2, <1>8, FoldSteps
<1> QED  BY <1>1, <1>2, <1>7, <1>8 DEF start, seq

LEMMA LinesFolds ==
  ASSUME NEW fd, fd = 2, NEW data \in Seq(Bytes)
  PROVE  FoldsTo(Founds, TurnFun(fd), Extraction(<<>>, data), Numbers(Len(data)), ExtractLines(data))
<1> DEFINE seq == Numbers(Len(data))
           start == Extraction(<<>>, data)
           places == 1 .. Len(seq)
           it == CHOOSE it : it = [S \in SUBSET places |->
                   IF S = {} THEN start ELSE TakeLine(it[S \ {Max(S)}])]
<1>1. ExtractLines(data) = it[places]
  <2>1. DOMAIN seq = places /\ Len(data) \in Nat
    BY NumbersType
  <2>2. DOMAIN [k \in 1 .. Len(data) |-> k] = places
    BY <2>1 DEF Numbers
  <2> QED  BY <2>2 DEF ExtractLines, FoldLeft, MapThenFoldSet
<1>2. /\ TurnFun(fd) \in [Founds \X Nat -> Founds] /\ start \in Founds /\ seq \in Seq(Nat)
      /\ \A found \in Founds, k \in Nat : TurnFun(fd)[<<found, k>>] = TakeLine(found)
  <2>1. start \in Founds
    BY StartType
  <2>2. seq \in Seq(Nat)
    BY NumbersType
  <2>3. \A found : Turn(fd, found) = TakeLine(found)
    BY DEF Turn
  <2> QED  BY <2>1, <2>2, <2>3, TurnFunType
<1> HIDE DEF start, seq
<1>3. PICK g \in [SUBSET places -> Founds] : FoldedBy(TurnFun(fd), start, seq, g)
  <2> HIDE DEF it
  <2>1. ASSUME NEW F \in [Founds \X Nat -> Founds]
        PROVE  \E g \in [SUBSET places -> Founds] : FoldedBy(F, start, seq, g)
    BY <1>2, FoldExists
  <2> QED  BY <1>2, <2>1
<1>4. g = [S \in SUBSET places |-> IF S = {} THEN start ELSE TakeLine(g[S \ {Max(S)}])]
  <2> HIDE DEF it
  <2> SUFFICES ASSUME NEW S \in SUBSET places, S # {}
               PROVE  g[S] = TakeLine(g[S \ {Max(S)}])
    <3>1. g[{}] = start
      BY <1>3 DEF FoldedBy
    <3> QED  BY <1>3, <3>1
  <2>1. g[S] = TurnFun(fd)[<<g[S \ {Max(S)}], seq[Max(S)]>>] /\ Max(S) \in S
    BY <1>3 DEF FoldedBy
  <2>2. S \ {Max(S)} \in SUBSET places /\ Max(S) \in 1 .. Len(seq)
    BY <2>1
  <2>3. g[S \ {Max(S)}] \in Founds /\ seq[Max(S)] \in Nat
    BY <1>2, <1>3, <2>2
  <2> QED  BY <1>2, <2>1, <2>3
<1>5. it = [S \in SUBSET places |-> IF S = {} THEN start ELSE TakeLine(it[S \ {Max(S)}])]
  <2>1. \E h : h = [S \in SUBSET places |-> IF S = {} THEN start ELSE TakeLine(h[S \ {Max(S)}])]
    BY <1>4
  <2> QED  BY <2>1
<1> HIDE DEF it
<1>6. it[{}] = start
  BY <1>5
<1>7. StepsBy(Founds, Nat, TurnFun(fd), start, seq, it)
  BY <1>2, <1>5, <1>6 DEF StepsBy
<1>8. ASSUME NEW F \in [Founds \X Nat -> Founds], StepsBy(Founds, Nat, F, start, seq, it)
      PROVE  FoldsTo(Founds, F, start, seq, it[1 .. Len(seq)])
  BY <1>2, <1>8, FoldSteps
<1> QED  BY <1>1, <1>2, <1>7, <1>8 DEF start, seq

\* An extraction is as many turns as there are bytes.
LEMMA ExtractTurns ==
  ASSUME NEW fd, NEW data \in Seq(Bytes)
  PROVE  Extract(fd, data) = Turns(fd, Extraction(<<>>, data), Len(data))
<1>1. FoldsTo(Founds, TurnFun(fd), Extraction(<<>>, data), Numbers(Len(data)), Extract(fd, data))
  BY JSONFolds, LinesFolds DEF Extract
<1>2. FoldsTo(Founds, TurnFun(fd), Extraction(<<>>, data), Numbers(Len(data)),
              Turns(fd, Extraction(<<>>, data), Len(data)))
  BY <1>1 DEF Turns
<1>3. Numbers(Len(data)) \in Seq(Nat)
  BY NumbersType
<1> QED  BY <1>1, <1>2, <1>3, FoldsToSame

-----------------------------------------------------------------------------
(***************************************************************************)
(* What is extracted, by what comes first and by what comes last.          *)
(***************************************************************************)
LEMMA ExtractType ==
  ASSUME NEW fd, NEW data \in Seq(Bytes)
  PROVE  /\ Extract(fd, data) \in Founds
         /\ Extract(fd, data).texts \in Seq(Seq(Bytes)) /\ Extract(fd, data).rest \in Seq(Bytes)
<1>1. Len(data) \in Nat /\ Extraction(<<>>, data) \in Founds
  BY StartType
<1>2. Extract(fd, data) \in Founds
  <2>1. ASSUME NEW n \in Nat, NEW found \in Founds PROVE Turns(fd, found, n) \in Founds
    BY TurnsSteps
  <2> QED  BY <1>1, <2>1, ExtractTurns
<1> QED  BY <1>2, ExtractionType

\* The first turn, and the extraction from what it leaves.
LEMMA Unfold ==
  ASSUME NEW fd, NEW data \in Seq(Bytes)
  PROVE  LET first == Turn(fd, Extraction(<<>>, data))
         IN  /\ first.texts \in Seq(Seq(Bytes)) /\ first.rest \in Seq(Bytes)
             /\ Extract(fd, data) = Prefixed(first.texts, Extract(fd, first.rest))
             /\ first = Extraction(<<>>, data) => Extract(fd, data) = first
<1> DEFINE start == Extraction(<<>>, data)
           first == Turn(fd, start)
           n == Len(data)
           next == Extraction(<<>>, first.rest)
<1>1. start \in Founds /\ start.rest = data /\ n \in Nat
  BY StartType
<1>2. /\ first \in Founds /\ first.texts \in Seq(Seq(Bytes)) /\ first.rest \in Seq(Bytes)
      /\ Len(first.rest) <= n
  BY <1>1, TurnTypes, ExtractionType
<1>3. Extract(fd, data) = Turns(fd, start, n)
  BY ExtractTurns
<1>4. next \in Founds /\ next.texts = <<>> /\ next.rest = first.rest
  BY <1>2, StartType
<1>5. Extract(fd, first.rest) = Turns(fd, next, Len(first.rest))
  BY <1>2, ExtractTurns
<1>6. first = Prefixed(first.texts, next)
  <2>1. first.texts \o <<>> = first.texts
    BY <1>2
  <2>2. first = Extraction(first.texts, first.rest)
    BY <1>2, ExtractionType
  <2> QED  BY <1>4, <2>1, <2>2 DEF Prefixed
<1> HIDE DEF start, first, next, n
<1>7. Turns(fd, start, n) = Turns(fd, first, n)
  <2>1. n + 1 \in Nat /\ n + 1 >= n /\ Len(start.rest) = n
    BY <1>1 DEF n
  <2>2. Turns(fd, start, n + 1) = Turns(fd, start, n)
    BY <1>1, <2>1, TurnsEnough
  <2> QED  BY <1>1, <2>2, TurnsFirst DEF first
<1>8. Turns(fd, first, n) = Prefixed(first.texts, Turns(fd, next, n))
  BY <1>1, <1>2, <1>4, <1>6, TurnsPrefixed
<1>9. Turns(fd, next, n) = Turns(fd, next, Len(first.rest))
  <2>1. n >= Len(next.rest)
    <3>1. Len(first.rest) \in Nat
      BY <1>2
    <3> QED  BY <1>1, <1>2, <1>4, <3>1
  <2> QED  BY <1>1, <1>4, <2>1, TurnsEnough
<1>10. first = start => Turns(fd, start, n) = start
  BY <1>1, TurnsQuiet DEF first
<1>11. /\ Extract(fd, data) = Prefixed(first.texts, Extract(fd, first.rest))
       /\ first = start => Extract(fd, data) = first
  BY <1>3, <1>5, <1>7, <1>8, <1>9, <1>10
<1> QED  BY <1>2, <1>11 DEF start, first

LEMMA ExtractEmpty == ASSUME NEW fd PROVE Extract(fd, <<>>) = Extraction(<<>>, <<>>)
<1>1. <<>> \in Seq(Bytes)
  OBVIOUS
<1>2. Turn(fd, Extraction(<<>>, <<>>)) = Extraction(<<>>, <<>>)
  BY <1>1, StartType, TurnTypes
<1> QED  BY <1>1, <1>2, Unfold

\* A stream of texts by its first text.
LEMMA TextCases ==
  ASSUME NEW fd, fd # 2, NEW s \in Seq(Bytes)
  PROVE  LET start == IndexOf(s, "open")
             data == DropFirst(s, start - 1)
             end == TextEnd(data)
         IN  \/ start = 0 /\ Extract(fd, s) = Extraction(<<>>, <<>>)
             \/ start # 0 /\ end = 0 /\ Extract(fd, s) = Extraction(<<>>, data)
             \/ /\ start # 0 /\ end \in 1 .. Len(data)
                /\ Extract(fd, s) =
                     Prefixed(<<SubSeq(data, 1, end)>>, Extract(fd, DropFirst(data, end)))
<1> DEFINE start == IndexOf(s, "open")
           data == DropFirst(s, start - 1)
           end == TextEnd(data)
           base == Extraction(<<>>, s)
<1>1. base \in Founds /\ base.texts = <<>> /\ base.rest = s
  BY StartType
<1>2. \A x : Turn(fd, x) = TakeText(x)
  BY DEF Turn
<1> HIDE DEF base
<1>3. \/ start = 0 /\ TakeText(base) = Extraction(<<>>, <<>>)
      \/ /\ start # 0 /\ end = 0 /\ TakeText(base) = Extraction(<<>>, data)
         /\ data \in Seq(Bytes) /\ IndexOf(data, "open") = 1
      \/ /\ start # 0 /\ end \in 1 .. Len(data) /\ data \in Seq(Bytes)
         /\ TakeText(base) =
              Extraction(Append(<<>>, SubSeq(data, 1, end)), DropFirst(data, end))
  BY <1>1, TextTurn
<1>4. LET first == TakeText(base)
      IN  /\ Extract(fd, s) = Prefixed(first.texts, Extract(fd, first.rest))
          /\ first = base => Extract(fd, s) = first
  BY <1>2, Unfold DEF base
<1>5. \A t, r : Extraction(t, r).texts = t /\ Extraction(t, r).rest = r
  BY DEF Extraction
<1>6. ASSUME NEW r \in Seq(Bytes) PROVE Prefixed(<<>>, Extract(fd, r)) = Extract(fd, r)
  <2>1. /\ Extract(fd, r).texts \in Seq(Seq(Bytes))
        /\ Extract(fd, r) = Extraction(Extract(fd, r).texts, Extract(fd, r).rest)
    BY ExtractType, ExtractionType
  <2>2. <<>> \o Extract(fd, r).texts = Extract(fd, r).texts
    BY <2>1
  <2> QED  BY <2>1, <2>2 DEF Prefixed
<1>7. CASE start = 0 /\ TakeText(base) = Extraction(<<>>, <<>>)
  <2>1. <<>> \in Seq(Bytes)
    OBVIOUS
  <2>2. Extract(fd, s) = Prefixed(<<>>, Extract(fd, <<>>))
    BY <1>4, <1>5, <1>7
  <2>3. Extract(fd, s) = Extraction(<<>>, <<>>)
    BY <1>6, <2>1, <2>2, ExtractEmpty
  <2> QED  BY <1>7, <2>3
<1>8. CASE /\ start # 0 /\ end = 0 /\ TakeText(base) = Extraction(<<>>, data)
           /\ data \in Seq(Bytes) /\ IndexOf(data, "open") = 1
  <2> HIDE DEF start, data
  <2>1. Extract(fd, s) = Prefixed(<<>>, Extract(fd, data))
    BY <1>4, <1>5, <1>8
  <2>2. Extract(fd, data) = Extraction(<<>>, data)
    <3> DEFINE again == Extraction(<<>>, data)
    <3>1. again.texts = <<>> /\ again.rest = data
      BY <1>5
    <3> HIDE DEF again
    <3>2. TakeText(again) = Extraction(<<>>, data)
      <4>1. IndexOf(again.rest, "open") = 1 /\ DropFirst(again.rest, 1 - 1) = data /\ 1 - 1 = 0
            /\ TextEnd(data) = 0
        BY <1>8, <3>1, DropNone
      <4> QED  BY <3>1, <4>1 DEF TakeText, Kept
    <3>3. Turn(fd, Extraction(<<>>, data)) = Extraction(<<>>, data)
      BY <1>2, <3>2 DEF again
    <3> QED  BY <1>8, <3>3, Unfold
  <2>3. Extract(fd, s) = Extraction(<<>>, data)
    BY <1>6, <1>8, <2>1, <2>2
  <2> QED  BY <1>8, <2>3 DEF start, data
<1>9. CASE /\ start # 0 /\ end \in 1 .. Len(data) /\ data \in Seq(Bytes)
           /\ TakeText(base) =
                Extraction(Append(<<>>, SubSeq(data, 1, end)), DropFirst(data, end))
  <2> DEFINE text == SubSeq(data, 1, end)
             left == DropFirst(data, end)
  <2>1. TakeText(base) = Extraction(Append(<<>>, text), left)
    BY <1>9
  <2> HIDE DEF text, left
  <2>2. Append(<<>>, text) = <<text>>
    OBVIOUS
  <2>3. Extract(fd, s) = Prefixed(<<text>>, Extract(fd, left))
    BY <1>4, <1>5, <2>1, <2>2
  <2> QED  BY <1>9, <2>3 DEF text, left
<1> QED  BY <1>3, <1>7, <1>8, <1>9

\* A stream of lines by its first line.
LEMMA LineCases ==
  ASSUME NEW fd, fd = 2, NEW s \in Seq(Bytes)
  PROVE  LET lf == IndexOf(s, "lf")
         IN  \/ lf = 0 /\ Extract(fd, s) = Extraction(<<>>, s)
             \/ /\ lf \in 1 .. Len(s) /\ Trimmed(SubSeq(s, 1, lf - 1)) \in Seq(Bytes)
                /\ Extract(fd, s) =
                     Prefixed(<<Trimmed(SubSeq(s, 1, lf - 1))>>, Extract(fd, DropFirst(s, lf)))
<1> DEFINE lf == IndexOf(s, "lf")
           line == Trimmed(SubSeq(s, 1, lf - 1))
           base == Extraction(<<>>, s)
<1>1. base \in Founds /\ base.texts = <<>> /\ base.rest = s
  BY StartType
<1>2. \A x : Turn(fd, x) = TakeLine(x)
  BY DEF Turn
<1> HIDE DEF base
<1>3. \/ lf = 0 /\ TakeLine(base) = base
      \/ /\ lf \in 1 .. Len(s) /\ line \in Seq(Bytes)
         /\ TakeLine(base) = Extraction(Append(<<>>, line), DropFirst(s, lf))
  BY <1>1, LineTurn
<1>4. LET first == TakeLine(base)
      IN  /\ Extract(fd, s) = Prefixed(first.texts, Extract(fd, first.rest))
          /\ first = base => Extract(fd, s) = first
  BY <1>2, Unfold DEF base
<1>5. \A t, r : Extraction(t, r).texts = t /\ Extraction(t, r).rest = r
  BY DEF Extraction
<1>6. CASE lf = 0 /\ TakeLine(base) = base
  <2>1. Extract(fd, s) = Extraction(<<>>, s)
    BY <1>4, <1>6 DEF base
  <2> QED  BY <1>6, <2>1
<1>7. CASE /\ lf \in 1 .. Len(s) /\ line \in Seq(Bytes)
           /\ TakeLine(base) = Extraction(Append(<<>>, line), DropFirst(s, lf))
  <2> HIDE DEF line, lf
  <2>1. Append(<<>>, line) = <<line>>
    OBVIOUS
  <2>2. Extract(fd, s) = Prefixed(<<line>>, Extract(fd, DropFirst(s, lf)))
    BY <1>4, <1>5, <1>7, <2>1
  <2> QED  BY <1>7, <2>2 DEF line, lf
<1> QED  BY <1>3, <1>6, <1>7

-----------------------------------------------------------------------------
(***************************************************************************)
(* The extraction byte by byte: what was found in a stream and one byte    *)
(* more give what is found in the longer stream.                           *)
(***************************************************************************)
Step(fd, found, byte) ==
  LET data == Append(found.rest, byte)
  IN  IF fd = 2
      THEN IF byte = "lf" THEN Extraction(Append(found.texts, Trimmed(found.rest)), <<>>)
                          ELSE Extraction(found.texts, data)
      ELSE IF found.rest = <<>> /\ byte # "open" THEN found
      ELSE IF TextEnd(data) = 0 THEN Extraction(found.texts, data)
                                ELSE Extraction(Append(found.texts, data), <<>>)

LEMMA StepPrefixed ==
  ASSUME NEW fd, NEW p \in Seq(Seq(Bytes)), NEW found \in Founds, NEW byte \in Bytes
  PROVE  Step(fd, Prefixed(p, found), byte) = Prefixed(p, Step(fd, found, byte))
<1> DEFINE longer == Prefixed(p, found)
           data == Append(found.rest, byte)
           line == Trimmed(found.rest)
<1>1. longer \in Founds /\ longer.texts = p \o found.texts /\ longer.rest = found.rest
  BY PrefixedType
<1>2. found.texts \in Seq(Seq(Bytes)) /\ found.rest \in Seq(Bytes)
      /\ found = Extraction(found.texts, found.rest)
  BY ExtractionType
<1>3. \A t, r : Prefixed(p, Extraction(t, r)) = Extraction(p \o t, r)
  BY DEF Extraction, Prefixed
<1>4. \A s \in Seq(Bytes) : p \o Append(found.texts, s) = Append(p \o found.texts, s)
  <2>1. \A a \in Seq(Seq(Bytes)), s \in Seq(Bytes) : p \o Append(a, s) = Append(p \o a, s)
    BY ConcatAppend
  <2> QED  BY <1>2, <2>1
<1>5. data \in Seq(Bytes) /\ line \in Seq(Bytes)
  BY <1>2, TrimmedType
<1>6. /\ Step(fd, found, byte) =
           IF fd = 2 THEN IF byte = "lf" THEN Extraction(Append(found.texts, line), <<>>)
                                         ELSE Extraction(found.texts, data)
           ELSE IF found.rest = <<>> /\ byte # "open" THEN found
           ELSE IF TextEnd(data) = 0 THEN Extraction(found.texts, data)
                                     ELSE Extraction(Append(found.texts, data), <<>>)
      /\ Step(fd, longer, byte) =
           IF fd = 2 THEN IF byte = "lf" THEN Extraction(Append(longer.texts, line), <<>>)
                                         ELSE Extraction(longer.texts, data)
           ELSE IF found.rest = <<>> /\ byte # "open" THEN longer
           ELSE IF TextEnd(data) = 0 THEN Extraction(longer.texts, data)
                                     ELSE Extraction(Append(longer.texts, data), <<>>)
  BY <1>1 DEF Step
<1>7. /\ p \o Append(found.texts, line) = Append(longer.texts, line)
      /\ p \o Append(found.texts, data) = Append(longer.texts, data)
      /\ p \o found.texts = longer.texts
  BY <1>1, <1>4, <1>5
<1>8. longer = Prefixed(p, found)
  OBVIOUS
<1> HIDE DEF longer, data, line
<1>9. Step(fd, longer, byte) = Prefixed(p, Step(fd, found, byte))
  <2>1. CASE fd = 2 /\ byte = "lf"
    BY <1>3, <1>6, <1>7, <2>1
  <2>2. CASE fd = 2 /\ byte # "lf"
    BY <1>3, <1>6, <1>7, <2>2
  <2>3. CASE fd # 2 /\ found.rest = <<>> /\ byte # "open"
    BY <1>6, <1>8, <2>3
  <2>4. CASE fd # 2 /\ ~(found.rest = <<>> /\ byte # "open") /\ TextEnd(data) = 0
    BY <1>3, <1>6, <1>7, <2>4
  <2>5. CASE fd # 2 /\ ~(found.rest = <<>> /\ byte # "open") /\ TextEnd(data) # 0
    BY <1>3, <1>6, <1>7, <2>5
  <2> QED  BY <2>1, <2>2, <2>3, <2>4, <2>5
<1> QED  BY <1>9 DEF longer

LEMMA TextBytewise ==
  ASSUME NEW fd, fd # 2, NEW s \in Seq(Bytes), NEW byte \in Bytes,
         \A r \in Seq(Bytes) :
           Len(r) < Len(s) => Extract(fd, Append(r, byte)) = Step(fd, Extract(fd, r), byte)
  PROVE  Extract(fd, Append(s, byte)) = Step(fd, Extract(fd, s), byte)
<1> DEFINE longer == Append(s, byte)
           start == IndexOf(s, "open")
           data == DropFirst(s, start - 1)
           end == TextEnd(data)
           start1 == IndexOf(longer, "open")
           data1 == DropFirst(longer, start1 - 1)
           end1 == TextEnd(data1)
<1>0. longer \in Seq(Bytes) /\ Len(longer) = Len(s) + 1 /\ Len(s) \in Nat /\ <<>> \in Seq(Bytes)
  OBVIOUS
<1>1. start1 = IF start # 0 THEN start ELSE IF byte = "open" THEN Len(s) + 1 ELSE 0
  BY FirstStays
<1>2. \/ start = 0 /\ Extract(fd, s) = Extraction(<<>>, <<>>)
      \/ start # 0 /\ end = 0 /\ Extract(fd, s) = Extraction(<<>>, data)
      \/ /\ start # 0 /\ end \in 1 .. Len(data)
         /\ Extract(fd, s) = Prefixed(<<SubSeq(data, 1, end)>>, Extract(fd, DropFirst(data, end)))
  BY TextCases
<1>3. \/ start1 = 0 /\ Extract(fd, longer) = Extraction(<<>>, <<>>)
      \/ start1 # 0 /\ end1 = 0 /\ Extract(fd, longer) = Extraction(<<>>, data1)
      \/ /\ start1 # 0 /\ end1 \in 1 .. Len(data1)
         /\ Extract(fd, longer) =
              Prefixed(<<SubSeq(data1, 1, end1)>>, Extract(fd, DropFirst(data1, end1)))
  BY <1>0, TextCases
<1>4. \A t, r : Extraction(t, r).texts = t /\ Extraction(t, r).rest = r
  BY DEF Extraction
\* What follows when the bytes from the first bracket on are a buffer and the byte.
<1>5. ASSUME NEW rest \in Seq(Bytes), data1 = Append(rest, byte), TextEnd(rest) = 0, start1 # 0
      PROVE  Extract(fd, longer) = IF TextEnd(data1) = 0 THEN Extraction(<<>>, data1)
                                                         ELSE Extraction(<<data1>>, <<>>)
  <2>1. data1 \in Seq(Bytes) /\ Len(data1) = Len(rest) + 1 /\ Len(rest) \in Nat
    <3>1. Append(rest, byte) \in Seq(Bytes) /\ Len(Append(rest, byte)) = Len(rest) + 1
      OBVIOUS
    <3> HIDE DEF data1
    <3> QED  BY <1>5, <3>1
  <2>2. TextEnd(data1) \in {0, Len(data1)}
    BY <1>5, <2>1, TextEndSteps
  <2>3. CASE TextEnd(data1) = 0
    BY <1>3, <1>5, <2>3
  <2>4. CASE TextEnd(data1) # 0
    <3>1. end1 = Len(data1)
      BY <2>2, <2>4
    <3> HIDE DEF data1, start1
    <3>2. SubSeq(data1, 1, Len(data1)) = data1 /\ DropFirst(data1, Len(data1)) = <<>>
      BY <2>1, DropAll
    <3>3. Extract(fd, longer) = Prefixed(<<data1>>, Extraction(<<>>, <<>>))
      BY <1>3, <1>5, <2>4, <3>1, <3>2, ExtractEmpty
    <3>4. <<data1>> \o <<>> = <<data1>>
      OBVIOUS
    <3> QED  BY <1>4, <2>4, <3>3, <3>4 DEF Prefixed
  <2> QED  BY <2>3, <2>4
<1>6. CASE start = 0
  <2>1. Extract(fd, s) = Extraction(<<>>, <<>>)
    BY <1>2, <1>6
  <2>2. CASE byte # "open"
    <3>1. Extract(fd, longer) = Extraction(<<>>, <<>>)
      BY <1>1, <1>3, <1>6, <2>2
    <3>2. Step(fd, Extraction(<<>>, <<>>), byte) = Extraction(<<>>, <<>>)
      BY <1>4, <2>2 DEF Step
    <3> QED  BY <2>1, <3>1, <3>2
  <2>3. CASE byte = "open"
    <3>1. start1 = Len(s) + 1 /\ start1 # 0
      BY <1>0, <1>1, <1>6, <2>3
    <3>2. data1 = Append(<<>>, byte)
      <4>1. data1 = DropFirst(longer, Len(s)) /\ Len(s) \in 0 .. Len(s)
        BY <1>0, <3>1
      <4> HIDE DEF data1
      <4>2. DropFirst(longer, Len(s)) = Append(DropFirst(s, Len(s)), byte)
        BY <4>1, DropAppend
      <4> QED  BY <4>1, <4>2, DropAll
    <3> HIDE DEF data1
    <3>3. Extract(fd, longer) = IF TextEnd(data1) = 0 THEN Extraction(<<>>, data1)
                                                      ELSE Extraction(<<data1>>, <<>>)
      BY <1>0, <1>5, <3>1, <3>2, TextEndSteps
    <3>4. Append(<<>>, data1) = <<data1>>
      OBVIOUS
    <3>5. Step(fd, Extraction(<<>>, <<>>), byte) =
            IF TextEnd(data1) = 0 THEN Extraction(<<>>, data1) ELSE Extraction(<<data1>>, <<>>)
      BY <1>4, <2>3, <3>2, <3>4 DEF Step
    <3> QED  BY <2>1, <3>3, <3>5
  <2> QED  BY <2>2, <2>3
<1>7. CASE start # 0
  <2>1. start1 = start /\ start1 # 0
    BY <1>1, <1>7
  <2>2. start \in 1 .. Len(s) /\ s[start] = "open" /\ start - 1 \in 0 .. Len(s)
    <3>1. start \in 1 .. Len(s) /\ s[start] = "open"
      BY <1>7, FirstPlace
    <3> QED  BY <1>0, <3>1
  <2>3. data1 = Append(data, byte)
    <3> HIDE DEF start
    <3>1. DropFirst(longer, start - 1) = Append(DropFirst(s, start - 1), byte)
      BY <2>2, DropAppend
    <3> QED  BY <2>1, <3>1
  <2>4. data \in Seq(Bytes) /\ Len(data) = Len(s) - (start - 1) /\ Len(data) <= Len(s)
        /\ Len(data) \in Nat /\ data # <<>>
    <3> HIDE DEF start
    <3>1. data \in Seq(Bytes) /\ Len(data) = Len(s) - (start - 1)
      BY <2>2, DropType
    <3>2. Len(data) >= 1 /\ Len(data) <= Len(s) /\ Len(data) \in Nat
      BY <1>0, <2>2, <3>1
    <3> HIDE DEF data
    <3>3. data # <<>>
      BY <3>1, <3>2
    <3> QED  BY <3>1, <3>2, <3>3
  <2> HIDE DEF start, start1, data, data1
  <2>5. CASE end = 0
    <3>1. Extract(fd, s) = Extraction(<<>>, data)
      BY <1>2, <1>7, <2>5
    <3>2. Extract(fd, longer) = IF TextEnd(data1) = 0 THEN Extraction(<<>>, data1)
                                                      ELSE Extraction(<<data1>>, <<>>)
      BY <1>5, <2>1, <2>3, <2>4, <2>5
    <3>3. Append(<<>>, data1) = <<data1>>
      OBVIOUS
    <3>4. Step(fd, Extraction(<<>>, data), byte) =
            IF TextEnd(data1) = 0 THEN Extraction(<<>>, data1) ELSE Extraction(<<data1>>, <<>>)
      <4> DEFINE found == Extraction(<<>>, data)
      <4>1. found.texts = <<>> /\ found.rest = data
        BY <1>4
      <4> HIDE DEF found
      <4>2. Step(fd, found, byte) = IF TextEnd(data1) = 0 THEN Extraction(found.texts, data1)
                                    ELSE Extraction(Append(found.texts, data1), <<>>)
        BY <2>3, <2>4, <4>1 DEF Step
      <4> QED  BY <3>3, <4>1, <4>2 DEF found
    <3> QED  BY <3>1, <3>2, <3>4
  <2>6. CASE end # 0
    <3> DEFINE left == DropFirst(data, end)
               text == SubSeq(data, 1, end)
    <3>1. end \in 1 .. Len(data) /\ Extract(fd, s) = Prefixed(<<text>>, Extract(fd, left))
      BY <1>2, <1>7, <2>6
    <3>2. end1 = end
      BY <2>3, <2>4, <2>6, TextEndSteps
    <3>3. Extract(fd, longer) =
            Prefixed(<<SubSeq(data1, 1, end1)>>, Extract(fd, DropFirst(data1, end1)))
      BY <1>3, <2>1, <2>6, <3>2
    <3> HIDE DEF end, end1
    <3>4. SubSeq(data1, 1, end) = text /\ text \in Seq(Bytes)
      BY <2>3, <2>4, <3>1
    <3>5. DropFirst(data1, end) = Append(left, byte) /\ left \in Seq(Bytes) /\ Len(left) < Len(s)
      <4>1. end \in 0 .. Len(data)
        BY <3>1
      <4>2. left \in Seq(Bytes) /\ Len(left) < Len(data) /\ Len(left) \in Nat
        <5>1. left \in Seq(Bytes) /\ Len(left) < Len(data)
          BY <2>4, <3>1, TakenTypes
        <5> HIDE DEF left
        <5> QED  BY <5>1
      <4>3. DropFirst(data1, end) = Append(left, byte)
        BY <2>3, <2>4, <4>1, DropAppend
      <4> HIDE DEF left
      <4> QED  BY <1>0, <2>4, <4>2, <4>3
    <3> HIDE DEF left, text
    <3>6. Extract(fd, longer) = Prefixed(<<text>>, Step(fd, Extract(fd, left), byte))
      BY <3>2, <3>3, <3>4, <3>5
    <3>7. <<text>> \in Seq(Seq(Bytes)) /\ Extract(fd, left) \in Founds
      BY <3>4, <3>5, ExtractType
    <3>8. Step(fd, Prefixed(<<text>>, Extract(fd, left)), byte)
            = Prefixed(<<text>>, Step(fd, Extract(fd, left), byte))
      BY <3>7, StepPrefixed
    <3> QED  BY <3>1, <3>6, <3>8
  <2> QED  BY <2>5, <2>6
<1> QED  BY <1>6, <1>7

LEMMA LineBytewise ==
  ASSUME NEW fd, fd = 2, NEW s \in Seq(Bytes), NEW byte \in Bytes,
         \A r \in Seq(Bytes) :
           Len(r) < Len(s) => Extract(fd, Append(r, byte)) = Step(fd, Extract(fd, r), byte)
  PROVE  Extract(fd, Append(s, byte)) = Step(fd, Extract(fd, s), byte)
<1> DEFINE longer == Append(s, byte)
           lf == IndexOf(s, "lf")
           lf1 == IndexOf(longer, "lf")
           line == Trimmed(SubSeq(s, 1, lf - 1))
           line1 == Trimmed(SubSeq(longer, 1, lf1 - 1))
<1>0. longer \in Seq(Bytes) /\ Len(longer) = Len(s) + 1 /\ Len(s) \in Nat /\ <<>> \in Seq(Bytes)
  OBVIOUS
<1>1. lf1 = IF lf # 0 THEN lf ELSE IF byte = "lf" THEN Len(s) + 1 ELSE 0
  BY FirstStays
<1>2. \/ lf = 0 /\ Extract(fd, s) = Extraction(<<>>, s)
      \/ /\ lf \in 1 .. Len(s) /\ line \in Seq(Bytes)
         /\ Extract(fd, s) = Prefixed(<<line>>, Extract(fd, DropFirst(s, lf)))
  BY LineCases
<1>3. \/ lf1 = 0 /\ Extract(fd, longer) = Extraction(<<>>, longer)
      \/ /\ lf1 \in 1 .. Len(longer) /\ line1 \in Seq(Bytes)
         /\ Extract(fd, longer) = Prefixed(<<line1>>, Extract(fd, DropFirst(longer, lf1)))
  BY <1>0, LineCases
<1>4. \A t, r : Extraction(t, r).texts = t /\ Extraction(t, r).rest = r
  BY DEF Extraction
<1>5. CASE lf = 0
  <2>1. Extract(fd, s) = Extraction(<<>>, s) /\ lf \notin 1 .. Len(s)
    BY <1>2, <1>5
  <2> DEFINE found == Extraction(<<>>, s)
  <2>2. found.texts = <<>> /\ found.rest = s
    BY <1>4
  <2> HIDE DEF found
  <2>3. CASE byte # "lf"
    <3>1. Extract(fd, longer) = Extraction(<<>>, longer)
      BY <1>1, <1>3, <1>5, <2>3
    <3>2. Step(fd, found, byte) = Extraction(<<>>, longer)
      BY <2>2, <2>3 DEF Step
    <3> QED  BY <2>1, <3>1, <3>2 DEF found
  <2>4. CASE byte = "lf"
    <3>1. lf1 = Len(s) + 1
      BY <1>1, <1>5, <2>4
    <3> HIDE DEF lf1, lf
    <3>2. SubSeq(longer, 1, lf1 - 1) = s /\ DropFirst(longer, lf1) = <<>> /\ lf1 # 0
      <4>1. SubSeq(longer, 1, Len(s)) = s
        OBVIOUS
      <4>2. lf1 - 1 = Len(s) /\ lf1 = Len(longer) /\ lf1 # 0
        BY <1>0, <3>1
      <4> HIDE DEF longer
      <4> QED  BY <1>0, <4>1, <4>2, DropAll
    <3>3. Extract(fd, longer) = Prefixed(<<Trimmed(s)>>, Extraction(<<>>, <<>>))
      BY <1>3, <3>2, ExtractEmpty
    <3>4. Trimmed(s) \in Seq(Bytes)
      BY TrimmedType
    <3> DEFINE text == Trimmed(s)
    <3> HIDE DEF text
    <3>5. <<text>> \o <<>> = <<text>> /\ Append(<<>>, text) = <<text>>
      OBVIOUS
    <3>6. Extract(fd, longer) = Extraction(<<text>>, <<>>)
      BY <1>4, <3>3, <3>5 DEF Prefixed, text
    <3>7. Step(fd, found, byte) = Extraction(<<text>>, <<>>)
      BY <2>2, <2>4, <3>5 DEF Step, text
    <3> QED  BY <2>1, <3>6, <3>7 DEF found
  <2> QED  BY <2>3, <2>4
<1>6. CASE lf # 0
  <2> DEFINE left == DropFirst(s, lf)
  <2>1. lf \in 1 .. Len(s) /\ line \in Seq(Bytes) /\ Extract(fd, s) = Prefixed(<<line>>, Extract(fd, left))
    BY <1>2, <1>6
  <2>2. lf1 = lf
    BY <1>1, <1>6
  <2>3. Extract(fd, longer) = Prefixed(<<line1>>, Extract(fd, DropFirst(longer, lf)))
    BY <1>3, <1>6, <2>2
  <2>4. line1 = line
    <3>1. SubSeq(longer, 1, lf - 1) = SubSeq(s, 1, lf - 1)
      <4> HIDE DEF lf
      <4> QED  BY <2>1
    <3> QED  BY <2>2, <3>1
  <2>5. DropFirst(longer, lf) = Append(left, byte) /\ left \in Seq(Bytes) /\ Len(left) < Len(s)
    <3> HIDE DEF lf
    <3>1. lf \in 0 .. Len(s)
      BY <2>1
    <3> QED  BY <2>1, <3>1, DropAppend, TakenTypes
  <2> HIDE DEF left, line, line1, lf
  <2>6. Extract(fd, longer) = Prefixed(<<line>>, Step(fd, Extract(fd, left), byte))
    BY <2>3, <2>4, <2>5
  <2>7. <<line>> \in Seq(Seq(Bytes)) /\ Extract(fd, left) \in Founds
    BY <2>1, <2>5, ExtractType
  <2>8. Step(fd, Prefixed(<<line>>, Extract(fd, left)), byte)
          = Prefixed(<<line>>, Step(fd, Extract(fd, left), byte))
    BY <2>7, StepPrefixed
  <2> QED  BY <2>1, <2>6, <2>8
<1> QED  BY <1>5, <1>6

LEMMA Bytewise ==
  ASSUME NEW fd, NEW s \in Seq(Bytes), NEW byte \in Bytes
  PROVE  Extract(fd, Append(s, byte)) = Step(fd, Extract(fd, s), byte)
<1> DEFINE Takes(r) == Extract(fd, Append(r, byte)) = Step(fd, Extract(fd, r), byte)
           Good == {n \in Nat : \A r \in Seq(Bytes) : Len(r) < n => Takes(r)}
<1>1. 0 \in Good
  <2>1. \A r \in Seq(Bytes) : ~(Len(r) < 0)
    OBVIOUS
  <2> QED  BY <2>1
<1>2. ASSUME NEW n \in Nat, n \in Good PROVE n + 1 \in Good
  <2> SUFFICES ASSUME NEW r \in Seq(Bytes), Len(r) < n + 1 PROVE Takes(r)
    OBVIOUS
  <2>1. Len(r) \in Nat /\ \A q \in Seq(Bytes) : Len(q) \in Nat
    OBVIOUS
  <2>2. \A q \in Seq(Bytes) : Len(q) < Len(r) => Len(q) < n
    BY <2>1
  <2>3. \A q \in Seq(Bytes) : Len(q) < Len(r) => Takes(q)
    BY <1>2, <2>2
  <2>4. CASE fd = 2
    BY <2>3, <2>4, LineBytewise
  <2>5. CASE fd # 2
    BY <2>3, <2>5, TextBytewise
  <2> QED  BY <2>4, <2>5
<1>3. Nat \subseteq Good
  <2> HIDE DEF Good
  <2> QED  BY <1>1, <1>2, Induction
<1>4. Len(s) + 1 \in Nat /\ Len(s) < Len(s) + 1
  OBVIOUS
<1>5. \A r \in Seq(Bytes) : Len(r) < Len(s) + 1 => Takes(r)
  BY <1>3, <1>4
<1> QED  BY <1>4, <1>5

\* What an extraction keeps has nothing to extract.
LEMMA RestKept ==
  ASSUME NEW fd, NEW s \in Seq(Bytes)
  PROVE  Extract(fd, Extract(fd, s).rest) = Extraction(<<>>, Extract(fd, s).rest)
<1> DEFINE Keeps(r) == Extract(fd, r) = Extraction(<<>>, r)
           Good == {r \in Seq(Bytes) : Keeps(Extract(fd, r).rest)}
<1>1. \A t, r : Extraction(t, r).texts = t /\ Extraction(t, r).rest = r
  BY DEF Extraction
<1>2. <<>> \in Good
  <2>1. <<>> \in Seq(Bytes) /\ Extract(fd, <<>>).rest = <<>>
    BY <1>1, ExtractEmpty
  <2> QED  BY <2>1, ExtractEmpty
<1>3. ASSUME NEW r \in Seq(Bytes), r \in Good, NEW byte \in Bytes PROVE Append(r, byte) \in Good
  <2> DEFINE found == Extract(fd, r)
             rest == found.rest
             data == Append(rest, byte)
             next == Step(fd, found, byte)
             kept == Extraction(<<>>, rest)
  <2>1. Append(r, byte) \in Seq(Bytes) /\ Extract(fd, Append(r, byte)) = next
    BY Bytewise
  <2>2. rest \in Seq(Bytes) /\ Keeps(rest)
    BY <1>3, ExtractType
  <2>3. Extract(fd, data) = Step(fd, kept, byte)
    BY <2>2, Bytewise
  <2>4. kept.texts = <<>> /\ kept.rest = rest
    BY <1>1
  <2> HIDE DEF kept
  <2>5. \/ next = found
        \/ next.rest = <<>>
        \/ next.rest = data /\ Step(fd, kept, byte) = Extraction(<<>>, data)
    <3>1. CASE fd = 2 /\ byte = "lf"
      BY <1>1, <3>1 DEF Step
    <3>2. CASE fd = 2 /\ byte # "lf"
      BY <1>1, <2>4, <3>2 DEF Step
    <3>3. CASE fd # 2 /\ rest = <<>> /\ byte # "open"
      BY <3>3 DEF Step
    <3>4. CASE fd # 2 /\ ~(rest = <<>> /\ byte # "open") /\ TextEnd(data) = 0
      BY <1>1, <2>4, <3>4 DEF Step
    <3>5. CASE fd # 2 /\ ~(rest = <<>> /\ byte # "open") /\ TextEnd(data) # 0
      BY <1>1, <3>5 DEF Step
    <3> QED  BY <3>1, <3>2, <3>3, <3>4, <3>5
  <2> HIDE DEF found, data, next
  <2>6. Keeps(next.rest)
    BY <2>2, <2>3, <2>5, ExtractEmpty
  <2> QED  BY <2>1, <2>6
<1>4. Seq(Bytes) \subseteq Good
  <2> HIDE DEF Good
  <2> QED  BY <1>2, <1>3, SeqInduction
<1> QED  BY <1>4

\* The extraction of a stream in two steps, the second of what the first kept and the rest.
LEMMA ExtractTwice ==
  ASSUME NEW fd, NEW s \in Seq(Bytes), NEW d \in Seq(Bytes)
  PROVE  Extract(fd, s \o d) = Prefixed(Extract(fd, s).texts, Extract(fd, Extract(fd, s).rest \o d))
<1> DEFINE found == Extract(fd, s)
           Splits(e) == Extract(fd, s \o e) = Prefixed(found.texts, Extract(fd, found.rest \o e))
           Good == {e \in Seq(Bytes) : Splits(e)}
<1>0. found \in Founds /\ found.texts \in Seq(Seq(Bytes)) /\ found.rest \in Seq(Bytes)
      /\ found = Extraction(found.texts, found.rest)
  BY ExtractType, ExtractionType
<1>1. <<>> \in Good
  <2>1. <<>> \in Seq(Bytes) /\ s \o <<>> = s
    OBVIOUS
  <2>2. Extract(fd, found.rest) = Extraction(<<>>, found.rest)
    BY RestKept
  <2> HIDE DEF found
  <2>3. found.rest \o <<>> = found.rest /\ found.texts \o <<>> = found.texts
    BY <1>0
  <2>4. Prefixed(found.texts, Extract(fd, found.rest)) = found
    BY <1>0, <2>2, <2>3 DEF Prefixed, Extraction
  <2> QED  BY <2>1, <2>3, <2>4 DEF found
<1>2. ASSUME NEW e \in Seq(Bytes), e \in Good, NEW byte \in Bytes PROVE Append(e, byte) \in Good
  <2>1. Append(e, byte) \in Seq(Bytes) /\ s \o e \in Seq(Bytes)
        /\ s \o Append(e, byte) = Append(s \o e, byte)
    BY ConcatAppend
  <2>2. found.rest \o e \in Seq(Bytes)
        /\ found.rest \o Append(e, byte) = Append(found.rest \o e, byte)
    <3>1. ASSUME NEW r \in Seq(Bytes)
          PROVE  r \o e \in Seq(Bytes) /\ r \o Append(e, byte) = Append(r \o e, byte)
      BY ConcatAppend
    <3> HIDE DEF found
    <3> QED  BY <1>0, <3>1
  <2>3. Splits(e)
    BY <1>2
  <2>4. Extract(fd, Append(s \o e, byte)) = Step(fd, Extract(fd, s \o e), byte)
    BY <2>1, Bytewise
  <2>5. Extract(fd, Append(found.rest \o e, byte)) = Step(fd, Extract(fd, found.rest \o e), byte)
    BY <2>2, Bytewise
  <2>6. Extract(fd, found.rest \o e) \in Founds
    BY <2>2, ExtractType
  <2> HIDE DEF found
  <2>7. Step(fd, Prefixed(found.texts, Extract(fd, found.rest \o e)), byte)
          = Prefixed(found.texts, Step(fd, Extract(fd, found.rest \o e), byte))
    BY <1>0, <2>6, StepPrefixed
  <2>8. Splits(Append(e, byte))
    BY <2>1, <2>2, <2>3, <2>4, <2>5, <2>7
  <2> QED  BY <2>1, <2>8
<1>3. Seq(Bytes) \subseteq Good
  <2> HIDE DEF Good
  <2> QED  BY <1>1, <1>2, SeqInduction
<1> QED  BY <1>3

-----------------------------------------------------------------------------
(***************************************************************************)
(* Sequences put together.                                                 *)
(***************************************************************************)
Joined(seqs, f) == f[0] = <<>> /\ \A i \in 1 .. Len(seqs) : f[i] = f[i - 1] \o seqs[i]

LEMMA ElementType ==
  ASSUME NEW T, NEW s \in Seq(T), NEW i \in 1 .. Len(s) PROVE s[i] \in T
OBVIOUS

LEMMA ConcatType ==
  ASSUME NEW E, NEW a \in Seq(E), NEW b \in Seq(E) PROVE a \o b \in Seq(E)
OBVIOUS

LEMMA FlattenSteps ==
  ASSUME NEW E, NEW seqs \in Seq(Seq(E))
  PROVE  \E f \in [0 .. Len(seqs) -> Seq(E)] : Joined(seqs, f) /\ FlattenSeq(seqs) = f[Len(seqs)]
<1> DEFINE n == Len(seqs)
           F == [p \in Seq(E) \X Seq(E) |-> p[1] \o p[2]]
<1>1. F \in [Seq(E) \X Seq(E) -> Seq(E)] /\ <<>> \in Seq(E) /\ n \in Nat
      /\ \A a \in Seq(E), b \in Seq(E) : F[<<a, b>>] = a \o b
  <2>1. \A a \in Seq(E), b \in Seq(E) : a \o b \in Seq(E)
    BY ConcatType
  <2>2. <<>> \in Seq(E) /\ n \in Nat
    OBVIOUS
  <2> QED  BY <2>1, <2>2
<1>0. \A i \in 1 .. n : seqs[i] \in Seq(E)
  BY ElementType
<1>2. \E v : FoldsTo(Seq(E), F, <<>>, seqs, v)
  <2>1. ASSUME NEW G \in [Seq(E) \X Seq(E) -> Seq(E)], NEW base \in Seq(E)
        PROVE  \E v : FoldsTo(Seq(E), G, base, seqs, v)
    BY FoldFound
  <2> HIDE DEF F
  <2> QED  BY <1>1, <2>1
<1> HIDE DEF F
<1>3. PICK f \in [0 .. n -> Seq(E)] : Folded(F, <<>>, seqs, f)
  BY <1>2 DEF FoldsTo
<1>4. Joined(seqs, f)
  <2> SUFFICES ASSUME NEW i \in 1 .. n PROVE f[i] = f[i - 1] \o seqs[i]
    BY <1>3 DEF Joined, Folded
  <2>1. f[i] = F[<<f[i - 1], seqs[i]>>]
    BY <1>3 DEF Folded
  <2>2. f[i - 1] \in Seq(E) /\ seqs[i] \in Seq(E)
    <3>1. i - 1 \in 0 .. n
      BY <1>1
    <3> QED  BY <1>0, <1>3, <3>1
  <2> QED  BY <1>1, <2>1, <2>2
<1>5. CASE n = 0
  <2>1. FlattenSeq(seqs) = <<>>
    BY <1>5 DEF FlattenSeq
  <2> QED  BY <1>1, <1>3, <1>4, <1>5, <2>1 DEF Joined
<1>6. CASE n # 0
  <2> DEFINE flatten == CHOOSE h : h = [i \in 1 .. n |-> IF i = 1 THEN seqs[i] ELSE h[i - 1] \o seqs[i]]
  <2>1. FlattenSeq(seqs) = flatten[n]
    BY <1>6 DEF FlattenSeq
  <2> DEFINE g == [i \in 1 .. n |-> f[i]]
  <2>2. g = [i \in 1 .. n |-> IF i = 1 THEN seqs[i] ELSE g[i - 1] \o seqs[i]]
    <3> SUFFICES ASSUME NEW i \in 1 .. n PROVE f[i] = IF i = 1 THEN seqs[i] ELSE g[i - 1] \o seqs[i]
      OBVIOUS
    <3>1. f[i] = f[i - 1] \o seqs[i] /\ seqs[i] \in Seq(E)
      BY <1>0, <1>4 DEF Joined
    <3>2. CASE i = 1
      <4>1. f[i - 1] = <<>> /\ <<>> \o seqs[i] = seqs[i]
        BY <1>4, <3>1, <3>2 DEF Joined
      <4> QED  BY <3>1, <3>2, <4>1
    <3>3. CASE i # 1
      <4>1. i - 1 \in 1 .. n
        BY <1>1, <3>3
      <4> QED  BY <3>1, <3>3, <4>1
    <3> QED  BY <3>2, <3>3
  <2>3. flatten = [i \in 1 .. n |-> IF i = 1 THEN seqs[i] ELSE flatten[i - 1] \o seqs[i]]
    <3>1. \E h : h = [i \in 1 .. n |-> IF i = 1 THEN seqs[i] ELSE h[i - 1] \o seqs[i]]
      BY <2>2
    <3> QED  BY <3>1
  <2> HIDE DEF flatten, g
  <2> DEFINE Good == {k \in Nat : k + 1 <= n => flatten[k + 1] = f[k + 1]}
  <2>4. 0 \in Good
    <3>1. 1 \in 1 .. n /\ 1 - 1 = 0
      BY <1>1, <1>6
    <3>2. f[1] = f[1 - 1] \o seqs[1]
      BY <1>4, <3>1 DEF Joined
    <3>3. f[0] = <<>> /\ <<>> \o seqs[1] = seqs[1]
      <4>1. seqs[1] \in Seq(E)
        BY <1>0, <3>1
      <4> QED  BY <1>4, <4>1 DEF Joined
    <3>4. flatten[1] = seqs[1]
      BY <2>3, <3>1
    <3>5. flatten[0 + 1] = f[0 + 1]
      <4>1. f[1] = seqs[1]
        BY <3>1, <3>2, <3>3
      <4> QED  BY <3>4, <4>1
    <3> QED  BY <3>5
  <2>5. ASSUME NEW k \in Nat, k \in Good PROVE k + 1 \in Good
    <3> SUFFICES ASSUME (k + 1) + 1 <= n PROVE flatten[(k + 1) + 1] = f[(k + 1) + 1]
      OBVIOUS
    <3> DEFINE i == (k + 1) + 1
    <3>1. i \in 1 .. n /\ i - 1 = k + 1 /\ i # 1 /\ k + 1 <= n
      BY <1>1
    <3>2. flatten[k + 1] = f[k + 1]
      BY <2>5, <3>1
    <3> HIDE DEF i
    <3>3. f[i] = f[i - 1] \o seqs[i]
      BY <1>4, <3>1 DEF Joined
    <3>4. flatten[i] = flatten[i - 1] \o seqs[i]
      BY <2>3, <3>1
    <3> QED  BY <3>1, <3>2, <3>3, <3>4 DEF i
  <2>6. Nat \subseteq Good
    <3> HIDE DEF Good
    <3> QED  BY <2>4, <2>5, Induction
  <2>7. n - 1 \in Nat /\ (n - 1) + 1 = n
    BY <1>1, <1>6
  <2>8. flatten[n] = f[n]
    <3>1. \A k \in Nat : k + 1 <= n => flatten[k + 1] = f[k + 1]
      BY <2>6
    <3>2. n <= n
      BY <1>1
    <3> HIDE DEF n
    <3>3. (n - 1) + 1 <= n
      BY <2>7, <3>2
    <3>4. flatten[(n - 1) + 1] = f[(n - 1) + 1]
      BY <2>7, <3>1, <3>3
    <3> QED  BY <2>7, <3>4
  <2> QED  BY <1>3, <1>4, <2>1, <2>8
<1> QED  BY <1>5, <1>6

-----------------------------------------------------------------------------
(***************************************************************************)
(* The inductive invariant: what was extracted is what the extraction      *)
(* finds in all bytes so far at once, and the buffer is what it keeps.     *)
(***************************************************************************)
TypeInv ==
  /\ items \in [Fds -> Seq(Seq(Bytes))] /\ \A fd \in Fds : ToSet(items[fd]) \subseteq ItemsOf(fd)
  /\ moved \in [Fds -> Nat] /\ \A fd \in Fds : moved[fd] <= Len(Stream(fd))
  /\ rings \in [Cpus -> Seq(Events)] /\ lost \in [Cpus -> Nat] /\ mishaps \in Nat
  /\ buf \in [Fds -> Seq(Bytes)] /\ texts \in [Fds -> Seq(Seq(Bytes))]
  /\ copied \in [Fds -> Seq(Bytes)] /\ seen \in [Fds -> Seq(Bytes)]

Digested == \A fd \in Fds : Extract(fd, seen[fd]) = Extraction(texts[fd], buf[fd])

\* What a stream is made of, after its first items.
Joins(fd, its) == [k \in 1 .. Len(its) |-> BytesOf(fd, its[k])]

LEMMA JoinsType ==
  ASSUME NEW fd, NEW its \in Seq(Seq(Bytes))
  PROVE  Joins(fd, its) \in Seq(Seq(Bytes)) /\ Len(Joins(fd, its)) = Len(its)
<1>1. \A k \in 1 .. Len(its) : its[k] \in Seq(Bytes)
  BY ElementType
<1>2. \A s \in Seq(Bytes) : BytesOf(fd, s) \in Seq(Bytes)
  BY DEF BytesOf, Bytes
<1> QED  BY <1>1, <1>2 DEF Joins

LEMMA StreamIs ==
  ASSUME NEW fd PROVE Stream(fd) = FlattenSeq(Joins(fd, items[fd]))
BY DEF Stream, Joins

LEMMA FlattenType ==
  ASSUME NEW E, NEW seqs \in Seq(Seq(E)) PROVE FlattenSeq(seqs) \in Seq(E)
<1>1. PICK f \in [0 .. Len(seqs) -> Seq(E)] : FlattenSeq(seqs) = f[Len(seqs)]
  BY FlattenSteps
<1>2. Len(seqs) \in 0 .. Len(seqs)
  OBVIOUS
<1> QED  BY <1>1, <1>2

LEMMA StreamType ==
  ASSUME NEW fd \in Fds, items[fd] \in Seq(Seq(Bytes)) PROVE Stream(fd) \in Seq(Bytes)
BY JoinsType, StreamIs, FlattenType

LEMMA CapturedType ==
  ASSUME NEW len \in Nat PROVE Captured(len) \in 0 .. len
<1>1. ChunkSize \in Nat /\ ChunkSize > 0
  BY EbpfAssumption
<1>2. ASSUME NEW c \in Nat, c > 0 PROVE len % c \in 0 .. len
  <2>1. len % c \in 0 .. c - 1
    BY <1>2
  <2>2. CASE len < c
    BY <1>2, <2>2
  <2>3. CASE len >= c
    BY <1>2, <2>1, <2>3
  <2> QED  BY <1>2, <2>2, <2>3
<1> QED  BY <1>1, <1>2 DEF Captured

LEMMA NextBytesType ==
  ASSUME TypeInv, NEW fd \in Fds, NEW len \in Nat, moved[fd] + len <= Len(Stream(fd))
  PROVE  /\ NextBytes(fd, len) \in Seq(Bytes) /\ Len(NextBytes(fd, len)) = Captured(len)
         /\ \A k \in 1 .. Captured(len) : NextBytes(fd, len)[k] = Stream(fd)[moved[fd] + k]
<1>1. moved[fd] \in Nat /\ Stream(fd) \in Seq(Bytes) /\ Captured(len) \in 0 .. len
  BY StreamType, CapturedType DEF TypeInv
<1>2. ASSUME NEW s \in Seq(Bytes), NEW m \in Nat, NEW c \in 0 .. len, m + len <= Len(s)
      PROVE  /\ SubSeq(s, m + 1, m + c) \in Seq(Bytes) /\ Len(SubSeq(s, m + 1, m + c)) = c
             /\ \A k \in 1 .. c : SubSeq(s, m + 1, m + c)[k] = s[m + k]
  <2>1. c \in Nat /\ m + c <= Len(s) /\ Len(s) \in Nat
    BY <1>2
  <2>2. ASSUME NEW n \in Nat, n = m + c PROVE
          SubSeq(s, m + 1, n) \in Seq(Bytes) /\ Len(SubSeq(s, m + 1, n)) = c
    BY <2>1, <2>2
  <2>3. \A k \in 1 .. c : SubSeq(s, m + 1, m + c)[k] = s[m + k]
    BY <2>1
  <2> QED  BY <2>1, <2>2, <2>3
<1> QED  BY <1>1, <1>2 DEF NextBytes

LEMMA InitTypes == Init => TypeInv /\ Digested
<1> SUFFICES ASSUME Init PROVE TypeInv /\ Digested
  OBVIOUS
<1> DEFINE All == Lines \union Texts \union Garbage
<1>1. All \subseteq Seq(Bytes)
  <2>1. Seq(Bytes \ {"lf"}) \subseteq Seq(Bytes)
    OBVIOUS
  <2> QED  BY <2>1, EbpfAssumption
<1>2. BoundedSeq(All, MaxItems) \subseteq Seq(All)
  BY DEF BoundedSeq, SeqOf
<1> HIDE DEF All
<1>3. Seq(All) \subseteq Seq(Seq(Bytes))
  BY <1>1
<1>4. items \in [Fds -> BoundedSeq(All, MaxItems)] /\ \A fd \in Fds : ToSet(items[fd]) \subseteq ItemsOf(fd)
  BY DEF Init, All
<1>5. items \in [Fds -> Seq(Seq(Bytes))]
  BY <1>2, <1>3, <1>4
<1>6. \A fd \in Fds : Stream(fd) \in Seq(Bytes)
  BY <1>5, StreamType
<1>7. \A fd \in Fds : 0 <= Len(Stream(fd))
  BY <1>6
<1>8. TypeInv
  <2>1. <<>> \in Seq(Bytes) /\ <<>> \in Seq(Seq(Bytes)) /\ <<>> \in Seq(Events)
    OBVIOUS
  <2>2. moved \in [Fds -> Nat] /\ \A fd \in Fds : moved[fd] <= Len(Stream(fd))
    BY <1>7 DEF Init
  <2>3. rings \in [Cpus -> Seq(Events)] /\ lost \in [Cpus -> Nat] /\ mishaps \in Nat
    BY <2>1 DEF Init
  <2>4. /\ buf \in [Fds -> Seq(Bytes)] /\ texts \in [Fds -> Seq(Seq(Bytes))]
        /\ copied \in [Fds -> Seq(Bytes)] /\ seen \in [Fds -> Seq(Bytes)]
    BY <2>1 DEF Init
  <2> QED  BY <1>4, <1>5, <2>2, <2>3, <2>4 DEF TypeInv
<1>9. Digested
  BY ExtractEmpty DEF Init, Digested
<1> QED  BY <1>8, <1>9

LEMMA OutputTypes ==
  ASSUME TypeInv, NEW fd \in Fds, NEW data \in Seq(Bytes), NEW cpu \in Cpus, NEW short \in {0, 1},
         Output(fd, data, cpu, short)
  PROVE  /\ copied' \in [Fds -> Seq(Bytes)] /\ rings' \in [Cpus -> Seq(Events)]
         /\ lost' \in [Cpus -> Nat] /\ mishaps' \in Nat
         /\ UNCHANGED <<items, buf, texts, seen>>
<1>1. UNCHANGED <<items, buf, texts, seen>> /\ copied' = [copied EXCEPT ![fd] = @ \o data]
  BY DEF Output
<1>2. copied' \in [Fds -> Seq(Bytes)]
  <2>1. copied[fd] \o data \in Seq(Bytes)
    BY ConcatType DEF TypeInv
  <2> QED  BY <1>1, <2>1 DEF TypeInv
<1>3. CASE /\ rings' = [rings EXCEPT ![cpu] = Append(@, [fd |-> fd, data |-> data])]
           /\ mishaps' = mishaps + short /\ UNCHANGED lost
  <2>1. [fd |-> fd, data |-> data] \in Events
    BY DEF Events
  <2>2. Append(rings[cpu], [fd |-> fd, data |-> data]) \in Seq(Events)
    BY <2>1 DEF TypeInv
  <2>3. rings' \in [Cpus -> Seq(Events)]
    BY <1>3, <2>2 DEF TypeInv
  <2> QED  BY <1>1, <1>2, <1>3, <2>3 DEF TypeInv
<1>4. CASE /\ lost' = [lost EXCEPT ![cpu] = @ + 1]
           /\ mishaps' = mishaps + short + 1 /\ UNCHANGED rings
  BY <1>1, <1>2, <1>4 DEF TypeInv
<1> QED  BY <1>3, <1>4 DEF Output

\* A transfer changes nothing of what the loop has read.
LEMMA MovesKeep ==
  ASSUME TypeInv, Digested, NEW fd \in Fds, NEW len \in Nat, NEW gone \in 0 .. len,
         NEW cpu \in Cpus, NEW short \in {0, 1},
         moved[fd] + len <= Len(Stream(fd)), moved' = [moved EXCEPT ![fd] = @ + gone],
         Output(fd, NextBytes(fd, len), cpu, short)
  PROVE  TypeInv' /\ Digested'
<1>1. NextBytes(fd, len) \in Seq(Bytes)
  BY NextBytesType
<1>2. /\ copied' \in [Fds -> Seq(Bytes)] /\ rings' \in [Cpus -> Seq(Events)]
      /\ lost' \in [Cpus -> Nat] /\ mishaps' \in Nat
      /\ UNCHANGED <<items, buf, texts, seen>>
  BY <1>1, OutputTypes
<1>3. \A f \in Fds : Stream(f)' = Stream(f)
  BY <1>2 DEF Stream
<1>4. moved' \in [Fds -> Nat] /\ \A f \in Fds : moved'[f] <= Len(Stream(f))
  <2>1. \A f \in Fds : moved[f] \in Nat /\ moved[f] <= Len(Stream(f)) /\ Len(Stream(f)) \in Nat
    <3>1. \A f \in Fds : Stream(f) \in Seq(Bytes)
      BY StreamType DEF TypeInv
    <3> QED  BY <3>1 DEF TypeInv
  <2>2. moved[fd] + gone \in Nat /\ moved[fd] + gone <= Len(Stream(fd))
    BY <2>1
  <2>3. moved \in [Fds -> Nat]
    BY DEF TypeInv
  <2> QED  BY <2>1, <2>2, <2>3
<1>5. TypeInv'
  BY <1>2, <1>3, <1>4 DEF TypeInv, ItemsOf
<1>6. Digested'
  BY <1>2 DEF Digested
<1> QED  BY <1>5, <1>6

\* Reading an event digests it, whatever the buffer holds.
LEMMA ReadKeeps ==
  ASSUME TypeInv, Digested, NEW cpu \in Cpus, ReadEvent(cpu)
  PROVE  TypeInv' /\ Digested'
<1> DEFINE event == Head(rings[cpu])
           fd == event.fd
           found == Extract(fd, buf[fd] \o event.data)
<1>1. rings[cpu] \in Seq(Events) /\ rings[cpu] # <<>>
  BY DEF ReadEvent, TypeInv
<1>2. event \in Events /\ Tail(rings[cpu]) \in Seq(Events)
  BY <1>1
<1>3. fd \in Fds /\ event.data \in Seq(Bytes)
  BY <1>2 DEF Events
<1>4. /\ rings' = [rings EXCEPT ![cpu] = Tail(@)]
      /\ buf' = [buf EXCEPT ![fd] = found.rest]
      /\ texts' = [texts EXCEPT ![fd] = @ \o found.texts]
      /\ seen' = [seen EXCEPT ![fd] = @ \o event.data]
      /\ UNCHANGED <<items, moved, lost, mishaps, copied>>
  BY DEF ReadEvent
<1> DEFINE data == event.data
<1> HIDE DEF event, data, fd
<1>5. data \in Seq(Bytes) /\ fd \in Fds /\ event.data = data
  BY <1>3 DEF fd, data
<1>6. /\ buf[fd] \in Seq(Bytes) /\ seen[fd] \in Seq(Bytes) /\ texts[fd] \in Seq(Seq(Bytes))
      /\ buf[fd] \o data \in Seq(Bytes) /\ seen[fd] \o data \in Seq(Bytes)
  <2>1. buf[fd] \in Seq(Bytes) /\ seen[fd] \in Seq(Bytes) /\ texts[fd] \in Seq(Seq(Bytes))
    BY <1>5 DEF TypeInv
  <2> QED  BY <1>5, <2>1, ConcatType
<1>7. found \in Founds /\ found.texts \in Seq(Seq(Bytes)) /\ found.rest \in Seq(Bytes)
  BY <1>5, <1>6, ExtractType, ExtractionType
<1>8. Extract(fd, seen[fd] \o data) = Extraction(texts[fd] \o found.texts, found.rest)
  <2>1. Extract(fd, seen[fd]) = Extraction(texts[fd], buf[fd])
    BY <1>5 DEF Digested
  <2>2. Extract(fd, seen[fd]).texts = texts[fd] /\ Extract(fd, seen[fd]).rest = buf[fd]
    BY <2>1 DEF Extraction
  <2>3. Extract(fd, seen[fd] \o data) = Prefixed(texts[fd], Extract(fd, buf[fd] \o data))
    BY <1>5, <1>6, <2>2, ExtractTwice
  <2> QED  BY <1>5, <2>3 DEF Prefixed
<1> HIDE DEF found
<1>9. TypeInv'
  <2>1. rings' \in [Cpus -> Seq(Events)]
    BY <1>2, <1>4 DEF TypeInv
  <2>2. buf' \in [Fds -> Seq(Bytes)] /\ seen' \in [Fds -> Seq(Bytes)]
    BY <1>4, <1>5, <1>6, <1>7 DEF TypeInv
  <2>3. texts' \in [Fds -> Seq(Seq(Bytes))]
    <3>1. texts[fd] \o found.texts \in Seq(Seq(Bytes))
      BY <1>6, <1>7, ConcatType
    <3> QED  BY <1>4, <3>1 DEF TypeInv
  <2>4. \A f \in Fds : Stream(f)' = Stream(f)
    BY <1>4 DEF Stream
  <2> QED  BY <1>4, <2>1, <2>2, <2>3, <2>4 DEF TypeInv, ItemsOf
<1>10. Digested'
  <2> SUFFICES ASSUME NEW f \in Fds PROVE Extract(f, seen'[f]) = Extraction(texts'[f], buf'[f])
    BY DEF Digested
  <2>1. CASE f = fd
    <3>1. seen'[fd] = seen[fd] \o data /\ texts'[fd] = texts[fd] \o found.texts /\ buf'[fd] = found.rest
      BY <1>4, <1>5 DEF TypeInv
    <3> QED  BY <1>8, <2>1, <3>1
  <2>2. CASE f # fd
    <3>1. seen'[f] = seen[f] /\ texts'[f] = texts[f] /\ buf'[f] = buf[f]
      BY <1>4, <2>2 DEF TypeInv
    <3> QED  BY <3>1 DEF Digested
  <2> QED  BY <2>1, <2>2
<1> QED  BY <1>9, <1>10

LEMMA EbpfStep == TypeInv /\ Digested /\ [Next]_vars => TypeInv' /\ Digested'
<1> SUFFICES ASSUME TypeInv, Digested, [Next]_vars PROVE TypeInv' /\ Digested'
  OBVIOUS
<1>0. MaxTransfer \in Nat
  BY EbpfAssumption
<1>1. ASSUME NEW fd \in Fds, NEW len \in 1 .. MaxTransfer, NEW cpu \in Cpus, Transfer(fd, len, cpu)
      PROVE  TypeInv' /\ Digested'
  <2>1. len \in Nat /\ len \in 0 .. len /\ 0 \in {0, 1}
    BY <1>0
  <2>2. /\ moved[fd] + len <= Len(Stream(fd)) /\ moved' = [moved EXCEPT ![fd] = @ + len]
        /\ Output(fd, NextBytes(fd, len), cpu, 0)
    BY <1>1 DEF Transfer
  <2> QED  BY <2>1, <2>2, MovesKeep
<1>2. ASSUME NEW fd \in Fds, NEW len \in 1 .. MaxTransfer, NEW done \in 0 .. MaxTransfer - 1,
             NEW cpu \in Cpus, ShortWrite(fd, len, done, cpu)
      PROVE  TypeInv' /\ Digested'
  <2>1. /\ moved[fd] + len <= Len(Stream(fd)) /\ done < len
        /\ moved' = [moved EXCEPT ![fd] = @ + done]
        /\ Output(fd, NextBytes(fd, len), cpu, 1)
    BY <1>2 DEF ShortWrite
  <2>2. len \in Nat /\ done \in 0 .. len /\ 1 \in {0, 1}
    BY <1>0, <2>1
  <2> QED  BY <2>1, <2>2, MovesKeep
<1>3. ASSUME UNCHANGED <<items, moved, rings, buf, texts, mishaps, copied, seen>>, lost' \in [Cpus -> Nat]
      PROVE  TypeInv' /\ Digested'
  <2>1. \A f \in Fds : Stream(f)' = Stream(f)
    BY <1>3 DEF Stream
  <2> QED  BY <1>3, <2>1 DEF TypeInv, Digested, ItemsOf
<1>4. ASSUME NEW cpu \in Cpus, ReadLost(cpu) PROVE TypeInv' /\ Digested'
  <2>1. UNCHANGED <<items, moved, rings, buf, texts, mishaps, copied, seen>> /\ lost' \in [Cpus -> Nat]
    BY <1>4 DEF ReadLost, TypeInv
  <2> QED  BY <1>3, <2>1
<1>5. CASE UNCHANGED vars
  <2>1. UNCHANGED <<items, moved, rings, buf, texts, mishaps, copied, seen>> /\ lost' \in [Cpus -> Nat]
    BY <1>5 DEF vars, TypeInv
  <2> QED  BY <1>3, <2>1
<1> QED  BY <1>1, <1>2, <1>4, <1>5, ReadKeeps DEF Next, Finished

\* However the kernel cuts a stream into events, drops them or hands them over in another
\* order: what was extracted is what is found in all bytes read so far, and the buffer holds
\* exactly what is not complete (ebpf_linux.go:113-149, ebpf_parser.go:14-102).
THEOREM EbpfCutsDoNotMatter == Spec => []CutsDoNotMatter
<1>1. Digested => CutsDoNotMatter
  <2> SUFFICES ASSUME Digested, NEW fd \in Fds PROVE texts[fd] = Extract(fd, seen[fd]).texts
    BY DEF CutsDoNotMatter
  <2>1. Extract(fd, seen[fd]) = Extraction(texts[fd], buf[fd])
    BY DEF Digested
  <2> QED  BY <2>1 DEF Extraction
<1> QED  BY <1>1, InitTypes, EbpfStep, PTL DEF Spec

-----------------------------------------------------------------------------
(***************************************************************************)
(* The scan finds JSON texts: what it counts is what JSON counts.          *)
(***************************************************************************)
\* The backslashes before i are those from j on.
Run(data, i, j) ==
  /\ j \in 1 .. i /\ \A k \in j .. i - 1 : data[k] = "backslash"
  /\ j = 1 \/ data[j - 1] # "backslash"

LEMMA RunExists ==
  ASSUME NEW data, NEW i \in Nat PROVE \E j : Run(data, i + 1, j)
<1> DEFINE Good == {n \in Nat : \E j : Run(data, n + 1, j)}
<1>1. 0 \in Good
  <2>1. Run(data, 0 + 1, 1)
    BY DEF Run
  <2> QED  BY <2>1
<1>2. ASSUME NEW n \in Nat, n \in Good PROVE n + 1 \in Good
  <2>1. CASE data[n + 1] # "backslash"
    <3>1. Run(data, (n + 1) + 1, (n + 1) + 1)
      BY <2>1 DEF Run
    <3> QED  BY <3>1
  <2>2. CASE data[n + 1] = "backslash"
    <3>1. PICK j : Run(data, n + 1, j)
      BY <1>2
    <3>2. j \in 1 .. (n + 1) + 1 /\ \A k \in j .. ((n + 1) + 1) - 1 : k = n + 1 \/ k \in j .. (n + 1) - 1
      BY <3>1 DEF Run
    <3>3. Run(data, (n + 1) + 1, j)
      BY <2>2, <3>1, <3>2 DEF Run
    <3> QED  BY <3>3
  <2> QED  BY <2>1, <2>2
<1>3. Nat \subseteq Good
  <2> HIDE DEF Good
  <2> QED  BY <1>1, <1>2, Induction
<1> QED  BY <1>3

LEMMA EscapedByRun ==
  ASSUME NEW data, NEW i \in Nat, NEW j, Run(data, i, j) PROVE Escaped(data, i) <=> (i - j) % 2 = 1
<1>1. ASSUME NEW k, Run(data, i, k) PROVE k = j
  <2>1. j \in 1 .. i /\ k \in 1 .. i
    BY <1>1 DEF Run
  <2>2. ~(j < k)
    <3> SUFFICES ASSUME j < k PROVE FALSE
      OBVIOUS
    <3>1. k - 1 \in j .. i - 1 /\ k # 1
      BY <2>1
    <3> QED  BY <1>1, <3>1 DEF Run
  <2>3. ~(k < j)
    <3> SUFFICES ASSUME k < j PROVE FALSE
      OBVIOUS
    <3>1. j - 1 \in k .. i - 1 /\ j # 1
      BY <2>1
    <3> QED  BY <1>1, <3>1 DEF Run
  <2> QED  BY <2>1, <2>2, <2>3
<1>2. Escaped(data, i) <=> \E k \in 1 .. i : Run(data, i, k) /\ (i - k) % 2 = 1
  BY DEF Escaped, Run
<1>3. j \in 1 .. i
  BY DEF Run
<1> QED  BY <1>1, <1>2, <1>3

\* A byte is escaped by a backslash that is not escaped.
LEMMA EscapedSteps ==
  ASSUME NEW data
  PROVE  /\ ~Escaped(data, 1)
         /\ \A i \in Nat \ {0} :
              Escaped(data, i + 1) <=> data[i] = "backslash" /\ ~Escaped(data, i)
<1>1. ~Escaped(data, 1)
  <2>1. Run(data, 1, 1)
    BY DEF Run
  <2> QED  BY <2>1, EscapedByRun
<1>2. ASSUME NEW i \in Nat \ {0}
      PROVE  Escaped(data, i + 1) <=> data[i] = "backslash" /\ ~Escaped(data, i)
  <2>1. CASE data[i] # "backslash"
    <3>1. Run(data, i + 1, i + 1)
      BY <2>1 DEF Run
    <3>2. Escaped(data, i + 1) <=> ((i + 1) - (i + 1)) % 2 = 1
      BY <3>1, EscapedByRun
    <3> QED  BY <2>1, <3>2
  <2>2. CASE data[i] = "backslash"
    <3>1. PICK j : Run(data, i, j)
      <4>1. i - 1 \in Nat /\ (i - 1) + 1 = i
        OBVIOUS
      <4> QED  BY <4>1, RunExists
    <3>2. j \in 1 .. i /\ j \in 1 .. i + 1 /\ \A k \in j .. (i + 1) - 1 : k = i \/ k \in j .. i - 1
      BY <3>1 DEF Run
    <3>3. Run(data, i + 1, j)
      BY <2>2, <3>1, <3>2 DEF Run
    <3>4. /\ Escaped(data, i) <=> (i - j) % 2 = 1
          /\ Escaped(data, i + 1) <=> ((i + 1) - j) % 2 = 1
      BY <3>1, <3>3, EscapedByRun
    <3>5. ((i + 1) - j) % 2 = 1 <=> ~((i - j) % 2 = 1)
      BY <3>2
    <3> QED  BY <2>2, <3>4, <3>5
  <2> QED  BY <2>1, <2>2
<1> QED  BY <1>1, <1>2

LEMMA UptoCount ==
  ASSUME NEW i \in Nat, NEW S \in SUBSET (1 .. i)
  PROVE  /\ IsFiniteSet(S) /\ Cardinality(S) \in Nat
         /\ Cardinality(S \union {i + 1}) = Cardinality(S) + 1
<1>1. IsFiniteSet(1 .. i)
  BY FS_Interval
<1>2. IsFiniteSet(S)
  BY <1>1, FS_Subset
<1>3. i + 1 \notin S
  OBVIOUS
<1> QED  BY <1>2, <1>3, FS_AddElement, FS_CardinalityType

LEMMA InStringSteps ==
  ASSUME NEW data
  PROVE  /\ ~InString(data, 1)
         /\ \A i \in Nat \ {0} :
              InString(data, i + 1) <=>
                IF data[i] = "quote" /\ ~Escaped(data, i) THEN ~InString(data, i) ELSE InString(data, i)
<1>1. ~InString(data, 1)
  <2>1. Quotes(data, 1 - 1) = {}
    BY DEF Quotes
  <2> QED  BY <2>1, FS_EmptySet DEF InString
<1>2. ASSUME NEW i \in Nat \ {0}
      PROVE  InString(data, i + 1) <=>
               IF data[i] = "quote" /\ ~Escaped(data, i) THEN ~InString(data, i) ELSE InString(data, i)
  <2>1. i - 1 \in Nat /\ (i - 1) + 1 = i /\ (i + 1) - 1 = i /\ 1 .. i = (1 .. i - 1) \union {i}
    OBVIOUS
  <2>2. Quotes(data, i - 1) \in SUBSET (1 .. i - 1)
    BY DEF Quotes
  <2>3. /\ Cardinality(Quotes(data, i - 1)) \in Nat
        /\ Cardinality(Quotes(data, i - 1) \union {i}) = Cardinality(Quotes(data, i - 1)) + 1
    BY <2>1, <2>2, UptoCount
  <2>4. CASE data[i] = "quote" /\ ~Escaped(data, i)
    <3>1. Quotes(data, i) = Quotes(data, i - 1) \union {i}
      BY <2>1, <2>4 DEF Quotes
    <3>2. ASSUME NEW n \in Nat PROVE (n + 1) % 2 = 1 <=> ~(n % 2 = 1)
      OBVIOUS
    <3> QED  BY <2>1, <2>3, <2>4, <3>1, <3>2 DEF InString
  <2>5. CASE ~(data[i] = "quote" /\ ~Escaped(data, i))
    <3>1. Quotes(data, i) = Quotes(data, i - 1)
      BY <2>1, <2>5 DEF Quotes
    <3> QED  BY <2>1, <2>5, <3>1 DEF InString
  <2> QED  BY <2>4, <2>5
<1> QED  BY <1>1, <1>2

Structural(data, i) == ~Escaped(data, i) /\ ~InString(data, i)

LEMMA DepthSteps ==
  ASSUME NEW data
  PROVE  /\ Depth(data, 0) = 0
         /\ \A i \in Nat : /\ Depth(data, i) \in Int
                           /\ Depth(data, i + 1) =
                                IF Structural(data, i + 1) /\ data[i + 1] = "open" THEN Depth(data, i) + 1
                                ELSE IF Structural(data, i + 1) /\ data[i + 1] = "close"
                                THEN Depth(data, i) - 1 ELSE Depth(data, i)
<1>1. Depth(data, 0) = 0
  <2>1. \A b : Brackets(data, 0, b) = {}
    BY DEF Brackets
  <2> QED  BY <2>1, FS_EmptySet DEF Depth
<1>2. ASSUME NEW i \in Nat, NEW b
      PROVE  /\ Cardinality(Brackets(data, i, b)) \in Nat
             /\ Cardinality(Brackets(data, i + 1, b)) =
                  Cardinality(Brackets(data, i, b))
                    + (IF Structural(data, i + 1) /\ data[i + 1] = b THEN 1 ELSE 0)
  <2>1. 1 .. i + 1 = (1 .. i) \union {i + 1}
    OBVIOUS
  <2>2. Brackets(data, i, b) \in SUBSET (1 .. i)
    BY DEF Brackets
  <2>3. /\ Cardinality(Brackets(data, i, b)) \in Nat
        /\ Cardinality(Brackets(data, i, b) \union {i + 1}) = Cardinality(Brackets(data, i, b)) + 1
    BY <2>2, UptoCount
  <2>4. CASE Structural(data, i + 1) /\ data[i + 1] = b
    <3>1. Brackets(data, i + 1, b) = Brackets(data, i, b) \union {i + 1}
      BY <2>1, <2>4 DEF Brackets, Structural
    <3> QED  BY <2>3, <2>4, <3>1
  <2>5. CASE ~(Structural(data, i + 1) /\ data[i + 1] = b)
    <3>1. Brackets(data, i + 1, b) = Brackets(data, i, b)
      BY <2>1, <2>5 DEF Brackets, Structural
    <3> QED  BY <2>3, <2>5, <3>1
  <2> QED  BY <2>4, <2>5
<1>3. ASSUME NEW i \in Nat
      PROVE  /\ Depth(data, i) \in Int
             /\ Depth(data, i + 1) =
                  IF Structural(data, i + 1) /\ data[i + 1] = "open" THEN Depth(data, i) + 1
                  ELSE IF Structural(data, i + 1) /\ data[i + 1] = "close"
                  THEN Depth(data, i) - 1 ELSE Depth(data, i)
  <2> DEFINE opened(n) == Cardinality(Brackets(data, n, "open"))
             closed(n) == Cardinality(Brackets(data, n, "close"))
  <2>1. /\ opened(i) \in Nat /\ closed(i) \in Nat
        /\ opened(i + 1) = opened(i) + (IF Structural(data, i + 1) /\ data[i + 1] = "open" THEN 1 ELSE 0)
        /\ closed(i + 1) = closed(i) + (IF Structural(data, i + 1) /\ data[i + 1] = "close" THEN 1 ELSE 0)
    BY <1>2
  <2>2. \A n : Depth(data, n) = opened(n) - closed(n)
    BY DEF Depth
  <2> HIDE DEF opened, closed
  <2> QED  BY <2>1, <2>2
<1> QED  BY <1>1, <1>3

\* What one turn of the scan does with its flags and its depth.
LEMMA ScanByteCounts ==
  ASSUME NEW scan \in Scans, NEW byte \in Bytes, scan.end = 0
  PROVE  LET next == ScanByte(scan, byte)
             counts == ~scan.escape /\ ~scan.inString
         IN  /\ next.escape <=> byte = "backslash" /\ ~scan.escape
             /\ next.inString <=>
                  IF byte = "quote" /\ ~scan.escape THEN ~scan.inString ELSE scan.inString
             /\ next.depth = IF counts /\ byte = "open" THEN scan.depth + 1
                             ELSE IF counts /\ byte = "close" THEN scan.depth - 1 ELSE scan.depth
             /\ next.end = IF counts /\ byte = "close" /\ scan.depth = 1 THEN scan.at + 1 ELSE 0
<1> DEFINE next == [scan EXCEPT !.at = @ + 1]
<1>1. /\ next \in Scans /\ next.depth = scan.depth /\ next.at = scan.at + 1 /\ next.end = 0
      /\ next.escape = scan.escape /\ next.inString = scan.inString
  BY DEF Scans
<1>2. CASE scan.escape
  <2>1. ScanByte(scan, byte) = [next EXCEPT !.escape = FALSE]
    BY <1>2 DEF ScanByte
  <2> HIDE DEF next
  <2> QED  BY <1>1, <1>2, <2>1 DEF Scans
<1>3. CASE ~scan.escape
  <2>1. ScanByte(scan, byte) =
          CASE byte = "backslash" -> [next EXCEPT !.escape = TRUE]
            [] byte = "quote" -> [next EXCEPT !.inString = ~@]
            [] byte = "open" /\ Counts(scan) -> [next EXCEPT !.depth = @ + 1]
            [] byte = "close" /\ Counts(scan) ->
                 [next EXCEPT !.depth = @ - 1,
                              !.end = IF scan.depth = 1 THEN next.at ELSE 0]
            [] OTHER -> next
    BY <1>3 DEF ScanByte
  <2>2. Counts(scan) <=> ~scan.inString
    BY DEF Counts
  <2> HIDE DEF next
  <2>3. CASE byte = "backslash"
    BY <1>1, <1>3, <2>1, <2>3 DEF Scans
  <2>4. CASE byte = "quote"
    BY <1>1, <1>3, <2>1, <2>4 DEF Scans
  <2>5. CASE byte = "open" /\ Counts(scan)
    BY <1>1, <1>3, <2>1, <2>2, <2>5 DEF Scans
  <2>6. CASE byte = "close" /\ Counts(scan)
    <3>1. ScanByte(scan, byte) = [next EXCEPT !.depth = @ - 1,
                                    !.end = IF scan.depth = 1 THEN next.at ELSE 0]
      BY <2>1, <2>6
    <3> QED  BY <1>1, <1>3, <2>2, <2>6, <3>1 DEF Scans
  <2>7. CASE /\ byte # "backslash" /\ byte # "quote"
             /\ ~(byte = "open" /\ Counts(scan)) /\ ~(byte = "close" /\ Counts(scan))
    <3>1. ScanByte(scan, byte) = next
      BY <2>1, <2>7
    <3> QED  BY <1>1, <1>3, <2>2, <2>7, <3>1
  <2> QED  BY <2>3, <2>4, <2>5, <2>6, <2>7
<1> QED  BY <1>2, <1>3

\* After i bytes of a text that is not closed yet, the scan has counted as JSON does.
Counted(data, i) ==
  LET scan == Scan(SubSeq(data, 1, i))
  IN  /\ scan.end = 0 /\ scan.at = i /\ scan.depth = Depth(data, i)
      /\ scan.escape <=> Escaped(data, i + 1)
      /\ scan.inString <=> InString(data, i + 1)

LEMMA CountedNext ==
  ASSUME NEW data \in Seq(Bytes), NEW i \in Nat, i < Len(data), Counted(data, i)
  PROVE  LET scan == Scan(SubSeq(data, 1, i + 1))
         IN  /\ scan.depth = Depth(data, i + 1)
             /\ scan.escape <=> Escaped(data, (i + 1) + 1)
             /\ scan.inString <=> InString(data, (i + 1) + 1)
             /\ scan.end = IF Depth(data, i) = 1 /\ Depth(data, i + 1) = 0 THEN i + 1 ELSE 0
             /\ scan.at = i + 1
<1> DEFINE front == SubSeq(data, 1, i)
           byte == data[i + 1]
           scan == Scan(front)
           after == Scan(SubSeq(data, 1, i + 1))
<1>1. front \in Seq(Bytes) /\ byte \in Bytes /\ SubSeq(data, 1, i + 1) = Append(front, byte)
  OBVIOUS
<1>2. scan \in Scans /\ after = ScanByte(scan, byte)
  BY <1>1, ScanSteps
<1>3. /\ scan.end = 0 /\ scan.at = i /\ scan.depth = Depth(data, i)
      /\ scan.escape <=> Escaped(data, i + 1)
      /\ scan.inString <=> InString(data, i + 1)
  BY DEF Counted
<1>4. i + 1 \in Nat \ {0}
  OBVIOUS
<1>5. /\ Escaped(data, (i + 1) + 1) <=> byte = "backslash" /\ ~Escaped(data, i + 1)
      /\ InString(data, (i + 1) + 1) <=>
           IF byte = "quote" /\ ~Escaped(data, i + 1) THEN ~InString(data, i + 1) ELSE InString(data, i + 1)
  BY <1>4, EscapedSteps, InStringSteps
<1>6. /\ Depth(data, i) \in Int
      /\ Depth(data, i + 1) =
           IF Structural(data, i + 1) /\ byte = "open" THEN Depth(data, i) + 1
           ELSE IF Structural(data, i + 1) /\ byte = "close" THEN Depth(data, i) - 1 ELSE Depth(data, i)
  BY DepthSteps
<1>7. Structural(data, i + 1) <=> ~scan.escape /\ ~scan.inString
  BY <1>3 DEF Structural
<1>8. /\ after.escape <=> byte = "backslash" /\ ~scan.escape
      /\ after.inString <=> IF byte = "quote" /\ ~scan.escape THEN ~scan.inString ELSE scan.inString
      /\ after.depth = IF ~scan.escape /\ ~scan.inString /\ byte = "open" THEN scan.depth + 1
                       ELSE IF ~scan.escape /\ ~scan.inString /\ byte = "close" THEN scan.depth - 1
                       ELSE scan.depth
      /\ after.end = IF ~scan.escape /\ ~scan.inString /\ byte = "close" /\ scan.depth = 1
                     THEN scan.at + 1 ELSE 0
      /\ after.at = scan.at + 1
  BY <1>2, <1>3, ScanByteCounts, ScanByteEnds
<1> HIDE DEF scan, after, byte, front
<1>9. /\ after.escape <=> Escaped(data, (i + 1) + 1)
      /\ after.inString <=> InString(data, (i + 1) + 1)
  BY <1>3, <1>5, <1>8
<1>10. after.depth = Depth(data, i + 1)
  BY <1>3, <1>6, <1>7, <1>8
<1>11. after.end = IF Depth(data, i) = 1 /\ Depth(data, i + 1) = 0 THEN i + 1 ELSE 0
  BY <1>3, <1>6, <1>7, <1>8
<1> QED  BY <1>3, <1>8, <1>9, <1>10, <1>11 DEF after

\* The scan finds where a JSON text ends (ebpf_parser.go:40-66).
LEMMA ScanFindsTexts ==
  ASSUME NEW text \in Seq(Bytes), IsText(text) PROVE TextEnd(text) = Len(text)
<1> DEFINE Good == {i \in Nat : i < Len(text) => Counted(text, i)}
<1>1. /\ Len(text) \in Nat \ {0} /\ text[1] = "open" /\ Depth(text, Len(text)) = 0
      /\ \A i \in 1 .. Len(text) - 1 : Depth(text, i) > 0
  BY DEF IsText
<1>2. 0 \in Good
  <2>1. SubSeq(text, 1, 0) = <<>>
    OBVIOUS
  <2>2. Scan(SubSeq(text, 1, 0)) = ScanStart
    BY <2>1, ScanSteps
  <2>3. ~Escaped(text, 0 + 1) /\ ~InString(text, 0 + 1) /\ Depth(text, 0) = 0
    <3>1. 0 + 1 = 1
      OBVIOUS
    <3> QED  BY <3>1, EscapedSteps, InStringSteps, DepthSteps
  <2>4. Counted(text, 0)
    BY <2>2, <2>3 DEF Counted, ScanStart
  <2> QED  BY <2>4
<1>3. ASSUME NEW i \in Nat, i \in Good PROVE i + 1 \in Good
  <2> SUFFICES ASSUME i + 1 < Len(text) PROVE Counted(text, i + 1)
    OBVIOUS
  <2>1. i < Len(text) /\ Counted(text, i)
    BY <1>3
  <2>2. i + 1 \in Nat /\ i + 1 \in 1 .. Len(text) - 1
    BY <1>1
  <2>3. Depth(text, i + 1) > 0 /\ Depth(text, i + 1) \in Int
    BY <1>1, <2>2, DepthSteps
  <2>4. Depth(text, i + 1) # 0
    BY <2>3
  <2> QED  BY <2>1, <2>4, CountedNext DEF Counted
<1>4. Nat \subseteq Good
  <2> HIDE DEF Good
  <2> QED  BY <1>2, <1>3, Induction
<1> DEFINE n == Len(text) - 1
<1>5. n \in Nat /\ n < Len(text) /\ n + 1 = Len(text) /\ SubSeq(text, 1, n + 1) = text
  BY <1>1
<1>6. Counted(text, n)
  BY <1>4, <1>5
<1>7. Depth(text, n) = 1
  <2> HIDE DEF n
  <2>1. /\ Depth(text, n) \in Int
        /\ Depth(text, n + 1) =
             IF Structural(text, n + 1) /\ text[n + 1] = "open" THEN Depth(text, n) + 1
             ELSE IF Structural(text, n + 1) /\ text[n + 1] = "close" THEN Depth(text, n) - 1
             ELSE Depth(text, n)
    BY <1>5, DepthSteps
  <2>2. CASE n = 0
    <3>1. Structural(text, 1)
      BY EscapedSteps, InStringSteps DEF Structural
    <3>2. Depth(text, n) = 0
      BY <2>2, DepthSteps
    <3>3. n + 1 = 1 /\ Structural(text, n + 1) /\ text[n + 1] = "open"
      BY <1>1, <2>2, <3>1
    <3>4. Depth(text, n + 1) = 1
      BY <2>1, <3>2, <3>3
    <3> QED  BY <1>1, <1>5, <3>4
  <2>3. CASE n # 0
    <3>1. n \in 1 .. Len(text) - 1
      BY <1>5, <2>3 DEF n
    <3>2. Depth(text, n) > 0
      BY <1>1, <3>1
    <3> QED  BY <1>1, <1>5, <2>1, <3>2
  <2> QED  BY <2>2, <2>3
<1> HIDE DEF n
<1>8. Scan(text).end = n + 1
  <2>1. Depth(text, n) = 1 /\ Depth(text, n + 1) = 0
    BY <1>1, <1>5, <1>7
  <2>2. Scan(SubSeq(text, 1, n + 1)).end =
          IF Depth(text, n) = 1 /\ Depth(text, n + 1) = 0 THEN n + 1 ELSE 0
    BY <1>5, <1>6, CountedNext
  <2> QED  BY <1>5, <2>1, <2>2
<1> QED  BY <1>5, <1>8 DEF TextEnd, Scan

-----------------------------------------------------------------------------
(***************************************************************************)
(* In a whole stream exactly the texts and lines are found of which it is  *)
(* made.                                                                   *)
(***************************************************************************)
LEMMA OnlyText ==
  ASSUME NEW text \in Seq(Bytes)
  PROVE  Prefixed(<<text>>, Extraction(<<>>, <<>>)) = Extraction(<<text>>, <<>>)
<1>1. <<text>> \o <<>> = <<text>>
  OBVIOUS
<1> QED  BY <1>1 DEF Prefixed, Extraction

LEMMA ExtractText ==
  ASSUME NEW fd, fd # 2, NEW text \in Seq(Bytes), IsText(text)
  PROVE  Extract(fd, text) = Extraction(<<text>>, <<>>)
<1>1. 1 \in 1 .. Len(text) /\ text[1] = "open" /\ \A j \in 1 .. 1 - 1 : text[j] # "open"
  BY DEF IsText
<1>2. IndexOf(text, "open") = 1
  BY <1>1, FirstIs
<1>3. DropFirst(text, 1 - 1) = text
  <2>1. 1 - 1 = 0
    OBVIOUS
  <2> QED  BY <2>1, DropNone
<1>4. TextEnd(text) = Len(text) /\ Len(text) # 0
  BY <1>1, ScanFindsTexts
<1>5. SubSeq(text, 1, Len(text)) = text /\ DropFirst(text, Len(text)) = <<>>
  BY DropAll
<1> DEFINE start == IndexOf(text, "open")
           data == DropFirst(text, start - 1)
           end == TextEnd(data)
<1>6. \/ start = 0 /\ Extract(fd, text) = Extraction(<<>>, <<>>)
      \/ start # 0 /\ end = 0 /\ Extract(fd, text) = Extraction(<<>>, data)
      \/ /\ start # 0 /\ end \in 1 .. Len(data)
         /\ Extract(fd, text) = Prefixed(<<SubSeq(data, 1, end)>>, Extract(fd, DropFirst(data, end)))
  BY TextCases
<1>7. start = 1 /\ data = text /\ end = Len(text)
  BY <1>2, <1>3, <1>4
<1> HIDE DEF start, data, end
<1>8. Extract(fd, text) = Prefixed(<<text>>, Extract(fd, <<>>))
  BY <1>4, <1>5, <1>6, <1>7
<1> QED  BY <1>8, ExtractEmpty, OnlyText

LEMMA ExtractGarbage ==
  ASSUME NEW fd, fd # 2, NEW piece \in Seq(Bytes), \A i \in DOMAIN piece : piece[i] # "open"
  PROVE  Extract(fd, piece) = Extraction(<<>>, <<>>) /\ ~IsText(piece)
<1>1. DOMAIN piece = 1 .. Len(piece)
  OBVIOUS
<1>2. IndexOf(piece, "open") = 0
  BY <1>1, FirstPlace
<1>3. ~IsText(piece)
  BY <1>1 DEF IsText
<1> QED  BY <1>2, <1>3, TextCases

LEMMA ExtractLine ==
  ASSUME NEW fd, fd = 2, NEW line \in Seq(Bytes \ {"lf"})
  PROVE  /\ Extract(fd, Append(line, "lf")) = Extraction(<<Trimmed(line)>>, <<>>)
         /\ Trimmed(line) \in Seq(Bytes)
<1> DEFINE s == Append(line, "lf")
<1>0. "lf" \in Bytes /\ line \in Seq(Bytes)
  BY DEF Bytes
<1>1. /\ s \in Seq(Bytes) /\ Len(s) = Len(line) + 1 /\ Len(line) \in Nat /\ s[Len(line) + 1] = "lf"
      /\ \A j \in 1 .. Len(line) : s[j] = line[j]
  BY <1>0
<1>2. \A j \in 1 .. Len(line) : line[j] # "lf"
  <2>1. \A j \in 1 .. Len(line) : line[j] \in Bytes \ {"lf"}
    BY ElementType
  <2> QED  BY <2>1
<1>3. SubSeq(s, 1, Len(line)) = line
  BY <1>0
<1> HIDE DEF s
<1>4. Len(line) + 1 \in 1 .. Len(s) /\ (Len(line) + 1) - 1 = Len(line)
  BY <1>1
<1>5. IndexOf(s, "lf") = Len(s)
  <2>1. \A j \in 1 .. (Len(line) + 1) - 1 : s[j] # "lf"
    BY <1>1, <1>2
  <2>2. IndexOf(s, "lf") = Len(line) + 1
    BY <1>1, <1>4, <2>1, FirstIs
  <2> QED  BY <1>1, <2>2
<1>6. SubSeq(s, 1, Len(s) - 1) = line /\ Len(s) # 0
  BY <1>1, <1>3, <1>4
<1>7. /\ Extract(fd, s) = Prefixed(<<Trimmed(line)>>, Extract(fd, DropFirst(s, Len(s))))
      /\ Trimmed(line) \in Seq(Bytes)
  <2> DEFINE lf == IndexOf(s, "lf")
             first == SubSeq(s, 1, lf - 1)
  <2>1. \/ lf = 0 /\ Extract(fd, s) = Extraction(<<>>, s)
        \/ /\ lf \in 1 .. Len(s) /\ Trimmed(first) \in Seq(Bytes)
           /\ Extract(fd, s) = Prefixed(<<Trimmed(first)>>, Extract(fd, DropFirst(s, lf)))
    BY <1>1, LineCases
  <2>2. lf = Len(s) /\ first = line
    BY <1>5, <1>6
  <2> HIDE DEF lf, first
  <2> QED  BY <1>6, <2>1, <2>2
<1>8. DropFirst(s, Len(s)) = <<>>
  BY <1>1, DropAll
<1> QED  BY <1>7, <1>8, ExtractEmpty, OnlyText DEF s

LEMMA ExtractItem ==
  ASSUME NEW fd \in Fds, NEW item \in ItemsOf(fd)
  PROVE  /\ Extract(fd, BytesOf(fd, item)) = Extraction(WantedOf(fd, item), <<>>)
         /\ item \in Seq(Bytes) /\ WantedOf(fd, item) \in Seq(Seq(Bytes))
<1>1. CASE fd = 2
  <2>1. item \in Seq(Bytes \ {"lf"})
    BY <1>1, EbpfAssumption DEF ItemsOf
  <2>2. BytesOf(fd, item) = Append(item, "lf") /\ WantedOf(fd, item) = <<Trimmed(item)>>
    BY <1>1 DEF BytesOf, WantedOf
  <2>3. item \in Seq(Bytes)
    BY <2>1
  <2>4. Trimmed(item) \in Seq(Bytes)
    BY <1>1, <2>1, ExtractLine
  <2>5. <<Trimmed(item)>> \in Seq(Seq(Bytes))
    BY <2>4
  <2> QED  BY <1>1, <2>1, <2>2, <2>3, <2>5, ExtractLine
<1>2. CASE fd # 2 /\ item \in Texts
  <2>1. item \in Seq(Bytes) /\ IsText(item)
    BY <1>2, EbpfAssumption, TextsAssumption
  <2>2. BytesOf(fd, item) = item /\ WantedOf(fd, item) = <<item>>
    BY <1>2 DEF BytesOf, WantedOf
  <2>3. <<item>> \in Seq(Seq(Bytes))
    BY <2>1
  <2> QED  BY <1>2, <2>1, <2>2, <2>3, ExtractText
<1>3. CASE fd # 2 /\ item \notin Texts
  <2>1. item \in Garbage
    BY <1>3 DEF ItemsOf
  <2>2. item \in Seq(Bytes) /\ \A i \in DOMAIN item : item[i] # "open"
    BY <2>1, EbpfAssumption, TextsAssumption
  <2>3. BytesOf(fd, item) = item /\ WantedOf(fd, item) = <<>>
    BY <1>3 DEF BytesOf, WantedOf
  <2>4. <<>> \in Seq(Seq(Bytes))
    OBVIOUS
  <2> QED  BY <1>3, <2>2, <2>3, <2>4, ExtractGarbage
<1> QED  BY <1>1, <1>2, <1>3

Wants(fd, its) == [k \in 1 .. Len(its) |-> WantedOf(fd, its[k])]

LEMMA WholeStream ==
  ASSUME NEW fd \in Fds, NEW its \in Seq(Seq(Bytes)), \A k \in 1 .. Len(its) : its[k] \in ItemsOf(fd)
  PROVE  /\ Extract(fd, FlattenSeq(Joins(fd, its))) = Extraction(FlattenSeq(Wants(fd, its)), <<>>)
         /\ FlattenSeq(Joins(fd, its)) \in Seq(Bytes) /\ FlattenSeq(Wants(fd, its)) \in Seq(Seq(Bytes))
<1> DEFINE n == Len(its)
           joins == Joins(fd, its)
           wants == Wants(fd, its)
<1>0. \A k \in 1 .. n : /\ Extract(fd, BytesOf(fd, its[k])) = Extraction(WantedOf(fd, its[k]), <<>>)
                        /\ WantedOf(fd, its[k]) \in Seq(Seq(Bytes))
  BY ExtractItem
<1>1. joins \in Seq(Seq(Bytes)) /\ Len(joins) = n /\ n \in Nat
      /\ \A k \in 1 .. n : joins[k] = BytesOf(fd, its[k])
  <2>1. joins \in Seq(Seq(Bytes)) /\ Len(joins) = n /\ n \in Nat
    BY JoinsType
  <2>2. \A k \in 1 .. n : joins[k] = BytesOf(fd, its[k])
    BY DEF Joins
  <2> QED  BY <2>1, <2>2
<1>2. wants \in Seq(Seq(Seq(Bytes))) /\ Len(wants) = n
      /\ \A k \in 1 .. n : wants[k] = WantedOf(fd, its[k])
  BY <1>0 DEF Wants
<1> HIDE DEF joins, wants
<1>3. PICK f \in [0 .. n -> Seq(Bytes)] : Joined(joins, f) /\ FlattenSeq(joins) = f[n]
  BY <1>1, FlattenSteps
<1>4. PICK g \in [0 .. n -> Seq(Seq(Bytes))] : Joined(wants, g) /\ FlattenSeq(wants) = g[n]
  BY <1>2, FlattenSteps
<1> HIDE DEF n
<1> DEFINE Good == {k \in Nat : k <= n => Extract(fd, f[k]) = Extraction(g[k], <<>>)}
<1>5. 0 \in Good
  BY <1>3, <1>4, ExtractEmpty DEF Joined
<1>6. ASSUME NEW k \in Nat, k \in Good PROVE k + 1 \in Good
  <2> SUFFICES ASSUME k + 1 <= n PROVE Extract(fd, f[k + 1]) = Extraction(g[k + 1], <<>>)
    OBVIOUS
  <2>1. k + 1 \in 1 .. n /\ (k + 1) - 1 = k /\ k \in 0 .. n /\ k <= n
    BY <1>1
  <2> DEFINE s == f[k]
             d == joins[k + 1]
             w == wants[k + 1]
  <2>2. f[k + 1] = s \o d /\ g[k + 1] = g[k] \o w
    BY <1>1, <1>2, <1>3, <1>4, <2>1 DEF Joined
  <2>3. s \in Seq(Bytes) /\ g[k] \in Seq(Seq(Bytes)) /\ d \in Seq(Bytes) /\ w \in Seq(Seq(Bytes))
    BY <1>1, <1>2, <1>3, <1>4, <2>1, ElementType
  <2>4. Extract(fd, d) = Extraction(w, <<>>) /\ Extract(fd, s) = Extraction(g[k], <<>>)
    BY <1>0, <1>1, <1>2, <1>6, <2>1
  <2> HIDE DEF s, d, w
  <2>5. <<>> \o d = d
    BY <2>3
  <2>6. Extract(fd, s).texts = g[k] /\ Extract(fd, s).rest = <<>>
    BY <2>4 DEF Extraction
  <2>7. Extract(fd, s \o d) = Prefixed(g[k], Extraction(w, <<>>))
    <3>1. Extract(fd, s \o d) = Prefixed(Extract(fd, s).texts, Extract(fd, Extract(fd, s).rest \o d))
      BY <2>3, ExtractTwice
    <3> QED  BY <2>4, <2>5, <2>6, <3>1
  <2> QED  BY <2>2, <2>7 DEF Prefixed, Extraction
<1>7. Nat \subseteq Good
  <2> HIDE DEF Good
  <2> QED  BY <1>5, <1>6, Induction
<1>8. n \in Nat /\ n <= n /\ n \in 0 .. n
  BY <1>1
<1>9. Extract(fd, f[n]) = Extraction(g[n], <<>>)
  BY <1>7, <1>8
<1> QED  BY <1>3, <1>4, <1>8, <1>9 DEF joins, wants

-----------------------------------------------------------------------------
(***************************************************************************)
(* Without mishaps no byte that was copied gets lost: each one's place in  *)
(* its stream is among those that were read, or belongs to an event in a   *)
(* ring, and neither holds more places than bytes.                         *)
(***************************************************************************)
AtMost(places, n) == IsFiniteSet(places) /\ Cardinality(places) <= n

Covers(R, at, r, c, s) ==
  /\ R \in [Fds -> SUBSET Nat] /\ \A fd \in Fds : AtMost(R[fd], Len(s[fd]))
  /\ at \in [Cpus -> Seq(SUBSET Nat)]
  /\ \A cpu \in Cpus : /\ Len(at[cpu]) = Len(r[cpu])
                       /\ \A k \in 1 .. Len(r[cpu]) : AtMost(at[cpu][k], Len(r[cpu][k].data))
  /\ \A fd \in Fds : \A x \in 1 .. Len(c[fd]) :
       x \in R[fd] \/ \E cpu \in Cpus : \E k \in 1 .. Len(r[cpu]) : r[cpu][k].fd = fd /\ x \in at[cpu][k]

Covered == \E R, at : Covers(R, at, rings, copied, seen)

LEMMA AtMostUnion ==
  ASSUME NEW S, NEW T, NEW m \in Nat, NEW n \in Nat, AtMost(S, m), AtMost(T, n)
  PROVE  AtMost(S \union T, m + n)
<1>1. /\ IsFiniteSet(S \union T) /\ IsFiniteSet(S \cap T)
      /\ Cardinality(S \union T) = Cardinality(S) + Cardinality(T) - Cardinality(S \cap T)
  <2>1. S \cap T \in SUBSET S
    OBVIOUS
  <2> QED  BY <2>1, FS_Union, FS_Subset DEF AtMost
<1>2. Cardinality(S) \in Nat /\ Cardinality(T) \in Nat /\ Cardinality(S \cap T) \in Nat
  BY <1>1, FS_CardinalityType DEF AtMost
<1> QED  BY <1>1, <1>2 DEF AtMost

\* An event that enters a ring holds the places of the bytes that were copied with it.
LEMMA CoversOutput ==
  ASSUME NEW r \in [Cpus -> Seq(Events)], NEW c \in [Fds -> Seq(Bytes)], NEW s, NEW R, NEW at,
         Covers(R, at, r, c, s), NEW fd \in Fds, NEW data \in Seq(Bytes), NEW cpu \in Cpus,
         NEW event, event = [fd |-> fd, data |-> data]
  PROVE  \E at2 : Covers(R, at2, [r EXCEPT ![cpu] = Append(@, event)], [c EXCEPT ![fd] = @ \o data], s)
<1> DEFINE m == Len(c[fd])
           n == Len(data)
           new == m + 1 .. m + n
           at2 == [at EXCEPT ![cpu] = Append(@, new)]
           r2 == [r EXCEPT ![cpu] = Append(@, event)]
           c2 == [c EXCEPT ![fd] = @ \o data]
           size == Len(r[cpu])
<1>1. c[fd] \in Seq(Bytes) /\ m \in Nat /\ n \in Nat /\ r[cpu] \in Seq(Events) /\ size \in Nat
  OBVIOUS
<1>2. c2[fd] = c[fd] \o data /\ Len(c2[fd]) = m + n /\ \A f \in Fds \ {fd} : c2[f] = c[f]
  BY <1>1
<1>3. new \in SUBSET Nat /\ AtMost(new, n)
  <2>1. ASSUME NEW a \in Nat, NEW b \in Nat
        PROVE  IsFiniteSet(a + 1 .. a + b) /\ Cardinality(a + 1 .. a + b) = b
    <3>1. a + 1 \in Int /\ a + b \in Int
      OBVIOUS
    <3> QED  BY <3>1, FS_Interval
  <2> HIDE DEF m, n
  <2> QED  BY <1>1, <2>1 DEF AtMost
<1>4. event.fd = fd /\ event.data = data /\ event \in Events
  BY DEF Events
<1>5. at \in [Cpus -> Seq(SUBSET Nat)] /\ at[cpu] \in Seq(SUBSET Nat) /\ Len(at[cpu]) = size
  BY DEF Covers
<1> HIDE DEF new, m, n, size
<1>6. /\ r2[cpu] = Append(r[cpu], event) /\ Len(r2[cpu]) = size + 1 /\ r2[cpu][size + 1] = event
      /\ \A k \in 1 .. size : r2[cpu][k] = r[cpu][k]
      /\ \A x \in Cpus \ {cpu} : r2[x] = r[x]
  <2>1. r2[cpu] = Append(r[cpu], event) /\ \A x \in Cpus \ {cpu} : r2[x] = r[x]
    OBVIOUS
  <2> QED  BY <1>1, <1>4, <2>1 DEF size
<1>7. /\ at2 \in [Cpus -> Seq(SUBSET Nat)]
      /\ at2[cpu] = Append(at[cpu], new) /\ Len(at2[cpu]) = size + 1 /\ at2[cpu][size + 1] = new
      /\ \A k \in 1 .. size : at2[cpu][k] = at[cpu][k]
      /\ \A x \in Cpus \ {cpu} : at2[x] = at[x]
  <2>1. Append(at[cpu], new) \in Seq(SUBSET Nat)
    BY <1>3, <1>5
  <2>2. at2[cpu] = Append(at[cpu], new) /\ \A x \in Cpus \ {cpu} : at2[x] = at[x]
    BY <1>5
  <2>3. at2 \in [Cpus -> Seq(SUBSET Nat)]
    BY <1>5, <2>1
  <2> HIDE DEF at2
  <2> QED  BY <1>3, <1>5, <2>2, <2>3
<1> HIDE DEF r2, at2, c2
<1>8. ASSUME NEW x \in Cpus
      PROVE  /\ Len(at2[x]) = Len(r2[x])
             /\ \A k \in 1 .. Len(r2[x]) : AtMost(at2[x][k], Len(r2[x][k].data))
  <2>1. CASE x # cpu
    BY <1>6, <1>7, <2>1 DEF Covers
  <2>2. CASE x = cpu
    <3> SUFFICES ASSUME NEW k \in 1 .. size + 1 PROVE AtMost(at2[cpu][k], Len(r2[cpu][k].data))
      BY <1>6, <1>7, <2>2
    <3>1. CASE k = size + 1
      BY <1>3, <1>4, <1>6, <1>7, <3>1 DEF n
    <3>2. CASE k # size + 1
      <4>1. k \in 1 .. size
        BY <1>1, <3>2
      <4>2. AtMost(at[cpu][k], Len(r[cpu][k].data))
        BY <4>1 DEF Covers, size
      <4> QED  BY <1>6, <1>7, <4>1, <4>2
    <3> QED  BY <3>1, <3>2
  <2> QED  BY <2>1, <2>2
<1> DEFINE In(f, x, a, q) == \E p \in Cpus : \E k \in 1 .. Len(q[p]) : q[p][k].fd = f /\ x \in a[p][k]
<1>9. ASSUME NEW f, NEW x, In(f, x, at, r) PROVE In(f, x, at2, r2)
  <2>0. PICK p \in Cpus : \E k \in 1 .. Len(r[p]) : r[p][k].fd = f /\ x \in at[p][k]
    BY <1>9
  <2>1. PICK k \in 1 .. Len(r[p]) : r[p][k].fd = f /\ x \in at[p][k]
    BY <2>0
  <2>2. k \in 1 .. Len(r2[p]) /\ r2[p][k] = r[p][k] /\ at2[p][k] = at[p][k]
    <3>1. CASE p = cpu
      <4>1. k \in 1 .. size /\ k \in 1 .. size + 1
        BY <1>1, <2>1, <3>1 DEF size
      <4> QED  BY <1>6, <1>7, <3>1, <4>1
    <3>2. CASE p # cpu
      BY <1>6, <1>7, <2>1, <3>2
    <3> QED  BY <3>1, <3>2
  <2> QED  BY <2>1, <2>2
<1>10. ASSUME NEW f \in Fds, NEW x \in 1 .. Len(c2[f]) PROVE x \in R[f] \/ In(f, x, at2, r2)
  <2>1. CASE x \in 1 .. Len(c[f])
    <3>1. x \in R[f] \/ In(f, x, at, r)
      BY <2>1 DEF Covers
    <3> QED  BY <1>9, <3>1
  <2>2. CASE x \notin 1 .. Len(c[f])
    <3>1. f = fd /\ x \in new
      BY <1>1, <1>2, <2>2 DEF new, m
    <3>2. size + 1 \in 1 .. Len(r2[cpu])
      BY <1>1, <1>6
    <3> QED  BY <1>4, <1>6, <1>7, <3>1, <3>2
  <2> QED  BY <2>1, <2>2
<1>11. Covers(R, at2, r2, c2, s)
  BY <1>7, <1>8, <1>10 DEF Covers
<1> QED  BY <1>11 DEF r2, c2

\* An event that is read gives its places to those that were read.
LEMMA CoversRead ==
  ASSUME NEW r \in [Cpus -> Seq(Events)], NEW c, NEW s \in [Fds -> Seq(Bytes)], NEW R, NEW at,
         Covers(R, at, r, c, s), NEW cpu \in Cpus, r[cpu] # <<>>, NEW fd, NEW data,
         fd = Head(r[cpu]).fd, data = Head(r[cpu]).data
  PROVE  \E R2, at2 : Covers(R2, at2, [r EXCEPT ![cpu] = Tail(@)], c, [s EXCEPT ![fd] = @ \o data])
<1> DEFINE size == Len(r[cpu])
           first == at[cpu][1]
           at2 == [at EXCEPT ![cpu] = Tail(@)]
           R2 == [R EXCEPT ![fd] = @ \union first]
           r2 == [r EXCEPT ![cpu] = Tail(@)]
           s2 == [s EXCEPT ![fd] = @ \o data]
<1>1. r[cpu] \in Seq(Events) /\ size \in Nat \ {0} /\ Head(r[cpu]) = r[cpu][1] /\ r[cpu][1] \in Events
      /\ 1 \in 1 .. size
  OBVIOUS
<1>2. fd \in Fds /\ data \in Seq(Bytes) /\ s[fd] \in Seq(Bytes)
  BY <1>1 DEF Events
<1>3. /\ at \in [Cpus -> Seq(SUBSET Nat)] /\ at[cpu] \in Seq(SUBSET Nat) /\ Len(at[cpu]) = size
      /\ R \in [Fds -> SUBSET Nat] /\ AtMost(R[fd], Len(s[fd])) /\ AtMost(first, Len(data))
  BY <1>1, <1>2 DEF Covers
<1>4. first \in SUBSET Nat
  BY <1>1, <1>3, ElementType
<1> HIDE DEF first
<1>5. R2 \in [Fds -> SUBSET Nat] /\ R2[fd] = R[fd] \union first /\ \A f \in Fds \ {fd} : R2[f] = R[f]
  BY <1>2, <1>3, <1>4
<1>6. s2[fd] = s[fd] \o data /\ Len(s2[fd]) = Len(s[fd]) + Len(data) /\ \A f \in Fds \ {fd} : s2[f] = s[f]
  <2>1. s2[fd] = s[fd] \o data /\ \A f \in Fds \ {fd} : s2[f] = s[f]
    BY <1>2
  <2> HIDE DEF s2
  <2>2. ASSUME NEW a \in Seq(Bytes) PROVE Len(a \o data) = Len(a) + Len(data)
    BY <1>2
  <2> QED  BY <1>2, <2>1, <2>2
<1>7. /\ r2[cpu] = Tail(r[cpu]) /\ Len(r2[cpu]) = size - 1
      /\ \A k \in 1 .. size - 1 : r2[cpu][k] = r[cpu][k + 1]
      /\ \A x \in Cpus \ {cpu} : r2[x] = r[x]
  <2>1. r2[cpu] = Tail(r[cpu]) /\ \A x \in Cpus \ {cpu} : r2[x] = r[x]
    OBVIOUS
  <2> QED  BY <1>1, <2>1
<1>8. /\ at2 \in [Cpus -> Seq(SUBSET Nat)]
      /\ at2[cpu] = Tail(at[cpu]) /\ Len(at2[cpu]) = size - 1
      /\ \A k \in 1 .. size - 1 : at2[cpu][k] = at[cpu][k + 1]
      /\ \A x \in Cpus \ {cpu} : at2[x] = at[x]
  <2>1. ASSUME NEW q \in Seq(SUBSET Nat), Len(q) = size
        PROVE  /\ Tail(q) \in Seq(SUBSET Nat) /\ Len(Tail(q)) = size - 1
               /\ \A k \in 1 .. size - 1 : Tail(q)[k] = q[k + 1]
    BY <1>1, <2>1
  <2>2. at2[cpu] = Tail(at[cpu]) /\ \A x \in Cpus \ {cpu} : at2[x] = at[x]
    BY <1>3
  <2>3. Tail(at[cpu]) \in Seq(SUBSET Nat)
    BY <1>3, <2>1
  <2>4. at2 \in [Cpus -> Seq(SUBSET Nat)]
    BY <1>3, <2>3
  <2> HIDE DEF at2
  <2> QED  BY <1>3, <2>1, <2>2, <2>4
<1> HIDE DEF r2, at2, R2, s2
<1>9. ASSUME NEW f \in Fds PROVE AtMost(R2[f], Len(s2[f]))
  <2>1. CASE f = fd
    <3>1. Len(s[fd]) \in Nat /\ Len(data) \in Nat
      BY <1>2
    <3>2. AtMost(R[fd] \union first, Len(s[fd]) + Len(data))
      BY <1>3, <3>1, AtMostUnion
    <3> QED  BY <1>5, <1>6, <2>1, <3>2
  <2>2. CASE f # fd
    BY <1>5, <1>6, <2>2 DEF Covers
  <2> QED  BY <2>1, <2>2
<1>10. ASSUME NEW x \in Cpus
       PROVE  /\ Len(at2[x]) = Len(r2[x])
              /\ \A k \in 1 .. Len(r2[x]) : AtMost(at2[x][k], Len(r2[x][k].data))
  <2>1. CASE x # cpu
    BY <1>7, <1>8, <2>1 DEF Covers
  <2>2. CASE x = cpu
    <3> SUFFICES ASSUME NEW k \in 1 .. size - 1 PROVE AtMost(at2[cpu][k], Len(r2[cpu][k].data))
      BY <1>7, <1>8, <2>2
    <3>1. k + 1 \in 1 .. size
      BY <1>1
    <3>2. AtMost(at[cpu][k + 1], Len(r[cpu][k + 1].data))
      BY <3>1 DEF Covers
    <3> QED  BY <1>7, <1>8, <3>2
  <2> QED  BY <2>1, <2>2
<1> DEFINE In(f, x, a, q) == \E p \in Cpus : \E k \in 1 .. Len(q[p]) : q[p][k].fd = f /\ x \in a[p][k]
<1>11. ASSUME NEW f \in Fds, NEW x, In(f, x, at, r) PROVE x \in R2[f] \/ In(f, x, at2, r2)
  <2>0. PICK p \in Cpus : \E k \in 1 .. Len(r[p]) : r[p][k].fd = f /\ x \in at[p][k]
    BY <1>11
  <2>1. PICK k \in 1 .. Len(r[p]) : r[p][k].fd = f /\ x \in at[p][k]
    BY <2>0
  <2>2. CASE p = cpu /\ k = 1
    <3>1. f = fd /\ x \in first
      BY <1>1, <2>1, <2>2 DEF first
    <3> QED  BY <1>5, <3>1
  <2>3. CASE p = cpu /\ k # 1
    <3>1. k - 1 \in 1 .. size - 1 /\ (k - 1) + 1 = k
      BY <1>1, <2>1, <2>3
    <3>2. r2[cpu][k - 1] = r[cpu][k] /\ at2[cpu][k - 1] = at[cpu][k]
      BY <1>7, <1>8, <3>1
    <3>3. k - 1 \in 1 .. Len(r2[cpu])
      BY <1>7, <3>1
    <3> QED  BY <2>1, <2>3, <3>2, <3>3
  <2>4. CASE p # cpu
    <3>1. r2[p] = r[p] /\ at2[p] = at[p]
      BY <1>7, <1>8, <2>4
    <3> QED  BY <2>1, <3>1
  <2> QED  BY <2>2, <2>3, <2>4
<1>12. ASSUME NEW f \in Fds, NEW x \in 1 .. Len(c[f]) PROVE x \in R2[f] \/ In(f, x, at2, r2)
  <2>1. x \in R[f] \/ In(f, x, at, r)
    BY DEF Covers
  <2>2. R[f] \subseteq R2[f]
    BY <1>5
  <2> QED  BY <1>11, <2>1, <2>2
<1>13. Covers(R2, at2, r2, c, s2)
  BY <1>5, <1>8, <1>9, <1>10, <1>12 DEF Covers
<1> QED  BY <1>13 DEF r2, s2

\* When the rings are empty, everything that was copied was read.
LEMMA CoversQuiet ==
  ASSUME NEW r, NEW c, NEW s, NEW R, NEW at, Covers(R, at, r, c, s), NEW fd \in Fds,
         \A cpu \in Cpus : r[cpu] = <<>>, c[fd] \in Seq(Bytes), s[fd] \in Seq(Bytes)
  PROVE  Len(c[fd]) <= Len(s[fd])
<1>1. \A cpu \in Cpus : 1 .. Len(r[cpu]) = {}
  OBVIOUS
<1>2. 1 .. Len(c[fd]) \in SUBSET R[fd]
  BY <1>1 DEF Covers
<1>3. AtMost(R[fd], Len(s[fd]))
  BY DEF Covers
<1>4. Len(c[fd]) \in Nat /\ Len(s[fd]) \in Nat
  OBVIOUS
<1>5. Cardinality(1 .. Len(c[fd])) = Len(c[fd])
  BY <1>4, FS_Interval
<1>6. Cardinality(1 .. Len(c[fd])) <= Cardinality(R[fd]) /\ Cardinality(R[fd]) \in Nat
  BY <1>2, <1>3, FS_Subset, FS_CardinalityType DEF AtMost
<1> QED  BY <1>3, <1>4, <1>5, <1>6 DEF AtMost

-----------------------------------------------------------------------------
(***************************************************************************)
(* While the process transfers fewer bytes at a time than an event holds,  *)
(* every byte is copied, and every text and line is found.                 *)
(***************************************************************************)
Intact == mishaps = 0 => Covered

LEMMA InitIntact == Init => ChunksCopiedWhole /\ Intact
<1> SUFFICES ASSUME Init PROVE ChunksCopiedWhole /\ Intact
  OBVIOUS
<1>1. moved = [fd \in Fds |-> 0] /\ copied = [fd \in Fds |-> <<>>] /\ seen = [fd \in Fds |-> <<>>]
      /\ rings = [cpu \in Cpus |-> <<>>]
  BY DEF Init
<1>2. ChunksCopiedWhole
  <2>1. \A s : SubSeq(s, 1, 0) = <<>>
    OBVIOUS
  <2> QED  BY <1>1, <2>1 DEF ChunksCopiedWhole
<1> DEFINE R == [fd \in Fds |-> {}]
           at == [cpu \in Cpus |-> <<>>]
<1>3. R \in [Fds -> SUBSET Nat] /\ at \in [Cpus -> Seq(SUBSET Nat)]
  OBVIOUS
<1>4. AtMost({}, 0)
  BY FS_EmptySet DEF AtMost
<1>5. \A fd \in Fds : R[fd] = {} /\ seen[fd] = <<>> /\ copied[fd] = <<>>
  BY <1>1
<1>6. \A cpu \in Cpus : at[cpu] = <<>> /\ rings[cpu] = <<>>
  BY <1>1
<1> HIDE DEF R, at
<1>7. Len(<<>>) = 0 /\ 1 .. 0 = {}
  OBVIOUS
<1>8. Covers(R, at, rings, copied, seen)
  BY <1>3, <1>4, <1>5, <1>6, <1>7 DEF Covers
<1> QED  BY <1>2, <1>8 DEF Intact, Covered

\* A transfer without a mishap is copied whole, into an event.
LEMMA MovesIntact ==
  ASSUME MaxTransfer < ChunkSize, TypeInv, ChunksCopiedWhole, Intact,
         NEW fd \in Fds, NEW len \in 1 .. MaxTransfer, NEW gone, NEW cpu \in Cpus, NEW short \in {0, 1},
         moved[fd] + len <= Len(Stream(fd)), moved' = [moved EXCEPT ![fd] = @ + gone],
         short = 0 => gone = len,
         Output(fd, NextBytes(fd, len), cpu, short)
  PROVE  ChunksCopiedWhole' /\ Intact'
<1> SUFFICES ASSUME mishaps' = 0
             PROVE  (\A f \in Fds : copied'[f] = SubSeq(Stream(f), 1, moved'[f])) /\ Covered'
  <2>1. UNCHANGED items
    BY DEF Output
  <2>2. \A f : Stream(f)' = Stream(f)
    BY <2>1 DEF Stream
  <2> QED  BY <2>2 DEF ChunksCopiedWhole, Intact
<1> DEFINE data == NextBytes(fd, len)
           event == [fd |-> fd, data |-> data]
<1>1. /\ len \in Nat /\ Captured(len) = len /\ moved[fd] \in Nat /\ mishaps \in Nat
      /\ Stream(fd) \in Seq(Bytes)
  <2>1. MaxTransfer \in Nat /\ ChunkSize \in Nat
    BY EbpfAssumption
  <2>2. len \in Nat /\ len < ChunkSize /\ len % ChunkSize = len
    BY <2>1
  <2> QED  BY <2>2, StreamType DEF Captured, TypeInv
<1>2. data \in Seq(Bytes)
  BY <1>1, NextBytesType
<1>3. /\ mishaps = 0 /\ short = 0
      /\ copied' = [copied EXCEPT ![fd] = @ \o data]
      /\ rings' = [rings EXCEPT ![cpu] = Append(@, event)]
      /\ seen' = seen
  BY <1>1 DEF Output
<1>4. data = SubSeq(Stream(fd), moved[fd] + 1, moved[fd] + len)
  BY <1>1 DEF NextBytes
<1>5. copied[fd] = SubSeq(Stream(fd), 1, moved[fd]) /\ \A f \in Fds : copied[f] = SubSeq(Stream(f), 1, moved[f])
  BY <1>3 DEF ChunksCopiedWhole
<1> HIDE DEF data
<1>6. ASSUME NEW f \in Fds PROVE copied'[f] = SubSeq(Stream(f), 1, moved'[f])
  <2>1. CASE f = fd
    <3>1. ASSUME NEW s \in Seq(Bytes), NEW m \in Nat, NEW k \in Nat, m + k <= Len(s)
          PROVE  SubSeq(s, 1, m) \o SubSeq(s, m + 1, m + k) = SubSeq(s, 1, m + k)
      <4> DEFINE a == SubSeq(s, 1, m)
                 b == SubSeq(s, m + 1, m + k)
                 c == SubSeq(s, 1, m + k)
      <4>1. a \in Seq(Bytes) /\ Len(a) = m /\ \A i \in 1 .. m : a[i] = s[i]
        BY <3>1
      <4>2. b \in Seq(Bytes) /\ Len(b) = k /\ \A i \in 1 .. k : b[i] = s[m + i]
        <5>1. m + k \in Nat /\ m + 1 \in Nat /\ (m + k) - (m + 1) + 1 = k
          OBVIOUS
        <5> QED  BY <3>1, <5>1
      <4>3. c \in Seq(Bytes) /\ Len(c) = m + k /\ \A i \in 1 .. m + k : c[i] = s[i]
        BY <3>1
      <4> HIDE DEF a, b, c
      <4>4. /\ a \o b \in Seq(Bytes) /\ Len(a \o b) = m + k
            /\ \A i \in 1 .. m + k : (a \o b)[i] = IF i <= m THEN a[i] ELSE b[i - m]
        <5>1. ASSUME NEW x \in Seq(Bytes), NEW y \in Seq(Bytes)
              PROVE  /\ x \o y \in Seq(Bytes) /\ Len(x \o y) = Len(x) + Len(y)
                     /\ \A i \in 1 .. Len(x) + Len(y) : (x \o y)[i] = IF i <= Len(x) THEN x[i] ELSE y[i - Len(x)]
          OBVIOUS
        <5> QED  BY <4>1, <4>2, <5>1
      <4>5. \A i \in 1 .. m + k : (a \o b)[i] = c[i]
        <5> SUFFICES ASSUME NEW i \in 1 .. m + k PROVE (a \o b)[i] = c[i]
          OBVIOUS
        <5>1. CASE i <= m
          <6>1. i \in 1 .. m
            BY <5>1
          <6> QED  BY <4>1, <4>3, <4>4, <5>1, <6>1
        <5>2. CASE ~(i <= m)
          <6>1. i - m \in 1 .. k /\ m + (i - m) = i
            BY <5>2
          <6> QED  BY <4>2, <4>3, <4>4, <5>2, <6>1
        <5> QED  BY <5>1, <5>2
      <4>6. m + k \in Nat
        OBVIOUS
      <4> QED  BY <4>3, <4>4, <4>5, <4>6, SameSeq DEF a, b, c
    <3>2. moved'[fd] = moved[fd] + len /\ copied'[fd] = copied[fd] \o data
      BY <1>3 DEF TypeInv
    <3> QED  BY <1>1, <1>4, <1>5, <2>1, <3>1, <3>2
  <2>2. CASE f # fd
    <3>1. moved'[f] = moved[f] /\ copied'[f] = copied[f]
      BY <1>3, <2>2 DEF TypeInv
    <3> QED  BY <1>5, <3>1
  <2> QED  BY <2>1, <2>2
<1>7. Covered'
  <2>1. PICK R, at : Covers(R, at, rings, copied, seen)
    BY <1>3 DEF Intact, Covered
  <2>2. rings \in [Cpus -> Seq(Events)] /\ copied \in [Fds -> Seq(Bytes)]
    BY DEF TypeInv
  <2> HIDE DEF event
  <2>3. \E at2 : Covers(R, at2, rings', copied', seen)
    <3>1. event = [fd |-> fd, data |-> data]
      BY DEF event
    <3> QED  BY <1>2, <1>3, <2>1, <2>2, <3>1, CoversOutput
  <2> QED  BY <1>3, <2>3 DEF Covered
<1> QED  BY <1>6, <1>7

LEMMA ReadIntact ==
  ASSUME TypeInv, ChunksCopiedWhole, Intact, NEW cpu \in Cpus, ReadEvent(cpu)
  PROVE  ChunksCopiedWhole' /\ Intact'
<1> DEFINE fd == Head(rings[cpu]).fd
           data == Head(rings[cpu]).data
<1>1. /\ rings[cpu] # <<>> /\ rings' = [rings EXCEPT ![cpu] = Tail(@)]
      /\ seen' = [seen EXCEPT ![fd] = @ \o data]
      /\ UNCHANGED <<items, moved, mishaps, copied>>
  BY DEF ReadEvent
<1>2. \A f : Stream(f)' = Stream(f)
  BY <1>1 DEF Stream
<1>3. ChunksCopiedWhole'
  BY <1>1, <1>2 DEF ChunksCopiedWhole
<1>4. ASSUME Covered PROVE Covered'
  <2>1. PICK R, at : Covers(R, at, rings, copied, seen)
    BY <1>4 DEF Covered
  <2>2. rings \in [Cpus -> Seq(Events)] /\ seen \in [Fds -> Seq(Bytes)]
    BY DEF TypeInv
  <2>3. \E R2, at2 : Covers(R2, at2, rings', copied, seen')
    <3>1. ASSUME NEW f, NEW d, f = Head(rings[cpu]).fd, d = Head(rings[cpu]).data,
                 seen' = [seen EXCEPT ![f] = @ \o d]
          PROVE  \E R2, at2 : Covers(R2, at2, rings', copied, seen')
      <4>1. ASSUME NEW r \in [Cpus -> Seq(Events)], NEW c, NEW s \in [Fds -> Seq(Bytes)],
                   Covers(R, at, r, c, s), r[cpu] # <<>>, f = Head(r[cpu]).fd, d = Head(r[cpu]).data,
                   NEW r2, r2 = [r EXCEPT ![cpu] = Tail(@)], NEW s2, s2 = [s EXCEPT ![f] = @ \o d]
            PROVE  \E R2, at2 : Covers(R2, at2, r2, c, s2)
        BY <4>1, CoversRead
      <4> QED  BY <1>1, <2>1, <2>2, <3>1, <4>1
    <3> QED  BY <1>1, <3>1
  <2> QED  BY <1>1, <2>3 DEF Covered
<1> QED  BY <1>1, <1>3, <1>4 DEF Intact

LEMMA IntactStep ==
  ASSUME MaxTransfer < ChunkSize
  PROVE  TypeInv /\ ChunksCopiedWhole /\ Intact /\ [Next]_vars => ChunksCopiedWhole' /\ Intact'
<1> SUFFICES ASSUME TypeInv, ChunksCopiedWhole, Intact, [Next]_vars
             PROVE  ChunksCopiedWhole' /\ Intact'
  OBVIOUS
<1>1. ASSUME NEW fd \in Fds, NEW len \in 1 .. MaxTransfer, NEW cpu \in Cpus, Transfer(fd, len, cpu)
      PROVE  ChunksCopiedWhole' /\ Intact'
  <2>1. /\ moved[fd] + len <= Len(Stream(fd)) /\ moved' = [moved EXCEPT ![fd] = @ + len]
        /\ Output(fd, NextBytes(fd, len), cpu, 0)
    BY <1>1 DEF Transfer
  <2>2. 0 \in {0, 1}
    OBVIOUS
  <2> QED  BY <2>1, <2>2, MovesIntact
<1>2. ASSUME NEW fd \in Fds, NEW len \in 1 .. MaxTransfer, NEW done \in 0 .. MaxTransfer - 1,
             NEW cpu \in Cpus, ShortWrite(fd, len, done, cpu)
      PROVE  ChunksCopiedWhole' /\ Intact'
  <2>1. /\ moved[fd] + len <= Len(Stream(fd))
        /\ moved' = [moved EXCEPT ![fd] = @ + done]
        /\ Output(fd, NextBytes(fd, len), cpu, 1)
    BY <1>2 DEF ShortWrite
  <2>2. 1 \in {0, 1} /\ ~(1 = 0)
    OBVIOUS
  <2> QED  BY <2>1, <2>2, MovesIntact
<1>3. ASSUME UNCHANGED <<items, moved, rings, buf, texts, mishaps, copied, seen>>
      PROVE  ChunksCopiedWhole' /\ Intact'
  <2>1. \A f \in Fds : Stream(f)' = Stream(f)
    BY <1>3 DEF Stream
  <2> QED  BY <1>3, <2>1 DEF ChunksCopiedWhole, Intact, Covered
<1>4. ASSUME NEW cpu \in Cpus, ReadLost(cpu) PROVE ChunksCopiedWhole' /\ Intact'
  BY <1>3, <1>4 DEF ReadLost
<1>5. CASE UNCHANGED vars
  BY <1>3, <1>5 DEF vars
<1> QED  BY <1>1, <1>2, <1>4, <1>5, ReadIntact DEF Next, Finished

\* While the process transfers fewer than ChunkSize bytes at a time, the tracer copies all it
\* transfers, whole and in order (tracer.c:76-83, 143-149): the mask of the length cuts only a
\* transfer that fills an event.
THEOREM EbpfChunksCopiedWhole == ASSUME MaxTransfer < ChunkSize PROVE Spec => []ChunksCopiedWhole
<1>1. Init => TypeInv /\ Digested /\ ChunksCopiedWhole /\ Intact
  BY InitTypes, InitIntact
<1>2. TypeInv /\ Digested /\ ChunksCopiedWhole /\ Intact /\ [Next]_vars
        => TypeInv' /\ Digested' /\ ChunksCopiedWhole' /\ Intact'
  BY EbpfStep, IntactStep
<1> QED  BY <1>1, <1>2, PTL DEF Spec

LEMMA PrefixIs ==
  ASSUME NEW E, NEW s \in Seq(E), NEW t \in Seq(E), IsPrefix(s, t)
  PROVE  Len(s) \in Nat /\ Len(s) <= Len(t) /\ s = SubSeq(t, 1, Len(s))
<1>1. SubSeq(s, 1, Len(s)) = s
  OBVIOUS
<1> QED  BY <1>1 DEF IsPrefix

LEMMA PrefixOfConcat ==
  ASSUME NEW E, NEW a \in Seq(E), NEW b \in Seq(E) PROVE IsPrefix(a, a \o b)
<1>1. Len(a) <= Len(a \o b) /\ SubSeq(a \o b, 1, Len(a)) = a /\ SubSeq(a, 1, Len(a)) = a
  OBVIOUS
<1> QED  BY <1>1 DEF IsPrefix

\* What is found in the start of a stream is the start of what is wanted of it.
LEMMA FoundIsWanted ==
  ASSUME TypeInv, NEW fd \in Fds, NEW s \in Seq(Bytes), NEW d \in Seq(Bytes), Stream(fd) = s \o d
  PROVE  IsPrefix(Extract(fd, s).texts, Wanted(fd)) /\ (d = <<>> => Extract(fd, s).texts = Wanted(fd))
<1> DEFINE its == items[fd]
           found == Extract(fd, s)
           more == Extract(fd, found.rest \o d)
<1>1. its \in Seq(Seq(Bytes)) /\ ToSet(its) \subseteq ItemsOf(fd)
  BY DEF TypeInv
<1>2. \A k \in 1 .. Len(its) : its[k] \in ItemsOf(fd)
  BY <1>1 DEF ToSet
<1>3. Stream(fd) = FlattenSeq(Joins(fd, its)) /\ Wanted(fd) = FlattenSeq(Wants(fd, its))
  BY DEF Stream, Joins, Wanted, Wants
<1>4. Extract(fd, Stream(fd)) = Extraction(Wanted(fd), <<>>) /\ Wanted(fd) \in Seq(Seq(Bytes))
  BY <1>1, <1>2, <1>3, WholeStream
<1>5. found.texts \in Seq(Seq(Bytes)) /\ found.rest \in Seq(Bytes)
  BY ExtractType, ExtractionType
<1>6. Extract(fd, s \o d) = Prefixed(found.texts, more)
  BY ExtractTwice
<1> HIDE DEF found
<1>7. more.texts \in Seq(Seq(Bytes))
  <2>1. found.rest \o d \in Seq(Bytes)
    BY <1>5, ConcatType
  <2> QED  BY <2>1, ExtractType, ExtractionType
<1> HIDE DEF more
<1>8. Wanted(fd) = found.texts \o more.texts
  <2>1. \A t, r : Extraction(t, r).texts = t
    BY DEF Extraction
  <2>2. Extract(fd, Stream(fd)) = Prefixed(found.texts, more)
    BY <1>6
  <2>3. Prefixed(found.texts, more).texts = Wanted(fd)
    BY <1>4, <2>1, <2>2
  <2> QED  BY <2>1, <2>3 DEF Prefixed
<1>9. IsPrefix(found.texts, Wanted(fd))
  <2>1. ASSUME NEW a \in Seq(Seq(Bytes)), NEW b \in Seq(Seq(Bytes)) PROVE IsPrefix(a, a \o b)
    BY PrefixOfConcat
  <2> QED  BY <1>5, <1>7, <1>8, <2>1
<1>10. ASSUME d = <<>> PROVE found.texts = Wanted(fd)
  <2>1. Stream(fd) = s
    BY <1>10
  <2> QED  BY <1>4, <2>1 DEF found, Extraction
<1> QED  BY <1>9, <1>10 DEF found

LEMMA IntactFinds == TypeInv /\ Digested /\ ChunksCopiedWhole /\ Intact => TextsFound
<1> SUFFICES ASSUME TypeInv, Digested, ChunksCopiedWhole, Intact, mishaps = 0,
                    NEW fd \in Fds, IsPrefix(seen[fd], copied[fd])
             PROVE  /\ IsPrefix(texts[fd], Wanted(fd))
                    /\ Quiet /\ moved[fd] = Len(Stream(fd)) => texts[fd] = Wanted(fd)
  BY DEF TextsFound
<1> DEFINE s == seen[fd]
           c == copied[fd]
           w == Stream(fd)
           n == Len(s)
           m == moved[fd]
           d == DropFirst(w, n)
<1>1. s \in Seq(Bytes) /\ c \in Seq(Bytes) /\ w \in Seq(Bytes) /\ m \in Nat /\ m <= Len(w)
  BY StreamType DEF TypeInv
<1>2. c = SubSeq(w, 1, m)
  BY DEF ChunksCopiedWhole
<1>3. n \in Nat /\ n <= Len(c) /\ s = SubSeq(c, 1, n)
  BY <1>1, PrefixIs
<1>4. texts[fd] = Extract(fd, s).texts
  <2>1. Extract(fd, seen[fd]) = Extraction(texts[fd], buf[fd])
    BY DEF Digested
  <2> QED  BY <2>1 DEF Extraction
<1>5. Quiet => Len(c) <= n
  <2> SUFFICES ASSUME Quiet PROVE Len(c) <= n
    OBVIOUS
  <2>1. PICK R, at : Covers(R, at, rings, copied, seen)
    BY DEF Intact, Covered
  <2>2. \A cpu \in Cpus : rings[cpu] = <<>>
    BY DEF Quiet
  <2> QED  BY <1>1, <2>1, <2>2, CoversQuiet
<1> HIDE DEF s, c, w, n, m
<1>6. Len(c) = m
  BY <1>1, <1>2
<1>7. n \in 0 .. Len(w) /\ s = SubSeq(w, 1, n)
  <2>1. n <= m /\ n \in 0 .. Len(w)
    BY <1>1, <1>3, <1>6
  <2>2. SubSeq(SubSeq(w, 1, m), 1, n) = SubSeq(w, 1, n)
    BY <1>1, <1>3, <2>1
  <2> QED  BY <1>2, <1>3, <2>1, <2>2
<1>8. d \in Seq(Bytes) /\ w = s \o d
  <2>1. /\ d \in Seq(Bytes) /\ Len(d) = Len(w) - n
        /\ \A i \in 1 .. Len(w) - n : d[i] = w[n + i]
    BY <1>1, <1>7, DropType
  <2> HIDE DEF d
  <2>2. s \in Seq(Bytes) /\ Len(s) = n /\ \A i \in 1 .. n : s[i] = w[i]
    BY <1>1, <1>7
  <2>3. /\ s \o d \in Seq(Bytes) /\ Len(s \o d) = Len(w)
        /\ \A i \in 1 .. Len(w) : (s \o d)[i] = IF i <= n THEN s[i] ELSE d[i - n]
    BY <1>1, <1>3, <2>1, <2>2
  <2>4. ASSUME NEW i \in 1 .. Len(w) PROVE w[i] = (s \o d)[i]
    <3>1. CASE i <= n
      <4>1. i \in 1 .. n
        BY <1>3, <3>1
      <4> QED  BY <2>2, <2>3, <3>1, <4>1
    <3>2. CASE ~(i <= n)
      <4>1. i - n \in 1 .. Len(w) - n /\ n + (i - n) = i
        BY <1>1, <1>3, <3>2
      <4> QED  BY <2>1, <2>3, <3>2, <4>1
    <3> QED  BY <3>1, <3>2
  <2>5. Len(w) \in Nat
    BY <1>1
  <2> QED  BY <1>1, <2>1, <2>3, <2>4, <2>5, SameSeq
<1>9. IsPrefix(Extract(fd, s).texts, Wanted(fd)) /\ (d = <<>> => Extract(fd, s).texts = Wanted(fd))
  BY <1>1, <1>8, FoundIsWanted DEF w
<1>10. Quiet /\ m = Len(w) => d = <<>>
  <2> SUFFICES ASSUME Quiet, m = Len(w) PROVE d = <<>>
    OBVIOUS
  <2>1. n = Len(w)
    BY <1>1, <1>3, <1>5, <1>6
  <2> QED  BY <1>1, <2>1, DropAll
<1> QED  BY <1>4, <1>9, <1>10 DEF m, w

\* While the process transfers fewer than ChunkSize bytes at a time, and as long as no event is
\* dropped, no write is short and the rings keep a stream's order, the loop finds exactly the
\* JSON texts and lines of each stream, whatever strings, escapes and garbage stand in it and
\* however it is cut (ebpf_linux.go:113-149, ebpf_parser.go:14-102).
THEOREM EbpfTextsFound == ASSUME MaxTransfer < ChunkSize PROVE Spec => []TextsFound
<1>1. Init => TypeInv /\ Digested /\ ChunksCopiedWhole /\ Intact
  BY InitTypes, InitIntact
<1>2. TypeInv /\ Digested /\ ChunksCopiedWhole /\ Intact /\ [Next]_vars
        => TypeInv' /\ Digested' /\ ChunksCopiedWhole' /\ Intact'
  BY EbpfStep, IntactStep
<1> QED  BY <1>1, <1>2, IntactFinds, PTL DEF Spec

=============================================================================
