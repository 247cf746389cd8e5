---------------------------- MODULE SocketProofs ----------------------------
(***************************************************************************)
(* For sockets of any capacity and whatever is written: the interceptor's  *)
(* lines are those of the bytes passed on, and the last words of a program *)
(* that leaves reach the other one.                                        *)
(***************************************************************************)
EXTENDS Socket, WellFoundedInduction, TLAPS

-----------------------------------------------------------------------------
(***************************************************************************)
(* Folding a sequence.  A fold is defined by recursion over the subsets of *)
(* the sequence's places; that this recursion defines anything, and that   *)
(* its values at 1 .. n follow from each other, takes an induction, which  *)
(* the well-foundedness of the natural numbers gives.                      *)
(***************************************************************************)
\* A property of natural numbers that zero has and that every successor takes over.
LEMMA Induction ==
  ASSUME NEW Good, 0 \in Good, \A n \in Nat : n \in Good => n + 1 \in Good
  PROVE  Nat \subseteq Good
<1> SUFFICES ASSUME Nat \ Good # {} PROVE FALSE
  OBVIOUS
<1>1. PICK n \in Nat \ Good : \A m \in Nat \ Good : ~(m < n)
  <2>1. PICK n \in Nat \ Good : \A m \in Nat \ Good : ~(<<m, n>> \in OpToRel(<, Nat))
    BY NatLessThanWellFounded, WFMin
  <2> QED  BY <2>1 DEF OpToRel
<1>2. n # 0 /\ n - 1 \in Nat /\ n - 1 < n
  OBVIOUS
<1> QED  BY <1>1, <1>2

\* The greatest of some numbers up to n, if n is one of them.
LEMMA MaxIsTop ==
  ASSUME NEW n \in Nat, NEW S \in SUBSET (1 .. n), n \in S PROVE Max(S) = n
<1>1. \A x \in S : x \in 1 .. n
  OBVIOUS
<1>2. \A y \in S : n >= y
  BY <1>1
<1>3. \A x \in S : (\A y \in S : x >= y) => x = n
  BY <1>1
<1> QED  BY <1>2, <1>3 DEF Max

\* The recursion by which a step function F is folded over a sequence, and that it has
\* a solution.
FoldedBy(F, base, seq, g) ==
  \A S \in SUBSET (1 .. Len(seq)) :
    /\ g[S] = IF S = {} THEN base ELSE F[<<g[S \ {Max(S)}], seq[Max(S)]>>]
    /\ S # {} => Max(S) \in S

LEMMA FoldExists ==
  ASSUME NEW A, NEW E, NEW F \in [A \X E -> A], NEW base \in A, NEW seq \in Seq(E)
  PROVE  \E g \in [SUBSET (1 .. Len(seq)) -> A] : FoldedBy(F, base, seq, g)
<1> DEFINE Solves(g, n) ==
             \A S \in SUBSET (1 .. n) :
               /\ g[S] = IF S = {} THEN base ELSE F[<<g[S \ {Max(S)}], seq[Max(S)]>>]
               /\ S # {} => Max(S) \in S
           Solved(n) == \E g \in [SUBSET (1 .. n) -> A] : Solves(g, n)
           Good == {n \in Nat : n <= Len(seq) => Solved(n)}
<1>1. 0 \in Good
  <2> DEFINE g == [S \in SUBSET (1 .. 0) |-> base]
  <2>1. \A S \in SUBSET (1 .. 0) : S = {}
    OBVIOUS
  <2>2. g \in [SUBSET (1 .. 0) -> A]
    OBVIOUS
  <2>3. \A S \in SUBSET (1 .. 0) : g[S] = base
    OBVIOUS
  <2> HIDE DEF g
  <2>4. Solves(g, 0)
    BY <2>1, <2>3
  <2> QED  BY <2>2, <2>4
<1>2. ASSUME NEW n \in Nat, n \in Good PROVE n + 1 \in Good
  <2> HIDE DEF Solved
  <2> SUFFICES ASSUME n + 1 <= Len(seq) PROVE Solved(n + 1)
    OBVIOUS
  <2>0. Solved(n)
    BY <1>2
  <2> USE DEF Solved
  <2>1. PICK g \in [SUBSET (1 .. n) -> A] : Solves(g, n)
    BY <2>0
  <2> DEFINE h == [S \in SUBSET (1 .. n + 1) |->
                     IF n + 1 \in S THEN F[<<g[S \ {n + 1}], seq[n + 1]>>] ELSE g[S]]
  <2>2. seq[n + 1] \in E
    OBVIOUS
  <2>3. \A S \in SUBSET (1 .. n + 1) :
          /\ n + 1 \in S => S \ {n + 1} \in SUBSET (1 .. n)
          /\ n + 1 \notin S => S \in SUBSET (1 .. n)
    OBVIOUS
  <2>4. h \in [SUBSET (1 .. n + 1) -> A]
    <3> SUFFICES ASSUME NEW S \in SUBSET (1 .. n + 1) PROVE h[S] \in A
      OBVIOUS
    <3> QED  BY <2>1, <2>2, <2>3
  <2>5. \A S \in SUBSET (1 .. n) : h[S] = g[S]
    OBVIOUS
  <2>6. Solves(h, n + 1)
    <3> SUFFICES ASSUME NEW S \in SUBSET (1 .. n + 1)
                 PROVE  /\ h[S] = IF S = {} THEN base ELSE F[<<h[S \ {Max(S)}], seq[Max(S)]>>]
                        /\ S # {} => Max(S) \in S
      OBVIOUS
    <3>1. CASE n + 1 \in S
      <4>1. Max(S) = n + 1
        BY <3>1, MaxIsTop
      <4>2. h[S \ {n + 1}] = g[S \ {n + 1}]
        BY <2>3, <2>5, <3>1
      <4> QED  BY <3>1, <4>1, <4>2
    <3>2. CASE n + 1 \notin S
      <4>1. S \in SUBSET (1 .. n) /\ S \ {Max(S)} \in SUBSET (1 .. n)
        BY <2>3, <3>2
      <4>2. h[S] = g[S] /\ h[S \ {Max(S)}] = g[S \ {Max(S)}]
        BY <2>5, <4>1
      <4> HIDE DEF h
      <4> QED  BY <2>1, <4>1, <4>2
    <3> QED  BY <3>1, <3>2
  <2> QED  BY <2>4, <2>6
<1>3. Len(seq) \in Good
  <2>1. Len(seq) \in Nat
    OBVIOUS
  <2> HIDE DEF Good
  <2> QED  BY <1>1, <1>2, <2>1, Induction
<1>4. Solved(Len(seq))
  <2> HIDE DEF Solved
  <2> QED  BY <1>3
<1> QED  BY <1>4 DEF FoldedBy

\* What the interceptor makes of a sequence of bytes, if it starts from nothing.
States == [buf : Seq(Bytes), found : Seq(Seq(Bytes))]
Untaken == [buf |-> <<>>, found |-> <<>>]
Took(bytes) == FoldLeft(Take, Untaken, bytes)

LEMMA TakeType ==
  ASSUME NEW st \in States, NEW byte \in Bytes PROVE Take(st, byte) \in States
<1>1. Line(st.buf) \in Seq(Seq(Bytes)) /\ st.found \o Line(st.buf) \in Seq(Seq(Bytes))
  BY DEF States, Line
<1>2. <<>> \in Seq(Bytes) /\ Append(st.buf, byte) \in Seq(Bytes)
  BY DEF States
<1>3. CASE byte = "lf"
  BY <1>1, <1>2, <1>3 DEF Take, States
<1>4. CASE byte # "lf"
  BY <1>1, <1>2, <1>4 DEF Take, States
<1> QED  BY <1>3, <1>4

\* The states after a sequence's beginnings follow from each other.
TakesFrom(base, bytes, f) ==
  /\ f[0] = base
  /\ \A i \in 1 .. Len(bytes) : f[i] = Take(f[i - 1], bytes[i])

\* The interceptor takes one byte after the other.
LEMMA TakeSteps ==
  ASSUME NEW bytes \in Seq(Bytes), NEW base \in States
  PROVE  \E f \in [0 .. Len(bytes) -> States] :
           TakesFrom(base, bytes, f) /\ FoldLeft(Take, base, bytes) = f[Len(bytes)]
<1> DEFINE F == [p \in States \X Bytes |-> Take(p[1], p[2])]
           places == 1 .. Len(bytes)
           It == CHOOSE it : it = [S \in SUBSET places |->
                   IF S = {} THEN base ELSE Take(it[S \ {Max(S)}], bytes[Max(S)])]
<1>1. FoldLeft(Take, base, bytes) = It[places]
  <2>1. DOMAIN bytes = places
    OBVIOUS
  <2> QED  BY <2>1 DEF FoldLeft, MapThenFoldSet
<1>2. F \in [States \X Bytes -> States]
  BY TakeType
<1>3. PICK g \in [SUBSET places -> States] : FoldedBy(F, base, bytes, g)
  <2> HIDE DEF F
  <2> QED  BY <1>2, FoldExists
<1>4. \A S \in SUBSET places :
        g[S] = IF S = {} THEN base ELSE Take(g[S \ {Max(S)}], bytes[Max(S)])
  <2> SUFFICES ASSUME NEW S \in SUBSET places, S # {}
               PROVE  g[S] = Take(g[S \ {Max(S)}], bytes[Max(S)])
    BY <1>3 DEF FoldedBy
  <2>1. g[S] = F[<<g[S \ {Max(S)}], bytes[Max(S)]>>] /\ Max(S) \in S
    BY <1>3 DEF FoldedBy
  <2>2. S \ {Max(S)} \in SUBSET places /\ Max(S) \in 1 .. Len(bytes)
    BY <2>1
  <2>3. g[S \ {Max(S)}] \in States /\ bytes[Max(S)] \in Bytes
    BY <1>3, <2>2
  <2> QED  BY <2>1, <2>3
<1>5. It = [S \in SUBSET places |->
              IF S = {} THEN base ELSE Take(It[S \ {Max(S)}], bytes[Max(S)])]
  <2>1. g = [S \in SUBSET places |->
              IF S = {} THEN base ELSE Take(g[S \ {Max(S)}], bytes[Max(S)])]
    BY <1>3, <1>4
  <2>2. \E it : it = [S \in SUBSET places |->
              IF S = {} THEN base ELSE Take(it[S \ {Max(S)}], bytes[Max(S)])]
    BY <2>1
  <2> QED  BY <2>2
<1> HIDE DEF It, F
<1> DEFINE f == [i \in 0 .. Len(bytes) |-> It[1 .. i]]
<1>6. f[0] = base /\ It[places] = f[Len(bytes)]
  <2>1. 1 .. 0 = {} /\ {} \in SUBSET places
    OBVIOUS
  <2>2. It[{}] = base
    BY <1>5, <2>1
  <2> QED  BY <2>1, <2>2
<1>7. ASSUME NEW i \in 1 .. Len(bytes) PROVE f[i] = Take(f[i - 1], bytes[i])
  <2>1. Max(1 .. i) = i
    BY MaxIsTop
  <2>2. (1 .. i) \ {i} = 1 .. i - 1 /\ (1 .. i) \in SUBSET places /\ 1 .. i # {}
    <3>1. i \in Nat /\ 1 <= i /\ i <= Len(bytes) /\ Len(bytes) \in Nat
      OBVIOUS
    <3>2. (1 .. i) \ {i} = 1 .. i - 1
      BY <3>1
    <3>3. 1 .. i \subseteq 1 .. Len(bytes) /\ i \in 1 .. i
      BY <3>1
    <3> QED  BY <3>2, <3>3
  <2>3. It[1 .. i] = Take(It[(1 .. i) \ {Max(1 .. i)}], bytes[Max(1 .. i)])
    BY <1>5, <2>2
  <2>4. f[i] = It[1 .. i] /\ f[i - 1] = It[1 .. i - 1]
    OBVIOUS
  <2> HIDE DEF f
  <2> QED  BY <2>1, <2>2, <2>3, <2>4
<1>8. f \in [0 .. Len(bytes) -> States]
  <2> DEFINE Good == {i \in Nat : i <= Len(bytes) => f[i] \in States}
  <2> HIDE DEF f
  <2>1. 0 \in Good
    BY <1>2, <1>6
  <2>2. ASSUME NEW i \in Nat, i \in Good PROVE i + 1 \in Good
    <3> SUFFICES ASSUME i + 1 <= Len(bytes) PROVE f[i + 1] \in States
      OBVIOUS
    <3>1. i + 1 \in 1 .. Len(bytes) /\ f[(i + 1) - 1] \in States /\ bytes[i + 1] \in Bytes
      BY <2>2
    <3> QED  BY <1>7, <3>1, TakeType
  <2>3. Nat \subseteq Good
    <3> HIDE DEF Good
    <3> QED  BY <2>1, <2>2, Induction
  <2>4. \A i \in 0 .. Len(bytes) : i \in Nat /\ f[i] \in States
    BY <2>3
  <2> QED  BY <2>4 DEF f
<1> HIDE DEF f
<1>9. TakesFrom(base, bytes, f)
  BY <1>6, <1>7 DEF TakesFrom
<1> QED  BY <1>1, <1>6, <1>8, <1>9

\* Two rows of states agree when they start alike and take the same n bytes, one of them
\* from its m-th state on.
TakesNext(g, m, bytes, n) == \A i \in 1 .. n : g[m + i] = Take(g[m + i - 1], bytes[i])

LEMMA TakesAgree ==
  ASSUME NEW n \in Nat, NEW m \in Nat, NEW f, NEW g, NEW bytes, f[0] = g[m],
         TakesNext(f, 0, bytes, n), TakesNext(g, m, bytes, n)
  PROVE  f[n] = g[m + n]
<1> DEFINE Good == {i \in Nat : i <= n => f[i] = g[m + i]}
<1>1. 0 \in Good
  OBVIOUS
<1>2. ASSUME NEW i \in Nat, i \in Good PROVE i + 1 \in Good
  <2> SUFFICES ASSUME i + 1 <= n PROVE f[i + 1] = g[m + (i + 1)]
    OBVIOUS
  <2>1. f[i] = g[m + i] /\ i + 1 \in 1 .. n /\ m + (i + 1) - 1 = m + i
        /\ 0 + (i + 1) = i + 1 /\ 0 + (i + 1) - 1 = i
    BY <1>2
  <2>2. f[0 + (i + 1)] = Take(f[0 + (i + 1) - 1], bytes[i + 1])
        /\ g[m + (i + 1)] = Take(g[m + (i + 1) - 1], bytes[i + 1])
    BY <2>1 DEF TakesNext
  <2> QED  BY <2>1, <2>2
<1>3. n \in Good
  <2> HIDE DEF Good
  <2> QED  BY <1>1, <1>2, Induction
<1> QED  BY <1>3

LEMMA TookType == ASSUME NEW bytes \in Seq(Bytes) PROVE Took(bytes) \in States
<1>1. Untaken \in States
  BY DEF Untaken, States
<1>2. Len(bytes) \in 0 .. Len(bytes)
  OBVIOUS
<1> QED  BY <1>1, <1>2, TakeSteps DEF Took

LEMMA TookEmpty == Took(<<>>) = Untaken
<1>1. <<>> \in Seq(Bytes) /\ Len(<<>>) = 0 /\ Untaken \in States
  BY DEF Untaken, States
<1>2. PICK f : TakesFrom(Untaken, <<>>, f) /\ Took(<<>>) = f[0]
  BY <1>1, TakeSteps DEF Took
<1> QED  BY <1>2 DEF TakesFrom

\* However a stream is cut in two, taking one piece and then the other is taking it all.
LEMMA TookPieces ==
  ASSUME NEW bytes \in Seq(Bytes), NEW m \in Nat, NEW n \in Nat, m <= n, n <= Len(bytes)
  PROVE  FoldLeft(Take, Took(SubSeq(bytes, 1, m)), SubSeq(bytes, m + 1, n))
           = Took(SubSeq(bytes, 1, n))
<1> DEFINE all == SubSeq(bytes, 1, n)
           first == SubSeq(bytes, 1, m)
           second == SubSeq(bytes, m + 1, n)
<1>1. all \in Seq(Bytes) /\ Len(all) = n /\ \A i \in 1 .. n : all[i] = bytes[i]
  OBVIOUS
<1>2. first \in Seq(Bytes) /\ Len(first) = m /\ \A i \in 1 .. m : first[i] = bytes[i]
  OBVIOUS
<1>3. second \in Seq(Bytes) /\ Len(second) = n - m /\ n - m \in Nat
      /\ \A i \in 1 .. n - m : second[i] = bytes[m + i]
  OBVIOUS
<1>4. Untaken \in States /\ Took(first) \in States
  <2>1. Untaken \in States
    BY DEF Untaken, States
  <2> HIDE DEF first
  <2> QED  BY <1>2, <2>1, TookType
<1> HIDE DEF all, first, second
<1>5. PICK g : TakesFrom(Untaken, all, g) /\ Took(all) = g[n]
  BY <1>1, <1>4, TakeSteps DEF Took
<1>6. PICK h : TakesFrom(Untaken, first, h) /\ Took(first) = h[m]
  BY <1>2, <1>4, TakeSteps DEF Took
<1>7. PICK f : TakesFrom(Took(first), second, f)
               /\ FoldLeft(Take, Took(first), second) = f[n - m]
  BY <1>3, <1>4, TakeSteps
<1>8. h[m] = g[m]
  <2>1. h[0] = g[0]
    BY <1>5, <1>6 DEF TakesFrom
  <2>2. TakesNext(h, 0, bytes, m)
    BY <1>2, <1>6 DEF TakesFrom, TakesNext
  <2>3. TakesNext(g, 0, bytes, m)
    <3> SUFFICES ASSUME NEW i \in 1 .. m PROVE g[0 + i] = Take(g[0 + i - 1], bytes[i])
      BY DEF TakesNext
    <3>1. i \in 1 .. n /\ 0 + i = i
      OBVIOUS
    <3> QED  BY <1>1, <1>5, <3>1 DEF TakesFrom
  <2>4. h[m] = g[0 + m]
    BY <2>1, <2>2, <2>3, TakesAgree
  <2> QED  BY <2>4
<1>9. f[n - m] = g[m + (n - m)]
  <2> DEFINE rest == [i \in Nat |-> bytes[m + i]]
  <2>1. f[0] = g[m]
    BY <1>6, <1>7, <1>8 DEF TakesFrom
  <2>2. \A i \in 1 .. n - m : rest[i] = bytes[m + i] /\ m + i \in 1 .. n
    OBVIOUS
  <2> HIDE DEF rest
  <2>3. TakesNext(f, 0, rest, n - m)
    <3> SUFFICES ASSUME NEW i \in 1 .. n - m PROVE f[0 + i] = Take(f[0 + i - 1], rest[i])
      BY DEF TakesNext
    <3>1. 0 + i = i
      OBVIOUS
    <3> QED  BY <1>3, <1>7, <2>2, <3>1 DEF TakesFrom
  <2>4. TakesNext(g, m, rest, n - m)
    <3> SUFFICES ASSUME NEW i \in 1 .. n - m PROVE g[m + i] = Take(g[m + i - 1], rest[i])
      BY DEF TakesNext
    <3>1. m + i \in 1 .. n /\ rest[i] = bytes[m + i]
      BY <2>2
    <3>2. g[m + i] = Take(g[m + i - 1], all[m + i]) /\ all[m + i] = bytes[m + i]
      BY <1>1, <1>5, <3>1 DEF TakesFrom
    <3> QED  BY <3>1, <3>2
  <2> QED  BY <1>3, <2>1, <2>3, <2>4, TakesAgree
<1>10. m + (n - m) = n
  OBVIOUS
<1> QED  BY <1>5, <1>7, <1>9, <1>10 DEF all, first, second

-----------------------------------------------------------------------------
(***************************************************************************)
(* The lines by the places of the line feeds, and those that the           *)
(* interceptor's loop finds, are the same.                                 *)
(***************************************************************************)
Feeds(bytes) == {i \in DOMAIN bytes : bytes[i] = "lf"}
Before(bytes, i) == Max({0} \union {j \in Feeds(bytes) : j < i})
Piece(bytes, i) ==
  IF i \in Feeds(bytes) THEN Line(SubSeq(bytes, Before(bytes, i) + 1, i - 1)) ELSE <<>>

\* The last line feed before a place: 0 before the first place, the place before, if there
\* is one, or what it was there.
LEMMA BeforeSteps ==
  ASSUME NEW bytes \in Seq(Bytes)
  PROVE  /\ Before(bytes, 1) = 0
         /\ \A i \in 1 .. Len(bytes) :
              Before(bytes, i + 1) = IF bytes[i] = "lf" THEN i ELSE Before(bytes, i)
<1>1. DOMAIN bytes = 1 .. Len(bytes) /\ Len(bytes) \in Nat
  OBVIOUS
<1>2. Before(bytes, 1) = 0
  <2>1. {0} \union {j \in Feeds(bytes) : j < 1} = {0}
    BY <1>1 DEF Feeds
  <2>2. Max({0}) = 0
    BY DEF Max
  <2> QED  BY <2>1, <2>2 DEF Before
<1>3. ASSUME NEW i \in 1 .. Len(bytes), bytes[i] = "lf" PROVE Before(bytes, i + 1) = i
  <2> DEFINE S == {0} \union {j \in Feeds(bytes) : j < i + 1}
  <2>1. i \in S /\ \A j \in S : j \in Nat /\ j <= i
    BY <1>1, <1>3 DEF Feeds
  <2> HIDE DEF S
  <2>2. \A x \in S : (\A y \in S : x >= y) => x = i
    BY <2>1
  <2>3. \A y \in S : i >= y
    BY <2>1
  <2>4. Max(S) = i
    BY <2>1, <2>2, <2>3 DEF Max
  <2> QED  BY <2>4 DEF S, Before
<1>4. ASSUME NEW i \in 1 .. Len(bytes), bytes[i] # "lf"
      PROVE  Before(bytes, i + 1) = Before(bytes, i)
  <2>1. \A j \in Feeds(bytes) : j \in Nat /\ j # i
    BY <1>1, <1>4 DEF Feeds
  <2>2. \A j \in Feeds(bytes) : j < i + 1 <=> j < i
    BY <2>1
  <2>3. {j \in Feeds(bytes) : j < i + 1} = {j \in Feeds(bytes) : j < i}
    BY <2>2
  <2> QED  BY <2>3 DEF Before
<1> QED  BY <1>2, <1>3, <1>4

\* The pieces are put together one place after the other.
LEMMA PieceSteps ==
  ASSUME NEW bytes \in Seq(Bytes), \A i \in 1 .. Len(bytes) : Piece(bytes, i) \in Seq(Seq(Bytes))
  PROVE  \E f \in [0 .. Len(bytes) -> Seq(Seq(Bytes))] :
           /\ f[0] = <<>> /\ LinesOf(bytes) = f[Len(bytes)]
           /\ \A i \in 1 .. Len(bytes) : f[i] = f[i - 1] \o Piece(bytes, i)
<1> DEFINE places == 1 .. Len(bytes)
           A == Seq(Seq(Bytes))
           index == [i \in DOMAIN bytes |-> i]
           F == [p \in A \X places |-> p[1] \o Piece(bytes, p[2])]
           It == CHOOSE it : it = [S \in SUBSET places |->
                   IF S = {} THEN <<>> ELSE it[S \ {Max(S)}] \o Piece(bytes, index[Max(S)])]
<1>1. DOMAIN bytes = places /\ index \in Seq(places) /\ Len(index) = Len(bytes)
      /\ DOMAIN index = places /\ \A i \in places : index[i] = i
  OBVIOUS
<1>2. LinesOf(bytes) = It[places]
  BY <1>1 DEF LinesOf, FoldLeft, MapThenFoldSet, Piece, Before, Feeds
<1>3. F \in [A \X places -> A] /\ <<>> \in A
  OBVIOUS
<1>4. PICK g \in [SUBSET places -> A] : FoldedBy(F, <<>>, index, g)
  <2> HIDE DEF F, It, index, A
  <2> QED  BY <1>1, <1>3, FoldExists
<1>5. \A S \in SUBSET places :
        g[S] = IF S = {} THEN <<>> ELSE g[S \ {Max(S)}] \o Piece(bytes, index[Max(S)])
  <2> SUFFICES ASSUME NEW S \in SUBSET places, S # {}
               PROVE  g[S] = g[S \ {Max(S)}] \o Piece(bytes, index[Max(S)])
    BY <1>1, <1>4 DEF FoldedBy
  <2>1. g[S] = F[<<g[S \ {Max(S)}], index[Max(S)]>>] /\ Max(S) \in S
    BY <1>1, <1>4 DEF FoldedBy
  <2>2. S \ {Max(S)} \in SUBSET places /\ Max(S) \in places
    BY <2>1
  <2>3. g[S \ {Max(S)}] \in A /\ index[Max(S)] \in places
    BY <1>1, <1>4, <2>2
  <2> HIDE DEF A, index, places
  <2> QED  BY <2>1, <2>3
<1>6. It = [S \in SUBSET places |->
              IF S = {} THEN <<>> ELSE It[S \ {Max(S)}] \o Piece(bytes, index[Max(S)])]
  <2>1. g = [S \in SUBSET places |->
              IF S = {} THEN <<>> ELSE g[S \ {Max(S)}] \o Piece(bytes, index[Max(S)])]
    BY <1>4, <1>5
  <2>2. \E it : it = [S \in SUBSET places |->
              IF S = {} THEN <<>> ELSE it[S \ {Max(S)}] \o Piece(bytes, index[Max(S)])]
    BY <2>1
  <2> QED  BY <2>2
<1> HIDE DEF It, F, index
<1> DEFINE f == [i \in 0 .. Len(bytes) |-> It[1 .. i]]
<1>7. f[0] = <<>> /\ It[places] = f[Len(bytes)]
  <2>1. 1 .. 0 = {} /\ {} \in SUBSET places
    OBVIOUS
  <2>2. It[{}] = <<>>
    BY <1>6, <2>1
  <2> QED  BY <2>1, <2>2
<1>8. ASSUME NEW i \in 1 .. Len(bytes) PROVE f[i] = f[i - 1] \o Piece(bytes, i)
  <2>1. Max(1 .. i) = i
    BY MaxIsTop
  <2>2. (1 .. i) \ {i} = 1 .. i - 1 /\ (1 .. i) \in SUBSET places /\ 1 .. i # {}
    <3>1. i \in Nat /\ 1 <= i /\ i <= Len(bytes) /\ Len(bytes) \in Nat
      OBVIOUS
    <3>2. (1 .. i) \ {i} = 1 .. i - 1
      BY <3>1
    <3>3. 1 .. i \subseteq 1 .. Len(bytes) /\ i \in 1 .. i
      BY <3>1
    <3> QED  BY <3>2, <3>3
  <2>3. It[1 .. i] = It[(1 .. i) \ {Max(1 .. i)}] \o Piece(bytes, index[Max(1 .. i)])
    BY <1>6, <2>2
  <2>4. f[i] = It[1 .. i] /\ f[i - 1] = It[1 .. i - 1] /\ index[i] = i
    BY <1>1
  <2> HIDE DEF f
  <2> QED  BY <2>1, <2>2, <2>3, <2>4
<1>9. f \in [0 .. Len(bytes) -> A]
  <2> DEFINE Good == {i \in Nat : i <= Len(bytes) => f[i] \in A}
  <2> HIDE DEF f
  <2>1. 0 \in Good
    BY <1>3, <1>7
  <2>2. ASSUME NEW i \in Nat, i \in Good PROVE i + 1 \in Good
    <3> SUFFICES ASSUME i + 1 <= Len(bytes) PROVE f[i + 1] \in A
      OBVIOUS
    <3>1. i + 1 \in 1 .. Len(bytes) /\ f[(i + 1) - 1] \in A
      BY <2>2
    <3>2. f[i + 1] = f[(i + 1) - 1] \o Piece(bytes, i + 1) /\ Piece(bytes, i + 1) \in A
      BY <1>8, <3>1
    <3> QED  BY <3>1, <3>2
  <2>3. Nat \subseteq Good
    <3> HIDE DEF Good
    <3> QED  BY <2>1, <2>2, Induction
  <2>4. \A i \in 0 .. Len(bytes) : i \in Nat /\ f[i] \in A
    BY <2>3
  <2> QED  BY <2>4 DEF f
<1> HIDE DEF f
<1> QED  BY <1>2, <1>7, <1>8, <1>9

LEMMA BeforeType ==
  ASSUME NEW bytes \in Seq(Bytes), NEW n \in 0 .. Len(bytes)
  PROVE  Before(bytes, n + 1) \in 0 .. n
<1> DEFINE Good == {i \in Nat : i <= Len(bytes) => Before(bytes, i + 1) \in 0 .. i}
<1>1. 0 \in Good
  <2>1. Before(bytes, 0 + 1) = 0
    BY BeforeSteps
  <2> QED  BY <2>1
<1>2. ASSUME NEW i \in Nat, i \in Good PROVE i + 1 \in Good
  <2> SUFFICES ASSUME i + 1 <= Len(bytes) PROVE Before(bytes, (i + 1) + 1) \in 0 .. i + 1
    OBVIOUS
  <2>1. Before(bytes, i + 1) \in 0 .. i /\ i + 1 \in 1 .. Len(bytes)
    BY <1>2
  <2>2. Before(bytes, (i + 1) + 1) = i + 1 \/ Before(bytes, (i + 1) + 1) = Before(bytes, i + 1)
    BY <2>1, BeforeSteps
  <2> QED  BY <2>1, <2>2
<1>3. Nat \subseteq Good
  <2> HIDE DEF Good
  <2> QED  BY <1>1, <1>2, Induction
<1> QED  BY <1>3

LEMMA PieceType ==
  ASSUME NEW bytes \in Seq(Bytes), NEW i \in 1 .. Len(bytes)
  PROVE  Piece(bytes, i) \in Seq(Seq(Bytes))
<1>1. i - 1 \in 0 .. Len(bytes) /\ (i - 1) + 1 = i
  OBVIOUS
<1>2. Before(bytes, (i - 1) + 1) \in 0 .. i - 1
  BY <1>1, BeforeType
<1>3. SubSeq(bytes, Before(bytes, i) + 1, i - 1) \in Seq(Bytes)
  BY <1>1, <1>2
<1> QED  BY <1>3 DEF Piece, Line

\* One more byte: the buffer holds what follows the last line feed.
LEMMA BufferSteps ==
  ASSUME NEW bytes \in Seq(Bytes), NEW i \in Nat, i + 1 <= Len(bytes), NEW lines,
         NEW st, st = [buf |-> SubSeq(bytes, Before(bytes, i + 1) + 1, i), found |-> lines]
  PROVE  Take(st, bytes[i + 1]) =
           [buf |-> SubSeq(bytes, Before(bytes, i + 2) + 1, i + 1),
            found |-> IF bytes[i + 1] = "lf" THEN lines \o Piece(bytes, i + 1) ELSE lines]
<1> DEFINE b == Before(bytes, i + 1)
<1>1. i + 1 \in 1 .. Len(bytes) /\ i \in 0 .. Len(bytes) /\ (i + 1) + 1 = i + 2
      /\ (i + 1) - 1 = i
  OBVIOUS
<1>2. b \in 0 .. i
  BY <1>1, BeforeType
<1>3. Before(bytes, i + 2) = IF bytes[i + 1] = "lf" THEN i + 1 ELSE b
  BY <1>1, BeforeSteps
<1> HIDE DEF b
<1>4. CASE bytes[i + 1] = "lf"
  <2>1. i + 1 \in Feeds(bytes)
    BY <1>1, <1>4 DEF Feeds
  <2>2. Piece(bytes, i + 1) = Line(SubSeq(bytes, b + 1, i))
    BY <1>1, <2>1 DEF Piece, b
  <2>3. SubSeq(bytes, Before(bytes, i + 2) + 1, i + 1) = <<>>
    <3>1. Before(bytes, i + 2) + 1 > i + 1
      BY <1>3, <1>4
    <3> QED  BY <1>3, <1>4, <3>1
  <2>4. st.buf = SubSeq(bytes, b + 1, i) /\ st.found = lines
    BY DEF b
  <2> QED  BY <1>4, <2>2, <2>3, <2>4 DEF Take
<1>5. CASE bytes[i + 1] # "lf"
  <2>1. SubSeq(bytes, b + 1, i + 1) = Append(SubSeq(bytes, b + 1, i), bytes[i + 1])
    BY <1>1, <1>2
  <2>2. st = [buf |-> SubSeq(bytes, b + 1, i), found |-> lines]
    BY DEF b
  <2>3. Take(st, bytes[i + 1]) =
          [buf |-> Append(SubSeq(bytes, b + 1, i), bytes[i + 1]), found |-> lines]
    <3> DEFINE old == SubSeq(bytes, b + 1, i)
               new == Append(old, bytes[i + 1])
    <3>1. Take(st, bytes[i + 1]) = [st EXCEPT !.buf = Append(st.buf, bytes[i + 1])]
      BY <1>5 DEF Take
    <3> HIDE DEF old
    <3>2. st = [buf |-> old, found |-> lines]
      BY <2>2 DEF old
    <3>3. Append(st.buf, bytes[i + 1]) = new
      <4>1. st.buf = old
        BY ONLY <3>2
      <4> QED  BY ONLY <4>1 DEF new
    <3> HIDE DEF new
    <3>4. [st EXCEPT !.buf = new] = [buf |-> new, found |-> lines]
      BY <3>2
    <3> QED  BY <3>1, <3>3, <3>4 DEF new, old
  <2> QED  BY <1>3, <1>5, <2>1, <2>3
<1> QED  BY <1>4, <1>5

\* The interceptor's loop finds the lines of a stream, whatever it is.
LEMMA TookIsLines == ASSUME NEW bytes \in Seq(Bytes) PROVE Took(bytes).found = LinesOf(bytes)
<1> DEFINE n == Len(bytes)
           State(lines, i) == [buf |-> SubSeq(bytes, Before(bytes, i + 1) + 1, i), found |-> lines]
<1>1. n \in Nat /\ Untaken \in States
  BY DEF Untaken, States
<1>2. PICK f : TakesFrom(Untaken, bytes, f) /\ Took(bytes) = f[n]
  BY <1>1, TakeSteps DEF Took
<1>3. PICK g \in [0 .. n -> Seq(Seq(Bytes))] :
        /\ g[0] = <<>> /\ LinesOf(bytes) = g[n]
        /\ \A i \in 1 .. n : g[i] = g[i - 1] \o Piece(bytes, i)
  BY PieceType, PieceSteps
<1> DEFINE Good == {i \in Nat : i <= n => f[i] = State(g[i], i)}
<1>4. 0 \in Good
  <2>1. SubSeq(bytes, Before(bytes, 0 + 1) + 1, 0) = <<>>
    BY BeforeSteps
  <2> QED  BY <1>2, <1>3, <2>1 DEF TakesFrom, Untaken
<1>5. ASSUME NEW i \in Nat, i \in Good PROVE i + 1 \in Good
  <2> HIDE DEF State
  <2> SUFFICES ASSUME i + 1 <= n PROVE f[i + 1] = State(g[i + 1], i + 1)
    OBVIOUS
  <2>1. f[i] = State(g[i], i) /\ i + 1 \in 1 .. n /\ (i + 1) - 1 = i /\ (i + 1) + 1 = i + 2
    BY <1>5
  <2>2. f[i + 1] = Take(f[i], bytes[i + 1])
    BY <1>2, <2>1 DEF TakesFrom
  <2>3. g[i + 1] = g[i] \o Piece(bytes, i + 1) /\ g[i] \in Seq(Seq(Bytes))
    <3>1. i \in 0 .. n
      BY <1>1
    <3>2. g[i + 1] = g[(i + 1) - 1] \o Piece(bytes, i + 1)
      BY <1>3, <2>1
    <3> QED  BY <1>3, <2>1, <3>1, <3>2
  <2>4. bytes[i + 1] # "lf" => Piece(bytes, i + 1) = <<>>
    BY DEF Piece, Feeds
  <2>5. g[i + 1] = IF bytes[i + 1] = "lf" THEN g[i] \o Piece(bytes, i + 1) ELSE g[i]
    <3>1. CASE bytes[i + 1] = "lf"
      BY <2>3, <3>1
    <3>2. CASE bytes[i + 1] # "lf"
      <4>1. g[i] \o <<>> = g[i]
        BY <2>3
      <4> QED  BY <2>3, <2>4, <3>2, <4>1
    <3> QED  BY <3>1, <3>2
  <2>6. Take(f[i], bytes[i + 1]) =
          [buf |-> SubSeq(bytes, Before(bytes, i + 2) + 1, i + 1), found |-> g[i + 1]]
    BY <2>1, <2>5, BufferSteps DEF State
  <2> QED  BY <2>1, <2>2, <2>6 DEF State
<1>6. n \in Good
  <2> HIDE DEF Good
  <2> QED  BY <1>1, <1>4, <1>5, Induction
<1> QED  BY <1>1, <1>2, <1>3, <1>6

-----------------------------------------------------------------------------
(***************************************************************************)
(* The inductive invariant: the bytes.                                     *)
(***************************************************************************)
TypeInv ==
  /\ ctxDone \in BOOLEAN /\ errs \in Nat
  /\ handler \in {"none", "queued", "refused", "dialing", "serving", "closing", "done"}
  /\ peer \in [Peers -> {"none", "open", "shut", "closed"}]
  /\ conn \in [Peers -> {"none", "open", "closed"}]
  /\ copier \in [Directions -> {"none", "reading", "writing", "reporting", "done"}]
  /\ sent \in [Directions -> Seq(Bytes)] /\ read \in [Directions -> Nat]
  /\ passed \in [Directions -> Nat] /\ recorded \in [Directions -> Nat]
  /\ buf \in [Directions -> Seq(Bytes)] /\ found \in [Directions -> Seq(Seq(Bytes))]

\* A byte is recorded after it was passed on, which is after it was read; between two
\* writes, all that was read was passed on, and all that was passed on is recorded.
PlaceInv ==
  \A d \in Directions :
    /\ recorded[d] <= passed[d] /\ passed[d] <= read[d] /\ read[d] <= Len(sent[d])
    /\ copier[d] # "writing" => recorded[d] = passed[d]
    /\ copier[d] \in {"none", "reading"} => passed[d] = read[d]

\* The interceptor is where its loop would be had it been given the bytes one by one.
TakenInv ==
  \A d \in Directions :
    Took(SubSeq(sent[d], 1, recorded[d])) = [buf |-> buf[d], found |-> found[d]]

ByteInv == TypeInv /\ PlaceInv /\ TakenInv

LEMMA ByteInit == Init => ByteInv
<1> SUFFICES ASSUME Init PROVE ByteInv
  OBVIOUS
<1>1. <<>> \in Seq(Bytes) /\ <<>> \in Seq(Seq(Bytes)) /\ Len(<<>>) = 0
  OBVIOUS
<1>2. TypeInv
  BY <1>1 DEF Init, TypeInv
<1>3. PlaceInv
  BY <1>1 DEF Init, PlaceInv
<1>4. TakenInv
  <2>1. \A d \in Directions : SubSeq(sent[d], 1, recorded[d]) = <<>>
    BY DEF Init
  <2> QED  BY <2>1, TookEmpty DEF Init, TakenInv, Untaken
<1> QED  BY <1>2, <1>3, <1>4 DEF ByteInv

\* What moves no byte.
LEMMA NoByteMoves ==
  ASSUME ByteInv, UNCHANGED <<sent, read, passed, recordVars>>,
         ctxDone' \in BOOLEAN, errs' \in Nat,
         handler' \in {"none", "queued", "refused", "dialing", "serving", "closing", "done"},
         peer' \in [Peers -> {"none", "open", "shut", "closed"}],
         conn' \in [Peers -> {"none", "open", "closed"}],
         copier' \in [Directions -> {"none", "reading", "writing", "reporting", "done"}],
         \A d \in Directions :
           /\ copier'[d] # "writing" => copier[d] # "writing"
           /\ copier'[d] \in {"none", "reading"} => copier[d] \in {"none", "reading"}
  PROVE  ByteInv'
<1>1. TypeInv'
  BY DEF ByteInv, TypeInv, recordVars
<1>2. PlaceInv'
  BY DEF ByteInv, PlaceInv, recordVars
<1>3. TakenInv'
  <2>1. \A d \in Directions : Took(SubSeq(sent[d], 1, recorded[d]))' = Took(SubSeq(sent[d], 1, recorded[d]))
    BY DEF recordVars
  <2> QED  BY <2>1 DEF ByteInv, TakenInv, recordVars
<1> QED  BY <1>1, <1>2, <1>3 DEF ByteInv

LEMMA WriteByte ==
  ASSUME ByteInv, NEW d \in Directions, NEW byte \in Bytes, PeerWrites(d, byte)
  PROVE  ByteInv'
<1> USE DEF ByteInv
<1>1. sent' = [sent EXCEPT ![d] = Append(@, byte)]
      /\ UNCHANGED <<ctxDone, errs, handler, peer, conn, copier, read, passed, recorded, buf, found>>
  BY DEF PeerWrites, startVars, recordVars
<1>2. sent' \in [Directions -> Seq(Bytes)]
  BY <1>1 DEF TypeInv
<1>3. ASSUME NEW e \in Directions
      PROVE  /\ Len(sent[e]) <= Len(sent'[e])
             /\ SubSeq(sent'[e], 1, recorded[e]) = SubSeq(sent[e], 1, recorded[e])
  <2>1. /\ sent[e] \in Seq(Bytes) /\ recorded[e] \in Nat /\ recorded[e] <= Len(sent[e])
        /\ Len(sent[e]) \in Nat
    BY DEF TypeInv, PlaceInv
  <2>2. CASE e = d
    <3>1. sent'[e] = Append(sent[e], byte)
      BY <1>1, <2>2 DEF TypeInv
    <3> QED  BY <2>1, <3>1
  <2>3. CASE e # d
    <3>1. sent'[e] = sent[e]
      BY <1>1, <2>3 DEF TypeInv
    <3> QED  BY <2>1, <3>1
  <2> QED  BY <2>2, <2>3
<1>4. TypeInv'
  BY <1>1, <1>2 DEF TypeInv
<1>5. PlaceInv'
  <2> SUFFICES ASSUME NEW e \in Directions
               PROVE  /\ recorded[e] <= passed[e] /\ passed[e] <= read[e]
                      /\ read[e] <= Len(sent'[e])
                      /\ copier[e] # "writing" => recorded[e] = passed[e]
                      /\ copier[e] \in {"none", "reading"} => passed[e] = read[e]
    BY <1>1 DEF PlaceInv
  <2>1. sent[e] \in Seq(Bytes) /\ sent'[e] \in Seq(Bytes) /\ read[e] \in Nat
    BY <1>2 DEF TypeInv
  <2>2. Len(sent[e]) \in Nat /\ Len(sent'[e]) \in Nat
    BY <2>1
  <2> QED  BY <1>3, <2>1, <2>2 DEF PlaceInv
<1>6. TakenInv'
  BY <1>1, <1>3 DEF TakenInv
<1> QED  BY <1>4, <1>5, <1>6

LEMMA ReadBytes == ASSUME ByteInv, NEW d \in Directions, CopyRead(d) PROVE ByteInv'
<1> USE DEF ByteInv
<1>1. UNCHANGED <<ctxDone, errs, handler, peer, conn, sent, passed, recorded, buf, found>>
      /\ copier[d] = "reading" /\ copier' = [copier EXCEPT ![d] = "writing"]
  BY DEF CopyRead, startVars, recordVars
<1>2. PICK n \in read[d] + 1 .. Len(sent[d]) : read' = [read EXCEPT ![d] = n]
  BY DEF CopyRead
<1>3. n \in Nat /\ read[d] < n /\ n <= Len(sent[d])
  BY <1>2 DEF TypeInv
<1>4. TypeInv'
  BY <1>1, <1>2, <1>3 DEF TypeInv
<1>5. PlaceInv'
  BY <1>1, <1>2, <1>3 DEF TypeInv, PlaceInv
<1>6. TakenInv'
  BY <1>1 DEF TakenInv
<1> QED  BY <1>4, <1>5, <1>6

LEMMA PassOn == ASSUME ByteInv, NEW d \in Directions, PassByte(d) PROVE ByteInv'
<1> USE DEF ByteInv
<1>1. UNCHANGED <<ctxDone, errs, handler, peer, conn, copier, sent, read, recorded, buf, found>>
      /\ copier[d] = "writing" /\ passed' = [passed EXCEPT ![d] = @ + 1] /\ passed[d] < read[d]
  BY DEF PassByte, startVars, recordVars
<1>2. TypeInv'
  BY <1>1 DEF TypeInv
<1>3. PlaceInv'
  BY <1>1 DEF TypeInv, PlaceInv
<1>4. TakenInv'
  BY <1>1 DEF TakenInv
<1> QED  BY <1>2, <1>3, <1>4

\* The interceptor's part of Write: it takes what was passed on since.
LEMMA RecordTakes ==
  ASSUME ByteInv, NEW d \in Directions, Record(d)
  PROVE  LET st == Took(SubSeq(sent[d], 1, passed[d]))
         IN  /\ st \in States
             /\ recorded' = [recorded EXCEPT ![d] = passed[d]]
             /\ buf' = [buf EXCEPT ![d] = st.buf] /\ found' = [found EXCEPT ![d] = st.found]
<1> DEFINE st == Took(SubSeq(sent[d], 1, passed[d]))
<1>1. /\ sent[d] \in Seq(Bytes) /\ recorded[d] \in Nat /\ passed[d] \in Nat
      /\ recorded[d] <= passed[d] /\ passed[d] <= Len(sent[d])
  <2>1. sent[d] \in Seq(Bytes) /\ recorded[d] \in Nat /\ passed[d] \in Nat /\ read[d] \in Nat
    BY DEF ByteInv, TypeInv
  <2>2. recorded[d] <= passed[d] /\ passed[d] <= read[d] /\ read[d] <= Len(sent[d])
    BY DEF ByteInv, PlaceInv
  <2> QED  BY <2>1, <2>2
<1>2. FoldLeft(Take, [buf |-> buf[d], found |-> found[d]], Written(d)) = st
  <2>1. Took(SubSeq(sent[d], 1, recorded[d])) = [buf |-> buf[d], found |-> found[d]]
    BY DEF ByteInv, TakenInv
  <2> QED  BY <1>1, <2>1, TookPieces DEF Written
<1>3. recorded[d] + Len(Written(d)) = passed[d]
  BY <1>1 DEF Written
<1>4. st \in States
  <2>1. SubSeq(sent[d], 1, passed[d]) \in Seq(Bytes)
    BY <1>1
  <2> QED  BY <2>1, TookType
<1> HIDE DEF st
<1>5. /\ recorded' = [recorded EXCEPT ![d] = passed[d]]
      /\ buf' = [buf EXCEPT ![d] = st.buf] /\ found' = [found EXCEPT ![d] = st.found]
  BY <1>2, <1>3 DEF Record
<1> QED  BY <1>4, <1>5 DEF st

LEMMA WriteEnds == ASSUME ByteInv, NEW d \in Directions, WriteReturns(d) PROVE ByteInv'
<1> DEFINE st == Took(SubSeq(sent[d], 1, passed[d]))
<1>1. /\ UNCHANGED <<ctxDone, errs, handler, peer, conn, sent, read, passed>>
      /\ \/ passed[d] = read[d] /\ copier' = [copier EXCEPT ![d] = "reading"]
         \/ copier' = [copier EXCEPT ![d] = "reporting"]
  BY DEF WriteReturns, startVars, byteVars
<1>2. /\ st \in States /\ recorded' = [recorded EXCEPT ![d] = passed[d]]
      /\ buf' = [buf EXCEPT ![d] = st.buf] /\ found' = [found EXCEPT ![d] = st.found]
  BY RecordTakes DEF WriteReturns
<1> HIDE DEF st
<1>3. st.buf \in Seq(Bytes) /\ st.found \in Seq(Seq(Bytes))
      /\ st = [buf |-> st.buf, found |-> st.found]
  BY <1>2 DEF States
<1>4. TypeInv'
  BY <1>1, <1>2, <1>3 DEF ByteInv, TypeInv
<1>5. PlaceInv'
  BY <1>1, <1>2 DEF ByteInv, TypeInv, PlaceInv
<1>6. TakenInv'
  <2> SUFFICES ASSUME NEW e \in Directions
               PROVE  Took(SubSeq(sent[e], 1, recorded'[e])) = [buf |-> buf'[e], found |-> found'[e]]
    BY <1>1 DEF TakenInv
  <2>1. CASE e = d
    <3>1. recorded'[e] = passed[d] /\ buf'[e] = st.buf /\ found'[e] = st.found
      BY <1>2, <2>1 DEF ByteInv, TypeInv
    <3> QED  BY <1>3, <2>1, <3>1 DEF st
  <2>2. CASE e # d
    <3>1. recorded'[e] = recorded[e] /\ buf'[e] = buf[e] /\ found'[e] = found[e]
      BY <1>2, <2>2 DEF ByteInv, TypeInv
    <3> QED  BY <3>1 DEF ByteInv, TakenInv
  <2> QED  BY <2>1, <2>2
<1> QED  BY <1>4, <1>5, <1>6 DEF ByteInv

\* The target is dialed once, and only then are there goroutines that copy; connections
\* are closed at the very end.
HandlerInv ==
  /\ handler \in {"none", "queued", "refused", "dialing"} => conn["target"] = "none"
  /\ handler = "serving" => conn["target"] = "open"
  /\ handler \in {"dialing", "serving", "closing", "done"} => conn["client"] # "none"
  /\ (\E p \in Peers : conn[p] = "closed") => handler = "done"
  /\ conn["target"] = "none" => errs = 0 /\ \A d \in Directions : copier[d] = "none"

LEMMA ByteStep == ASSUME ByteInv, HandlerInv, [Next]_vars PROVE ByteInv'
<1>1. CASE Connect
  BY <1>1, NoByteMoves DEF Connect, ByteInv, TypeInv, startVars, byteVars
<1>2. CASE Cancel \/ CloseListener \/ AcceptFails
  <2>1. /\ UNCHANGED <<errs, peer, conn, copier, sent, read, passed, recordVars>>
        /\ ctxDone' \in {ctxDone, TRUE} /\ handler' \in {handler, "refused"}
    BY <1>2 DEF Cancel, CloseListener, AcceptFails, Refused, byteVars
  <2> QED  BY <2>1, NoByteMoves DEF ByteInv, TypeInv
<1>3. CASE Accept
  BY <1>3, NoByteMoves DEF Accept, ByteInv, TypeInv, startVars, byteVars
<1>4. CASE DialOk
  <2>1. \A d \in Directions : copier'[d] = "reading" /\ copier[d] \in {"none", "reading"}
    BY <1>4 DEF DialOk, HandlerInv
  <2> QED  BY <1>4, <2>1, NoByteMoves DEF DialOk, ByteInv, TypeInv, startVars, byteVars
<1>5. CASE DialFails \/ StopServing
  <2>1. /\ UNCHANGED <<ctxDone, peer, conn, copier, sent, read, passed, recordVars>>
        /\ handler' = "closing" /\ errs' \in Nat
    BY <1>5 DEF DialFails, StopServing, CopyEnded, ByteInv, TypeInv, startVars, byteVars
  <2> QED  BY <2>1, NoByteMoves DEF ByteInv, TypeInv
<1>6. CASE CloseBoth
  BY <1>6, NoByteMoves DEF CloseBoth, ByteInv, TypeInv, startVars, byteVars
<1>7. ASSUME NEW p \in Peers, PeerLeaves(p) PROVE ByteInv'
  BY <1>7, NoByteMoves DEF PeerLeaves, ByteInv, TypeInv, startVars, byteVars
<1>8. ASSUME NEW d \in Directions, PeerReads(d) PROVE ByteInv'
  BY <1>8, NoByteMoves DEF PeerReads, ByteInv, TypeInv, startVars
<1>9. ASSUME NEW d \in Directions, CopyReadEnds(d) \/ Report(d) PROVE ByteInv'
  <2>1. /\ UNCHANGED <<ctxDone, handler, peer, conn, sent, read, passed, recordVars>>
        /\ copier[d] \in {"reading", "reporting"} /\ errs' \in Nat
        /\ \/ copier' = [copier EXCEPT ![d] = "reporting"]
           \/ copier' = [copier EXCEPT ![d] = "done"]
    BY <1>9 DEF CopyReadEnds, Report, ByteInv, TypeInv, startVars, byteVars
  <2> QED  BY <2>1, NoByteMoves DEF ByteInv, TypeInv
<1>10. CASE Finished \/ UNCHANGED vars
  BY <1>10, NoByteMoves DEF Finished, vars, ByteInv, TypeInv, recordVars
<1> QED
  BY <1>1, <1>2, <1>3, <1>4, <1>5, <1>6, <1>7, <1>8, <1>9, <1>10, WriteByte, ReadBytes, PassOn,
     WriteEnds DEF Next

-----------------------------------------------------------------------------
(***************************************************************************)
(* The inductive invariant: who ends the connection.                       *)
(***************************************************************************)
\* A copying goroutine has ended because its source left and all of it was passed on, or
\* because its sink left in the middle of a write.
Ended(d) == copier[d] \in {"reporting", "done"}
Cause(d) ==
  /\ Ended(d)
  /\ \/ peer[Source(d)] \in {"shut", "closed"} /\ passed[d] = Len(sent[d])
     \/ peer[Sink(d)] = "closed" /\ passed[d] < read[d]

\* Until the connections are closed, a goroutine ends for a cause; a result in errChan is
\* that of a goroutine; and without one, only the context makes handleConnection close.
CauseInv ==
  /\ \A d \in Directions : Ended(d) /\ handler # "done" => Cause(d)
  /\ errs > 0 => \E d \in Directions : copier[d] = "done"
  /\ handler \in {"closing", "done"} /\ conn["target"] # "none" /\ ~ctxDone =>
       \E d \in Directions : Cause(d)

SocketInv == ByteInv /\ HandlerInv /\ CauseInv

LEMMA SocketInit == Init => SocketInv
<1>1. Init => HandlerInv /\ CauseInv
  BY DEF Init, HandlerInv, CauseInv, Ended, Peers, Directions
<1> QED  BY <1>1, ByteInit DEF SocketInv

LEMMA HandlerKept == ASSUME ByteInv, HandlerInv, [Next]_vars PROVE HandlerInv'
<1> USE DEF HandlerInv
<1>1. CASE Connect \/ Cancel \/ CloseListener \/ AcceptFails
  <2>1. UNCHANGED <<errs, conn, copier>>
        /\ \/ handler' = handler
           \/ handler \in {"none", "queued"} /\ handler' \in {"queued", "refused"}
    BY <1>1 DEF Connect, Cancel, CloseListener, AcceptFails, Refused
  <2> QED  BY <2>1
<1>2. CASE Accept
  BY <1>2 DEF Accept, ByteInv, TypeInv, Peers
<1>3. CASE DialOk
  BY <1>3 DEF DialOk, ByteInv, TypeInv, Peers
<1>4. CASE DialFails \/ StopServing
  BY <1>4 DEF DialFails, StopServing
<1>5. CASE CloseBoth
  BY <1>5 DEF CloseBoth, ByteInv, TypeInv, Peers
<1>6. ASSUME NEW p \in Peers, PeerLeaves(p) PROVE HandlerInv'
  BY <1>6 DEF PeerLeaves
<1>7. ASSUME NEW d \in Directions, NEW byte \in Bytes, PeerWrites(d, byte) PROVE HandlerInv'
  BY <1>7 DEF PeerWrites
<1>8. ASSUME NEW d \in Directions, PeerReads(d) \/ PassByte(d) PROVE HandlerInv'
  BY <1>8 DEF PeerReads, PassByte
<1>9. ASSUME NEW d \in Directions, CopyRead(d) \/ CopyReadEnds(d) \/ WriteReturns(d) \/ Report(d)
      PROVE  HandlerInv'
  <2>1. copier[d] # "none" /\ UNCHANGED <<handler, conn>>
    BY <1>9 DEF CopyRead, CopyReadEnds, WriteReturns, Report
  <2>2. conn["target"] # "none"
    BY <2>1
  <2> QED  BY <2>1, <2>2
<1>10. CASE Finished \/ UNCHANGED vars
  BY <1>10 DEF Finished, vars
<1> QED
  BY <1>1, <1>2, <1>3, <1>4, <1>5, <1>6, <1>7, <1>8, <1>9, <1>10 DEF Next

\* A cause stays: who has left does not come back, and does not write.
LEMMA CauseStays ==
  ASSUME NEW d \in Directions, Cause(d), copier'[d] \in {copier[d], "done"},
         UNCHANGED <<read, passed>>, sent'[d] = sent[d] \/ peer[Source(d)] = "open",
         \A p \in Peers : /\ peer[p] = "closed" => peer'[p] = "closed"
                          /\ peer[p] = "shut" => peer'[p] \in {"shut", "closed"}
  PROVE  Cause(d)'
<1>1. Source(d) \in Peers /\ Sink(d) \in Peers
  BY DEF Source, Sink, Peers
<1>2. Ended(d)'
  BY DEF Cause, Ended
<1>3. CASE peer[Source(d)] \in {"shut", "closed"} /\ passed[d] = Len(sent[d])
  BY <1>1, <1>2, <1>3 DEF Cause, Source
<1>4. CASE peer[Sink(d)] = "closed" /\ passed[d] < read[d]
  BY <1>1, <1>2, <1>4 DEF Cause, Sink
<1> QED  BY <1>3, <1>4 DEF Cause

\* What leaves the copying goroutines and handleConnection alone.
LEMMA CauseQuiet ==
  ASSUME CauseInv, UNCHANGED <<copier, errs, read, passed>>,
         \A d \in Directions : sent'[d] = sent[d] \/ peer[Source(d)] = "open",
         \A p \in Peers : /\ peer[p] = "closed" => peer'[p] = "closed"
                          /\ peer[p] = "shut" => peer'[p] \in {"shut", "closed"},
         handler' # "done" => handler # "done",
         handler' \in {"closing", "done"} /\ conn'["target"] # "none" /\ ~ctxDone' =>
           handler \in {"closing", "done"} /\ conn["target"] # "none" /\ ~ctxDone
  PROVE  CauseInv'
<1>1. \A d \in Directions : Cause(d) => Cause(d)'
  BY CauseStays
<1>2. \A d \in Directions : Ended(d)' <=> Ended(d)
  BY DEF Ended
<1> QED  BY <1>1, <1>2 DEF CauseInv

\* A goroutine ends before the connections are closed: for a cause, and the rest stays.
LEMMA CauseEnds ==
  ASSUME ByteInv, HandlerInv, CauseInv, NEW d \in Directions, CopyReadEnds(d) \/ WriteReturns(d)
  PROVE  CauseInv'
<1>1. /\ UNCHANGED <<ctxDone, handler, peer, conn, errs, sent, read, passed>>
      /\ \/ copier' = [copier EXCEPT ![d] = "reading"]
         \/ copier' = [copier EXCEPT ![d] = "reporting"]
      /\ copier[d] \in {"reading", "writing"}
  BY DEF CopyReadEnds, WriteReturns, startVars, byteVars
<1>2. \A e \in Directions \ {d} : copier'[e] = copier[e]
  BY <1>1 DEF ByteInv, TypeInv
<1>3. copier'[d] \in {"reading", "reporting"}
  BY <1>1 DEF ByteInv, TypeInv
<1>4. \A e \in Directions : Cause(e) => Cause(e)'
  <2> SUFFICES ASSUME NEW e \in Directions, Cause(e) PROVE Cause(e)'
    OBVIOUS
  <2>1. e # d
    BY <1>1 DEF Cause, Ended
  <2> QED  BY <1>1, <1>2, <2>1, CauseStays
<1>5. copier'[d] = "reporting" /\ handler # "done" => Cause(d)'
  <2> SUFFICES ASSUME copier'[d] = "reporting", handler # "done" PROVE Cause(d)'
    OBVIOUS
  <2>1. Source(d) \in Peers /\ Sink(d) \in Peers
    BY DEF Source, Sink, Peers
  <2>2. \A p \in Peers : conn[p] # "closed"
    BY DEF HandlerInv
  <2>3. CASE CopyReadEnds(d)
    <3>1. peer[Source(d)] \in {"shut", "closed"} /\ read[d] = Len(sent[d])
          /\ copier[d] = "reading"
      BY <2>1, <2>2, <2>3 DEF CopyReadEnds
    <3>2. passed[d] = read[d]
      BY <3>1 DEF ByteInv, PlaceInv
    <3> QED  BY <1>1, <3>1, <3>2 DEF Cause, Ended, Source
  <2>4. CASE WriteReturns(d)
    <3>1. passed[d] < read[d] /\ ~SinkOpen(d)
      BY <2>4 DEF WriteReturns, ByteInv, TypeInv
    <3>2. conn[Sink(d)] = "open"
      <4>1. copier[d] # "none"
        BY <1>1
      <4>2. conn["target"] # "none" /\ conn["client"] # "none"
        BY <4>1 DEF HandlerInv, ByteInv, TypeInv
      <4> QED  BY <2>1, <2>2, <4>2 DEF Peers, ByteInv, TypeInv
    <3> QED  BY <1>1, <3>1, <3>2 DEF SinkOpen, Cause, Ended, Sink
  <2> QED  BY <2>3, <2>4
<1>6. \A e \in Directions : copier[e] = "done" => copier'[e] = "done"
  BY <1>1, <1>2
<1>7. ASSUME NEW e \in Directions, Ended(e)', handler' # "done" PROVE Cause(e)'
  <2>1. CASE e = d
    BY <1>1, <1>3, <1>5, <1>7, <2>1 DEF Ended
  <2>2. CASE e # d
    BY <1>1, <1>2, <1>4, <1>7, <2>2 DEF CauseInv, Ended
  <2> QED  BY <2>1, <2>2
<1> QED  BY <1>1, <1>4, <1>6, <1>7 DEF CauseInv

LEMMA CauseReported == ASSUME ByteInv, CauseInv, NEW d \in Directions, Report(d) PROVE CauseInv'
<1>1. /\ UNCHANGED <<ctxDone, handler, peer, conn, sent, read, passed>>
      /\ copier[d] = "reporting" /\ copier' = [copier EXCEPT ![d] = "done"]
  BY DEF Report, startVars, byteVars
<1>2. copier'[d] = "done" /\ \A e \in Directions : copier'[e] \in {copier[e], "done"}
      /\ (Ended(e)' <=> Ended(e))
  BY <1>1 DEF ByteInv, TypeInv, Ended
<1>3. \A e \in Directions : Cause(e) => Cause(e)'
  BY <1>1, <1>2, CauseStays
<1> QED  BY <1>1, <1>2, <1>3 DEF CauseInv

LEMMA CauseStep == ASSUME ByteInv, HandlerInv, CauseInv, [Next]_vars PROVE CauseInv'
<1>1. CASE Connect
  <2>1. \A d \in Directions : copier[d] = "none" /\ copier'[d] = "none"
    BY <1>1 DEF Connect, HandlerInv
  <2>2. errs = 0 /\ errs' = 0 /\ handler' = "queued"
    BY <1>1 DEF Connect, HandlerInv
  <2> QED  BY <2>1, <2>2 DEF CauseInv, Ended
<1>2. CASE Cancel \/ CloseListener \/ AcceptFails
  <2>1. /\ UNCHANGED <<peer, conn, copier, errs, sent, read, passed>>
        /\ handler' \in {handler, "refused"} /\ (ctxDone' = ctxDone \/ ctxDone' = TRUE)
        /\ handler' # handler => handler = "queued"
    BY <1>2 DEF Cancel, CloseListener, AcceptFails, Refused, byteVars
  <2> QED  BY <2>1, CauseQuiet
<1>3. CASE Accept
  BY <1>3, CauseQuiet DEF Accept, startVars, byteVars
<1>4. CASE DialOk
  <2>1. \A d \in Directions : copier'[d] = "reading"
    BY <1>4 DEF DialOk
  <2>2. errs' = 0 /\ handler' = "serving"
    BY <1>4 DEF DialOk, HandlerInv
  <2> QED  BY <2>1, <2>2 DEF CauseInv, Ended
<1>5. CASE DialFails
  <2>1. conn'["target"] = "none"
    BY <1>5 DEF DialFails, HandlerInv
  <2> QED  BY <1>5, <2>1, CauseQuiet DEF DialFails, startVars, byteVars
<1>6. CASE StopServing
  <2>1. /\ UNCHANGED <<ctxDone, peer, conn, copier, sent, read, passed>>
        /\ handler = "serving" /\ handler' = "closing"
        /\ errs > 0 \/ ctxDone
        /\ errs' > 0 => errs > 0
    BY <1>6 DEF StopServing, CopyEnded, Cancelled, startVars, byteVars, ByteInv, TypeInv
  <2>2. \A d \in Directions : (Cause(d)' <=> Cause(d)) /\ (Ended(d)' <=> Ended(d))
    BY <2>1 DEF Cause, Ended, Source, Sink
  <2>3. errs > 0 => \E d \in Directions : Cause(d)
    BY <2>1 DEF CauseInv, Ended
  <2> QED  BY <2>1, <2>2, <2>3 DEF CauseInv
<1>7. CASE CloseBoth
  <2>1. /\ UNCHANGED <<ctxDone, peer, copier, errs, sent, read, passed>>
        /\ handler = "closing" /\ handler' = "done"
    BY <1>7 DEF CloseBoth, startVars, byteVars
  <2>2. conn'["target"] # "none" => conn["target"] # "none"
    BY <1>7 DEF CloseBoth, Peers
  <2>3. \A d \in Directions : Cause(d) => Cause(d)'
    BY <2>1, CauseStays
  <2> QED  BY <2>1, <2>2, <2>3 DEF CauseInv
<1>8. ASSUME NEW p \in Peers, PeerLeaves(p) PROVE CauseInv'
  <2>1. /\ UNCHANGED <<ctxDone, handler, conn, copier, errs, sent, read, passed>>
        /\ \A q \in Peers : /\ peer[q] = "closed" => peer'[q] = "closed"
                            /\ peer[q] = "shut" => peer'[q] \in {"shut", "closed"}
    BY <1>8 DEF PeerLeaves, startVars, byteVars, ByteInv, TypeInv
  <2> QED  BY <2>1, CauseQuiet
<1>9. ASSUME NEW d \in Directions, NEW byte \in Bytes, PeerWrites(d, byte) PROVE CauseInv'
  <2>1. /\ UNCHANGED <<ctxDone, handler, peer, conn, copier, errs, read, passed>>
        /\ \A e \in Directions : sent'[e] = sent[e] \/ peer[Source(e)] = "open"
    BY <1>9 DEF PeerWrites, startVars, ByteInv, TypeInv
  <2> QED  BY <2>1, CauseQuiet
<1>10. ASSUME NEW d \in Directions, PeerReads(d) PROVE CauseInv'
  BY <1>10, CauseQuiet DEF PeerReads, startVars
<1>11. ASSUME NEW d \in Directions, CopyRead(d) \/ PassByte(d) PROVE CauseInv'
  <2>1. /\ UNCHANGED <<ctxDone, handler, peer, conn, errs, sent>>
        /\ copier[d] \in {"reading", "writing"} /\ copier'[d] \in {"reading", "writing"}
        /\ \A e \in Directions \ {d} :
             copier'[e] = copier[e] /\ read'[e] = read[e] /\ passed'[e] = passed[e]
    BY <1>11 DEF CopyRead, PassByte, startVars, ByteInv, TypeInv
  <2>2. \A e \in Directions : (Cause(e)' <=> Cause(e)) /\ (Ended(e)' <=> Ended(e))
                              /\ (copier'[e] = "done" <=> copier[e] = "done")
    BY <2>1 DEF Cause, Ended, Source, Sink
  <2> QED  BY <2>1, <2>2 DEF CauseInv
<1>12. CASE Finished \/ UNCHANGED vars
  BY <1>12, CauseQuiet DEF Finished, vars
<1> QED
  BY <1>1, <1>2, <1>3, <1>4, <1>5, <1>6, <1>7, <1>8, <1>9, <1>10, <1>11, <1>12, CauseEnds,
     CauseReported DEF Next

LEMMA SocketAlways == Spec => []SocketInv
<1>1. SocketInv /\ [Next]_vars => SocketInv'
  BY ByteStep, HandlerKept, CauseStep DEF SocketInv
<1> QED  BY <1>1, SocketInit, PTL DEF Spec

-----------------------------------------------------------------------------
\* Whatever the pieces in which io.Copy reads a stream, wherever a write fails, and
\* whatever the other direction and handleConnection do meanwhile: between two writes
\* the captured lines are those of the bytes that were passed on.
THEOREM SocketSeenIsPassed == Spec => []SeenIsPassed
<1>1. SocketInv => SeenIsPassed
  <2> SUFFICES ASSUME SocketInv, NEW d \in Directions, copier[d] # "writing"
               PROVE  found[d] = LinesOf(SubSeq(sent[d], 1, passed[d]))
    BY DEF SeenIsPassed
  <2> DEFINE bytes == SubSeq(sent[d], 1, passed[d])
  <2>1. recorded[d] = passed[d] /\ passed[d] <= read[d] /\ read[d] <= Len(sent[d])
    BY DEF SocketInv, ByteInv, PlaceInv
  <2>2. bytes \in Seq(Bytes)
    BY <2>1 DEF SocketInv, ByteInv, TypeInv
  <2>3. Took(bytes) = [buf |-> buf[d], found |-> found[d]]
    BY <2>1 DEF SocketInv, ByteInv, TakenInv
  <2>4. Took(bytes).found = found[d]
    BY <2>3
  <2> QED  BY <2>2, <2>4, TookIsLines
<1> QED  BY <1>1, SocketAlways, PTL

\* handleConnection closes both connections as soon as one goroutine has ended; even so,
\* what a program wrote before it left was passed on to the last byte.
THEOREM SocketLastWordsPassed == Spec => []LastWordsPassed
<1>1. SocketInv => LastWordsPassed
  <2> SUFFICES ASSUME SocketInv, NEW d \in Directions, handler \in {"closing", "done"},
                      conn["target"] # "none", ~ctxDone, sent[Opposite(d)] = <<>>,
                      peer[Sink(d)] = "open"
               PROVE  passed[d] = Len(sent[d])
    BY DEF LastWordsPassed
  <2>1. PICK e \in Directions : Cause(e)
    BY DEF SocketInv, CauseInv
  <2>2. CASE e = d
    BY <2>1, <2>2 DEF Cause
  <2>3. CASE e # d
    <3>1. e = Opposite(d) /\ Source(e) = Sink(d)
      BY <2>3 DEF Directions, Opposite, Source, Sink
    <3>2. passed[e] < read[e]
      BY <2>1, <3>1 DEF Cause
    <3>3. read[e] <= Len(sent[e]) /\ Len(sent[e]) = 0
      BY <3>1 DEF SocketInv, ByteInv, PlaceInv
    <3>4. passed[e] \in Nat /\ read[e] \in Nat
      BY DEF SocketInv, ByteInv, TypeInv
    <3> QED  BY <3>2, <3>3, <3>4
  <2> QED  BY <2>2, <2>3
<1> QED  BY <1>1, SocketAlways, PTL

=============================================================================
