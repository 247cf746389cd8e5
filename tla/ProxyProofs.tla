---------------------------- MODULE ProxyProofs ----------------------------
(***************************************************************************)
(* For bodies of any length, cut in any way, and buffers of any size: the  *)
(* messages that are captured are those of the complete lines that were    *)
(* handed on, an exchange is aborted for long lines only, and a request    *)
(* that the target waits for is captured before the answer.                *)
(***************************************************************************)
EXTENDS Proxy, WellFoundedInduction, TLAPS

-----------------------------------------------------------------------------
(***************************************************************************)
(* Folding a sequence.  A fold is defined by recursion over the subsets of *)
(* the sequence's places; that this recursion defines anything, and that   *)
(* its values at 1 .. n follow from each other, takes an induction, which  *)
(* the well-foundedness of the natural numbers gives.                      *)
(***************************************************************************)
\* A property of natural numbers that zero has and that every successor takes over.
LEMMA Induction ==
  ASSUME NEW Good, 0 \in Good, \A n \in Nat : n \in Good => n + 1 \in Good
  PROVE  Nat \subseteq Good
<1> SUFFICES ASSUME Nat \ Good # {} PROVE FALSE
  OBVIOUS
<1>1. PICK n \in Nat \ Good : \A m \in Nat \ Good : ~(m < n)
  <2>1. PICK n \in Nat \ Good : \A m \in Nat \ Good : ~(<<m, n>> \in OpToRel(<, Nat))
    BY NatLessThanWellFounded, WFMin
  <2> QED  BY <2>1 DEF OpToRel
<1>2. n # 0 /\ n - 1 \in Nat /\ n - 1 < n
  OBVIOUS
<1> QED  BY <1>1, <1>2

\* The greatest of some numbers up to n, if n is one of them.
LEMMA MaxIsTop ==
  ASSUME NEW n \in Nat, NEW S \in SUBSET (1 .. n), n \in S PROVE Max(S) = n
<1>1. \A x \in S : x \in 1 .. n
  OBVIOUS
<1>2. \A y \in S : n >= y
  BY <1>1
<1>3. \A x \in S : (\A y \in S : x >= y) => x = n
  BY <1>1
<1> QED  BY <1>2, <1>3 DEF Max

\* The recursion by which a step function F is folded over a sequence, and that it has
\* a solution.
FoldedBy(F, base, seq, g) ==
  \A S \in SUBSET (1 .. Len(seq)) :
    /\ g[S] = IF S = {} THEN base ELSE F[<<g[S \ {Max(S)}], seq[Max(S)]>>]
    /\ S # {} => Max(S) \in S

LEMMA FoldExists ==
  ASSUME NEW A, NEW E, NEW F \in [A \X E -> A], NEW base \in A, NEW seq \in Seq(E)
  PROVE  \E g \in [SUBSET (1 .. Len(seq)) -> A] : FoldedBy(F, base, seq, g)
<1> DEFINE Solves(g, n) ==
             \A S \in SUBSET (1 .. n) :
               /\ g[S] = IF S = {} THEN base ELSE F[<<g[S \ {Max(S)}], seq[Max(S)]>>]
               /\ S # {} => Max(S) \in S
           Solved(n) == \E g \in [SUBSET (1 .. n) -> A] : Solves(g, n)
           Good == {n \in Nat : n <= Len(seq) => Solved(n)}
<1>1. 0 \in Good
  <2> DEFINE g == [S \in SUBSET (1 .. 0) |-> base]
  <2>1. \A S \in SUBSET (1 .. 0) : S = {}
    OBVIOUS
  <2>2. g \in [SUBSET (1 .. 0) -> A]
    OBVIOUS
  <2>3. \A S \in SUBSET (1 .. 0) : g[S] = base
    OBVIOUS
  <2> HIDE DEF g
  <2>4. Solves(g, 0)
    BY <2>1, <2>3
  <2> QED  BY <2>2, <2>4
<1>2. ASSUME NEW n \in Nat, n \in Good PROVE n + 1 \in Good
  <2> HIDE DEF Solved
  <2> SUFFICES ASSUME n + 1 <= Len(seq) PROVE Solved(n + 1)
    OBVIOUS
  <2>0. Solved(n)
    BY <1>2
  <2> USE DEF Solved
  <2>1. PICK g \in [SUBSET (1 .. n) -> A] : Solves(g, n)
    BY <2>0
  <2> DEFINE h == [S \in SUBSET (1 .. n + 1) |->
                     IF n + 1 \in S THEN F[<<g[S \ {n + 1}], seq[n + 1]>>] ELSE g[S]]
  <2>2. seq[n + 1] \in E
    OBVIOUS
  <2>3. \A S \in SUBSET (1 .. n + 1) :
          /\ n + 1 \in S => S \ {n + 1} \in SUBSET (1 .. n)
          /\ n + 1 \notin S => S \in SUBSET (1 .. n)
    OBVIOUS
  <2>4. h \in [SUBSET (1 .. n + 1) -> A]
    <3> SUFFICES ASSUME NEW S \in SUBSET (1 .. n + 1) PROVE h[S] \in A
      OBVIOUS
    <3> QED  BY <2>1, <2>2, <2>3
  <2>5. \A S \in SUBSET (1 .. n) : h[S] = g[S]
    OBVIOUS
  <2>6. Solves(h, n + 1)
    <3> SUFFICES ASSUME NEW S \in SUBSET (1 .. n + 1)
                 PROVE  /\ h[S] = IF S = {} THEN base ELSE F[<<h[S \ {Max(S)}], seq[Max(S)]>>]
                        /\ S # {} => Max(S) \in S
      OBVIOUS
    <3>1. CASE n + 1 \in S
      <4>1. Max(S) = n + 1
        BY <3>1, MaxIsTop
      <4>2. h[S \ {n + 1}] = g[S \ {n + 1}]
        BY <2>3, <2>5, <3>1
      <4> QED  BY <3>1, <4>1, <4>2
    <3>2. CASE n + 1 \notin S
      <4>1. S \in SUBSET (1 .. n) /\ S \ {Max(S)} \in SUBSET (1 .. n)
        BY <2>3, <3>2
      <4>2. h[S] = g[S] /\ h[S \ {Max(S)}] = g[S \ {Max(S)}]
        BY <2>5, <4>1
      <4> HIDE DEF h
      <4> QED  BY <2>1, <4>1, <4>2
    <3> QED  BY <3>1, <3>2
  <2> QED  BY <2>4, <2>6
<1>3. Len(seq) \in Good
  <2>1. Len(seq) \in Nat
    OBVIOUS
  <2> HIDE DEF Good
  <2> QED  BY <1>1, <1>2, <2>1, Induction
<1>4. Solved(Len(seq))
  <2> HIDE DEF Solved
  <2> QED  BY <1>3
<1> QED  BY <1>4 DEF FoldedBy

-----------------------------------------------------------------------------
(***************************************************************************)
(* The interceptor's loop.                                                 *)
(***************************************************************************)
Captures == [dir : Directions, object : Objects]
States == [buf : Seq(Pieces), captured : Seq(Captures)]

\* A line has one message or none, and it is of the line's direction.
LEMMA MessageType ==
  ASSUME NEW d \in Directions, NEW line
  PROVE  \/ MessagesOf(d, line) = <<>>
         \/ \E m \in Captures : m.dir = d /\ MessagesOf(d, line) = <<m>>
<1> DEFINE text == TrimSpace(Payload(d, TrimPrefix(TrimSpace(line), "rs")))
<1> HIDE DEF text
<1>1. MessagesOf(d, line) = IF Len(text) = 1 /\ text[1] \in Objects
                            THEN <<[dir |-> d, object |-> text[1]]>> ELSE <<>>
  BY DEF MessagesOf, text
<1>2. CASE Len(text) = 1 /\ text[1] \in Objects
  <2>1. [dir |-> d, object |-> text[1]] \in Captures
    BY <1>2 DEF Captures
  <2> QED  BY <1>1, <1>2, <2>1
<1> QED  BY <1>1, <1>2

LEMMA TakeType ==
  ASSUME NEW d \in Directions, NEW st \in States, NEW piece \in Pieces
  PROVE  Take(d, st, piece) \in States
<1>1. st.buf \in Seq(Pieces) /\ st.captured \in Seq(Captures)
  BY DEF States
<1>2. MessagesOf(d, st.buf) \in Seq(Captures)
  <2>1. <<>> \in Seq(Captures) /\ \A m \in Captures : <<m>> \in Seq(Captures)
    OBVIOUS
  <2> QED  BY <2>1, MessageType
<1>3. st.captured \o MessagesOf(d, st.buf) \in Seq(Captures) /\ <<>> \in Seq(Pieces)
      /\ Append(st.buf, piece) \in Seq(Pieces)
  BY <1>1, <1>2
<1>4. CASE piece = "lf"
  BY <1>3, <1>4 DEF Take, States
<1>5. CASE piece # "lf"
  BY <1>3, <1>5 DEF Take, States
<1> QED  BY <1>4, <1>5

\* The states after a sequence's beginnings follow from each other.
TakesFrom(d, base, data, f) ==
  /\ f[0] = base
  /\ \A i \in 1 .. Len(data) : f[i] = Take(d, f[i - 1], data[i])

\* The interceptor takes one piece after the other.
LEMMA TakeSteps ==
  ASSUME NEW d \in Directions, NEW data \in Seq(Pieces), NEW base \in States
  PROVE  \E f \in [0 .. Len(data) -> States] :
           TakesFrom(d, base, data, f) /\ Split(d, base, data) = f[Len(data)]
<1> DEFINE F == [p \in States \X Pieces |-> Take(d, p[1], p[2])]
           places == 1 .. Len(data)
           It == CHOOSE it : it = [S \in SUBSET places |->
                   IF S = {} THEN base ELSE Take(d, it[S \ {Max(S)}], data[Max(S)])]
<1>1. Split(d, base, data) = It[places]
  <2>1. DOMAIN data = places
    OBVIOUS
  <2> QED  BY <2>1 DEF Split, FoldLeft, MapThenFoldSet
<1>2. F \in [States \X Pieces -> States]
  BY TakeType
<1>3. PICK g \in [SUBSET places -> States] : FoldedBy(F, base, data, g)
  <2> HIDE DEF F
  <2> QED  BY <1>2, FoldExists
<1>4. \A S \in SUBSET places :
        g[S] = IF S = {} THEN base ELSE Take(d, g[S \ {Max(S)}], data[Max(S)])
  <2> SUFFICES ASSUME NEW S \in SUBSET places, S # {}
               PROVE  g[S] = Take(d, g[S \ {Max(S)}], data[Max(S)])
    BY <1>3 DEF FoldedBy
  <2>1. g[S] = F[<<g[S \ {Max(S)}], data[Max(S)]>>] /\ Max(S) \in S
    BY <1>3 DEF FoldedBy
  <2>2. S \ {Max(S)} \in SUBSET places /\ Max(S) \in 1 .. Len(data)
    BY <2>1
  <2>3. g[S \ {Max(S)}] \in States /\ data[Max(S)] \in Pieces
    BY <1>3, <2>2
  <2> QED  BY <2>1, <2>3
<1>5. It = [S \in SUBSET places |->
              IF S = {} THEN base ELSE Take(d, It[S \ {Max(S)}], data[Max(S)])]
  <2>1. g = [S \in SUBSET places |->
              IF S = {} THEN base ELSE Take(d, g[S \ {Max(S)}], data[Max(S)])]
    BY <1>3, <1>4
  <2>2. \E it : it = [S \in SUBSET places |->
              IF S = {} THEN base ELSE Take(d, it[S \ {Max(S)}], data[Max(S)])]
    BY <2>1
  <2> QED  BY <2>2
<1> HIDE DEF It, F
<1> DEFINE f == [i \in 0 .. Len(data) |-> It[1 .. i]]
<1>6. f[0] = base /\ It[places] = f[Len(data)]
  <2>1. 1 .. 0 = {} /\ {} \in SUBSET places
    OBVIOUS
  <2>2. It[{}] = base
    BY <1>5, <2>1
  <2> QED  BY <2>1, <2>2
<1>7. ASSUME NEW i \in 1 .. Len(data) PROVE f[i] = Take(d, f[i - 1], data[i])
  <2>1. Max(1 .. i) = i
    BY MaxIsTop
  <2>2. (1 .. i) \ {i} = 1 .. i - 1 /\ (1 .. i) \in SUBSET places /\ 1 .. i # {}
    <3>1. i \in Nat /\ 1 <= i /\ i <= Len(data) /\ Len(data) \in Nat
      OBVIOUS
    <3>2. (1 .. i) \ {i} = 1 .. i - 1
      BY <3>1
    <3>3. 1 .. i \subseteq 1 .. Len(data) /\ i \in 1 .. i
      BY <3>1
    <3> QED  BY <3>2, <3>3
  <2>3. It[1 .. i] = Take(d, It[(1 .. i) \ {Max(1 .. i)}], data[Max(1 .. i)])
    BY <1>5, <2>2
  <2>4. f[i] = It[1 .. i] /\ f[i - 1] = It[1 .. i - 1]
    OBVIOUS
  <2> HIDE DEF f
  <2> QED  BY <2>1, <2>2, <2>3, <2>4
<1>8. f \in [0 .. Len(data) -> States]
  <2> DEFINE Good == {i \in Nat : i <= Len(data) => f[i] \in States}
  <2> HIDE DEF f
  <2>1. 0 \in Good
    BY <1>2, <1>6
  <2>2. ASSUME NEW i \in Nat, i \in Good PROVE i + 1 \in Good
    <3> SUFFICES ASSUME i + 1 <= Len(data) PROVE f[i + 1] \in States
      OBVIOUS
    <3>1. i + 1 \in 1 .. Len(data) /\ f[(i + 1) - 1] \in States /\ data[i + 1] \in Pieces
      BY <2>2
    <3> QED  BY <1>7, <3>1, TakeType
  <2>3. Nat \subseteq Good
    <3> HIDE DEF Good
    <3> QED  BY <2>1, <2>2, Induction
  <2>4. \A i \in 0 .. Len(data) : i \in Nat /\ f[i] \in States
    BY <2>3
  <2> QED  BY <2>4 DEF f
<1> HIDE DEF f
<1>9. TakesFrom(d, base, data, f)
  BY <1>6, <1>7 DEF TakesFrom
<1> QED  BY <1>1, <1>6, <1>8, <1>9

-----------------------------------------------------------------------------
(***************************************************************************)
(* Lines by their places.                                                  *)
(***************************************************************************)
Feeds(s, i) == {j \in 1 .. Len(s) : j < i /\ s[j] = "lf"}
Before(s, i) == Max({0} \union Feeds(s, i))

\* The last line feed before a place: 0 before the first place, the place before, if there
\* is one, or what it was there.
LEMMA BeforeSteps ==
  ASSUME NEW s \in Seq(Pieces)
  PROVE  /\ Before(s, 1) = 0
         /\ \A i \in 1 .. Len(s) :
              Before(s, i + 1) = IF s[i] = "lf" THEN i ELSE Before(s, i)
<1>1. Len(s) \in Nat
  OBVIOUS
<1>2. Before(s, 1) = 0
  <2>1. {0} \union Feeds(s, 1) = {0}
    BY <1>1 DEF Feeds
  <2>2. Max({0}) = 0
    BY DEF Max
  <2> QED  BY <2>1, <2>2 DEF Before
<1>3. ASSUME NEW i \in 1 .. Len(s), s[i] = "lf" PROVE Before(s, i + 1) = i
  <2> DEFINE S == {0} \union Feeds(s, i + 1)
  <2>1. i \in S /\ \A j \in S : j \in Nat /\ j <= i
    BY <1>1, <1>3 DEF Feeds
  <2> HIDE DEF S
  <2>2. \A x \in S : (\A y \in S : x >= y) => x = i
    BY <2>1
  <2>3. \A y \in S : i >= y
    BY <2>1
  <2>4. Max(S) = i
    BY <2>1, <2>2, <2>3 DEF Max
  <2> QED  BY <2>4 DEF S, Before
<1>4. ASSUME NEW i \in 1 .. Len(s), s[i] # "lf" PROVE Before(s, i + 1) = Before(s, i)
  <2>1. \A j \in 1 .. Len(s) : s[j] = "lf" => (j < i + 1 <=> j < i)
    BY <1>4
  <2>2. Feeds(s, i + 1) = Feeds(s, i)
    BY <2>1 DEF Feeds
  <2> QED  BY <2>2 DEF Before
<1> QED  BY <1>2, <1>3, <1>4

LEMMA BeforeType ==
  ASSUME NEW s \in Seq(Pieces), NEW n \in 0 .. Len(s)
  PROVE  Before(s, n + 1) \in 0 .. n
<1> DEFINE Good == {i \in Nat : i <= Len(s) => Before(s, i + 1) \in 0 .. i}
<1>1. 0 \in Good
  <2>1. Before(s, 0 + 1) = 0
    BY BeforeSteps
  <2> QED  BY <2>1
<1>2. ASSUME NEW i \in Nat, i \in Good PROVE i + 1 \in Good
  <2> SUFFICES ASSUME i + 1 <= Len(s) PROVE Before(s, (i + 1) + 1) \in 0 .. i + 1
    OBVIOUS
  <2>1. Before(s, i + 1) \in 0 .. i /\ i + 1 \in 1 .. Len(s)
    BY <1>2
  <2>2. Before(s, (i + 1) + 1) = i + 1 \/ Before(s, (i + 1) + 1) = Before(s, i + 1)
    BY <2>1, BeforeSteps
  <2> QED  BY <2>1, <2>2
<1>3. Nat \subseteq Good
  <2> HIDE DEF Good
  <2> QED  BY <1>1, <1>2, Induction
<1> QED  BY <1>3

LEMMA LineAtType ==
  ASSUME NEW s \in Seq(Pieces), NEW n \in 0 .. Len(s)
  PROVE  /\ LineAt(s, n + 1) = SubSeq(s, Before(s, n + 1) + 1, n)
         /\ LineAt(s, n + 1) \in Seq(Pieces)
         /\ Len(LineAt(s, n + 1)) = n - Before(s, n + 1)
<1>1. LineAt(s, n + 1) = SubSeq(s, Before(s, n + 1) + 1, n)
  <2>1. (n + 1) - 1 = n
    OBVIOUS
  <2> QED  BY <2>1 DEF LineAt, Before, Feeds
<1>2. ASSUME NEW b \in 0 .. n
      PROVE  SubSeq(s, b + 1, n) \in Seq(Pieces) /\ Len(SubSeq(s, b + 1, n)) = n - b
  OBVIOUS
<1>3. Before(s, n + 1) \in 0 .. n
  BY BeforeType
<1> QED  BY <1>1, <1>2, <1>3

\* The line that begins at a place is empty after a line feed, or has one piece more.
LEMMA LineAtSteps ==
  ASSUME NEW s \in Seq(Pieces)
  PROVE  /\ LineAt(s, 1) = <<>>
         /\ \A i \in 1 .. Len(s) :
              LineAt(s, i + 1) = IF s[i] = "lf" THEN <<>> ELSE Append(LineAt(s, i), s[i])
<1>1. LineAt(s, 1) = <<>>
  <2>1. LineAt(s, 0 + 1) = SubSeq(s, Before(s, 0 + 1) + 1, 0) /\ Before(s, 0 + 1) = 0
    BY LineAtType, BeforeSteps
  <2> QED  BY <2>1
<1>2. ASSUME NEW i \in 1 .. Len(s)
      PROVE  LineAt(s, i + 1) = IF s[i] = "lf" THEN <<>> ELSE Append(LineAt(s, i), s[i])
  <2>1. i - 1 \in 0 .. Len(s) /\ i \in 0 .. Len(s) /\ (i - 1) + 1 = i
    OBVIOUS
  <2> DEFINE b == Before(s, i)
  <2>2. b \in 0 .. i - 1 /\ LineAt(s, i) = SubSeq(s, b + 1, i - 1)
    <3>1. Before(s, (i - 1) + 1) \in 0 .. i - 1
          /\ LineAt(s, (i - 1) + 1) = SubSeq(s, Before(s, (i - 1) + 1) + 1, i - 1)
      BY <2>1, BeforeType, LineAtType
    <3> QED  BY <2>1, <3>1
  <2>3. LineAt(s, i + 1) = SubSeq(s, Before(s, i + 1) + 1, i)
    BY <2>1, LineAtType
  <2>4. Before(s, i + 1) = IF s[i] = "lf" THEN i ELSE b
    BY BeforeSteps
  <2> HIDE DEF b
  <2>5. CASE s[i] = "lf"
    <3>1. SubSeq(s, i + 1, i) = <<>>
      OBVIOUS
    <3> QED  BY <2>3, <2>4, <2>5, <3>1
  <2>6. CASE s[i] # "lf"
    <3>1. SubSeq(s, b + 1, i) = Append(SubSeq(s, b + 1, i - 1), s[i])
      BY <2>2
    <3> QED  BY <2>2, <2>3, <2>4, <2>6, <3>1
  <2> QED  BY <2>5, <2>6
<1> QED  BY <1>1, <1>2

\* A line goes on until a line feed or the end, and does not become shorter.
LEMMA LinesGoOn ==
  ASSUME NEW s \in Seq(Pieces), NEW n \in 0 .. Len(s)
  PROVE  \E i \in 1 .. Len(s) + 1 :
           /\ i <= Len(s) => s[i] = "lf"
           /\ Len(LineAt(s, i)) >= Len(LineAt(s, n + 1))
<1> DEFINE Ends(i) == i <= Len(s) => s[i] = "lf"
           Long(i) == Len(LineAt(s, i)) >= Len(LineAt(s, n + 1))
           Found == \E i \in 1 .. Len(s) + 1 : Ends(i) /\ Long(i)
           Good == {k \in Nat : Found \/ (n + 1 + k <= Len(s) + 1 => Long(n + 1 + k))}
<1>1. \A k \in 0 .. Len(s) : Len(LineAt(s, k + 1)) \in Nat
  BY LineAtType
<1>2. 0 \in Good
  <2>1. Len(LineAt(s, n + 1)) \in Nat /\ n + 1 + 0 = n + 1
    BY <1>1
  <2> QED  BY <2>1
<1>3. ASSUME NEW k \in Nat, k \in Good PROVE k + 1 \in Good
  <2> SUFFICES ASSUME ~Found, n + 1 + (k + 1) <= Len(s) + 1 PROVE Long(n + 1 + (k + 1))
    OBVIOUS
  <2> DEFINE i == n + 1 + k
  <2>1. i \in 1 .. Len(s) /\ i \in 1 .. Len(s) + 1 /\ n + 1 + (k + 1) = i + 1
        /\ i - 1 \in 0 .. Len(s) /\ (i - 1) + 1 = i
    OBVIOUS
  <2>2. Long(i)
    BY <1>3, <2>1
  <2>3. s[i] # "lf"
    BY <2>1, <2>2
  <2>4. LineAt(s, i + 1) = Append(LineAt(s, i), s[i])
    BY <2>1, <2>3, LineAtSteps
  <2>5. LineAt(s, i) \in Seq(Pieces) /\ Len(LineAt(s, n + 1)) \in Nat
    <3>1. LineAt(s, (i - 1) + 1) \in Seq(Pieces)
      BY <2>1, LineAtType
    <3> QED  BY <1>1, <2>1, <3>1
  <2> HIDE DEF i
  <2>6. Len(LineAt(s, i + 1)) = Len(LineAt(s, i)) + 1 /\ Len(LineAt(s, i)) \in Nat
    BY <2>4, <2>5
  <2>7. Long(i + 1)
    BY <2>2, <2>5, <2>6
  <2> QED  BY <2>1, <2>7
<1>4. Len(s) - n \in Good
  <2> HIDE DEF Good
  <2>1. Len(s) - n \in Nat
    OBVIOUS
  <2> QED  BY <1>2, <1>3, <2>1, Induction
<1>5. n + 1 + (Len(s) - n) = Len(s) + 1 /\ Len(s) \in Nat
  OBVIOUS
<1>6. Found \/ Long(Len(s) + 1)
  BY <1>4, <1>5
<1> HIDE DEF Long
<1>7. Found
  BY <1>5, <1>6
<1> QED  BY <1>7 DEF Long

-----------------------------------------------------------------------------
(***************************************************************************)
(* What is captured and the lines it comes from.                           *)
(***************************************************************************)
\* The messages of a direction among those captured, and the places of some that tell one.
From(c, d) == {j \in DOMAIN c : c[j].dir = d}
TellingAt(d, E) == {i \in E : MessageAt(d, i) # <<>>}

Places(c, d, E, place) ==
  /\ place \in [From(c, d) -> TellingAt(d, E)]
  /\ \A j, k \in From(c, d) : j < k => place[j] < place[k]
  /\ \A i \in TellingAt(d, E) : \E j \in From(c, d) : place[j] = i
  /\ \A j \in From(c, d) : MessageAt(d, place[j]) = <<c[j]>>

Matches(c, d, E) == \E place : Places(c, d, E, place)

LEMMA MatchesIsProperty ==
  CapturedIsPassed <=> \A d \in Directions : Matches(captured, d, LineEnds(d))
BY DEF CapturedIsPassed, Matches, Places, From, TellingAt, CapturedOf, Telling

\* A line that ends behind all others adds its message, or nothing.
LEMMA MatchesStep ==
  ASSUME NEW d \in Directions, NEW c \in Seq(Captures), NEW E \in SUBSET Nat, NEW i \in Nat,
         \A k \in E : k < i, Matches(c, d, E)
  PROVE  Matches(c \o MessageAt(d, i), d, E \union {i})
<1>1. PICK place : Places(c, d, E, place)
  BY DEF Matches
<1>2. CASE MessageAt(d, i) = <<>>
  <2>1. TellingAt(d, E \union {i}) = TellingAt(d, E)
    BY <1>2 DEF TellingAt
  <2>2. c \o MessageAt(d, i) = c
    BY <1>2
  <2> QED  BY <1>1, <2>1, <2>2 DEF Matches, Places
<1>3. ASSUME NEW m \in Captures, m.dir = d, MessageAt(d, i) = <<m>>
      PROVE  Matches(c \o MessageAt(d, i), d, E \union {i})
  <2> DEFINE n == Len(c) + 1
             c2 == Append(c, m)
             place2 == [j \in From(c, d) \union {n} |-> IF j = n THEN i ELSE place[j]]
  <2>1. /\ c \o MessageAt(d, i) = c2 /\ n \in Nat /\ DOMAIN c = 1 .. n - 1
        /\ DOMAIN c2 = 1 .. n /\ c2[n] = m /\ \A j \in DOMAIN c : c2[j] = c[j]
    BY <1>3
  <2> HIDE DEF n, c2
  <2>2. /\ From(c2, d) = From(c, d) \union {n}
        /\ \A j \in From(c, d) : j \in Nat /\ j < n /\ c2[j] = c[j]
    BY <1>3, <2>1 DEF From
  <2>3. <<m>> # <<>>
    OBVIOUS
  <2>4. TellingAt(d, E \union {i}) = TellingAt(d, E) \union {i}
    BY <1>3, <2>3 DEF TellingAt
  <2>5. \A j \in From(c, d) : place[j] \in TellingAt(d, E) /\ place[j] \in Nat /\ place[j] < i
    BY <1>1 DEF Places, TellingAt
  <2>6. /\ place2[n] = i
        /\ \A j \in From(c, d) : place2[j] = place[j]
    BY <2>2
  <2>7. place2 \in [From(c2, d) -> TellingAt(d, E \union {i})]
    BY <2>2, <2>4, <2>5
  <2> HIDE DEF place2
  <2>8. \A j, k \in From(c2, d) : j < k => place2[j] < place2[k]
    <3> SUFFICES ASSUME NEW j \in From(c2, d), NEW k \in From(c2, d), j < k
                 PROVE  place2[j] < place2[k]
      OBVIOUS
    <3>1. j \in From(c, d)
      BY <2>1, <2>2
    <3>2. CASE k = n
      BY <2>5, <2>6, <3>1, <3>2
    <3>3. CASE k # n
      <4>1. k \in From(c, d)
        BY <2>2, <3>3
      <4> QED  BY <1>1, <2>6, <3>1, <4>1 DEF Places
    <3> QED  BY <3>2, <3>3
  <2>9. \A t \in TellingAt(d, E \union {i}) : \E j \in From(c2, d) : place2[j] = t
    <3> SUFFICES ASSUME NEW t \in TellingAt(d, E \union {i})
                 PROVE  \E j \in From(c2, d) : place2[j] = t
      OBVIOUS
    <3>1. CASE t = i
      BY <2>2, <2>6, <3>1
    <3>2. CASE t # i
      <4>1. PICK j \in From(c, d) : place[j] = t
        BY <1>1, <2>4, <3>2 DEF Places
      <4> QED  BY <2>2, <2>6, <4>1
    <3> QED  BY <3>1, <3>2
  <2>10. \A j \in From(c2, d) : MessageAt(d, place2[j]) = <<c2[j]>>
    <3> SUFFICES ASSUME NEW j \in From(c2, d) PROVE MessageAt(d, place2[j]) = <<c2[j]>>
      OBVIOUS
    <3>1. CASE j = n
      BY <1>3, <2>1, <2>6, <3>1
    <3>2. CASE j # n
      <4>1. j \in From(c, d)
        BY <2>2, <3>2
      <4> QED  BY <1>1, <2>2, <2>6, <4>1 DEF Places
    <3> QED  BY <3>1, <3>2
  <2>11. Places(c2, d, E \union {i}, place2)
    BY <2>7, <2>8, <2>9, <2>10 DEF Places
  <2> QED  BY <2>1, <2>11 DEF Matches
<1> QED  BY <1>2, <1>3, MessageType DEF MessageAt

\* One row of captures goes on as another one, with messages of one direction.
Extends(c, c2, d) ==
  /\ Len(c) <= Len(c2)
  /\ \A j \in 1 .. Len(c) : c2[j] = c[j]
  /\ \A j \in 1 .. Len(c2) : j > Len(c) => c2[j].dir = d

LEMMA ExtendsStep ==
  ASSUME NEW d \in Directions, NEW c \in Seq(Captures), NEW c2 \in Seq(Captures),
         Extends(c, c2, d), NEW line
  PROVE  Extends(c, c2 \o MessagesOf(d, line), d)
<1>1. CASE MessagesOf(d, line) = <<>>
  <2>1. c2 \o <<>> = c2
    OBVIOUS
  <2> QED  BY <1>1, <2>1
<1>2. ASSUME NEW m \in Captures, m.dir = d, MessagesOf(d, line) = <<m>>
      PROVE  Extends(c, c2 \o MessagesOf(d, line), d)
  <2> DEFINE c3 == c2 \o <<m>>
  <2>1. /\ Len(c3) = Len(c2) + 1 /\ c3[Len(c2) + 1] = m
        /\ \A j \in 1 .. Len(c2) : c3[j] = c2[j]
    OBVIOUS
  <2>2. Len(c) \in Nat /\ Len(c2) \in Nat
    OBVIOUS
  <2> HIDE DEF c3
  <2>3. Extends(c, c3, d)
    BY <1>2, <2>1, <2>2 DEF Extends
  <2> QED  BY <1>2, <2>3 DEF c3
<1> QED  BY <1>1, <1>2, MessageType

\* Messages of one direction change nothing for the other one.
LEMMA MatchesOther ==
  ASSUME NEW d \in Directions, NEW e \in Directions, e # d, NEW c \in Seq(Captures),
         NEW c2 \in Seq(Captures), Extends(c, c2, d), NEW E, Matches(c, e, E)
  PROVE  Matches(c2, e, E)
<1>1. DOMAIN c = 1 .. Len(c) /\ DOMAIN c2 = 1 .. Len(c2) /\ Len(c) \in Nat /\ Len(c2) \in Nat
  OBVIOUS
<1>2. From(c2, e) = From(c, e) /\ \A j \in From(c, e) : c2[j] = c[j]
  BY <1>1 DEF Extends, From
<1> QED  BY <1>2 DEF Matches, Places

\* Where lines of a body end, when n pieces of it were handed on.
EndsAt(d, n, how) ==
  {i \in 1 .. n : body[d][i] = "lf"} \union (IF how = "eof" THEN {n + 1} ELSE {})

LEMMA EndsStep ==
  ASSUME NEW d \in Directions, NEW n \in Nat
  PROVE  /\ EndsAt(d, n + 1, "open") =
              IF body[d][n + 1] = "lf" THEN EndsAt(d, n, "open") \union {n + 1}
                                       ELSE EndsAt(d, n, "open")
         /\ EndsAt(d, n, "eof") = EndsAt(d, n, "open") \union {n + 1}
<1>1. 1 .. n + 1 = (1 .. n) \union {n + 1} /\ \A k \in 1 .. n : k \in Nat /\ k < n + 1
  OBVIOUS
<1> QED  BY <1>1 DEF EndsAt

LEMMA EndsType ==
  ASSUME NEW d \in Directions, NEW n \in Nat
  PROVE  EndsAt(d, n, "open") \in SUBSET Nat /\ \A k \in EndsAt(d, n, "open") : k < n + 1
BY DEF EndsAt

\* The loop takes a line from the buffer when it is complete, and with it its message.
LEMMA SplitTakes ==
  ASSUME NEW d \in Directions, body[d] \in Seq(Pieces), NEW m \in Nat, NEW n \in Nat,
         m + n <= Len(body[d]), NEW st \in States, st.buf = LineAt(body[d], m + 1),
         Matches(st.captured, d, EndsAt(d, m, "open")),
         NEW r, r = Split(d, st, SubSeq(body[d], m + 1, m + n))
  PROVE  /\ r \in States
         /\ r.buf = LineAt(body[d], m + n + 1)
         /\ Matches(r.captured, d, EndsAt(d, m + n, "open"))
         /\ Extends(st.captured, r.captured, d)
         /\ n = 0 => r = st
<1> DEFINE data == SubSeq(body[d], m + 1, m + n)
<1>1. data \in Seq(Pieces) /\ Len(data) = n /\ \A i \in 1 .. n : data[i] = body[d][m + i]
  OBVIOUS
<1> HIDE DEF data
<1>2. PICK f \in [0 .. n -> States] : TakesFrom(d, st, data, f) /\ Split(d, st, data) = f[n]
  BY <1>1, TakeSteps
<1>3. /\ r = f[n] /\ f[0] = st
      /\ \A i \in 1 .. n : f[i] = Take(d, f[i - 1], body[d][m + i])
  BY <1>1, <1>2 DEF TakesFrom, data
<1> DEFINE Fits(i) == /\ f[i].buf = LineAt(body[d], m + i + 1)
                      /\ Matches(f[i].captured, d, EndsAt(d, m + i, "open"))
                      /\ Extends(st.captured, f[i].captured, d)
           Good == {i \in Nat : i <= n => Fits(i)}
<1>4. 0 \in Good
  <2>1. m + 0 = m
    OBVIOUS
  <2>2. \A j \in 1 .. Len(st.captured) : ~(j > Len(st.captured))
    <3>1. Len(st.captured) \in Nat
      BY DEF States
    <3> QED  BY <3>1
  <2>3. Len(st.captured) <= Len(st.captured)
    <3>1. Len(st.captured) \in Nat
      BY DEF States
    <3> QED  BY <3>1
  <2> QED  BY <1>3, <2>1, <2>2, <2>3 DEF Extends
<1>5. ASSUME NEW i \in Nat, i \in Good PROVE i + 1 \in Good
  <2> SUFFICES ASSUME i + 1 <= n PROVE Fits(i + 1)
    OBVIOUS
  <2> DEFINE k == m + i
             piece == body[d][k + 1]
             line == LineAt(body[d], k + 1)
  <2>1. Fits(i) /\ i + 1 \in 1 .. n /\ (i + 1) - 1 = i /\ i \in 0 .. n
    BY <1>5
  <2>2. k \in Nat /\ k + 1 \in 1 .. Len(body[d]) /\ m + (i + 1) = k + 1
        /\ (k + 1) + 1 = m + (i + 1) + 1
    OBVIOUS
  <2>3. f[i + 1] = Take(d, f[i], piece)
    BY <1>3, <2>1, <2>2
  <2>4. f[i] \in States /\ f[i].buf = line /\ Matches(f[i].captured, d, EndsAt(d, k, "open"))
        /\ Extends(st.captured, f[i].captured, d)
    BY <1>2, <2>1
  <2>5. st.captured \in Seq(Captures) /\ f[i].captured \in Seq(Captures)
    BY <2>4 DEF States
  <2>6. LineAt(body[d], (k + 1) + 1) = IF piece = "lf" THEN <<>> ELSE Append(line, piece)
    BY <2>2, LineAtSteps
  <2>7. MessageAt(d, k + 1) = MessagesOf(d, line)
    BY DEF MessageAt
  <2> HIDE DEF k, piece, line
  <2>8. CASE piece = "lf"
    <3>1. f[i + 1].buf = <<>> /\ f[i + 1].captured = f[i].captured \o MessagesOf(d, line)
      BY <2>3, <2>4, <2>8 DEF Take
    <3>2. EndsAt(d, k + 1, "open") = EndsAt(d, k, "open") \union {k + 1}
      BY <2>2, <2>8, EndsStep DEF piece
    <3>3. Matches(f[i].captured \o MessageAt(d, k + 1), d, EndsAt(d, k, "open") \union {k + 1})
      <4>1. k + 1 \in Nat /\ EndsAt(d, k, "open") \in SUBSET Nat
            /\ \A j \in EndsAt(d, k, "open") : j < k + 1
        BY <2>2, EndsType
      <4> QED  BY <2>4, <2>5, <4>1, MatchesStep
    <3>4. Extends(st.captured, f[i].captured \o MessagesOf(d, line), d)
      BY <2>4, <2>5, ExtendsStep
    <3> QED  BY <2>2, <2>6, <2>7, <2>8, <3>1, <3>2, <3>3, <3>4
  <2>9. CASE piece # "lf"
    <3>1. f[i + 1].buf = Append(line, piece) /\ f[i + 1].captured = f[i].captured
      BY <2>3, <2>4, <2>9 DEF Take, States
    <3>2. EndsAt(d, k + 1, "open") = EndsAt(d, k, "open")
      BY <2>2, <2>9, EndsStep DEF piece
    <3> QED  BY <2>2, <2>4, <2>6, <2>9, <3>1, <3>2
  <2> QED  BY <2>8, <2>9
<1>6. n \in Good
  <2> HIDE DEF Good
  <2> QED  BY <1>4, <1>5, Induction
<1>7. f[n] \in States
  BY <1>2
<1> QED  BY <1>3, <1>6, <1>7

-----------------------------------------------------------------------------
(***************************************************************************)
(* The inductive invariant.                                                *)
(***************************************************************************)
\* What the variables hold; nothing is handed on that was not received.  The response is
\* read while it is copied only.
TypeInv ==
  /\ body \in [Directions -> Seq(Pieces)] /\ got \in Nat /\ got <= Len(body["IN"])
  /\ moved \in [Directions -> Nat] /\ \A d \in Directions : moved[d] <= Len(body[d])
  /\ ended \in [Directions -> {"open", "eof", "error", "limit"}]
  /\ buf \in [Directions -> Seq(Pieces)] /\ captured \in Seq(Captures)
  /\ trip \in {"receiving", "sending", "copying", "done"}
  /\ trip # "done" => ended["OUT"] = "open"

\* An interceptor keeps the line under way.
BufInv ==
  \A d \in Directions : ended[d] # "eof" => buf[d] = LineAt(body[d], moved[d] + 1)

\* All of the request that has a message is captured.
NothingLeft ==
  ended["IN"] = "eof" \/ (moved["IN"] = Len(body["IN"]) /\ buf["IN"] = <<>>)

\* An answer that waits for the request, to be copied or captured, comes after it.
Awaited == patient /\ (Len(body["IN"]) <= WireBuffer \/ Last(body["IN"]) = "lf")
Answered == trip = "copying" \/ \E j \in DOMAIN captured : captured[j].dir = "OUT"
AnswerInv == Awaited /\ Answered => NothingLeft

ProxyInv ==
  TypeInv /\ BufInv /\ CapturedIsPassed /\ OnlyLongLinesAbort /\ AnswerInv /\ RequestFirst

LEMMA EndsIsProperty ==
  ASSUME CapturedIsPassed, NEW d \in Directions
  PROVE  Matches(captured, d, EndsAt(d, moved[d], ended[d]))
<1>1. Matches(captured, d, LineEnds(d))
  BY MatchesIsProperty
<1>2. LineEnds(d) = EndsAt(d, moved[d], ended[d])
  BY DEF LineEnds, EndsAt
<1> QED  BY <1>1, <1>2

\* An empty line of a request tells nothing.
LEMMA EmptyTellsNothing == MessagesOf("IN", <<>>) = <<>>
<1>1. TrimSpace(<<>>) = <<>>
  BY DEF TrimSpace
<1>2. TrimPrefix(<<>>, "rs") = <<>>
  BY DEF TrimPrefix
<1>3. Payload("IN", <<>>) = <<>>
  BY DEF Payload
<1>4. Len(<<>>) # 1
  OBVIOUS
<1> QED  BY <1>1, <1>2, <1>3, <1>4 DEF MessagesOf

\* What Read makes of the buffer and of what is captured, if it does not refuse.
LEMMA ReadTakes ==
  ASSUME TypeInv, BufInv, CapturedIsPassed, NEW d \in Directions, ended[d] = "open",
         NEW n \in Nat, moved[d] + n <= Len(body[d]), NEW how \in {"open", "eof", "error"},
         ~TooLong(d, n), Read(d, n, how)
  PROVE  \E b \in Seq(Pieces), c \in Seq(Captures) :
           /\ moved' = [moved EXCEPT ![d] = @ + n] /\ ended' = [ended EXCEPT ![d] = how]
           /\ buf' = [buf EXCEPT ![d] = b] /\ captured' = c
           /\ how # "eof" => b = LineAt(body[d], moved[d] + n + 1)
           /\ Extends(captured, c, d)
           /\ Matches(c, d, EndsAt(d, moved[d] + n, how))
           /\ d = "IN" /\ n = 0 /\ buf[d] = <<>> => b = <<>> /\ c = captured
<1> DEFINE st == [buf |-> buf[d], captured |-> captured]
           data == SubSeq(body[d], moved[d] + 1, moved[d] + n)
           r == Split(d, st, data)
           k == moved[d] + n
<1>1. /\ body[d] \in Seq(Pieces) /\ moved[d] \in Nat /\ st \in States
      /\ st.buf = LineAt(body[d], moved[d] + 1) /\ st.captured = captured
  BY DEF TypeInv, BufInv, States
<1>2. Matches(st.captured, d, EndsAt(d, moved[d], "open"))
  BY EndsIsProperty
<1>3. /\ moved' = [moved EXCEPT ![d] = @ + n] /\ ended' = [ended EXCEPT ![d] = how]
      /\ buf' = [buf EXCEPT ![d] = (IF how = "eof" THEN Leftover(d, r) ELSE r).buf]
      /\ captured' = (IF how = "eof" THEN Leftover(d, r) ELSE r).captured
  BY DEF Read
<1> HIDE DEF r
<1>4. /\ r \in States /\ r.buf = LineAt(body[d], k + 1)
      /\ Matches(r.captured, d, EndsAt(d, k, "open"))
      /\ Extends(st.captured, r.captured, d) /\ (n = 0 => r = st)
  <2> HIDE DEF st
  <2> QED  BY <1>1, <1>2, SplitTakes DEF r
<1>5. k \in Nat /\ r.buf \in Seq(Pieces) /\ r.captured \in Seq(Captures)
      /\ captured \in Seq(Captures)
  BY <1>1, <1>4 DEF States, TypeInv
<1>6. CASE how # "eof"
  <2>1. EndsAt(d, k, how) = EndsAt(d, k, "open")
    BY <1>6 DEF EndsAt
  <2> HIDE DEF k
  <2>2. buf' = [buf EXCEPT ![d] = r.buf] /\ captured' = r.captured
    BY <1>3, <1>6
  <2> QED  BY <1>1, <1>3, <1>4, <1>5, <1>6, <2>1, <2>2 DEF k
<1>7. CASE how = "eof"
  <2> DEFINE c == r.captured \o MessagesOf(d, r.buf)
  <2>1. Leftover(d, r).buf = <<>> /\ Leftover(d, r).captured = c
    BY DEF Leftover
  <2>2. Extends(captured, c, d)
    BY <1>1, <1>4, <1>5, ExtendsStep
  <2>3. Matches(c, d, EndsAt(d, k, "eof"))
    <3>1. MessageAt(d, k + 1) = MessagesOf(d, r.buf)
      BY <1>4 DEF MessageAt
    <3>2. EndsAt(d, k, "eof") = EndsAt(d, k, "open") \union {k + 1}
      BY <1>5, EndsStep
    <3>3. EndsAt(d, k, "open") \in SUBSET Nat /\ \A j \in EndsAt(d, k, "open") : j < k + 1
      BY <1>5, EndsType
    <3> HIDE DEF k
    <3>4. Matches(r.captured \o MessageAt(d, k + 1), d, EndsAt(d, k, "open") \union {k + 1})
      <4>1. k + 1 \in Nat
        BY <1>5
      <4> QED  BY <1>4, <1>5, <3>3, <4>1, MatchesStep
    <3> QED  BY <3>1, <3>2, <3>4
  <2>4. c \in Seq(Captures)
    <3>1. MessagesOf(d, r.buf) \in Seq(Captures)
      <4>1. <<>> \in Seq(Captures) /\ \A m \in Captures : <<m>> \in Seq(Captures)
        OBVIOUS
      <4> QED  BY <4>1, MessageType
    <3> QED  BY <1>5, <3>1
  <2>5. d = "IN" /\ n = 0 /\ buf[d] = <<>> => c = captured
    <3> SUFFICES ASSUME d = "IN", n = 0, buf[d] = <<>> PROVE c = captured
      OBVIOUS
    <3>1. r.buf = <<>> /\ r.captured = captured
      BY <1>4
    <3>2. c = captured \o <<>>
      BY <3>1, EmptyTellsNothing
    <3>3. captured \o <<>> = captured
      BY <1>5
    <3> QED  BY ONLY <3>2, <3>3
  <2> HIDE DEF c, k
  <2>6. <<>> \in Seq(Pieces)
    OBVIOUS
  <2> QED  BY <1>3, <1>7, <2>1, <2>2, <2>3, <2>4, <2>5, <2>6 DEF k
<1> QED  BY <1>6, <1>7

LEMMA ProxyInit == Init => ProxyInv
<1> SUFFICES ASSUME Init PROVE ProxyInv
  OBVIOUS
<1>1. body \in [Directions -> Seq(Pieces)]
  BY ProxyAssumption DEF Init
<1>2. /\ trip = "receiving" /\ got = 0 /\ captured = <<>>
      /\ \A d \in Directions : moved[d] = 0 /\ ended[d] = "open" /\ buf[d] = <<>>
  BY DEF Init
<1>3. TypeInv
  <2>1. <<>> \in Seq(Pieces) /\ <<>> \in Seq(Captures)
    OBVIOUS
  <2>2. \A d \in Directions : Len(body[d]) \in Nat
    BY <1>1
  <2> QED  BY <1>1, <1>2, <2>1, <2>2 DEF Init, TypeInv, Directions
<1>4. BufInv
  <2>1. \A d \in Directions : LineAt(body[d], 0 + 1) = <<>>
    BY <1>1, LineAtSteps
  <2> QED  BY <1>2, <2>1 DEF BufInv
<1>5. CapturedIsPassed
  <2> SUFFICES ASSUME NEW d \in Directions PROVE Matches(captured, d, LineEnds(d))
    BY MatchesIsProperty
  <2>1. LineEnds(d) = {}
    BY <1>2 DEF LineEnds
  <2>2. From(captured, d) = {} /\ TellingAt(d, LineEnds(d)) = {}
    BY <1>2, <2>1 DEF From, TellingAt
  <2>3. [j \in {} |-> 0] \in [{} -> {}]
    OBVIOUS
  <2>4. Places(captured, d, LineEnds(d), [j \in {} |-> 0])
    BY <2>2, <2>3 DEF Places
  <2> QED  BY <2>4 DEF Matches
<1>6. OnlyLongLinesAbort
  BY <1>2 DEF OnlyLongLinesAbort
<1>7. AnswerInv /\ RequestFirst
  <2>1. DOMAIN captured = {}
    BY <1>2
  <2> QED  BY <1>2, <2>1 DEF AnswerInv, Answered, RequestFirst
<1> QED  BY <1>3, <1>4, <1>5, <1>6, <1>7 DEF ProxyInv

\* The messages of a line stay the same.
LEMMA WorldStays ==
  ASSUME UNCHANGED world, NEW d, NEW i
  PROVE  MessageAt(d, i)' = MessageAt(d, i)
BY DEF world, MessageAt, MessagesOf, Payload

\* What happens between the reads touches neither bodies nor captures.
LEMMA ReadsNothing ==
  ASSUME ProxyInv, UNCHANGED <<world, moved, buf, captured>>,
         got' \in Nat, got' <= Len(body["IN"]),
         trip' \in {"receiving", "sending", "copying", "done"},
         ended' \in [Directions -> {"open", "eof", "error", "limit"}],
         \A d \in Directions : ended[d] # "open" => ended'[d] = ended[d],
         \A d \in Directions : ended'[d] = ended[d] \/ ended'[d] = "error",
         trip' # "done" => ended'["OUT"] = "open",
         trip' = "copying" => trip = "copying" \/ (Awaited => NothingLeft)
  PROVE  ProxyInv'
<1> USE DEF ProxyInv
<1>1. TypeInv'
  BY DEF TypeInv, world
<1>2. BufInv'
  BY DEF BufInv, TypeInv, world
<1>3. CapturedIsPassed'
  <2>1. \A d \in Directions : LineEnds(d)' = LineEnds(d)
    BY DEF LineEnds, TypeInv, world
  <2>2. \A d \in Directions : Telling(d)' = Telling(d)
    BY <2>1, WorldStays DEF Telling
  <2>3. \A d \in Directions : CapturedOf(d)' = CapturedOf(d)
    BY DEF CapturedOf
  <2> QED  BY <2>2, <2>3, WorldStays DEF CapturedIsPassed
<1>4. OnlyLongLinesAbort'
  BY DEF OnlyLongLinesAbort, TypeInv, world
<1>5. AnswerInv' /\ RequestFirst'
  <2>1. NothingLeft => NothingLeft'
    BY DEF NothingLeft, TypeInv, Directions, world
  <2> QED  BY <2>1 DEF AnswerInv, Awaited, Answered, RequestFirst, world
<1> QED  BY <1>1, <1>2, <1>3, <1>4, <1>5

\* When a request's last piece is a line feed, its interceptor's buffer is empty at the end.
LEMMA ArrivedIsCaptured ==
  ASSUME ProxyInv, Awaited, Arrived PROVE NothingLeft
<1>1. CASE ended["IN"] = "eof"
  BY <1>1 DEF NothingLeft
<1>2. CASE ended["IN"] # "eof"
  <2> DEFINE request == body["IN"]
  <2>1. request \in Seq(Pieces) /\ moved["IN"] = Len(request) /\ Len(request) > WireBuffer
    <3>1. request \in Seq(Pieces) /\ got \in Nat /\ got <= Len(request)
      BY DEF ProxyInv, TypeInv, Directions
    <3>2. moved["IN"] = Len(request) /\ got > WireBuffer
      BY <1>2 DEF Arrived
    <3>3. Len(request) \in Nat /\ WireBuffer \in Nat
      BY <3>1, ProxyAssumption
    <3> QED  BY <3>1, <3>2, <3>3
  <2>2. Len(request) \in 1 .. Len(request) /\ request[Len(request)] = "lf"
    BY <2>1, ProxyAssumption DEF Awaited, Last
  <2>3. LineAt(request, Len(request) + 1) = <<>>
    BY <2>1, <2>2, LineAtSteps
  <2>4. buf["IN"] = <<>>
    BY <1>2, <2>1, <2>3 DEF ProxyInv, BufInv, Directions
  <2> QED  BY <2>1, <2>4 DEF NothingLeft
<1> QED  BY <1>1, <1>2

\* A line that does not fit the buffer with what is read is a line of the body.
LEMMA RefusedIsLong ==
  ASSUME ProxyInv, NEW d \in Directions, ended[d] = "open",
         NEW n \in 0 .. MaxPiece, TooLong(d, n)
  PROVE  \E i \in 1 .. Len(body[d]) + 1 :
           /\ i <= Len(body[d]) => body[d][i] = "lf"
           /\ Len(LineAt(body[d], i)) > Limit - MaxPiece
<1>1. body[d] \in Seq(Pieces) /\ moved[d] \in 0 .. Len(body[d])
  BY DEF ProxyInv, TypeInv
<1>2. buf[d] = LineAt(body[d], moved[d] + 1) /\ Len(buf[d]) + n > Limit /\ Len(buf[d]) \in Nat
  BY DEF ProxyInv, TypeInv, BufInv, TooLong
<1>3. PICK i \in 1 .. Len(body[d]) + 1 :
        /\ i <= Len(body[d]) => body[d][i] = "lf"
        /\ Len(LineAt(body[d], i)) >= Len(buf[d])
  BY <1>1, <1>2, LinesGoOn
<1>4. Len(LineAt(body[d], i)) \in Nat
  <2>1. i - 1 \in 0 .. Len(body[d]) /\ (i - 1) + 1 = i
    BY <1>1
  <2>2. LineAt(body[d], (i - 1) + 1) \in Seq(Pieces)
    BY <1>1, <2>1, LineAtType
  <2> QED  BY <2>1, <2>2
<1> QED  BY <1>2, <1>3, <1>4, ProxyAssumption

\* A read by one of the library's goroutines, of a body that goes on.
ReadBy(d, n, how) ==
  /\ Read(d, n, how) /\ ended[d] = "open" /\ moved[d] + n <= Len(body[d])
  /\ d = "OUT" => trip = "copying"
  /\ trip' \in {trip, "done"} /\ (trip' # "done" => ended'["OUT"] = "open")
  /\ UNCHANGED <<world, got>>

LEMMA RefusedKeeps ==
  ASSUME ProxyInv, NEW d \in Directions, NEW n \in 0 .. MaxPiece,
         NEW how \in {"open", "eof", "error"}, ReadBy(d, n, how), TooLong(d, n)
  PROVE  ProxyInv'
<1> USE DEF ProxyInv
<1>1. ended' = [ended EXCEPT ![d] = "limit"] /\ UNCHANGED <<world, got, moved, buf, captured>>
      /\ trip' \in {trip, "done"} /\ (trip' # "done" => ended'["OUT"] = "open")
      /\ ended[d] = "open"
  BY DEF ReadBy, Read
<1>2. TypeInv'
  BY <1>1 DEF TypeInv, world
<1>3. BufInv'
  BY <1>1 DEF BufInv, TypeInv, world
<1>4. CapturedIsPassed'
  <2>1. \A e \in Directions : LineEnds(e)' = LineEnds(e)
    BY <1>1 DEF LineEnds, TypeInv, world
  <2>2. \A e \in Directions : Telling(e)' = Telling(e)
    BY <1>1, <2>1, WorldStays DEF Telling
  <2>3. \A e \in Directions : CapturedOf(e)' = CapturedOf(e)
    BY <1>1 DEF CapturedOf
  <2> QED  BY <1>1, <2>2, <2>3, WorldStays DEF CapturedIsPassed
<1>5. OnlyLongLinesAbort'
  <2> SUFFICES ASSUME NEW e \in Directions, ended'[e] = "limit"
               PROVE  \E i \in 1 .. Len(body[e]) + 1 :
                        /\ i <= Len(body[e]) => body[e][i] = "lf"
                        /\ Len(LineAt(body[e], i)) > Limit - MaxPiece
    BY <1>1 DEF OnlyLongLinesAbort, world
  <2>1. CASE e = d
    BY <1>1, <2>1, RefusedIsLong
  <2>2. CASE e # d
    BY <1>1, <2>2 DEF OnlyLongLinesAbort, TypeInv
  <2> QED  BY <2>1, <2>2
<1>6. AnswerInv' /\ RequestFirst'
  <2>1. NothingLeft => NothingLeft'
    BY <1>1 DEF NothingLeft, TypeInv, Directions, world
  <2> QED  BY <1>1, <2>1 DEF AnswerInv, Awaited, Answered, RequestFirst, world
<1> QED  BY <1>2, <1>3, <1>4, <1>5, <1>6

LEMMA ReadKeeps ==
  ASSUME ProxyInv, NEW d \in Directions, NEW n \in 0 .. MaxPiece,
         NEW how \in {"open", "eof", "error"}, ReadBy(d, n, how), ~TooLong(d, n)
  PROVE  ProxyInv'
<1>0. /\ TypeInv /\ BufInv /\ CapturedIsPassed /\ OnlyLongLinesAbort /\ AnswerInv
      /\ RequestFirst
  BY DEF ProxyInv
<1>1. /\ UNCHANGED <<world, got>> /\ ended[d] = "open" /\ moved[d] + n <= Len(body[d])
      /\ (d = "OUT" => trip = "copying") /\ n \in Nat
      /\ trip' \in {trip, "done"} /\ (trip' # "done" => ended'["OUT"] = "open")
  BY ProxyAssumption DEF ReadBy
<1>2. PICK b \in Seq(Pieces), c \in Seq(Captures) :
        /\ moved' = [moved EXCEPT ![d] = @ + n] /\ ended' = [ended EXCEPT ![d] = how]
        /\ buf' = [buf EXCEPT ![d] = b] /\ captured' = c
        /\ how # "eof" => b = LineAt(body[d], moved[d] + n + 1)
        /\ Extends(captured, c, d)
        /\ Matches(c, d, EndsAt(d, moved[d] + n, how))
        /\ d = "IN" /\ n = 0 /\ buf[d] = <<>> => b = <<>> /\ c = captured
  <2>1. Read(d, n, how)
    BY DEF ReadBy
  <2> QED  BY ONLY <1>0, <1>1, <2>1, ReadTakes, ~TooLong(d, n), d \in Directions,
                   how \in {"open", "eof", "error"}
<1>3. /\ body' = body /\ kind' = kind /\ patient' = patient
  BY <1>1 DEF world
<1>4. \A e \in Directions :
        IF e = d THEN moved'[e] = moved[e] + n /\ ended'[e] = how /\ buf'[e] = b
        ELSE moved'[e] = moved[e] /\ ended'[e] = ended[e] /\ buf'[e] = buf[e]
  BY <1>0, <1>2 DEF TypeInv
<1>5. TypeInv'
  <2>1. moved' \in [Directions -> Nat] /\ \A e \in Directions : moved'[e] <= Len(body[e])
    BY <1>0, <1>1, <1>2 DEF TypeInv
  <2>2. ended' \in [Directions -> {"open", "eof", "error", "limit"}]
    BY <1>0, <1>2 DEF TypeInv
  <2>3. buf' \in [Directions -> Seq(Pieces)]
    BY <1>0, <1>2 DEF TypeInv
  <2> QED  BY <1>0, <1>1, <1>2, <1>3, <2>1, <2>2, <2>3 DEF TypeInv
<1>6. BufInv'
  <2> SUFFICES ASSUME NEW e \in Directions, ended'[e] # "eof"
               PROVE  buf'[e] = LineAt(body[e], moved'[e] + 1)
    BY <1>3 DEF BufInv
  <2>1. CASE e = d
    BY <1>2, <1>4, <2>1
  <2>2. CASE e # d
    BY <1>0, <1>4, <2>2 DEF BufInv
  <2> QED  BY <2>1, <2>2
<1>7. CapturedIsPassed'
  <2> SUFFICES ASSUME NEW e \in Directions
               PROVE  (\E place \in [CapturedOf(e) -> Telling(e)] :
                        /\ \A j, k \in CapturedOf(e) : j < k => place[j] < place[k]
                        /\ \A i \in Telling(e) : \E j \in CapturedOf(e) : place[j] = i
                        /\ \A j \in CapturedOf(e) : MessageAt(e, place[j]) = <<captured[j]>>)'
    BY DEF CapturedIsPassed
  <2> DEFINE E == EndsAt(e, moved'[e], ended'[e])
  <2>1. LineEnds(e)' = E
    BY <1>3 DEF LineEnds, EndsAt
  <2>2. Matches(c, e, E)
    <3>1. CASE e = d
      BY <1>2, <1>4, <3>1
    <3>2. CASE e # d
      <4>1. Matches(captured, e, EndsAt(e, moved[e], ended[e]))
        BY <1>0, EndsIsProperty
      <4>2. E = EndsAt(e, moved[e], ended[e])
        BY <1>4, <3>2
      <4>3. captured \in Seq(Captures)
        BY <1>0 DEF TypeInv
      <4> HIDE DEF E
      <4> QED  BY <1>2, <3>2, <4>1, <4>2, <4>3, MatchesOther
    <3> QED  BY <3>1, <3>2
  <2> HIDE DEF E
  <2>3. PICK place : Places(c, e, E, place)
    BY <2>2 DEF Matches
  <2>4. \A i : MessageAt(e, i)' = MessageAt(e, i)
    BY <1>1, WorldStays
  <2>5. CapturedOf(e)' = From(c, e)
    BY <1>2 DEF CapturedOf, From
  <2>6. Telling(e)' = TellingAt(e, E)
    BY <2>1, <2>4 DEF Telling, TellingAt
  <2> QED  BY <1>2, <2>3, <2>4, <2>5, <2>6 DEF Places
<1>8. OnlyLongLinesAbort'
  <2>1. \A e \in Directions : ended'[e] = "limit" => ended[e] = "limit"
    BY <1>4
  <2> QED  BY <1>0, <1>3, <2>1 DEF OnlyLongLinesAbort
<1>9. AnswerInv' /\ RequestFirst'
  <2>1. Awaited' = Awaited
    BY <1>3 DEF Awaited
  <2>2. CASE ~Awaited
    BY <1>3, <2>1, <2>2 DEF AnswerInv, RequestFirst, Awaited
  <2>3. ASSUME Awaited, d = "OUT" PROVE AnswerInv' /\ RequestFirst'
    <3>1. NothingLeft
      BY <1>0, <1>1, <2>3 DEF AnswerInv, Answered
    <3>2. NothingLeft'
      BY <1>3, <1>4, <2>3, <3>1 DEF NothingLeft, Directions
    <3>3. ASSUME NEW i \in DOMAIN c, NEW j \in DOMAIN c, c[i].dir = "OUT", c[j].dir = "IN"
          PROVE  j < i
      <4>1. /\ DOMAIN c = 1 .. Len(c) /\ DOMAIN captured = 1 .. Len(captured)
            /\ Len(c) \in Nat /\ Len(captured) \in Nat
        BY <1>0 DEF TypeInv
      <4>2. j \in DOMAIN captured /\ captured[j].dir = "IN"
        BY <1>2, <2>3, <3>3, <4>1 DEF Extends
      <4>3. CASE i \in DOMAIN captured
        <5>1. captured[i].dir = "OUT"
          BY <1>2, <3>3, <4>1, <4>3 DEF Extends
        <5> QED  BY <1>0, <2>3, <4>2, <4>3, <5>1 DEF RequestFirst, Awaited
      <4>4. CASE i \notin DOMAIN captured
        BY <4>1, <4>2, <4>4
      <4> QED  BY <4>3, <4>4
    <3> QED  BY <1>2, <3>2, <3>3 DEF AnswerInv, RequestFirst
  <2>4. ASSUME Awaited, d = "IN" PROVE AnswerInv' /\ RequestFirst'
    <3>1. \A i \in DOMAIN c : c[i].dir = "OUT" => i \in DOMAIN captured /\ captured[i].dir = "OUT"
      <4>1. /\ DOMAIN c = 1 .. Len(c) /\ DOMAIN captured = 1 .. Len(captured)
            /\ Len(c) \in Nat /\ Len(captured) \in Nat
        BY <1>0 DEF TypeInv
      <4> QED  BY <1>2, <2>4, <4>1 DEF Extends
    <3>2. ASSUME Answered
          PROVE  NothingLeft' /\ c = captured
      <4>1. moved["IN"] = Len(body["IN"]) /\ buf["IN"] = <<>>
        BY <1>0, <1>1, <2>4, <3>2 DEF AnswerInv, NothingLeft
      <4>2. n = 0
        <5>1. moved["IN"] \in Nat /\ moved["IN"] + n <= moved["IN"]
          BY <1>0, <1>1, <2>4, <4>1 DEF TypeInv
        <5> QED  BY <1>1, <5>1
      <4>3. b = <<>> /\ c = captured
        BY <1>2, <2>4, <4>1, <4>2
      <4>4. moved'["IN"] = moved["IN"] /\ buf'["IN"] = <<>>
        <5>1. moved["IN"] \in Nat
          BY <1>0, <2>4 DEF TypeInv
        <5> QED  BY <1>4, <2>4, <4>2, <4>3, <5>1
      <4> QED  BY <1>3, <4>1, <4>3, <4>4 DEF NothingLeft
    <3>3. Answered' => Answered
      BY <1>1, <1>2, <3>1 DEF Answered
    <3>4. AnswerInv'
      BY <3>2, <3>3 DEF AnswerInv
    <3>5. RequestFirst'
      <4> SUFFICES ASSUME NEW i \in DOMAIN c, NEW j \in DOMAIN c,
                          c[i].dir = "OUT", c[j].dir = "IN"
                   PROVE  j < i
        BY <1>2 DEF RequestFirst
      <4>1. Answered
        BY <3>1 DEF Answered
      <4>2. c = captured
        BY <3>2, <4>1
      <4> QED  BY <1>0, <2>4, <4>2 DEF RequestFirst, Awaited
    <3> QED  BY <3>4, <3>5
  <2> QED  BY <2>2, <2>3, <2>4 DEF Directions
<1> QED  BY <1>5, <1>6, <1>7, <1>8, <1>9 DEF ProxyInv

\* A read of either kind.
LEMMA ReadStays ==
  ASSUME ProxyInv, NEW d \in Directions, NEW n \in 0 .. MaxPiece,
         NEW how \in {"open", "eof", "error"}, ReadBy(d, n, how)
  PROVE  ProxyInv'
BY RefusedKeeps, ReadKeeps

LEMMA ProxyStep == ProxyInv /\ [Next]_vars => ProxyInv'
<1> SUFFICES ASSUME ProxyInv, [Next]_vars PROVE ProxyInv'
  OBVIOUS
<1>1. /\ got \in Nat /\ got <= Len(body["IN"]) /\ Len(body["IN"]) \in Nat
      /\ moved \in [Directions -> Nat] /\ "IN" \in Directions /\ "OUT" \in Directions
      /\ ended \in [Directions -> {"open", "eof", "error", "limit"}]
      /\ trip \in {"receiving", "sending", "copying", "done"}
      /\ trip # "done" => ended["OUT"] = "open"
  BY DEF ProxyInv, TypeInv, Directions
<1>2. 0 \in 0 .. MaxPiece /\ 1 .. MaxPiece \subseteq 0 .. MaxPiece
  BY ProxyAssumption
<1>3. ASSUME NEW n \in 0 .. Len(body["IN"]), Receive(n) PROVE ProxyInv'
  <2>1. got' \in Nat /\ got' <= Len(body["IN"])
    BY <1>1, <1>3 DEF Receive
  <2>2. /\ UNCHANGED <<world, moved, buf, captured>> /\ ended' = ended
        /\ trip' = "sending" /\ trip = "receiving"
    BY <1>3 DEF Receive
  <2> QED  BY <1>1, <2>1, <2>2, ReadsNothing
<1>4. ASSUME NEW n \in 1 .. MaxPiece, SendPiece(n) PROVE ProxyInv'
  <2>1. n \in 0 .. MaxPiece /\ n \in Nat /\ moved["IN"] \in Nat
    BY <1>1, <1>2
  <2>2. /\ Read("IN", n, "open") /\ ended["IN"] = "open" /\ moved["IN"] + n <= got
        /\ trip' = trip /\ UNCHANGED <<world, got>>
    BY <1>4 DEF SendPiece, Sending
  <2>3. ended'["OUT"] = ended["OUT"]
    BY <1>1, <2>2 DEF Read
  <2>4. ReadBy("IN", n, "open")
    BY <1>1, <2>1, <2>2, <2>3 DEF ReadBy
  <2> QED  BY <1>1, <2>1, <2>4, ReadStays
<1>5. ASSUME SendEnd PROVE ProxyInv'
  <2>1. /\ Read("IN", 0, "eof") /\ ended["IN"] = "open" /\ moved["IN"] = got
        /\ trip' = trip /\ UNCHANGED <<world, got>>
    BY <1>5 DEF SendEnd, Sending
  <2>2. ended'["OUT"] = ended["OUT"]
    BY <1>1, <2>1 DEF Read
  <2>3. ReadBy("IN", 0, "eof")
    BY <1>1, <2>1, <2>2 DEF ReadBy
  <2> QED  BY <1>1, <1>2, <2>3, ReadStays
<1>6. ASSUME SendFails PROVE ProxyInv'
  <2>1. /\ UNCHANGED <<world, trip, got, moved, buf, captured>>
        /\ ended' = [ended EXCEPT !["IN"] = "error"] /\ ended["IN"] = "open"
    BY <1>6 DEF SendFails, Sending
  <2>2. /\ ended' \in [Directions -> {"open", "eof", "error", "limit"}]
        /\ \A d \in Directions : ended'[d] = IF d = "IN" THEN "error" ELSE ended[d]
    BY <1>1, <2>1
  <2> QED  BY <1>1, <2>1, <2>2, ReadsNothing
<1>7. ASSUME Answer PROVE ProxyInv'
  <2>1. /\ UNCHANGED <<world, got, moved, ended, buf, captured>>
        /\ trip = "sending" /\ trip' = "copying" /\ (patient => Arrived)
    BY <1>7 DEF Answer
  <2>2. Awaited => NothingLeft
    BY <2>1, ArrivedIsCaptured DEF Awaited
  <2> QED  BY <1>1, <2>1, <2>2, ReadsNothing
<1>8. ASSUME Fail \/ ClientLeaves \/ LinkBreaks PROVE ProxyInv'
  <2>1. /\ UNCHANGED <<world, got, moved, ended, buf, captured>>
        /\ trip' = trip \/ trip' = "done"
    BY <1>8 DEF Fail, ClientLeaves, LinkBreaks
  <2> QED  BY <1>1, <2>1, ReadsNothing
<1>9. ASSUME NEW n \in 0 .. MaxPiece, NEW how \in {"open", "eof", "error"}, CopyPiece(n, how)
      PROVE  ProxyInv'
  <2>1. /\ Read("OUT", n, how) /\ trip = "copying" /\ moved["OUT"] + n <= Len(body["OUT"])
        /\ trip' = (IF ended'["OUT"] # "open" \/ client = "gone" THEN "done" ELSE trip)
        /\ UNCHANGED <<world, got>>
    BY <1>9 DEF CopyPiece
  <2>2. ReadBy("OUT", n, how)
    BY <1>1, <2>1 DEF ReadBy
  <2> QED  BY <1>1, <2>2, ReadStays
<1>10. ASSUME UNCHANGED vars PROVE ProxyInv'
  <2>1. UNCHANGED <<world, trip, got, moved, ended, buf, captured>>
    BY <1>10 DEF vars, world
  <2> QED  BY <1>1, <2>1, ReadsNothing
<1>11. Finished => UNCHANGED vars
  BY DEF Finished
<1> QED  BY <1>3, <1>4, <1>5, <1>6, <1>7, <1>8, <1>9, <1>10, <1>11 DEF Next

LEMMA ProxyAlways == Spec => []ProxyInv
BY ProxyInit, ProxyStep, PTL DEF Spec

\* Wherever bodies are cut and broken off, the interceptors capture the messages of the
\* complete lines that they hand on, each once and in their order (bodyInterceptor.Read
\* and streamInterceptor.Read, proxy.go:183-224, 241-297).
THEOREM ProxyCapturedIsPassed == Spec => []CapturedIsPassed
<1>1. ProxyInv => CapturedIsPassed
  BY DEF ProxyInv
<1> QED  BY <1>1, ProxyAlways, PTL

\* Watching aborts an exchange only for a line that does not fit the buffer with what the
\* library reads at once (proxy.go:179, 237).
THEOREM ProxyOnlyLongLinesAbort == Spec => []OnlyLongLinesAbort
<1>1. ProxyInv => OnlyLongLinesAbort
  BY DEF ProxyInv
<1> QED  BY <1>1, ProxyAlways, PTL

\* A request that the target waits for, and that ends with a line feed or is small, is
\* captured before anything of the answer (proxy.go:207; correlator.go:78).
THEOREM ProxyRequestFirst == Spec => []RequestFirst
<1>1. ProxyInv => RequestFirst
  BY DEF ProxyInv
<1> QED  BY <1>1, ProxyAlways, PTL
=============================================================================
