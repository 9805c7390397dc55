--------------------------- MODULE DeliveryProofs ---------------------------
(***************************************************************************)
(* What happens to a delivery on its way into the ledger: proofs about     *)
(* OrderData, in which its bytes are opened, and about StatementSync, in   *)
(* which its documents are checked and booked before the bank is told to   *)
(* serve them no more. The two share no state; each has a section.         *)
(***************************************************************************)
EXTENDS OrderData, StatementSync, TLAPS,
        WellFoundedInduction, SequenceTheorems, FiniteSetTheorems

-----------------------------------------------------------------------------
(***************************************************************************)
(* OrderData, for every stream and container, whatever happens to the      *)
(* segments. First what its operators yield: numbers have a least, so that *)
(* what a recursive definition computes is proved by taking a least        *)
(* counterexample; joining the segments undoes cutting them.               *)
(***************************************************************************)

\* The order of the numbers as a relation, for induction by a least counterexample.
Less == {p \in Nat \X Nat : p[1] < p[2]}

\* There is no endless descent of numbers.
LEMMA LessIsWellFounded == IsWellFoundedOn(Less, Nat)
<1>1. OpToRel(<, Nat) = Less
  BY DEF OpToRel, Less
<1> QED
  BY <1>1, NatLessThanWellFounded

\* A set of numbers has a least one: what the inductions below rest on.
LEMMA Least == ASSUME NEW T, T \subseteq Nat, T # {} PROVE \E n \in T : \A m \in T : n <= m
<1>1. PICK x \in T : \A y \in T : ~ (<<y, x>> \in Less)
  BY LessIsWellFounded, WFMin
<1>2. ASSUME NEW y \in T PROVE x <= y
  <2>1. <<y, x>> \notin Less
    BY <1>1
  <2>2. y \in Nat /\ x \in Nat
    OBVIOUS
  <2>3. ~(y < x)
    BY <2>1, <2>2 DEF Less
  <2> QED BY <2>2, <2>3
<1> QED BY <1>2

\* The recursive function by which FlattenSeq joins is one: each value has its predecessor.
LEMMA JoinExists ==
    ASSUME NEW ss, NEW n \in Nat
    PROVE  \E f : f = [i \in 1..n |-> IF i = 1 THEN ss[i] ELSE f[i - 1] \o ss[i]]
<1> DEFINE Step(f, m) == [i \in 1..m |-> IF i = 1 THEN ss[i] ELSE f[i - 1] \o ss[i]]
           Bad == {m \in Nat : ~ \E f : f = Step(f, m)}
<1> SUFFICES ASSUME Bad # {} PROVE FALSE
  OBVIOUS
<1>1. PICK m \in Bad : \A k \in Bad : m <= k
  <2> HIDE DEF Bad
  <2> QED
    BY Least DEF Bad
<1>2. CASE m = 0
  <2> DEFINE f == [i \in 1..0 |-> ss[i]]
  <2>1. f = Step(f, 0)
    OBVIOUS
  <2> QED
    BY <1>2, <2>1
<1>3. CASE m # 0
  <2>1. m \in Nat /\ m - 1 \in Nat /\ m - 1 \notin Bad
    <3>1. m \in Nat /\ \A k \in Bad : m <= k
      BY <1>1
    <3> HIDE DEF Bad
    <3> QED
      BY <3>1, <1>3
  <2>2. PICK g : g = Step(g, m - 1)
    BY <2>1
  <2> DEFINE f == [i \in 1..m |-> IF i = 1 THEN ss[i] ELSE g[i - 1] \o ss[i]]
  <2>3. ASSUME NEW i \in 1..(m - 1) PROVE f[i] = g[i]
    <3>1. i \in 1..m
      BY <2>1
    <3>2. f[i] = IF i = 1 THEN ss[i] ELSE g[i - 1] \o ss[i]
      BY <3>1
    <3>3. g[i] = IF i = 1 THEN ss[i] ELSE g[i - 1] \o ss[i]
      <4> HIDE DEF f, Bad
      <4> QED BY <2>2
    <3> QED
      BY <3>2, <3>3
  <2>4. ASSUME NEW i \in 1..m, i # 1 PROVE f[i - 1] = g[i - 1]
    <3>1. i - 1 \in 1..(m - 1)
      BY <2>1, <2>4
    <3> HIDE DEF f, Bad
    <3> QED
      BY <2>3, <3>1
  <2>5. f = Step(f, m)
    <3>1. ASSUME NEW i \in 1..m
          PROVE  f[i] = IF i = 1 THEN ss[i] ELSE f[i - 1] \o ss[i]
      BY <2>4
    <3>2. f = [i \in 1..m |-> f[i]]
      OBVIOUS
    <3> HIDE DEF f
    <3> QED
      BY <3>1, <3>2
  <2> QED
    BY <2>5, <1>1
<1> QED
  BY <1>2, <1>3

\* What FlattenSeq yields is the last value of that function.
LEMMA Joined ==
    ASSUME NEW ss, Len(ss) \in Nat, Len(ss) # 0
    PROVE \E f : /\ f = [i \in 1..Len(ss) |-> IF i = 1 THEN ss[i] ELSE f[i - 1] \o ss[i]]
                 /\ FlattenSeq(ss) = f[Len(ss)]
<1> DEFINE F == CHOOSE f : f = [i \in 1..Len(ss) |-> IF i = 1 THEN ss[i] ELSE f[i - 1] \o ss[i]]
<1>1. FlattenSeq(ss) = F[Len(ss)]
  BY DEF FlattenSeq
<1>2. F = [i \in 1..Len(ss) |-> IF i = 1 THEN ss[i] ELSE F[i - 1] \o ss[i]]
  BY JoinExists
<1> QED BY <1>1, <1>2

\* Joined segments are one sequence of characters.
LEMMA FlattenType == ASSUME NEW S, NEW ss \in Seq(Seq(S)) PROVE FlattenSeq(ss) \in Seq(S)
<1>1. Len(ss) \in Nat /\ \A i \in 1..Len(ss) : ss[i] \in Seq(S)
  BY LenProperties
<1>2. CASE Len(ss) = 0
  <2>1. ss = <<>> /\ <<>> \in Seq(S)
    BY <1>2, EmptySeq
  <2>2. FlattenSeq(ss) = ss
    BY <1>2, Zenon DEF FlattenSeq
  <2> QED
    BY <2>1, <2>2
<1>3. CASE Len(ss) # 0
  <2>1. PICK f : /\ f = [i \in 1..Len(ss) |-> IF i = 1 THEN ss[i] ELSE f[i - 1] \o ss[i]]
                 /\ FlattenSeq(ss) = f[Len(ss)]
    BY <1>1, <1>3, Joined
  <2> DEFINE Bad == {i \in 1..Len(ss) : f[i] \notin Seq(S)}
  <2>2. ASSUME NEW i \in 1..Len(ss)
        PROVE  f[i] = IF i = 1 THEN ss[i] ELSE f[i - 1] \o ss[i]
    BY <2>1
  <2>3. Bad = {}
    <3> SUFFICES ASSUME Bad # {} PROVE FALSE
      OBVIOUS
    <3>1. PICK m \in Bad : \A k \in Bad : m <= k
      <4>1. Bad \subseteq Nat
        BY <1>1
      <4> HIDE DEF Bad
      <4> QED
        BY Least, <4>1
    <3>2. m \in 1..Len(ss) /\ f[m] \notin Seq(S)
      BY <3>1
    <3>3. m # 1
      BY <2>2, <3>2, <1>1
    <3>4. m - 1 \in 1..Len(ss) /\ ~(m <= m - 1)
      BY <1>1, <3>2, <3>3
    <3>5. f[m - 1] \in Seq(S)
      BY <3>1, <3>4
    <3>6. f[m - 1] \o ss[m] \in Seq(S)
      BY <3>2, <3>5, <1>1, ConcatProperties
    <3> QED
      BY <2>2, <3>2, <3>3, <3>6
  <2>4. Len(ss) \in 1..Len(ss)
    BY <1>1, <1>3
  <2> QED
    BY <2>1, <2>3, <2>4
<1> QED
  BY <1>2, <1>3

\* Division with remainder.
LEMMA Quotient ==
    ASSUME NEW n \in Nat, NEW s \in Nat \ {0}
    PROVE  /\ n \div s \in Nat /\ (n % s) \in 0..(s - 1)
           /\ n = s * (n \div s) + (n % s)
<1>1. n \div s \in Nat
  BY SMT
<1>2. n % s \in 0..(s - 1)
  BY SMT
<1>3. n = s * (n \div s) + (n % s)
  BY SMT
<1> QED BY <1>1, <1>2, <1>3

\* A function on 1..n is a sequence.
LEMMA AsSequence ==
    ASSUME NEW S, NEW n \in Nat, NEW f \in [1..n -> S]
    PROVE  f \in Seq(S) /\ Len(f) = n
<1>1. f \in Seq(S)
  BY SeqDef
<1> QED
  BY <1>1, LenProperties

\* _split_segments yields sequences of characters.
LEMMA SplitType == ASSUME NEW n \in Nat PROVE Split(n) \in Seq(Seq(Nat))
<1>1. CASE n = 0
  <2>1. <<>> \in Seq(Nat)
    BY EmptySeq
  <2>2. Split(n) = <<(<<>>)>>
    BY <1>1 DEF Split
  <2> QED
    BY <2>1, <2>2
<1>2. CASE n # 0
  <2> DEFINE N == (n + SegmentSize - 1) \div SegmentSize
             L(j) == IF j * SegmentSize <= n THEN SegmentSize ELSE n % SegmentSize
  <2>1. SegmentSize \in Nat \ {0} /\ n + SegmentSize - 1 \in Nat
    BY OrderDataAssumption
  <2>2. N \in Nat /\ n % SegmentSize \in Nat
    BY <2>1, Quotient
  <2>3. Split(n) = [j \in 1..N |-> [k \in 1..L(j) |-> (j - 1) * SegmentSize + k]]
    BY <1>2 DEF Split
  <2>4. ASSUME NEW j \in 1..N
        PROVE  [k \in 1..L(j) |-> (j - 1) * SegmentSize + k] \in Seq(Nat)
    <3>1. L(j) \in Nat
      BY <2>1, <2>2
    <3>2. (j - 1) \in Nat
      BY <2>2
    <3>3. (j - 1) * SegmentSize \in Nat
      BY <2>1, <3>2
    <3> HIDE DEF L
    <3>4. [k \in 1..L(j) |-> (j - 1) * SegmentSize + k] \in [1..L(j) -> Nat]
      BY <3>1, <3>3
    <3> QED
      BY <3>1, <3>4, AsSequence
  <2> HIDE DEF N, L
  <2>5. Split(n) \in [1..N -> Seq(Nat)]
    BY <2>3, <2>4
  <2> QED
    BY <2>2, <2>5, AsSequence
<1> QED
  BY <1>1, <1>2

\* Products by a positive number, as the provers can use them.
LEMMA Times ==
    ASSUME NEW a \in Int, NEW b \in Int, NEW s \in Nat \ {0}
    PROVE  /\ a * s \in Int /\ a * s = s * a
           /\ (a - 1) * s = a * s - s
           /\ a <= b => a * s <= b * s
           /\ a * s < b * s => a < b
<1>1. a * s \in Int /\ a * s = s * a
  BY SMT
<1>2. (a - 1) * s = a * s - s
  BY SMT
<1>3. a <= b => a * s <= b * s
  BY SMT
<1>4. a * s < b * s => a < b
  BY SMT
<1> QED BY <1>1, <1>2, <1>3, <1>4

\* How many segments n characters make.
Parts(n) == (n + SegmentSize - 1) \div SegmentSize

\* Where a segment begins, and that the short one ends with the characters.
LEMMA PartEnds ==
    ASSUME NEW n \in Nat \ {0}, NEW j \in 1..Parts(n)
    PROVE  /\ (j - 1) * SegmentSize < n
           /\ j * SegmentSize > n => (j - 1) * SegmentSize + (n % SegmentSize) = n
<1> DEFINE S == SegmentSize
           N == Parts(n)
           q == n \div S
           r == n % S
<1>1. S \in Nat \ {0} /\ n + S - 1 \in Nat
  BY OrderDataAssumption
<1>2. N \in Nat /\ S * N <= n + S - 1 /\ n + S - 1 < S * N + S
  BY <1>1, Quotient DEF Parts
<1>3. q \in Nat /\ r \in Nat /\ r < S /\ n = S * q + r
  <2>1. n \in Nat
    OBVIOUS
  <2>2. /\ n \div S \in Nat /\ (n % S) \in 0..(S - 1)
        /\ n = S * (n \div S) + (n % S)
    <3> HIDE DEF S
    <3> QED
      BY <1>1, <2>1, Quotient
  <2> HIDE DEF S
  <2> QED
    BY <1>1, <2>2
<1> HIDE DEF S, N, q, r
<1>4. (j - 1) * S < n
  <2>1. j \in Int /\ j <= N
    BY <1>2 DEF N
  <2>2. /\ j * S <= N * S /\ (j - 1) * S = j * S - S /\ N * S = S * N
        /\ j * S \in Int /\ N * S \in Int
    BY <1>1, <1>2, <2>1, Times
  <2> QED
    BY <1>1, <1>2, <2>2
<1>5. ASSUME j * S > n PROVE (j - 1) * S + r = n
  <2>1. j \in Int /\ j - 1 \in Int
    BY <1>2 DEF N
  <2>2. q + 1 \in Int /\ (q + 1) * S = q * S + S /\ q * S = S * q
    BY <1>1, <1>3, Times
  <2>3. j - 1 < q + 1
    BY <1>1, <1>3, <1>4, <2>1, <2>2, Times
  <2>4. q < j
    BY <1>1, <1>3, <1>5, <2>1, <2>2, Times
  <2>5. j - 1 = q
    BY <1>3, <2>1, <2>3, <2>4
  <2> QED
    BY <1>3, <2>2, <2>5
<1> QED
  BY <1>4, <1>5 DEF S, r

\* There is a segment, and the segments hold all the characters.
LEMMA LastPart ==
    ASSUME NEW n \in Nat \ {0}
    PROVE  Parts(n) \in Nat \ {0} /\ Parts(n) * SegmentSize >= n
<1>1. SegmentSize \in Nat \ {0} /\ n + SegmentSize - 1 \in Nat
  BY OrderDataAssumption
<1> DEFINE S == SegmentSize
           N == Parts(n)
<1>2. N \in Nat /\ S * N <= n + S - 1 /\ n + S - 1 < S * N + S
  BY <1>1, Quotient DEF Parts
<1> HIDE DEF S, N
<1>4. S \in Nat \ {0}
  BY <1>1 DEF S
<1>5. N * S \in Int /\ N * S = S * N
  BY <1>4, <1>2, Times
<1>3. N # 0
  <2> SUFFICES ASSUME N = 0 PROVE FALSE
    OBVIOUS
  <2>1. S * N = 0
    BY <1>4
  <2> QED BY <2>1, <1>2, <1>4
<1>6. N * S >= n
  BY <1>2, <1>4, <1>5
<1> QED BY <1>2, <1>3, <1>6 DEF S, N

\* The characters as the sender put them.
Order(n) == [k \in 1..n |-> k]

\* The next characters in order behind those before them.
LEMMA OrderGrows ==
    ASSUME NEW m \in Nat, NEW l \in Nat
    PROVE  Order(m) \o [k \in 1..l |-> m + k] = Order(m + l)
<1> DEFINE tail == [k \in 1..l |-> m + k]
<1>1. Order(m) \in Seq(Nat) /\ Len(Order(m)) = m
  <2>1. Order(m) \in [1..m -> Nat]
    BY DEF Order
  <2> QED
    BY <2>1, AsSequence
<1>2. tail \in Seq(Nat) /\ Len(tail) = l
  <2>1. tail \in [1..l -> Nat]
    OBVIOUS
  <2> HIDE DEF tail
  <2> QED
    BY <2>1, AsSequence
<1>3. Order(m + l) \in Seq(Nat) /\ Len(Order(m + l)) = m + l
  <2>1. Order(m + l) \in [1..(m + l) -> Nat]
    BY DEF Order
  <2>2. m + l \in Nat
    OBVIOUS
  <2> QED
    BY <2>1, <2>2, AsSequence
<1>4. ASSUME NEW i \in 1..(m + l) PROVE (Order(m) \o tail)[i] = Order(m + l)[i]
  <2>1. Order(m + l)[i] = i
    BY DEF Order
  <2>2. (Order(m) \o tail)[i] = IF i <= m THEN Order(m)[i] ELSE tail[i - m]
    <3> HIDE DEF tail
    <3>1. \A k \in 1..(Len(Order(m)) + Len(tail)) :
              (Order(m) \o tail)[k] = IF k <= Len(Order(m)) THEN Order(m)[k]
                                      ELSE tail[k - Len(Order(m))]
      BY <1>1, <1>2, ConcatProperties
    <3> QED
      BY <1>1, <1>2, <3>1
  <2>3. CASE i <= m
    BY <2>1, <2>2, <2>3 DEF Order
  <2>4. CASE i > m
    <3>1. i - m \in 1..l
      BY <2>4
    <3>2. tail[i - m] = i
      BY <3>1
    <3> HIDE DEF tail
    <3> QED
      BY <2>1, <2>2, <2>4, <3>2
  <2>5. i <= m \/ i > m
    OBVIOUS
  <2> QED
    BY <2>3, <2>4, <2>5
<1>5. Order(m) \o tail \in Seq(Nat) /\ Len(Order(m) \o tail) = m + l
  <2> HIDE DEF tail
  <2> QED
    BY <1>1, <1>2, ConcatProperties
<1> HIDE DEF tail
<1>6. Order(m) \o tail = Order(m + l)
  BY <1>3, <1>4, <1>5, SeqEqual
<1> QED
  BY <1>6 DEF tail

\* Joining undoes _split_segments, wherever it cut.
LEMMA JoinsToOrder == ASSUME NEW n \in Nat PROVE FlattenSeq(Split(n)) = Order(n)
<1>1. CASE n = 0
  <2>1. Split(n) = <<(<<>>)>> /\ Len(Split(n)) = 1 /\ Split(n)[1] = <<>>
    BY <1>1 DEF Split
  <2>2. PICK f : /\ f = [i \in 1..1 |-> IF i = 1 THEN Split(n)[i] ELSE f[i - 1] \o Split(n)[i]]
                 /\ FlattenSeq(Split(n)) = f[1]
    <3> DEFINE ss == Split(n)
    <3> HIDE DEF ss
    <3>1. Len(ss) = 1
      BY <2>1 DEF ss
    <3>2. PICK g : /\ g = [i \in 1..Len(ss) |-> IF i = 1 THEN ss[i] ELSE g[i - 1] \o ss[i]]
                   /\ FlattenSeq(ss) = g[Len(ss)]
      <4>1. Len(ss) \in Nat /\ Len(ss) # 0
        BY <3>1
      <4> QED
        BY <4>1, Joined
    <3> QED
      BY <3>1, <3>2 DEF ss
  <2>3. f[1] = <<>>
    BY <2>1, <2>2
  <2>4. Order(0) = <<>>
    BY DEF Order
  <2> QED
    BY <1>1, <2>2, <2>3, <2>4
<1>2. CASE n # 0
  <2> DEFINE S == SegmentSize
             N == Parts(n)
             L(j) == IF j * S <= n THEN S ELSE n % S
             Part1(j) == [k \in 1..L(j) |-> (j - 1) * S + k]
             End(j) == IF j * S <= n THEN j * S ELSE n
             ss == Split(n)
  <2>1. S \in Nat \ {0} /\ n % S \in Nat
    <3>1. SegmentSize \in Nat \ {0}
      BY OrderDataAssumption
    <3> QED
      BY <3>1, Quotient
  <2>2. N \in Nat \ {0} /\ N * S >= n
    BY <1>2, LastPart
  <2>3. ss = [j \in 1..N |-> Part1(j)]
    BY <1>2 DEF Split, Parts
  <2>4. Len(ss) = N
    <3>1. ss \in Seq(Seq(Nat))
      BY SplitType
    <3>2. DOMAIN ss = 1..N
      BY <2>3
    <3> HIDE DEF ss
    <3> QED
      BY <2>2, <3>1, <3>2, LenProperties
  <2>5. PICK f : /\ f = [i \in 1..N |-> IF i = 1 THEN ss[i] ELSE f[i - 1] \o ss[i]]
                 /\ FlattenSeq(ss) = f[N]
    <3> HIDE DEF ss, N
    <3>1. PICK g : /\ g = [i \in 1..Len(ss) |-> IF i = 1 THEN ss[i] ELSE g[i - 1] \o ss[i]]
                   /\ FlattenSeq(ss) = g[Len(ss)]
      BY <2>2, <2>4, Joined
    <3> QED
      BY <2>4, <3>1
  <2>6. ASSUME NEW j \in 1..N
        PROVE  /\ (j - 1) * S \in Nat /\ L(j) \in Nat
               /\ End(j) = (j - 1) * S + L(j)
               /\ j # 1 => (j - 1) \in 1..N /\ End(j - 1) = (j - 1) * S
               /\ j = 1 => (j - 1) * S = 0
    <3>1. (j - 1) * S < n /\ (j * S > n => (j - 1) * S + (n % S) = n)
      BY <1>2, PartEnds
    <3>2. j \in Nat \ {0} /\ j - 1 \in Nat
      BY <2>2
    <3>3. j * S \in Nat /\ (j - 1) * S \in Nat /\ (j - 1) * S = j * S - S
      <4> HIDE DEF S
      <4> QED
        BY <2>1, <3>2, Times
    <3> HIDE DEF S, N
    <3>4. j = 1 => (j - 1) * S = 0
      BY <2>1, <3>2
    <3>5. j # 1 => (j - 1) \in 1..N /\ End(j - 1) = (j - 1) * S
      BY <2>2, <3>1, <3>2, <3>3
    <3> QED
      BY <2>1, <3>1, <3>3, <3>4, <3>5
  <2> DEFINE Bad == {j \in 1..N : f[j] # Order(End(j))}
  <2>7. Bad = {}
    <3> SUFFICES ASSUME Bad # {} PROVE FALSE
      OBVIOUS
    <3>1. PICK m \in Bad : \A k \in Bad : m <= k
      <4>1. Bad \subseteq Nat
        BY <2>2
      <4> HIDE DEF Bad
      <4> QED
        BY Least, <4>1
    <3>2. m \in 1..N /\ f[m] # Order(End(m))
      BY <3>1
    <3> HIDE DEF S, N, L, End
    <3>3. ss[m] = [k \in 1..L(m) |-> (m - 1) * S + k]
      BY <2>3, <3>2
    <3> HIDE DEF ss, Part1
    <3>4. Order((m - 1) * S) \o ss[m] = Order(End(m))
      <4>1. (m - 1) * S \in Nat /\ L(m) \in Nat /\ End(m) = (m - 1) * S + L(m)
        BY <2>6, <3>2
      <4> QED
        BY <3>3, <4>1, OrderGrows
    <3>5. CASE m = 1
      <4>1. f[m] = ss[m]
        BY <2>5, <3>2, <3>5
      <4>2. (m - 1) * S = 0
        BY <2>6, <3>2, <3>5
      <4>3. ss[m] = Order(L(m)) /\ End(m) = 0 + L(m)
        BY <2>6, <3>2, <3>3, <4>2 DEF Order
      <4>4. End(m) = L(m)
        BY <2>6, <3>2, <4>3
      <4> QED
        BY <3>2, <4>1, <4>3, <4>4
    <3>6. CASE m # 1
      <4>1. f[m] = f[m - 1] \o ss[m]
        BY <2>5, <3>2, <3>6
      <4>2. (m - 1) \in 1..N /\ ~(m <= m - 1) /\ End(m - 1) = (m - 1) * S
        BY <2>2, <2>6, <3>2, <3>6
      <4>3. f[m - 1] = Order(End(m - 1))
        BY <3>1, <4>2
      <4> QED
        BY <3>2, <3>4, <4>1, <4>2, <4>3
    <3> QED
      BY <3>5, <3>6
  <2>8. End(N) = n
    <3>1. N * S \in Int
      <4> HIDE DEF S, N
      <4> QED BY <2>1, <2>2, Times
    <3> HIDE DEF S, N
    <3> QED
      BY <2>2, <3>1
  <2> QED
    <3>1. N \in 1..N
      BY <2>2
    <3>2. f[N] = Order(End(N))
      BY <2>7, <3>1
    <3> HIDE DEF End, N
    <3> QED
      BY <2>5, <2>8, <3>2
<1> QED
  BY <1>1, <1>2

-----------------------------------------------------------------------------
(***************************************************************************)
(* The loop of _inflate_bounded: the ceiling on the output, and that the   *)
(* End code vouches for the whole. Both follow from LoopInvariant,         *)
(* strengthened by the types of the decompressor's state and what the End  *)
(* code implies.                                                           *)
(***************************************************************************)

\* The state of the decompressor.
InflateTypes == /\ status \in Statuses
                /\ stream \in Streams /\ sound \in Nat
                /\ next \in Nat \ {0} /\ pending \in 0..MaxRun /\ room \in 0..Chunk
                /\ eof \in BOOLEAN /\ out \in Nat /\ faithful \in BOOLEAN

\* The part of the invariant about the loop: it holds whatever was carried.
LoopPart == InflateTypes /\ LoopInvariant /\ EndSeen /\ Ceiling

\* The codes of a stream of the sender stand for 1..MaxRun bytes each.
LEMMA StreamTypes ==
    ASSUME stream \in Streams
    PROVE  /\ Len(stream) \in Nat
           /\ \A i \in 1..(Len(stream) + 1) : Start(stream, i) \in Nat
           /\ \A i \in 1..Len(stream) : /\ stream[i] \in Nat
                                        /\ stream[i] - Start(stream, i) \in 1..MaxRun
                                        /\ Start(stream, i + 1) = stream[i]
<1>1. stream \in Seq(Nat)
  BY OrderDataAssumption
<1>2. Len(stream) \in Nat /\ \A i \in 1..Len(stream) : stream[i] \in Nat
  BY <1>1
<1>3. ASSUME NEW i \in 1..(Len(stream) + 1) PROVE Start(stream, i) \in Nat
  <2>1. CASE i = 1
    BY <2>1 DEF Start
  <2>2. CASE i # 1
    BY <1>2, <2>2 DEF Start
  <2> QED
    BY <2>1, <2>2
<1>4. ASSUME NEW i \in 1..Len(stream)
      PROVE  stream[i] - Start(stream, i) \in 1..MaxRun /\ Start(stream, i + 1) = stream[i]
  <2>1. stream[i] - Start(stream, i) \in 1..MaxRun
    BY OrderDataAssumption
  <2>2. i + 1 # 1 /\ (i + 1) - 1 = i
    BY <1>2
  <2> QED
    BY <2>1, <2>2 DEF Start
<1> QED
  BY <1>2, <1>3, <1>4

\* The bounds of the loop are numbers.
LEMMA Numbers == /\ Limit \in Nat /\ Chunk \in Nat /\ Chunk > 0 /\ MaxRun \in Nat /\ MaxRun > 0
BY OrderDataAssumption

\* Before anything is sent nothing has been put out.
LEMMA InitLoop == Init => LoopPart
<1> SUFFICES ASSUME Init PROVE LoopPart
  OBVIOUS
<1>1. Start(stream, 1) = 0
  BY DEF Start
<1>2. InflateTypes /\ EndSeen
  <2>1. /\ eof \in BOOLEAN /\ faithful \in BOOLEAN /\ ~eof
        /\ status \in Statuses /\ stream \in Streams
    BY Zenon DEF Init, Statuses
  <2>2. /\ sound \in Nat /\ next \in Nat \ {0} /\ pending \in 0..MaxRun /\ room \in 0..Chunk
        /\ out \in Nat
    BY Numbers DEF Init
  <2> QED
    BY <2>1, <2>2, Zenon DEF InflateTypes, EndSeen
<1>3. LoopInvariant
  BY <1>1, StreamTypes, Numbers DEF Init, LoopInvariant
<1>4. Ceiling
  BY Numbers DEF Init, Ceiling, Early
<1> QED
  BY <1>2, <1>3, <1>4 DEF LoopPart

\* A step that leaves the decompressor alone: the statuses it may lead to.
LEMMA StatusStep ==
    ASSUME LoopPart, UNCHANGED <<stream, sound, inflating>>,
           status' \in Statuses,
           status' \in Early => status \in Early,
           status' = "looping" => out <= Limit,
           status' = "inflating" => status = "inflating",
           status' \in {"opened", "extracted"} => status \in {"opened", "extracted"}
    PROVE  LoopPart'
BY DEF LoopPart, InflateTypes, LoopInvariant, EndSeen, Ceiling, Early, inflating, Start, Size

\* Every step of sealing, carrying, opening and splitting preserves LoopPart.
LEMMA NextLoop == LoopPart /\ [Next]_vars => LoopPart'
<1> SUFFICES ASSUME LoopPart, [Next]_vars PROVE LoopPart'
  OBVIOUS
<1>0. /\ Limit \in Nat /\ Chunk \in Nat /\ Chunk > 0 /\ MaxRun \in Nat /\ MaxRun > 0
  BY Numbers
<1>1. CASE PrepareUpload \/ BankSeals
  <2>1. status = "plain" /\ status' = "sent" /\ UNCHANGED <<stream, sound, inflating>>
    BY <1>1 DEF PrepareUpload, BankSeals, Seal, sealing, cipher
  <2> QED
    BY <2>1, StatusStep DEF Statuses, Early
<1>2. CASE Deliver
  <2>1. status = "sent" /\ status' = "received" /\ UNCHANGED <<stream, sound, inflating>>
    BY <1>2 DEF Deliver, sealing, cipher
  <2> QED
    BY <2>1, StatusStep DEF Statuses, Early
<1>3. CASE Decrypt
  <2>1. out = 0 /\ status = "received" /\ UNCHANGED <<stream, inflating>>
    BY <1>3 DEF Decrypt, LoopPart, Ceiling, Early, sealing
  <2>2. CASE Refuse /\ UNCHANGED cipher
    BY <2>1, <2>2, StatusStep DEF Refuse, Statuses, Early, cipher
  <2>3. CASE ~(Refuse /\ UNCHANGED cipher)
    <3>1. sound' \in Nat /\ status' = "looping"
      BY <1>0, <1>3, <2>3, OrderDataAssumption DEF Decrypt
    <3>2. LoopPart'
      <4>1. faithful' /\ out' = 0 /\ status' \in Statuses
        BY <2>1, <3>1 DEF LoopPart, Ceiling, Early, inflating, Statuses
      <4>2. InflateTypes' /\ EndSeen'
        BY <2>1, <3>1, <4>1 DEF LoopPart, InflateTypes, EndSeen, inflating, Size, Start
      <4>3. LoopInvariant'
        BY <1>0, <2>1, <3>1, <4>1 DEF LoopPart, InflateTypes, LoopInvariant, inflating, Start
      <4>4. Ceiling'
        BY <1>0, <2>1, <3>1, <4>1 DEF LoopPart, Ceiling, Early, inflating
      <4> QED
        BY <4>2, <4>3, <4>4 DEF LoopPart
    <3> QED
      BY <3>2
  <2> QED
    BY <2>2, <2>3
<1>4. CASE Decompress
  <2>1. /\ UNCHANGED <<stream, sound, next, pending, eof, out, faithful>>
        /\ status = "looping" /\ status' = "inflating" /\ room' = Chunk
    BY <1>4 DEF Decompress, CapOutput, sealing, cipher
  <2>2. InflateTypes' /\ EndSeen' /\ Ceiling'
    BY <1>0, <2>1 DEF LoopPart, InflateTypes, EndSeen, Ceiling, Early, Statuses, Size, Start
  <2>3. LoopInvariant'
    BY <1>0, <2>1 DEF LoopPart, InflateTypes, LoopInvariant, Start
  <2> QED
    BY <2>2, <2>3 DEF LoopPart
<1>5. CASE ReadCode
  <2>1. /\ UNCHANGED <<status, stream, sound, room, eof, out, faithful>>
        /\ status = "inflating" /\ pending = 0 /\ ~eof /\ next <= Len(stream) /\ next <= sound
        /\ pending' = stream[next] - Start(stream, next) /\ next' = next + 1
    BY <1>5 DEF ReadCode, Reads, sealing, cipher
  <2>2. /\ next \in 1..Len(stream) /\ Len(stream) \in Nat
        /\ pending' \in 1..MaxRun /\ Start(stream, next + 1) = stream[next]
        /\ stream[next] \in Nat /\ Start(stream, next) \in Nat
    BY <2>1, StreamTypes DEF LoopPart, InflateTypes
  <2>3. InflateTypes' /\ EndSeen' /\ Ceiling'
    BY <1>0, <2>1, <2>2 DEF LoopPart, InflateTypes, EndSeen, Ceiling, Early
  <2>4. LoopInvariant'
    <3>1. faithful /\ out = Start(stream, next)
      BY <2>1, <2>2 DEF LoopPart, InflateTypes, LoopInvariant
    <3>2. out + pending' = Start(stream', next')
      BY <2>1, <2>2, <3>1 DEF LoopPart, InflateTypes
    <3> QED
      BY <2>1, <2>2, <3>1, <3>2 DEF LoopPart, InflateTypes, LoopInvariant
  <2> QED
    BY <2>3, <2>4 DEF LoopPart
<1>6. CASE ReadEnd
  <2>1. /\ UNCHANGED <<status, stream, sound, next, pending, room, out, faithful>>
        /\ status = "inflating" /\ pending = 0 /\ next = Len(stream) + 1 /\ eof' = TRUE
        /\ next <= sound
    BY <1>6 DEF ReadEnd, Reads, sealing, cipher
  <2>2. faithful /\ out = Size(stream)
    BY <2>1 DEF LoopPart, InflateTypes, LoopInvariant, Size
  <2> QED
    BY <2>1, <2>2 DEF LoopPart, InflateTypes, LoopInvariant, EndSeen, Ceiling, Early, Size,
                      Start
<1>7. CASE ReadGarbled
  <2>1. /\ UNCHANGED <<stream, sound, room, eof, out>>
        /\ status = "inflating" /\ status' \in {"inflating", "failed"} /\ ~eof
        /\ next > sound /\ pending' \in 0..MaxRun /\ next' = next + 1 /\ faithful' = FALSE
    BY <1>7 DEF ReadGarbled, Reads, Garbled, Refuse, sealing, cipher
  <2>2. InflateTypes' /\ EndSeen'
    <3>1. faithful' \in BOOLEAN /\ eof' \in BOOLEAN /\ ~eof' /\ stream' \in Streams
      BY <2>1, Zenon DEF LoopPart, InflateTypes
    <3>2. /\ status' \in Statuses /\ sound' \in Nat /\ next' \in Nat \ {0}
          /\ pending' \in 0..MaxRun /\ room' \in 0..Chunk /\ out' \in Nat
      BY <2>1 DEF LoopPart, InflateTypes, Statuses
    <3> QED
      BY <3>1, <3>2, Zenon DEF InflateTypes, EndSeen
  <2>3. LoopInvariant'
    BY <1>0, <2>1 DEF LoopPart, InflateTypes, LoopInvariant
  <2>4. Ceiling'
    BY <1>0, <2>1 DEF LoopPart, Ceiling, Early
  <2> QED
    BY <2>2, <2>3, <2>4 DEF LoopPart
<1>8. CASE PutOut
  <2>1. /\ UNCHANGED <<status, stream, sound, next, eof, faithful>>
        /\ status = "inflating" /\ pending > 0 /\ room > 0
        /\ out' = out + 1 /\ pending' = pending - 1 /\ room' = room - 1
    BY <1>8 DEF PutOut, sealing, cipher
  <2>2. InflateTypes' /\ EndSeen'
    BY <1>0, <2>1 DEF LoopPart, InflateTypes, EndSeen
  <2>3. LoopInvariant'
    BY <1>0, <2>1 DEF LoopPart, InflateTypes, LoopInvariant, Start
  <2>4. out' <= Limit + Chunk
    BY <1>0, <2>1 DEF LoopPart, InflateTypes, LoopInvariant
  <2>5. Ceiling'
    BY <1>0, <2>1, <2>4 DEF LoopPart, InflateTypes, Ceiling, Early
  <2> QED
    BY <2>2, <2>3, <2>5 DEF LoopPart
<1>9. CASE DecompressReturns
  <2>1. /\ UNCHANGED <<stream, sound, inflating>> /\ status = "inflating"
        /\ IF out > Limit THEN status' = "failed" ELSE status' = "looping"
    BY <1>9 DEF DecompressReturns, CheckCeiling, Refuse, sealing, cipher
  <2>2. out > Limit \/ out <= Limit
    BY <1>0 DEF LoopPart, InflateTypes
  <2> QED
    BY <2>1, <2>2, StatusStep DEF Statuses, Early
<1>10. CASE Flush
  <2>1. /\ UNCHANGED <<stream, sound, next, room, eof, faithful>>
        /\ status = "looping" /\ out' = out + pending /\ pending' = 0
        /\ status' = IF out' > Limit THEN "failed" ELSE "opened"
    BY <1>10 DEF Flush, sealing, cipher
  <2>2. InflateTypes' /\ EndSeen'
    BY <1>0, <2>1 DEF LoopPart, InflateTypes, EndSeen, Statuses, Size, Start
  <2>3. LoopInvariant'
    BY <1>0, <2>1 DEF LoopPart, InflateTypes, LoopInvariant, Start
  <2>4. out' <= Limit + MaxRun
    BY <1>0, <2>1 DEF LoopPart, InflateTypes, LoopInvariant
  <2>5. Ceiling'
    BY <1>0, <2>1, <2>2, <2>4 DEF LoopPart, InflateTypes, Ceiling, Early
  <2> QED
    BY <2>2, <2>3, <2>5 DEF LoopPart
<1>11. CASE Extract
  <2>1. /\ UNCHANGED <<stream, sound, inflating>>
        /\ status = "opened" /\ status' \in {"extracted", "failed"}
    BY <1>11 DEF Extract, ReadEntries, AsOneDocument, Refuse, sealing, cipher
  <2> QED
    BY <2>1, StatusStep DEF Statuses, Early
<1>12. CASE UNCHANGED vars
  BY <1>12, StatusStep DEF Early, vars, sealing, cipher, LoopPart, InflateTypes, LoopInvariant
<1> QED
  BY <1>1, <1>3, <1>2, <1>4, <1>5, <1>6, <1>7, <1>8, <1>9, <1>10, <1>11, <1>12
  DEF Next, OpenData

\* The strengthened invariant holds of every behaviour.
THEOREM LoopPartHolds == Spec => []LoopPart
BY InitLoop, NextLoop, PTL DEF Spec

\* The output never exceeds the ceiling by more than a call or a code puts out, and what is
\* returned does not exceed it (_inflate_bounded).
THEOREM Bounded == Spec => []BoundedOutput
<1>1. LoopPart => BoundedOutput
  BY DEF LoopPart, Ceiling, Early, BoundedOutput
<1> QED
  BY <1>1, LoopPartHolds, PTL

\* What was opened up to its End code is exactly the order data (_inflate_bounded): no
\* defect of the carriage gets past the checksum.
THEOREM Vouched == Spec => []EndVouches
<1>1. LoopPart => EndVouches
  BY DEF LoopPart, EndSeen, EndVouches, Whole
<1> QED
  BY <1>1, LoopPartHolds, PTL

-----------------------------------------------------------------------------
(***************************************************************************)
(* From sealing to the End code: what is carried without a defect fills    *)
(* whole blocks, so all of it decrypts, and the loop reaches its End code. *)
(***************************************************************************)

\* Whole blocks that hold the stream and its End code: what is sealed.
Blocks(codes) == codes \in (Len(stream) + 1)..(Len(stream) + 1 + Block) /\ codes % Block = 0

\* The part of the invariant about what is carried, up to where the loop ends.
CarriagePart == TypeOK /\ SealedInBlocks /\ OpenedAsSent

\* What prepare_upload and the bank add fills the last block (encrypt_with_transaction_key).
LEMMA SealedBlocks ==
    ASSUME stream \in Streams, NEW pad,
           \/ pad = Pkcs7(Len(stream) + 1)
           \/ pad \in 0..Block /\ (Len(stream) + 1 + pad) % Block = 0
    PROVE  Blocks(Len(stream) + 1 + pad)
<1>1. Len(stream) + 1 \in Nat /\ Block \in Nat \ {0}
  BY StreamTypes, OrderDataAssumption
<1>2. CASE pad = Pkcs7(Len(stream) + 1)
  <2> DEFINE c == Len(stream) + 1
             q == c \div Block
             r == c % Block
  <2>1. c \in Nat /\ q \in Nat /\ r \in 0..(Block - 1) /\ c = Block * q + r
    <3> HIDE DEF c
    <3>1. c \in Nat
      BY <1>1 DEF c
    <3> QED
      BY <1>1, <3>1, Quotient
  <2>2. pad = Block - r
    BY <1>2 DEF Pkcs7
  <2> HIDE DEF c, q, r
  <2>3. c + pad = Block * q + Block
    BY <1>1, <2>1, <2>2
  <2>4. Block * q + Block = (q + 1) * Block
    <3>1. (q + 1) - 1 = q /\ q + 1 \in Int
      BY <2>1
    <3>2. ((q + 1) - 1) * Block = (q + 1) * Block - Block /\ (q + 1) * Block \in Int
      BY <1>1, <3>1, Times
    <3>3. q * Block = Block * q
      BY <1>1, <2>1, Times
    <3> QED
      BY <3>1, <3>2, <3>3, <1>1
  <2>5. ((q + 1) * Block) % Block = 0
    BY <1>1, <2>1
  <2>6. c + pad \in c..(c + Block)
    BY <1>1, <2>1, <2>2
  <2> QED
    BY <2>3, <2>4, <2>5, <2>6 DEF Blocks, c
<1>3. CASE pad \in 0..Block /\ (Len(stream) + 1 + pad) % Block = 0
  <2>1. Len(stream) \in Nat
    BY StreamTypes
  <2> QED
    BY <1>1, <1>3, <2>1 DEF Blocks
<1> QED
  BY <1>2, <1>3

\* No code ends behind the last.
LEMMA WithinStream ==
    ASSUME stream \in Streams, NEW i \in 1..(Len(stream) + 1)
    PROVE  Start(stream, i) <= Size(stream)
<1> DEFINE N == Len(stream)
           Bad == {d \in 0..N : ~(Start(stream, N + 1 - d) <= Size(stream))}
<1>1. N \in Nat /\ \A k \in 1..(N + 1) : Start(stream, k) \in Nat
  BY StreamTypes
<1>2. Bad = {}
  <2> SUFFICES ASSUME Bad # {} PROVE FALSE
    OBVIOUS
  <2>1. PICK d \in Bad : \A k \in Bad : d <= k
    <3>1. Bad \subseteq Nat
      BY <1>1
    <3> HIDE DEF Bad
    <3> QED
      BY Least, <3>1
  <2>2. d \in 0..N /\ ~(Start(stream, N + 1 - d) <= Size(stream))
    BY <2>1
  <2> HIDE DEF N
  <2>3. d # 0
    <3> SUFFICES ASSUME d = 0 PROVE FALSE
      OBVIOUS
    <3>1. N + 1 - d = N + 1 /\ N + 1 \in 1..(N + 1)
      BY <1>1
    <3>2. Size(stream) = Start(stream, N + 1)
      BY DEF Size, N
    <3> QED
      BY <1>1, <2>2, <3>1, <3>2
  <2>4. d - 1 \in 0..N /\ ~(d <= d - 1)
    BY <1>1, <2>2, <2>3
  <2>5. Start(stream, N + 1 - (d - 1)) <= Size(stream)
    BY <2>1, <2>4
  <2> DEFINE j == N + 1 - d
  <2>6. j \in 1..N /\ N + 1 - (d - 1) = j + 1 /\ j \in 1..(N + 1)
    BY <1>1, <2>2, <2>3
  <2> HIDE DEF j
  <2>7. /\ stream[j] - Start(stream, j) \in 1..MaxRun
        /\ Start(stream, j + 1) = stream[j] /\ stream[j] \in Nat
    BY <2>6, StreamTypes DEF N
  <2>8. Size(stream) \in Nat
    <3>1. N + 1 \in 1..(N + 1)
      BY <1>1
    <3> QED
      BY <1>1, <3>1 DEF Size, N
  <2>9. Start(stream, j) <= Size(stream)
    <3>1. Start(stream, j) \in Nat
      BY <1>1, <2>6
    <3>2. stream[j] - Start(stream, j) >= 1
      BY <2>7, Numbers
    <3>3. stream[j] <= Size(stream)
      BY <2>5, <2>6, <2>7
    <3> QED
      BY <2>7, <2>8, <3>1, <3>2, <3>3
  <2> QED
    BY <2>2, <2>9 DEF j
<1>3. N + 1 - i \in 0..N /\ N + 1 - (N + 1 - i) = i
  BY <1>1
<1> QED
  BY <1>2, <1>3

\* Before anything is sealed nothing is decrypted.
LEMMA InitCarriage == Init => CarriagePart
<1> SUFFICES ASSUME Init PROVE CarriagePart
  OBVIOUS
<1>1. segments \in Seq(Seq(Nat))
  BY EmptySeq DEF Init
<1>2. /\ stream \in Streams /\ content \in Contents
      /\ eof \in BOOLEAN /\ faithful \in BOOLEAN
      /\ status = "plain" /\ defect = "none"
  BY Zenon DEF Init
<1>3. /\ length \in Nat /\ sound \in 0..length /\ next \in 1..(length + 1)
      /\ pending \in 0..MaxRun /\ room \in 0..Chunk /\ out \in Nat /\ next = 1 /\ length = 0
  BY Numbers DEF Init
<1>4. TypeOK
  BY <1>1, <1>2, <1>3 DEF TypeOK, Statuses
<1> QED
  BY <1>2, <1>3, <1>4 DEF CarriagePart, SealedInBlocks, OpenedAsSent, Early

\* Sealing (prepare_upload, or the bank).
LEMMA SealCarriage ==
    ASSUME CarriagePart, PrepareUpload \/ BankSeals
    PROVE  CarriagePart'
<1>1. PICK pad : /\ \/ pad = Pkcs7(Len(stream) + 1)
                    \/ pad \in 0..Block /\ (Len(stream) + 1 + pad) % Block = 0
                 /\ Seal(pad)
  BY DEF PrepareUpload, BankSeals
<1> DEFINE codes == Len(stream) + 1 + pad
<1>2. Blocks(codes) /\ stream \in Streams
  BY <1>1, SealedBlocks DEF CarriagePart, TypeOK
<1>3. /\ segments' = Split(codes * CharsPerCode) /\ status = "plain" /\ status' = "sent"
      /\ UNCHANGED <<stream, content, defect, length, sound,
                     next, pending, room, eof, out, faithful>>
  BY <1>1 DEF Seal, sealing, cipher, inflating
<1> HIDE DEF codes
<1>4. segments' \in Seq(Seq(Nat))
  <2>1. codes * CharsPerCode \in Nat
    BY <1>2, StreamTypes DEF Blocks, CharsPerCode
  <2> QED
    BY <1>3, <2>1, SplitType
<1>5. TypeOK'
  BY <1>3, <1>4 DEF CarriagePart, TypeOK, Statuses
<1>6. SealedInBlocks' /\ OpenedAsSent'
  BY <1>2, <1>3 DEF CarriagePart, SealedInBlocks, OpenedAsSent, Early, Blocks
<1> QED
  BY <1>5, <1>6 DEF CarriagePart

\* Whatever happens to the segments, they stay sequences of characters.
LEMMA ArrivalsTypes ==
    ASSUME segments \in Seq(Seq(Nat)), NEW what
    PROVE  \A held \in Arrivals(what) : held \in Seq(Seq(Nat))
<1>1. Len(segments) \in Nat /\ \A i \in 1..Len(segments) : segments[i] \in Seq(Nat)
  BY LenProperties
<1>2. ASSUME NEW n \in 1..(Len(segments) - 1) PROVE SubSeq(segments, 1, n) \in Seq(Seq(Nat))
  <2>1. n \in Int /\ 1 \in Int /\ \A i \in 1..n : segments[i] \in Seq(Nat)
    BY <1>1
  <2> QED
    BY <2>1, SubSeqProperties
<1>3. ASSUME NEW n \in 0..(Len(FlattenSeq(segments)) - 1) PROVE Split(n) \in Seq(Seq(Nat))
  <2>1. FlattenSeq(segments) \in Seq(Nat)
    BY FlattenType
  <2>2. Len(FlattenSeq(segments)) \in Nat
    BY <2>1, LenProperties
  <2>3. n \in Nat
    BY <2>2
  <2> QED
    BY <2>3, SplitType
<1>4. ASSUME NEW n \in 2..Len(segments)
      PROVE  [segments EXCEPT ![1] = segments[n]] \in Seq(Seq(Nat))
  <2>1. 1 \in 1..Len(segments) /\ segments[n] \in Seq(Nat)
    BY <1>1
  <2> QED
    BY <2>1, ExceptSeq
<1>5. ASSUME NEW n \in 1..Len(segments), NEW k \in 1..Len(segments[n])
      PROVE  [segments EXCEPT ![n] = [@ EXCEPT ![k] = 0]] \in Seq(Seq(Nat))
  <2>1. [segments[n] EXCEPT ![k] = 0] \in Seq(Nat)
    <3>1. segments[n] \in Seq(Nat) /\ 0 \in Nat
      BY <1>1
    <3> QED
      BY <3>1, ExceptSeq
  <2>2. [segments EXCEPT ![n] = [segments[n] EXCEPT ![k] = 0]] \in Seq(Seq(Nat))
    BY <2>1, ExceptSeq
  <2> QED
    BY <2>2
<1>6. CASE what = "short"
  <2>1. Arrivals(what) = {SubSeq(segments, 1, n) : n \in 1..(Len(segments) - 1)}
    BY <1>6 DEF Arrivals
  <2> QED
    BY <1>2, <2>1
<1>7. CASE what = "cut"
  <2>1. Arrivals(what) = {Split(n) : n \in 0..(Len(FlattenSeq(segments)) - 1)}
    BY <1>7 DEF Arrivals
  <2> QED
    BY <1>3, <2>1
<1>8. CASE what = "misplaced"
  <2>1. Arrivals(what) = {[segments EXCEPT ![1] = segments[n]] : n \in 2..Len(segments)}
    BY <1>8 DEF Arrivals
  <2> QED
    BY <1>4, <2>1
<1>9. CASE what = "damaged"
  <2>1. Arrivals(what) = UNION {{[segments EXCEPT ![n] = [@ EXCEPT ![k] = 0]] :
                             k \in 1..Len(segments[n])} : n \in 1..Len(segments)}
    BY <1>9 DEF Arrivals
  <2>2. ASSUME NEW held \in Arrivals(what) PROVE held \in Seq(Seq(Nat))
    <3>1. PICK n \in 1..Len(segments) :
              held \in {[segments EXCEPT ![n] = [@ EXCEPT ![k] = 0]] :
                               k \in 1..Len(segments[n])}
      BY <2>1
    <3>2. PICK k \in 1..Len(segments[n]) : held = [segments EXCEPT ![n] = [@ EXCEPT ![k] = 0]]
      BY <3>1
    <3> QED
      BY <1>5, <3>2
  <2> QED
    BY <2>2
<1>10. CASE what \notin {"short", "cut", "misplaced", "damaged"}
  <2>1. Arrivals(what) = {segments}
    BY <1>10 DEF Arrivals
  <2> QED
    BY <2>1
<1> QED
  BY <1>6, <1>7, <1>8, <1>9, <1>10

\* The way of the segments: what has no defect arrives as it was sent.
LEMMA DeliverCarriage == ASSUME CarriagePart, Deliver PROVE CarriagePart'
<1>1. /\ status = "sent" /\ status' = "received"
      /\ defect' \in Defects \cup {"none"} /\ segments' \in Arrivals(defect')
      /\ UNCHANGED <<stream, content, length, sound, next, pending, room, eof, out, faithful>>
  BY DEF Deliver, sealing, cipher, inflating
<1>2. segments' \in Seq(Seq(Nat))
  BY <1>1, ArrivalsTypes DEF CarriagePart, TypeOK
<1>3. TypeOK'
  BY <1>1, <1>2 DEF CarriagePart, TypeOK, Statuses
<1>4. defect' = "none" => segments' = segments
  BY <1>1 DEF Arrivals
<1> QED
  BY <1>1, <1>3, <1>4 DEF CarriagePart, SealedInBlocks, OpenedAsSent, Early

\* decrypt_order_data: segments without a defect decrypt to the whole stream.
LEMMA DecryptCarriage == ASSUME LoopPart, CarriagePart, Decrypt PROVE CarriagePart'
<1> DEFINE chars == FlattenSeq(segments)
           codes == Len(chars) \div CharsPerCode
<1>1. /\ status = "received"
      /\ UNCHANGED <<stream, content, segments, defect, next, pending, room, eof, out, faithful>>
  BY DEF Decrypt, sealing, carriage, inflating
<1>2. chars \in Seq(Nat) /\ Len(chars) \in Nat /\ codes \in Nat
  <2>1. chars \in Seq(Nat)
    BY FlattenType DEF CarriagePart, TypeOK
  <2>2. Len(chars) \in Nat
    BY <2>1, LenProperties
  <2> HIDE DEF chars
  <2> QED
    BY <2>1, <2>2, Quotient DEF CharsPerCode
<1>3. Block \in Nat \ {0}
  BY OrderDataAssumption
<1>4. next = 1 /\ faithful
  BY <1>1 DEF CarriagePart, SealedInBlocks, Early, LoopPart, Ceiling
<1>5. ASSUME defect = "none"
      PROVE  /\ codes > Len(stream) /\ codes % Block = 0
             /\ Decodable /\ chars = Order(codes * CharsPerCode)
  <2>0. Len(stream) \in Nat
    BY StreamTypes DEF CarriagePart, TypeOK
  <2>1. PICK c \in Nat : c > Len(stream) /\ c % Block = 0 /\ segments = Split(c * CharsPerCode)
    BY <1>1, <1>3, <1>5, <2>0 DEF CarriagePart, SealedInBlocks
  <2>2. c * CharsPerCode \in Nat /\ (c * CharsPerCode) \div CharsPerCode = c
        /\ (c * CharsPerCode) % CharsPerCode = 0
    BY DEF CharsPerCode
  <2>3. chars = Order(c * CharsPerCode)
    BY <2>1, <2>2, JoinsToOrder
  <2>4. Len(chars) = c * CharsPerCode
    <3>1. Order(c * CharsPerCode) \in [1..(c * CharsPerCode) -> Nat]
      BY <2>2 DEF Order
    <3> QED
      BY <2>2, <2>3, <3>1, AsSequence
  <2>5. codes = c
    BY <2>2, <2>4
  <2>6. Decodable
    BY <2>2, <2>4 DEF Decodable
  <2> QED
    BY <2>1, <2>3, <2>5, <2>6
<1>6. CASE Refuse /\ UNCHANGED cipher /\ (~Decodable \/ codes % Block # 0 \/ defect = "key")
  <2>1. status' = "failed" /\ length' = length /\ sound' = sound /\ defect # "none"
    BY <1>5, <1>6 DEF Refuse, cipher
  <2>2. TypeOK'
    BY <1>1, <2>1 DEF CarriagePart, TypeOK, Statuses
  <2> QED
    BY <1>1, <2>1, <2>2 DEF CarriagePart, SealedInBlocks, OpenedAsSent, Early
<1>7. ASSUME length' = codes, status' = "looping",
             NEW n \in 0..(codes \div Block), sound' = n * Block,
             IF defect = "key" THEN n = 0 ELSE SoundBlocks(chars, n)
      PROVE  CarriagePart'
  <2>1. codes \div Block \in Nat /\ codes = Block * (codes \div Block) + (codes % Block)
        /\ codes % Block \in 0..(Block - 1)
    <3> HIDE DEF codes
    <3> QED
      BY <1>2, <1>3, Quotient
  <2> HIDE DEF codes, chars
  <2>2. n * Block \in Nat /\ n * Block <= codes
    <3>1. n <= codes \div Block /\ n \in Nat
      BY <2>1
    <3>2. n * Block <= (codes \div Block) * Block /\ n * Block \in Int
          /\ (codes \div Block) * Block = Block * (codes \div Block)
      BY <1>3, <2>1, <3>1, Times
    <3>3. Block * (codes \div Block) <= codes
      BY <1>2, <1>3, <2>1
    <3>4. n * Block >= 0
      BY <1>3, <3>1
    <3>5. (codes \div Block) * Block <= codes
      BY <3>2, <3>3
    <3> DEFINE m == n * Block
               c == (codes \div Block) * Block
    <3>6. m \in Int /\ m <= c /\ c <= codes /\ m >= 0 /\ c \in Int
      BY <1>3, <2>1, <3>2, <3>4, <3>5, Times
    <3> HIDE DEF m, c
    <3>7. m \in Nat /\ m <= codes
      BY <1>2, <3>6
    <3> QED
      BY <3>7 DEF m
  <2>3. TypeOK'
    BY <1>1, <1>2, <1>4, <1>7, <2>2 DEF CarriagePart, TypeOK, Statuses
  <2>4. ASSUME defect = "none" PROVE n * Block = codes
    <3>1. codes % Block = 0 /\ SoundBlocks(chars, n) /\ chars = Order(codes * CharsPerCode)
      BY <1>5, <1>7, <2>4 DEF codes, chars
    <3> SUFFICES ASSUME n * Block # codes PROVE FALSE
      OBVIOUS
    <3>2. n < codes \div Block
      <4>1. (codes \div Block) * Block = codes
        BY <1>2, <1>3, <2>1, <3>1, Times
      <4>2. n # codes \div Block
        BY <4>1
      <4> QED
        BY <2>1, <4>2
    <3>3. (n + 1) * Block <= codes /\ (n + 1) * Block \in Nat
      <4>1. n + 1 <= codes \div Block /\ n + 1 \in Nat
        BY <2>1, <3>2
      <4>2. n + 1 \in Int /\ codes \div Block \in Int
        BY <2>1, <4>1
      <4>3. (n + 1) * Block <= (codes \div Block) * Block /\ (n + 1) * Block \in Int
        BY <1>3, <4>1, <4>2, Times
      <4>4. (codes \div Block) * Block = codes
        BY <1>2, <1>3, <2>1, <3>1, <4>2, Times
      <4>5. (n + 1) * Block >= 0
        BY <1>3, <4>1
      <4> DEFINE m == (n + 1) * Block
      <4>6. m \in Int /\ m >= 0 /\ m <= codes
        BY <4>3, <4>4, <4>5
      <4> HIDE DEF m
      <4>7. m \in Nat /\ m <= codes
        BY <1>2, <4>6
      <4> QED
        BY <4>7 DEF m
    <3>4. ASSUME NEW k \in ((n + 1 - 1) * Block * CharsPerCode + 1)
                           ..((n + 1) * Block * CharsPerCode)
          PROVE  k <= Len(chars) /\ chars[k] = k
      <4>1. k \in 1..(codes * CharsPerCode)
        <5>1. (n + 1 - 1) * Block \in Nat
          <6>1. n + 1 - 1 = n
            BY <2>1
          <6> QED
            BY <2>2, <6>1
        <5> QED
          BY <1>2, <3>3, <5>1 DEF CharsPerCode
      <4>2. Len(chars) = codes * CharsPerCode
        <5>1. Order(codes * CharsPerCode) \in [1..(codes * CharsPerCode) -> Nat]
              /\ codes * CharsPerCode \in Nat
          BY <1>2 DEF Order, CharsPerCode
        <5> QED
          BY <3>1, <5>1, AsSequence
      <4> QED
        BY <1>2, <3>1, <4>1, <4>2 DEF Order, CharsPerCode
    <3> QED
      BY <3>1, <3>4 DEF SoundBlocks
  <2>5. defect = "none" => faithful' /\ sound' = length' /\ length' > Len(stream')
    BY <1>1, <1>4, <1>5, <1>7, <2>4 DEF codes
  <2>6. SealedInBlocks' /\ OpenedAsSent'
    BY <1>1, <1>7, <2>5 DEF SealedInBlocks, OpenedAsSent, Early
  <2> QED
    BY <2>3, <2>6 DEF CarriagePart
<1>8. \/ Refuse /\ UNCHANGED cipher /\ (~Decodable \/ codes % Block # 0 \/ defect = "key")
      \/ /\ length' = codes /\ status' = "looping"
         /\ \E n \in 0..(codes \div Block) :
               sound' = n * Block /\ (IF defect = "key" THEN n = 0 ELSE SoundBlocks(chars, n))
  BY DEF Decrypt
<1> HIDE DEF codes, chars
<1> QED
  BY <1>6, <1>7, <1>8

\* A step of the loop leaves the segments and what was decrypted as they are.
Carried == UNCHANGED <<stream, content, segments, defect, length, sound>>

\* The loop of _inflate_bounded: without a defect it fails at the ceiling only, and ends
\* with the End code.
LEMMA LoopCarriage ==
    ASSUME LoopPart, CarriagePart,
           \/ Decompress \/ ReadCode \/ ReadEnd \/ ReadGarbled
           \/ PutOut \/ DecompressReturns \/ Flush
    PROVE  CarriagePart'
<1>0. /\ Limit \in Nat /\ Chunk \in Nat /\ Chunk > 0 /\ MaxRun \in Nat /\ MaxRun > 0
  BY Numbers
<1>1. CASE Decompress
  <2>1. /\ Carried /\ UNCHANGED <<next, pending, eof, out, faithful>>
        /\ status = "looping" /\ status' = "inflating" /\ room' = Chunk
    BY <1>1 DEF Decompress, CapOutput, sealing, carriage, cipher, Carried
  <2>2. TypeOK'
    BY <1>0, <2>1 DEF CarriagePart, TypeOK, Statuses, Carried
  <2> QED
    BY <2>1, <2>2 DEF CarriagePart, SealedInBlocks, OpenedAsSent, Early, Carried
<1>2. CASE ReadCode
  <2>1. /\ Carried /\ UNCHANGED <<status, room, eof, out, faithful>>
        /\ status = "inflating" /\ next <= Len(stream) /\ next <= length
        /\ pending' = stream[next] - Start(stream, next) /\ next' = next + 1
    BY <1>2 DEF ReadCode, Reads, InputLeft, sealing, carriage, cipher, Carried
  <2>2. /\ length \in Nat /\ next' \in 1..(length' + 1) /\ pending' \in 0..MaxRun
    <3>1. Len(stream) \in Nat /\ next \in 1..Len(stream) /\ length \in Nat
      BY <2>1, StreamTypes DEF CarriagePart, TypeOK
    <3>2. pending' \in 1..MaxRun
      BY <2>1, <3>1, StreamTypes DEF CarriagePart, TypeOK
    <3> QED
      BY <1>0, <2>1, <3>1, <3>2 DEF Carried
  <2>3. TypeOK'
    BY <2>1, <2>2 DEF CarriagePart, TypeOK, Carried
  <2> QED
    BY <2>1, <2>3 DEF CarriagePart, SealedInBlocks, OpenedAsSent, Early, Carried
<1>3. CASE ReadEnd
  <2>1. /\ Carried /\ UNCHANGED <<status, next, pending, room, out, faithful>>
        /\ status = "inflating" /\ eof' = TRUE
    BY <1>3 DEF ReadEnd, Reads, sealing, carriage, cipher, Carried
  <2>2. TypeOK'
    BY <2>1 DEF CarriagePart, TypeOK, Carried
  <2> QED
    BY <2>1, <2>2 DEF CarriagePart, SealedInBlocks, OpenedAsSent, Early, Carried
<1>4. CASE ReadGarbled
  <2>1. /\ Carried /\ UNCHANGED <<room, eof, out>>
        /\ status = "inflating" /\ status' \in {"inflating", "failed"}
        /\ next > sound /\ next <= length
        /\ pending' \in 0..MaxRun /\ next' = next + 1 /\ faithful' = FALSE
    BY <1>4 DEF ReadGarbled, Reads, InputLeft, Garbled, Refuse, sealing, carriage, cipher,
                Carried
  <2>2. defect # "none"
    BY <2>1 DEF CarriagePart, TypeOK, OpenedAsSent, Early
  <2>3. next' \in 1..(length' + 1) /\ status' \in Statuses
    BY <2>1 DEF CarriagePart, TypeOK, Statuses, Carried
  <2>4. TypeOK'
    BY <2>1, <2>3 DEF CarriagePart, TypeOK, Carried
  <2> QED
    BY <2>1, <2>2, <2>4 DEF CarriagePart, SealedInBlocks, OpenedAsSent, Early, Carried
<1>5. CASE PutOut
  <2>1. /\ Carried /\ UNCHANGED <<status, next, eof, faithful>>
        /\ status = "inflating" /\ pending > 0 /\ room > 0
        /\ out' = out + 1 /\ pending' = pending - 1 /\ room' = room - 1
    BY <1>5 DEF PutOut, sealing, carriage, cipher, Carried
  <2>2. TypeOK'
    BY <1>0, <2>1 DEF CarriagePart, TypeOK, Carried
  <2> QED
    BY <2>1, <2>2 DEF CarriagePart, SealedInBlocks, OpenedAsSent, Early, Carried
<1>6. CASE DecompressReturns
  <2>1. /\ Carried /\ UNCHANGED <<next, pending, room, eof, out, faithful>>
        /\ status = "inflating"
        /\ IF out > Limit THEN status' = "failed" ELSE status' = "looping"
    BY <1>6 DEF DecompressReturns, CheckCeiling, Refuse, sealing, carriage, cipher, inflating,
                Carried
  <2>2. TypeOK'
    BY <2>1 DEF CarriagePart, TypeOK, Statuses, Carried
  <2>3. ASSUME status' = "failed", defect = "none" PROVE Size(stream) > Limit
    <3>1. faithful /\ out + pending = Start(stream, next) /\ next \in 1..(Len(stream) + 1)
      BY <2>1, <2>3 DEF LoopPart, LoopInvariant, CarriagePart, OpenedAsSent, Early
    <3>2. Start(stream, next) <= Size(stream) /\ Start(stream, next) \in Nat
      BY <3>1, WithinStream, StreamTypes DEF LoopPart, InflateTypes
    <3>3. Size(stream) \in Nat
      <4>1. Len(stream) + 1 \in 1..(Len(stream) + 1)
        BY StreamTypes DEF LoopPart, InflateTypes
      <4> QED
        BY <4>1, StreamTypes DEF Size, LoopPart, InflateTypes
    <3> QED
      BY <1>0, <2>1, <2>3, <3>1, <3>2, <3>3 DEF LoopPart, InflateTypes
  <2> QED
    BY <2>1, <2>2, <2>3 DEF CarriagePart, SealedInBlocks, OpenedAsSent, Early, Carried
<1>7. CASE Flush
  <2>1. /\ Carried /\ UNCHANGED <<next, room, eof, faithful>>
        /\ status = "looping" /\ ~(next <= length /\ ~eof)
        /\ out' = out + pending /\ pending' = 0
        /\ status' = IF out' > Limit THEN "failed" ELSE "opened"
    BY <1>7 DEF Flush, InputLeft, sealing, carriage, cipher, Carried
  <2>2. TypeOK'
    <3>1. status' \in Statuses /\ out' \in Nat /\ pending' \in 0..MaxRun
      BY <1>0, <2>1 DEF CarriagePart, TypeOK, Statuses
    <3> QED
      BY <2>1, <3>1 DEF CarriagePart, TypeOK, Carried
  <2>3. ASSUME defect = "none" PROVE eof /\ faithful /\ out' = Size(stream)
    <3>1. faithful /\ sound = length /\ length > Len(stream)
      BY <2>1, <2>3 DEF CarriagePart, OpenedAsSent, Early
    <3>2. next <= length
      <4>1. Len(stream) \in Nat /\ next \in 1..(Len(stream) + 1) /\ length \in Nat
        BY <3>1, StreamTypes DEF LoopPart, InflateTypes, LoopInvariant, CarriagePart, TypeOK
      <4> QED
        BY <3>1, <4>1
    <3>3. eof
      BY <2>1, <3>2
    <3>4. pending = 0 /\ out = Size(stream) /\ out \in Nat
      BY <3>3 DEF LoopPart, EndSeen, InflateTypes
    <3> QED
      BY <2>1, <3>1, <3>3, <3>4
  <2>4. status' \in {"opened", "failed"}
    BY <2>1
  <2> QED
    BY <2>1, <2>2, <2>3, <2>4 DEF CarriagePart, SealedInBlocks, OpenedAsSent, Early, Carried,
                                  Whole, Size, Start
<1> QED
  BY <1>1, <1>2, <1>3, <1>4, <1>5, <1>6, <1>7

\* Splitting leaves what was opened as it is.
LEMMA ExtractCarriage == ASSUME LoopPart, CarriagePart, Extract PROVE CarriagePart'
<1>1. /\ Carried /\ UNCHANGED <<next, pending, room, eof, out, faithful>>
      /\ status = "opened" /\ status' \in {"extracted", "failed"}
  BY DEF Extract, ReadEntries, AsOneDocument, Refuse, sealing, carriage, cipher, inflating,
         Carried
<1>2. TypeOK'
  BY <1>1 DEF CarriagePart, TypeOK, Statuses, Carried
<1>3. defect = "none" => eof /\ Whole
  BY <1>1 DEF CarriagePart, OpenedAsSent
<1> QED
  BY <1>1, <1>2, <1>3 DEF CarriagePart, SealedInBlocks, OpenedAsSent, Early, Carried, Whole,
                          Size, Start

\* Every step, from prepare_upload to extract_documents.
LEMMA NextCarriage == LoopPart /\ CarriagePart /\ [Next]_vars => CarriagePart'
<1> SUFFICES ASSUME LoopPart, CarriagePart, [Next]_vars PROVE CarriagePart'
  OBVIOUS
<1>1. CASE UNCHANGED vars
  <2>1. Carried /\ UNCHANGED <<status, next, pending, room, eof, out, faithful>>
    BY <1>1 DEF vars, sealing, carriage, cipher, inflating, Carried
  <2>2. TypeOK'
    BY <2>1 DEF CarriagePart, TypeOK, Carried
  <2> QED
    BY <2>1, <2>2 DEF CarriagePart, SealedInBlocks, OpenedAsSent, Early, Carried, Whole, Size,
                      Start
<1> QED
  BY <1>1, SealCarriage, DeliverCarriage, DecryptCarriage, LoopCarriage, ExtractCarriage
  DEF Next, OpenData

-----------------------------------------------------------------------------
(***************************************************************************)
(* Splitting: names can be sorted, so there is an order in which sorted    *)
(* lists them, and each document stands where its name does.               *)
(***************************************************************************)

\* An order of the first k of the numbers a, as sorted yields one.
Ascending(a, k) == {p \in Bijection(1..k, 1..k) :
                        \A m, n \in 1..k : m < n => a[p[m]] <= a[p[n]]}

\* One more number is put before the first that is greater.
LEMMA Inserted ==
    ASSUME NEW k \in Nat \ {0}, NEW a, \A e \in 1..k : a[e] \in Nat,
           NEW p \in Ascending(a, k - 1)
    PROVE  Ascending(a, k) # {}
<1>1. k - 1 \in Nat
  OBVIOUS
<1>2. /\ \A j \in 1..(k - 1) : p[j] \in 1..(k - 1)
      /\ \A m, n \in 1..(k - 1) : p[m] = p[n] => m = n
      /\ \A m, n \in 1..(k - 1) : m < n => a[p[m]] <= a[p[n]]
  BY <1>1 DEF Ascending, Bijection, Injection, IsInjective
<1> DEFINE Greater == {j \in 1..k : j = k \/ a[p[j]] > a[k]}
<1>3. PICK i \in Greater : \A j \in Greater : i <= j
  <2>1. Greater \subseteq Nat /\ k \in Greater
    OBVIOUS
  <2> HIDE DEF Greater
  <2> QED
    BY <2>1, Least
<1>4. i \in 1..k /\ (i # k => a[p[i]] > a[k])
  BY <1>3
<1>5. \A j \in 1..(k - 1) : j < i => ~(a[p[j]] > a[k])
  <2> SUFFICES ASSUME NEW j \in 1..(k - 1), j < i PROVE ~(a[p[j]] > a[k])
    OBVIOUS
  <2>1. j \notin Greater
    BY <1>1, <1>3, <1>4
  <2> QED
    BY <2>1
<1> HIDE DEF Greater
<1> DEFINE q == [j \in 1..k |-> IF j < i THEN p[j] ELSE IF j = i THEN k ELSE p[j - 1]]
<1>6. ASSUME NEW j \in 1..k
      PROVE  /\ j < i => j \in 1..(k - 1) /\ q[j] = p[j]
             /\ j = i => q[j] = k
             /\ j > i => j - 1 \in 1..(k - 1) /\ q[j] = p[j - 1]
             /\ j < i \/ j = i \/ j > i
  BY <1>4
<1>7. DOMAIN q = 1..k
  OBVIOUS
<1>8. q = [j \in 1..k |-> q[j]]
  OBVIOUS
<1> HIDE DEF q
<1>9. \A j \in 1..k : q[j] \in 1..k
  BY <1>2, <1>6
<1>10. q \in [1..k -> 1..k]
  BY <1>8, <1>9
<1>11. ASSUME NEW m \in 1..k, NEW n \in 1..k, q[m] = q[n] PROVE m = n
  <2>1. \A j \in 1..k : j # i => q[j] # k
    BY <1>2, <1>6
  <2>2. CASE m = i \/ n = i
    BY <1>6, <2>1, <2>2, <1>11
  <2>3. CASE m # i /\ n # i
    <3>1. CASE m < i /\ n < i
      BY <1>2, <1>6, <3>1, <1>11
    <3>2. CASE m > i /\ n > i
      <4>1. m - 1 = n - 1
        BY <1>2, <1>6, <3>2, <1>11
      <4> QED
        BY <4>1
    <3>3. CASE m < i /\ n > i
      <4>1. m = n - 1
        BY <1>2, <1>6, <3>3, <1>11
      <4> QED
        BY <1>4, <3>3, <4>1
    <3>4. CASE m > i /\ n < i
      <4>1. n = m - 1
        BY <1>2, <1>6, <3>4, <1>11
      <4> QED
        BY <1>4, <3>4, <4>1
    <3> QED
      BY <1>6, <2>3, <3>1, <3>2, <3>3, <3>4
  <2> QED
    BY <2>2, <2>3
<1>12. q \in Injection(1..k, 1..k)
  BY <1>7, <1>10, <1>11 DEF Injection, IsInjective
<1>13. q \in Bijection(1..k, 1..k)
  <2>1. IsFiniteSet(1..k)
    BY FS_Interval
  <2> QED
    BY <1>12, <2>1, FS_Injection DEF Bijection
<1>14. ASSUME NEW m \in 1..k, NEW n \in 1..k, m < n PROVE a[q[m]] <= a[q[n]]
  <2>1. CASE n < i
    BY <1>2, <1>6, <1>14, <2>1, <1>4
  <2>2. CASE n = i
    <3>1. m \in 1..(k - 1) /\ q[m] = p[m] /\ q[n] = k
      BY <1>6, <1>14, <2>2
    <3>2. a[p[m]] \in Nat /\ a[k] \in Nat
      BY <1>2, <3>1
    <3>3. ~(a[p[m]] > a[k])
      BY <1>5, <3>1, <1>14, <2>2
    <3> QED
      BY <3>1, <3>2, <3>3
  <2>3. CASE n > i /\ m = i
    <3>1. n - 1 \in 1..(k - 1) /\ q[n] = p[n - 1] /\ q[m] = k /\ i # k /\ i \in 1..(k - 1)
      BY <1>4, <1>6, <2>3
    <3>2. a[p[i]] > a[k] /\ a[p[i]] \in Nat /\ a[p[n - 1]] \in Nat /\ a[k] \in Nat
      BY <1>2, <1>4, <3>1
    <3>3. a[p[i]] <= a[p[n - 1]]
      <4>1. CASE i = n - 1
        BY <3>2, <4>1
      <4>2. CASE i < n - 1
        BY <1>2, <3>1, <4>2
      <4> QED
        BY <1>4, <2>3, <3>1, <4>1, <4>2
    <3> QED
      BY <3>1, <3>2, <3>3
  <2>4. CASE n > i /\ m < i
    <3>1. /\ n - 1 \in 1..(k - 1) /\ q[n] = p[n - 1]
          /\ m \in 1..(k - 1) /\ q[m] = p[m] /\ m < n - 1
      BY <1>4, <1>6, <2>4
    <3> QED
      BY <1>2, <3>1
  <2>5. CASE n > i /\ m > i
    <3>1. /\ n - 1 \in 1..(k - 1) /\ q[n] = p[n - 1]
          /\ m - 1 \in 1..(k - 1) /\ q[m] = p[m - 1] /\ m - 1 < n - 1
      BY <1>4, <1>6, <1>14, <2>5
    <3> QED
      BY <1>2, <3>1
  <2> QED
    BY <1>6, <2>1, <2>2, <2>3, <2>4, <2>5
<1> QED
  BY <1>13, <1>14 DEF Ascending

\* Numbers can be sorted.
LEMMA Sortable ==
    ASSUME NEW N \in Nat, NEW a, \A e \in 1..N : a[e] \in Nat
    PROVE  Ascending(a, N) # {}
<1> DEFINE Bad == {k \in 0..N : Ascending(a, k) = {}}
<1> SUFFICES ASSUME Bad # {} PROVE FALSE
  OBVIOUS
<1>1. PICK k \in Bad : \A j \in Bad : k <= j
  <2>1. Bad \subseteq Nat
    OBVIOUS
  <2> HIDE DEF Bad
  <2> QED
    BY <2>1, Least
<1>2. k \in 0..N /\ Ascending(a, k) = {}
  BY <1>1
<1>3. CASE k = 0
  <2> DEFINE p == [j \in 1..0 |-> j]
  <2>1. 1..0 = {}
    OBVIOUS
  <2>2. p \in Ascending(a, 0)
    BY <2>1 DEF Ascending, Bijection, Injection, Surjection, IsInjective
  <2> QED
    BY <1>2, <1>3, <2>2
<1>4. CASE k # 0
  <2>1. k \in Nat \ {0} /\ k - 1 \in 0..N /\ ~(k <= k - 1)
    BY <1>2, <1>4
  <2>2. PICK p : p \in Ascending(a, k - 1)
    BY <1>1, <2>1
  <2>3. \A e \in 1..k : a[e] \in Nat
    BY <1>2
  <2> HIDE DEF Bad
  <2> QED
    BY <1>2, <2>1, <2>2, <2>3, Inserted
<1> QED
  BY <1>3, <1>4

\* What sorted makes of the names of an archive.
LEMMA NamesSorted ==
    ASSUME content \in Contents
    PROVE  \E p \in Bijection(1..EntryCount, 1..EntryCount) :
               /\ NameOrder = [n \in 1..EntryCount |-> ArchiveNames[p[n]]]
               /\ \A m, n \in 1..EntryCount : m < n => ArchiveNames[p[m]] <= ArchiveNames[p[n]]
<1>1. content.entries \in Seq(Entries)
  BY OrderDataAssumption
<1>2. EntryCount \in Nat /\ \A e \in 1..EntryCount : content.entries[e] \in Entries
  BY <1>1, LenProperties DEF EntryCount
<1>3. \A e \in 1..EntryCount : ArchiveNames[e] \in Nat
  BY <1>2 DEF ArchiveNames, Entries
<1>4. Sortings = Ascending(ArchiveNames, EntryCount)
  BY DEF Sortings, Ascending
<1>5. Sortings # {}
  BY <1>2, <1>3, <1>4, Sortable
<1>6. (CHOOSE p \in Sortings : TRUE) \in Sortings
  BY <1>5
<1> QED
  BY <1>6 DEF Sortings, NameOrder

\* archive.open finds an entry of the name, and the last.
LEMMA OpenedLast ==
    ASSUME content \in Contents, NEW name, Named(name) # {}
    PROVE  Opened(name) \in Named(name)
<1>1. EntryCount \in Nat
  <2>1. content.entries \in Seq(Entries)
    BY OrderDataAssumption
  <2> QED
    BY <2>1, LenProperties DEF EntryCount
<1> DEFINE Behind == {EntryCount - e : e \in Named(name)}
<1>2. Named(name) \subseteq 1..EntryCount
  BY DEF Named
<1>3. Behind \subseteq Nat /\ Behind # {}
  BY <1>1, <1>2
<1>4. PICK d \in Behind : \A c \in Behind : d <= c
  <2> HIDE DEF Behind
  <2> QED
    BY <1>3, Least
<1>5. PICK e \in Named(name) : d = EntryCount - e
  BY <1>4
<1>6. \A f \in Named(name) : f <= e
  <2> SUFFICES ASSUME NEW f \in Named(name) PROVE f <= e
    OBVIOUS
  <2>1. EntryCount - f \in Behind
    OBVIOUS
  <2>2. EntryCount - e <= EntryCount - f
    BY <1>4, <1>5, <2>1
  <2> QED
    BY <1>1, <1>2, <2>2
<1> QED
  BY <1>6 DEF Opened

\* The documents of an archive.
Listed == [n \in 1..EntryCount |-> content.entries[Opened(NameOrder[n])].document]

\* They depend on nothing but the archive.
LEMMA ListedKept == ASSUME content' = content PROVE Listed' = Listed /\ EntryCount' = EntryCount
BY DEF Listed, EntryCount, Opened, Named, NameOrder, Sortings, ArchiveNames

\* Only a whole archive is split (extract_documents).
LEMMA NextSplit == SplitInOrder /\ [Next]_vars => SplitInOrder'
<1> SUFFICES ASSUME SplitInOrder, [Next]_vars PROVE SplitInOrder'
  OBVIOUS
<1>1. CASE Extract
  <2>1. UNCHANGED <<stream, content, out, faithful>>
    BY <1>1 DEF Extract, sealing, inflating
  <2>2. Whole' = Whole
    BY <2>1 DEF Whole, Size, Start
  <2>3. CASE content.zip /\ Whole /\ documents' = Listed
    BY <2>1, <2>2, <2>3, ListedKept DEF SplitInOrder, Listed
  <2>4. CASE documents' = <<Part>> \/ ~content.zip
    BY <2>1, <2>4 DEF SplitInOrder
  <2>5. CASE status' = "failed"
    BY <2>5 DEF SplitInOrder
  <2> QED
    BY <1>1, <2>3, <2>4, <2>5 DEF Extract, ReadEntries, AsOneDocument, Refuse, Listed
<1>2. CASE UNCHANGED <<status, content, documents, stream, out, faithful>>
  BY <1>2, ListedKept DEF SplitInOrder, Listed, Whole, Size, Start
<1>3. CASE status' # "extracted"
  BY <1>3 DEF SplitInOrder
<1>4. Next => Extract \/ status' # "extracted"
  BY DEF Next, OpenData, PrepareUpload, BankSeals, Seal, Deliver, Decrypt, Decompress, ReadCode,
         ReadEnd, ReadGarbled, Garbled, Reads, PutOut, DecompressReturns, CheckCeiling, Flush,
         Refuse
<1>5. UNCHANGED vars => UNCHANGED <<status, content, documents, stream, out, faithful>>
  BY DEF vars, sealing, inflating
<1> QED
  BY <1>1, <1>2, <1>3, <1>4, <1>5

\* The inductive invariant of an order's data, for any streams, contents, sizes and defects:
\* from prepare_upload to extract_documents.
THEOREM OrderDataInvariantHolds == Spec => []OrderDataInvariant
<1>1. Init => SplitInOrder
  BY DEF Init, SplitInOrder
<1>2. LoopPart /\ CarriagePart /\ SplitInOrder => OrderDataInvariant
  BY DEF LoopPart, CarriagePart, OrderDataInvariant
<1>3. Spec => []SplitInOrder
  BY <1>1, NextSplit, PTL DEF Spec
<1>4. Spec => []CarriagePart
  BY InitCarriage, NextCarriage, LoopPartHolds, PTL DEF Spec
<1> QED
  BY <1>2, <1>3, <1>4, LoopPartHolds, PTL

\* What is sent and arrives without a defect is opened to exactly the order data, or refused
\* because it is over the ceiling (_split_segments, decrypt_order_data, _inflate_bounded).
THEOREM SentIsOpened == Spec => []OpenedAsSent
<1>1. OrderDataInvariant => OpenedAsSent
  BY DEF OrderDataInvariant
<1> QED
  BY <1>1, OrderDataInvariantHolds, PTL

\* The entries behind the documents: the n-th was read for the n-th name in order, so what
\* stands at n comes behind every entry with a smaller name.
LEMMA ReadInOrder ==
    ASSUME content \in Contents, documents = Listed, NEW e \in 1..EntryCount
    PROVE  LET entry == content.entries[e]
               read == {n \in 1..EntryCount : documents[n] = entry.document}
           IN  /\ Cardinality(read) = IF e = Opened(entry.name)
                                      THEN Cardinality(Named(entry.name)) ELSE 0
               /\ \A n \in read : Cardinality({f \in 1..EntryCount :
                                        content.entries[f].name < entry.name}) < n
<1> DEFINE N == EntryCount
           a == ArchiveNames
           x == content.entries[e].name
           read == {n \in 1..N : documents[n] = content.entries[e].document}
           Before == {f \in 1..N : content.entries[f].name < x}
<1>1. /\ N \in Nat
      /\ \A f \in 1..N : /\ content.entries[f] \in Entries
                         /\ a[f] = content.entries[f].name /\ a[f] \in Nat
  <2>1. content.entries \in Seq(Entries)
    BY OrderDataAssumption
  <2>2. EntryCount \in Nat /\ \A f \in 1..EntryCount : content.entries[f] \in Entries
    BY <2>1, LenProperties DEF EntryCount
  <2> QED
    BY <2>2 DEF ArchiveNames, Entries
<1>2. \A f, g \in 1..N : content.entries[f].document = content.entries[g].document => f = g
  BY OrderDataAssumption DEF EntryCount
<1>3. PICK p \in Bijection(1..N, 1..N) :
          /\ NameOrder = [n \in 1..N |-> a[p[n]]]
          /\ \A m, n \in 1..N : m < n => a[p[m]] <= a[p[n]]
  BY NamesSorted
<1>4. /\ \A n \in 1..N : p[n] \in 1..N
      /\ \A m, n \in 1..N : p[m] = p[n] => m = n
      /\ \A f \in 1..N : \E n \in 1..N : p[n] = f
  BY <1>3 DEF Bijection, Injection, Surjection, IsInjective
<1>5. \A f, g \in 1..N : g \in Named(a[f]) <=> a[g] = a[f]
  BY <1>1 DEF Named
<1>6. \A f \in 1..N : Opened(a[f]) \in 1..N /\ a[Opened(a[f])] = a[f]
  <2> SUFFICES ASSUME NEW f \in 1..N PROVE Opened(a[f]) \in 1..N /\ a[Opened(a[f])] = a[f]
    OBVIOUS
  <2>1. f \in Named(a[f])
    BY <1>5
  <2>2. Opened(a[f]) \in Named(a[f])
    BY <2>1, OpenedLast
  <2> QED
    BY <1>1, <2>2 DEF Named
<1>7. ASSUME NEW n \in 1..N PROVE n \in read <=> Opened(a[p[n]]) = e
  <2>1. documents[n] = content.entries[Opened(a[p[n]])].document
    BY <1>3 DEF Listed
  <2>2. Opened(a[p[n]]) \in 1..N
    BY <1>4, <1>6
  <2> QED
    BY <1>2, <2>1, <2>2
<1>8. a[e] = x
  BY <1>1
<1> HIDE DEF a
<1>9. \A n \in read : n \in 1..N /\ a[p[n]] = x
  <2> SUFFICES ASSUME NEW n \in read PROVE n \in 1..N /\ a[p[n]] = x
    OBVIOUS
  <2>1. n \in 1..N
    OBVIOUS
  <2>2. Opened(a[p[n]]) = e
    BY <1>7, <2>1
  <2> QED
    BY <1>4, <1>6, <1>8, <2>1, <2>2
<1>10. Cardinality(read) = IF e = Opened(x) THEN Cardinality(Named(x)) ELSE 0
  <2>1. CASE e # Opened(x)
    <3>1. read = {}
      <4> SUFFICES ASSUME NEW n \in read PROVE FALSE
        OBVIOUS
      <4>1. n \in 1..N /\ a[p[n]] = x
        BY <1>9
      <4>2. Opened(a[p[n]]) = e
        BY <1>7, <4>1
      <4> QED
        BY <2>1, <4>1, <4>2
    <3> HIDE DEF read
    <3> QED
      BY <2>1, <3>1, FS_EmptySet
  <2>2. CASE e = Opened(x)
    <3>1. \A n \in 1..N : n \in read <=> p[n] \in Named(x)
      <4> SUFFICES ASSUME NEW n \in 1..N PROVE n \in read <=> p[n] \in Named(x)
        OBVIOUS
      <4>1. p[n] \in 1..N /\ (p[n] \in Named(x) <=> a[p[n]] = x)
        BY <1>4, <1>5, <1>8
      <4>2. n \in read => a[p[n]] = x
        BY <1>9
      <4>3. a[p[n]] = x => Opened(a[p[n]]) = e
        BY <2>2
      <4> QED
        BY <1>7, <4>1, <4>2, <4>3
    <3>2. read \subseteq 1..N /\ Named(x) \subseteq 1..N
      BY DEF Named
    <3> HIDE DEF read, N, x
    <3> DEFINE q == [n \in read |-> p[n]]
    <3>3. q \in Bijection(read, Named(x))
      <4>1. q \in Injection(read, Named(x))
        BY <1>4, <3>1, <3>2 DEF Injection, IsInjective
      <4>2. \A f \in Named(x) : \E n \in read : q[n] = f
        BY <1>4, <3>1, <3>2
      <4> QED
        BY <4>1, <4>2 DEF Bijection, Injection, Surjection
    <3>4. IsFiniteSet(read)
      <4>1. IsFiniteSet(1..N)
        BY <1>1, FS_Interval
      <4> QED
        BY <3>2, <4>1, FS_Subset
    <3>5. ExistsBijection(read, Named(x))
      BY <3>3 DEF ExistsBijection
    <3> QED
      BY <2>2, <3>4, <3>5, FS_Bijection
  <2> QED
    BY <2>1, <2>2
<1>11. ASSUME NEW n \in read PROVE Cardinality(Before) < n
  <2>1. n \in 1..N /\ a[p[n]] = x
    BY <1>9
  <2> DEFINE At(f) == CHOOSE m \in 1..N : p[m] = f
             q == [f \in Before |-> At(f)]
  <2>2. \A f \in 1..N : At(f) \in 1..N /\ p[At(f)] = f
    BY <1>4
  <2> HIDE DEF At
  <2>3. \A f \in Before : f \in 1..N /\ a[f] < a[p[n]]
    BY <1>1, <2>1
  <2>4. \A f \in Before : At(f) \in 1..(n - 1)
    <3> SUFFICES ASSUME NEW f \in Before PROVE At(f) \in 1..(n - 1)
      OBVIOUS
    <3>1. f \in 1..N /\ a[f] < a[p[n]] /\ At(f) \in 1..N /\ p[At(f)] = f
      BY <2>2, <2>3
    <3>2. a[f] \in Nat /\ a[p[n]] \in Nat
      BY <1>1, <1>4, <2>1, <3>1
    <3>3. At(f) # n
      BY <3>1, <3>2
    <3>4. ~(n < At(f))
      BY <1>3, <2>1, <3>1, <3>2
    <3> QED
      BY <1>1, <2>1, <3>1, <3>3, <3>4
  <2> HIDE DEF Before
  <2>5. q \in Injection(Before, 1..(n - 1))
    BY <2>2, <2>3, <2>4 DEF Injection, IsInjective
  <2>6. n \in Nat /\ n - 1 \in Nat
    BY <1>1, <2>1
  <2>7. IsFiniteSet(1..(n - 1)) /\ Cardinality(1..(n - 1)) = n - 1
    <3>1. 1 \in Int /\ n - 1 \in Int
      BY <2>6
    <3>2. /\ IsFiniteSet(1..(n - 1))
          /\ Cardinality(1..(n - 1)) = IF 1 > n - 1 THEN 0 ELSE (n - 1) - 1 + 1
      BY <3>1, FS_Interval
    <3> QED
      BY <2>6, <3>2
  <2>8. IsFiniteSet(Before) /\ Cardinality(Before) <= n - 1
    BY <2>5, <2>7, FS_Injection
  <2>9. Cardinality(Before) \in Nat
    BY <2>8, FS_CardinalityType
  <2> QED
    BY <2>6, <2>8, <2>9
<1> QED
  BY <1>10, <1>11

\* The documents of a container are those of its names, in order; an entry that another of the
\* same name follows is never read (extract_documents, _read_entry).
THEOREM SplitReadsAll == Spec => []DocumentsRead
<1>1. OrderDataInvariant => DocumentsRead
  <2> SUFFICES ASSUME OrderDataInvariant,
                      status = "extracted", content.zip, documents # <<Part>>
               PROVE  DocumentsRead
    BY DEF DocumentsRead
  <2>1. Whole /\ documents = Listed /\ content \in Contents
    BY DEF OrderDataInvariant, SplitInOrder, TypeOK, Listed
  <2>2. Len(documents) = EntryCount
    <3>1. EntryCount \in Nat
      <4>1. content.entries \in Seq(Entries)
        BY <2>1, OrderDataAssumption
      <4> QED
        BY <4>1, LenProperties DEF EntryCount
    <3>2. Listed \in [1..EntryCount -> Range(Listed)]
      BY DEF Listed, Range
    <3> QED
      BY <2>1, <3>1, <3>2, AsSequence
  <2> QED
    <3> SUFFICES ASSUME NEW e \in 1..EntryCount
                 PROVE  LET entry == content.entries[e]
                            read == {n \in 1..EntryCount : documents[n] = entry.document}
                        IN  /\ Cardinality(read) = IF e = Opened(entry.name)
                                                   THEN Cardinality(Named(entry.name)) ELSE 0
                            /\ \A n \in read : Cardinality({f \in 1..EntryCount :
                                                     content.entries[f].name < entry.name}) < n
      BY <2>1, <2>2, Zenon DEF DocumentsRead
    <3> QED
      BY <2>1, ReadInOrder
<1> QED
  BY <1>1, OrderDataInvariantHolds, PTL

-----------------------------------------------------------------------------
(***************************************************************************)
(* StatementSync, for any deliveries, flaws and jobs. The core is what a   *)
(* call has done when the bank takes its receipt: landing needs every      *)
(* check passed and everything booked, a receipt in doubt is one of a      *)
(* landed call, and what was booked and still waits belongs to a call that *)
(* failed.                                                                 *)
(***************************************************************************)

USE DEF Running

\* An action of DownloadPromise, without its module.
LEMMA PromiseSteps ==
    /\ Download!Land <=> /\ outcome = "pending" /\ ~landed /\ landed' = TRUE
                         /\ UNCHANGED <<policy, outcome, consumed>>
    /\ Download!Consume <=> /\ landed /\ policy = "ACKNOWLEDGE" /\ ~consumed /\ consumed' = TRUE
                            /\ UNCHANGED <<policy, outcome, landed>>
    /\ Download!Return <=> /\ outcome = "pending" /\ landed
                           /\ policy = "ACKNOWLEDGE" => consumed
                           /\ outcome' = "returned"
                           /\ UNCHANGED <<policy, landed, consumed>>
    /\ Download!Raise <=> /\ outcome = "pending" /\ outcome' = "raised"
                          /\ UNCHANGED <<policy, landed, consumed>>
  BY DEF Download!Land, Download!Consume, Download!Return, Download!Raise

\* NoJob is none of the calls, and books nothing.
LEMMA NoJobIsNone == NoJob \notin Jobs /\ NoJob.books = FALSE
  BY SyncAssumption DEF AllJobs, NoJob

\* A job that books takes what waits, and acknowledges.
LEMMA BookingJobs == \A j \in Jobs : j.books => /\ j.parses /\ ~j.dated
                                                /\ j.policy = "ACKNOWLEDGE"
  BY SyncAssumption

\* A landed call consumes only what it asked for.
LEMMA LandedAsAsked ==
    ASSUME SyncInvariant, Running, landed, policy = "ACKNOWLEDGE"
    PROVE  \A d \in batch : AsAsked(job, d)
  BY DEF SyncInvariant, CallInOrder, Acceptable, PassesVersionPolicy, PassesParser,
         PassesDateCheck, OfRequestedVersion, MessageIdentifier, AsAsked

\* Nothing has arrived, and nobody asks for anything.
LEMMA SyncInitially == SyncInit => SyncInvariant
  BY NoJobIsNone DEF SyncInit, SyncInvariant, SyncTypeOK, CallInOrder, DoubtInOrder,
                     WaitingBooked, NothingLost, TwiceOnlyAfterFailure

\* A call begins: with everything that waits, if it books.
LEMMA OpenStep == ASSUME SyncInvariant, NEW j \in Jobs, Open(j)
                  PROVE  SyncInvariant'
<1>1. batch' \subseteq arrived /\ (j.books => batch' = waiting)
  BY BookingJobs DEF Open, Served, SyncInvariant, SyncTypeOK
<1>2. job = NoJob /\ job' = j /\ job' \in Jobs
  BY DEF Open
<1>3. SyncTypeOK'
  BY <1>1, <1>2 DEF Open, SyncInvariant, SyncTypeOK, bank, ledger
<1>4. booked \cap waiting \subseteq unfinished
  BY <1>2, NoJobIsNone DEF SyncInvariant, WaitingBooked
<1>5. CallInOrder'
  BY <1>1, <1>2, <1>4 DEF Open, CallInOrder, bank, ledger
<1>6. DoubtInOrder' /\ WaitingBooked' /\ NothingLost' /\ TwiceOnlyAfterFailure'
  BY <1>4 DEF Open, bank, ledger, SyncInvariant, DoubtInOrder, WaitingBooked, NothingLost,
              TwiceOnlyAfterFailure, AsAsked
<1> QED BY <1>3, <1>5, <1>6 DEF SyncInvariant

\* The hook books one statement.
LEMMA BookStep == ASSUME SyncInvariant, NEW d \in Deliveries, Book(d)
                  PROVE  SyncInvariant'
<1>1. /\ d \in todo /\ d \in batch /\ d \in arrived
      /\ todo' = todo \ {d} /\ booked' = booked \cup {d}
      /\ again' \subseteq again \cup {d}
      /\ d \notin booked => again' = again
      /\ UNCHANGED <<policy, outcome, landed, consumed, job, batch, arrived, waiting, late,
                     handed, unfinished>>
  BY DEF Book, promise, bank, SyncInvariant, SyncTypeOK
<1>2. ~landed /\ outcome = "pending" /\ job # NoJob
  BY DEF Book
<1>3. job.books
  BY <1>1, <1>2 DEF SyncInvariant, CallInOrder
<1>4. d \in booked => d \in unfinished
  BY <1>1, <1>2, <1>3 DEF SyncInvariant, CallInOrder
<1>5. SyncTypeOK'
  BY <1>1 DEF SyncInvariant, SyncTypeOK
<1>6. CallInOrder'
  BY <1>1, <1>2, <1>3 DEF SyncInvariant, CallInOrder
<1>7. DoubtInOrder' /\ NothingLost'
  BY <1>1 DEF SyncInvariant, DoubtInOrder, NothingLost, AsAsked
<1>8. WaitingBooked'
  BY <1>1, <1>3 DEF SyncInvariant, WaitingBooked, SyncTypeOK
<1>9. TwiceOnlyAfterFailure'
  BY <1>1, <1>4 DEF SyncInvariant, TwiceOnlyAfterFailure
<1> QED BY <1>5, <1>6, <1>7, <1>8, <1>9 DEF SyncInvariant

\* The data lands.
LEMMA LandStep == ASSUME SyncInvariant, Land
                  PROVE  SyncInvariant'
<1>1. /\ Acceptable /\ todo = {} /\ ~landed
      /\ UNCHANGED <<policy, outcome, consumed, job, batch, todo, arrived, waiting, late,
                     handed, booked, again, unfinished>>
  BY PromiseSteps DEF Land, HookDone, bank, ledger
<1>2. Acceptable' <=> Acceptable
  BY <1>1 DEF Acceptable, PassesVersionPolicy, PassesParser, PassesDateCheck,
              OfRequestedVersion, MessageIdentifier
<1>3. CallInOrder'
  BY <1>1, <1>2 DEF SyncInvariant, CallInOrder
<1>4. SyncTypeOK' /\ DoubtInOrder' /\ WaitingBooked' /\ NothingLost' /\ TwiceOnlyAfterFailure'
  BY <1>1 DEF SyncInvariant, SyncTypeOK, DoubtInOrder, WaitingBooked, NothingLost,
              TwiceOnlyAfterFailure, AsAsked
<1> QED BY <1>3, <1>4 DEF SyncInvariant

\* The bank takes the receipt.
LEMMA ConsumeStep == ASSUME SyncInvariant, Consume
                     PROVE  SyncInvariant'
<1>1. /\ job # NoJob /\ landed /\ landed' /\ policy = "ACKNOWLEDGE"
      /\ waiting' = waiting \ batch
      /\ handed' = IF job.books THEN handed ELSE handed \cup batch
      /\ UNCHANGED <<policy, outcome, job, batch, todo, arrived, late, booked, again,
                     unfinished>>
  BY PromiseSteps DEF Consume, ConsumeFor, Call, ledger
<1>2. Acceptable' <=> Acceptable
  BY <1>1 DEF Acceptable, PassesVersionPolicy, PassesParser, PassesDateCheck,
              OfRequestedVersion, MessageIdentifier
<1>3. CallInOrder'
  BY <1>1, <1>2 DEF SyncInvariant, CallInOrder
<1>4. job.books => batch \subseteq booked
  BY <1>1 DEF SyncInvariant, CallInOrder
<1>5. NothingLost'
  BY <1>1, <1>4 DEF SyncInvariant, NothingLost
<1>6. SyncTypeOK' /\ DoubtInOrder' /\ WaitingBooked' /\ TwiceOnlyAfterFailure'
  BY <1>1 DEF SyncInvariant, SyncTypeOK, DoubtInOrder, WaitingBooked, TwiceOnlyAfterFailure,
              AsAsked
<1> QED BY <1>3, <1>5, <1>6 DEF SyncInvariant

\* A call that returns leaves nothing it has booked at the bank.
LEMMA ReturnStep == ASSUME SyncInvariant, Return
                    PROVE  SyncInvariant'
<1>1. /\ job # NoJob /\ outcome' = "returned" /\ job' = NoJob /\ batch' = {} /\ todo' = {}
      /\ UNCHANGED <<arrived, waiting, late, handed, booked, again, unfinished>>
      /\ policy = "ACKNOWLEDGE" => consumed
  BY PromiseSteps DEF Return, ReturnOrderData, EndCall, bank, ledger
<1>2. job.books => batch \cap waiting = {}
  BY <1>1, BookingJobs DEF SyncInvariant, SyncTypeOK, CallInOrder
<1>3. WaitingBooked'
  BY <1>1, <1>2, NoJobIsNone DEF SyncInvariant, WaitingBooked
<1>4. SyncTypeOK' /\ CallInOrder' /\ DoubtInOrder' /\ NothingLost' /\ TwiceOnlyAfterFailure'
  BY <1>1 DEF SyncInvariant, SyncTypeOK, CallInOrder, DoubtInOrder, NothingLost,
              TwiceOnlyAfterFailure, AsAsked
<1> QED BY <1>3, <1>4 DEF SyncInvariant

\* A call that fails leaves a note of what it has booked.
LEMMA FailStep == ASSUME SyncInvariant, Fail
                  PROVE  SyncInvariant'
<1>1. /\ job # NoJob /\ outcome' = "raised" /\ job' = NoJob /\ batch' = {} /\ todo' = {}
      /\ UNCHANGED <<arrived, waiting, handed, booked, again>>
      /\ unfinished' = IF job.books THEN unfinished \cup (batch \ todo) ELSE unfinished
  BY PromiseSteps DEF Fail, EndCall
<1>2. job \in Jobs
  BY <1>1 DEF SyncInvariant, SyncTypeOK
<1>3. late' = late \/ (landed /\ policy = "ACKNOWLEDGE" /\ late' = late \cup {Call})
  BY DEF Fail, ReceiptInDoubt
<1>4. Call \in Calls /\ Call.job = job /\ Call.batch = batch /\ batch \subseteq arrived
  BY <1>2 DEF Call, Calls, SyncInvariant, SyncTypeOK
<1>5. SyncTypeOK'
  BY <1>1, <1>3, <1>4 DEF SyncInvariant, SyncTypeOK
<1>6. DoubtInOrder'
  <2> SUFFICES ASSUME NEW c \in late'
               PROVE  /\ c.batch \subseteq arrived'
                      /\ \A d \in c.batch : AsAsked(c.job, d)
                      /\ c.job.books => c.batch \subseteq booked'
    BY DEF DoubtInOrder, AsAsked
  <2>1. CASE c \in late
    BY <2>1, <1>1 DEF SyncInvariant, DoubtInOrder
  <2>2. CASE c \notin late
    <3>1. c = Call /\ landed /\ policy = "ACKNOWLEDGE"
      BY <1>3, <2>2
    <3>2. \A d \in batch : AsAsked(job, d)
      BY <3>1, <1>1, LandedAsAsked
    <3>3. job.books => batch \subseteq booked
      BY <3>1, <1>1 DEF SyncInvariant, CallInOrder
    <3> QED BY <3>1, <3>2, <3>3, <1>1, <1>4
  <2> QED BY <2>1, <2>2
<1>7. WaitingBooked'
  BY <1>1, NoJobIsNone DEF SyncInvariant, WaitingBooked
<1>8. CallInOrder' /\ NothingLost' /\ TwiceOnlyAfterFailure'
  BY <1>1 DEF SyncInvariant, CallInOrder, NothingLost, TwiceOnlyAfterFailure
<1> QED BY <1>5, <1>6, <1>7, <1>8 DEF SyncInvariant

\* A new delivery.
LEMMA ArriveStep == ASSUME SyncInvariant, NEW d \in Deliveries, Arrive(d)
                    PROVE  SyncInvariant'
<1>1. /\ d \notin arrived /\ arrived' = arrived \cup {d} /\ waiting' = waiting \cup {d}
      /\ UNCHANGED <<policy, outcome, landed, consumed, job, batch, todo, late, handed, booked,
                     again, unfinished>>
  BY DEF Arrive, promise, ledger
<1>2. Acceptable' <=> Acceptable
  BY <1>1 DEF Acceptable, PassesVersionPolicy, PassesParser, PassesDateCheck,
              OfRequestedVersion, MessageIdentifier
<1>3. d \notin batch /\ d \notin booked
  BY <1>1 DEF SyncInvariant, SyncTypeOK
<1>4. CallInOrder'
  BY <1>1, <1>2, <1>3 DEF SyncInvariant, CallInOrder
<1>5. SyncTypeOK' /\ DoubtInOrder' /\ WaitingBooked' /\ NothingLost' /\ TwiceOnlyAfterFailure'
  BY <1>1, <1>3 DEF SyncInvariant, SyncTypeOK, DoubtInOrder, WaitingBooked, NothingLost,
                    TwiceOnlyAfterFailure, AsAsked
<1> QED BY <1>4, <1>5 DEF SyncInvariant

\* The receipt of an earlier call.
LEMMA LateReceiptStep == ASSUME SyncInvariant, LateReceipt
                         PROVE  SyncInvariant'
<1>1. PICK c \in late : /\ late' = late \ {c}
                        /\ ConsumeFor(c) \/ UNCHANGED <<waiting, handed>>
                        /\ UNCHANGED <<policy, outcome, landed, consumed, job, batch, todo,
                                       arrived, booked, again, unfinished>>
  BY DEF LateReceipt, promise, ledger
<1>2. Acceptable' <=> Acceptable
  BY <1>1 DEF Acceptable, PassesVersionPolicy, PassesParser, PassesDateCheck,
              OfRequestedVersion, MessageIdentifier
<1>3. CallInOrder'
  BY <1>1, <1>2 DEF SyncInvariant, CallInOrder, ConsumeFor
<1>4. c.job.books => c.batch \subseteq booked
  BY DEF SyncInvariant, DoubtInOrder
<1>5. NothingLost'
  BY <1>1, <1>4 DEF SyncInvariant, NothingLost, ConsumeFor
<1>6. SyncTypeOK' /\ DoubtInOrder' /\ WaitingBooked' /\ TwiceOnlyAfterFailure'
  BY <1>1 DEF ConsumeFor, SyncInvariant, SyncTypeOK, DoubtInOrder, WaitingBooked,
              TwiceOnlyAfterFailure, AsAsked
<1> QED BY <1>3, <1>5, <1>6 DEF SyncInvariant

\* A step that changes nothing.
LEMMA Stutter == ASSUME SyncInvariant, UNCHANGED syncVars
                 PROVE  SyncInvariant'
<1>1. UNCHANGED <<policy, outcome, landed, consumed, job, batch, todo, arrived, waiting, late,
                  handed, booked, again, unfinished>>
  BY DEF syncVars, promise, bank, ledger
<1>2. Acceptable' <=> Acceptable
  BY <1>1 DEF Acceptable, PassesVersionPolicy, PassesParser, PassesDateCheck,
              OfRequestedVersion, MessageIdentifier
<1> QED BY <1>1, <1>2 DEF SyncInvariant, SyncTypeOK, CallInOrder, DoubtInOrder, WaitingBooked,
                          NothingLost, TwiceOnlyAfterFailure, AsAsked

-----------------------------------------------------------------------------
\* The inductive invariant of the job, for any deliveries, flaws and jobs.
THEOREM SyncInvariantHolds == SyncSpec => []SyncInvariant
<1>1. SyncInvariant /\ [SyncNext]_syncVars => SyncInvariant'
  BY OpenStep, BookStep, LandStep, ConsumeStep, ReturnStep, FailStep, ArriveStep,
     LateReceiptStep, Stutter
  DEF SyncNext
<1> QED BY SyncInitially, <1>1, PTL DEF SyncSpec

\* Each delivery is at the bank, in the ledger, or with a call that does not book.
THEOREM DeliveriesAreNotLost == SyncSpec => []NothingLost
<1>1. SyncInvariant => NothingLost
  BY DEF SyncInvariant
<1> QED BY <1>1, SyncInvariantHolds, PTL

\* Only a call that did not return has its statements booked again.
THEOREM BookedTwiceAfterFailure == SyncSpec => []TwiceOnlyAfterFailure
<1>1. SyncInvariant => TwiceOnlyAfterFailure
  BY DEF SyncInvariant
<1> QED BY <1>1, SyncInvariantHolds, PTL

\* No call consumes what it did not ask for.
THEOREM OnlyAskedForIsConsumed == SyncSpec => ConsumedAsAsked
<1> DEFINE Asked == \A d \in waiting \ waiting' :
                        \E c \in late \cup {Call} : d \in c.batch /\ AsAsked(c.job, d)
<1>1. SyncInvariant /\ [SyncNext]_syncVars => [Asked]_syncVars
  <2> SUFFICES ASSUME SyncInvariant, SyncNext
               PROVE  Asked
    OBVIOUS
  <2>1. CASE Consume
    <3>1. job # NoJob /\ landed /\ policy = "ACKNOWLEDGE" /\ waiting' = waiting \ batch
      BY <2>1, PromiseSteps DEF Consume, ConsumeFor, Call
    <3>2. \A d \in batch : AsAsked(job, d)
      BY <3>1, LandedAsAsked
    <3>3. Call.job = job /\ Call.batch = batch
      BY DEF Call
    <3> QED BY <3>1, <3>2, <3>3
  <2>2. CASE LateReceipt
    BY <2>2 DEF LateReceipt, ConsumeFor, SyncInvariant, DoubtInOrder
  <2>3. CASE ~Consume /\ ~LateReceipt
    <3>1. waiting \subseteq waiting'
      BY <2>3 DEF SyncNext, Open, Book, Arrive, Land, Return, Fail, bank
    <3> QED BY <3>1
  <2> QED BY <2>1, <2>2, <2>3
<1> QED BY <1>1, SyncInvariantHolds, PTL DEF SyncSpec, ConsumedAsAsked
=============================================================================
