---- MODULE ModArith ----
(***************************************************************************)
(* Remainders by a symbolic divisor, for the proofs about ring buffers,    *)
(* and least numbers, for those about loops.                               *)
(***************************************************************************)
EXTENDS Integers, WellFoundedInduction, TLAPS

\* Quotient and remainder recompose the dividend.
LEMMA DivMod ==
    ASSUME NEW N \in Nat \ {0}, NEW a \in Int
    PROVE  /\ a % N \in 0 .. N - 1
           /\ a \div N \in Int
           /\ a = N * (a \div N) + (a % N)
OBVIOUS

\* The remainder is unique.
LEMMA RemainderUnique ==
    ASSUME NEW N \in Nat \ {0}, NEW j \in Int, NEW k \in Int,
           NEW r \in 0 .. N - 1, NEW s \in 0 .. N - 1,
           N * k + r = N * j + s
    PROVE  r = s
OBVIOUS

\* A number below N that differs from x by a multiple of N is its remainder.
LEMMA RemainderIs ==
    ASSUME NEW N \in Nat \ {0}, NEW k \in Int, NEW r \in 0 .. N - 1
    PROVE  (N * k + r) % N = r
<1> DEFINE a == N * k + r
<1>1. a \in Int
  OBVIOUS
<1>2. /\ a % N \in 0 .. N - 1
      /\ a \div N \in Int
      /\ a = N * (a \div N) + (a % N)
  BY <1>1, DivMod
<1>3. N * k + r = N * (a \div N) + (a % N)
  BY <1>2
<1> HIDE DEF a
<1>4. r = a % N
  BY <1>2, <1>3, RemainderUnique
<1> QED
  BY <1>4 DEF a

\* A sum of two offsets of a ring of size N wraps at most once.
LEMMA RingSum ==
    ASSUME NEW N \in Nat \ {0}, NEW a \in 0 .. N - 1, NEW b \in 0 .. N
    PROVE  (a + b) % N = IF a + b < N THEN a + b ELSE a + b - N
<1>1. CASE a + b < N
  <2>1. a + b = N * 0 + (a + b) /\ a + b \in 0 .. N - 1
    BY <1>1
  <2> QED
    BY <1>1, <2>1, RemainderIs
<1>2. CASE a + b >= N
  <2>1. a + b = N * 1 + (a + b - N) /\ a + b - N \in 0 .. N - 1
    BY <1>2
  <2> QED
    BY <1>2, <2>1, RemainderIs
<1> QED
  BY <1>1, <1>2

\* So does their difference.
LEMMA RingDifference ==
    ASSUME NEW N \in Nat \ {0}, NEW a \in 0 .. N - 1, NEW b \in 0 .. N - 1
    PROVE  (a - b) % N = IF a >= b THEN a - b ELSE a - b + N
<1>1. CASE a >= b
  <2>1. a - b = N * 0 + (a - b) /\ a - b \in 0 .. N - 1
    BY <1>1
  <2> QED
    BY <1>1, <2>1, RemainderIs
<1>2. CASE a < b
  <2>1. a - b = N * (-1) + (a - b + N) /\ a - b + N \in 0 .. N - 1
    BY <1>2
  <2> QED
    BY <1>2, <2>1, RemainderIs
<1> QED
  BY <1>1, <1>2

\* Counting on by one moves one place round the ring.
LEMMA RingSuccessor ==
    ASSUME NEW N \in Nat \ {0}, NEW a \in Int
    PROVE  (a + 1) % N = IF a % N = N - 1 THEN 0 ELSE (a % N) + 1
<1>1. /\ a % N \in 0 .. N - 1
      /\ a \div N \in Int
      /\ a = N * (a \div N) + (a % N)
  BY DivMod
<1>2. CASE a % N = N - 1
  <2>1. a + 1 = N * ((a \div N) + 1) + 0
    BY <1>1, <1>2
  <2>2. (a \div N) + 1 \in Int /\ 0 \in 0 .. N - 1
    BY <1>1
  <2> QED
    BY <1>2, <2>1, <2>2, RemainderIs
<1>3. CASE a % N # N - 1
  <2>1. a + 1 = N * (a \div N) + ((a % N) + 1)
    BY <1>1, <1>3
  <2>2. (a % N) + 1 \in 0 .. N - 1
    BY <1>1, <1>3
  <2> QED
    BY <1>1, <1>3, <2>1, <2>2, RemainderIs
<1> QED
  BY <1>2, <1>3

\* A sum that is less than two rounds, on a ring of N.
Wrap(N, a) == IF a < N THEN a ELSE a - N

LEMMA RingWrap ==
    ASSUME NEW N \in Nat \ {0}, NEW a \in 0 .. N - 1, NEW b \in 0 .. N
    PROVE  (a + b) % N = Wrap(N, a + b) /\ Wrap(N, a + b) \in 0 .. N - 1
<1>1. (a + b) % N = IF a + b < N THEN a + b ELSE a + b - N
  BY RingSum
<1> QED
  BY <1>1 DEF Wrap

\* One sum after the other, and back.
LEMMA WrapTwice ==
    ASSUME NEW N \in Nat \ {0}, NEW a \in 0 .. N - 1, NEW n \in Nat, NEW m \in Nat,
           n + m <= N
    PROVE  /\ Wrap(N, a + n) \in 0 .. N - 1
           /\ Wrap(N, Wrap(N, a + n) + m) = Wrap(N, a + (n + m))
  BY DEF Wrap

LEMMA WrapBack ==
    ASSUME NEW N \in Nat \ {0}, NEW a \in 0 .. N - 1, NEW n \in Nat, NEW m \in Nat,
           n <= N, m <= n
    PROVE  Wrap(N, Wrap(N, a + n) + (N - m)) = Wrap(N, a + (n - m))
  BY DEF Wrap

\* Places at different distances from one place of a ring, less than a round
\* away, differ.
LEMMA RingApart ==
    ASSUME NEW N \in Nat \ {0}, NEW a \in 0 .. N - 1, NEW b \in 0 .. N - 1,
           NEW i \in 0 .. b - 1, NEW p, NEW q,
           p = IF a + i < N THEN a + i ELSE a + i - N,
           q = IF a + b < N THEN a + b ELSE a + b - N
    PROVE  p \in 0 .. N - 1 /\ p # q
OBVIOUS

\* A set of naturals that has a member has a least one.
LEMMA LeastNatural ==
    ASSUME NEW S \in SUBSET Nat, S # {}
    PROVE  \E u \in S : \A v \in S : v >= u
<1> DEFINE R == OpToRel(<, Nat)
<1>1. \A v, u \in Nat : v < u => <<v, u>> \in R
  BY DEF OpToRel
<1>2. \E u \in S : \A v \in S : ~(<<v, u>> \in R)
  BY NatLessThanWellFounded, WFMin
<1> HIDE DEF R
<1>3. PICK u \in S : \A v \in S : ~(<<v, u>> \in R)
  BY <1>2
<1>4. \A v \in S : ~(v < u)
  BY <1>1, <1>3
<1> QED
  BY <1>4
====
