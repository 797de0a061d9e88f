----------------------------- MODULE ArithProofs -----------------------------
(***************************************************************************)
(* Divisibility and rounding, for every modulus, and the least element of  *)
(* a set of numbers: the lemmas that the proofs of the components share.   *)
(***************************************************************************)
EXTENDS Arith, Integers, FiniteSetTheorems, TLAPS

\* A remainder of zero is a witness of divisibility, and conversely.
LEMMA MultipleIff ==
    ASSUME NEW x \in Nat, NEW m \in Nat \ {0}
    PROVE  x % m = 0 <=> \E k \in Nat : x = m * k
<1>1. x % m = 0 => x = m * (x \div m) /\ x \div m \in Nat
  BY Z3
<1>2. ASSUME NEW k \in Nat, x = m * k
      PROVE  x % m = 0
  BY <1>2, Z3
<1>3. QED
  BY <1>1, <1>2

\* Sums and differences of multiples are multiples.
LEMMA MultipleSum ==
    ASSUME NEW x \in Nat, NEW y \in Nat, NEW m \in Nat \ {0},
           x % m = 0, y % m = 0
    PROVE  (x + y) % m = 0
<1>1. PICK j \in Nat : x = m * j
  BY MultipleIff
<1>2. PICK k \in Nat : y = m * k
  BY MultipleIff
<1>3. x + y = m * (j + k) /\ j + k \in Nat /\ x + y \in Nat
  BY <1>1, <1>2
<1>4. QED
  BY <1>3, MultipleIff

LEMMA MultipleDiff ==
    ASSUME NEW x \in Nat, NEW y \in Nat, NEW m \in Nat \ {0},
           x % m = 0, y % m = 0, y <= x
    PROVE  (x - y) % m = 0
<1>1. PICK j \in Nat : x = m * j
  BY MultipleIff
<1>2. PICK k \in Nat : y = m * k
  BY MultipleIff
<1>3. x - y = m * (j - k) /\ x - y \in Nat
  BY <1>1, <1>2
<1>4. j - k \in Nat
  BY <1>3
<1>5. QED
  BY <1>3, <1>4, MultipleIff

\* A multiple of a multiple is a multiple.
LEMMA MultipleTrans ==
    ASSUME NEW x \in Nat, NEW m \in Nat \ {0}, NEW n \in Nat \ {0},
           x % m = 0, m % n = 0
    PROVE  x % n = 0
<1>1. PICK j \in Nat : x = m * j
  BY MultipleIff
<1>2. PICK k \in Nat : m = n * k
  BY MultipleIff
<1>3. x = n * (k * j) /\ k * j \in Nat
  BY <1>1, <1>2
<1>4. QED
  BY <1>3, MultipleIff

\* A multiple of m that is not zero is at least m.
LEMMA MultipleAtLeast ==
    ASSUME NEW x \in Nat, NEW m \in Nat \ {0}, x % m = 0, x > 0
    PROVE  x >= m
<1>1. PICK j \in Nat : x = m * j
  BY MultipleIff
<1>2. j >= 1
  BY <1>1
<1>3. QED
  BY <1>1, <1>2

\* next_multiple_of returns the least multiple that is not below its argument.
LEMMA NextMultipleIsLeast ==
    ASSUME NEW x \in Nat, NEW m \in Nat \ {0}
    PROVE  /\ NextMultiple(x, m) \in Nat
           /\ NextMultiple(x, m) >= x
           /\ NextMultiple(x, m) % m = 0
           /\ \A p \in Nat : p % m = 0 /\ x <= p => NextMultiple(x, m) <= p
<1> DEFINE r == x % m  q == x \div m
<1>1. /\ r \in 0 .. (m - 1) /\ q \in Nat
      /\ x = m * q + r
  BY Z3
<1>2. CASE r = 0
  BY <1>1, <1>2 DEF NextMultiple
<1>3. CASE r # 0
  <2>1. NextMultiple(x, m) = m * (q + 1)
    BY <1>1, <1>3 DEF NextMultiple
  <2>2. NextMultiple(x, m) \in Nat /\ NextMultiple(x, m) >= x
    BY <1>1, <1>3 DEF NextMultiple
  <2>3. NextMultiple(x, m) % m = 0
    BY <2>1, <2>2, <1>1, MultipleIff
  <2>4. ASSUME NEW p \in Nat, p % m = 0, x <= p
        PROVE  NextMultiple(x, m) <= p
    <3>1. PICK k \in Nat : p = m * k
      BY <2>4, MultipleIff
    <3>2. m * q < m * k
      BY <3>1, <2>4, <1>1, <1>3
    <3>3. q < k
      BY <3>2, <1>1
    <3>4. m * (q + 1) <= m * k
      BY <3>3, <1>1
    <3>5. QED
      BY <3>4, <3>1, <2>1
  <2>5. QED
    BY <2>2, <2>3, <2>4
<1>4. QED
  BY <1>2, <1>3

\* Rounding down gives a multiple that is at most its argument.
LEMMA PrevMultipleBelow ==
    ASSUME NEW x \in Nat, NEW m \in Nat \ {0}
    PROVE  /\ PrevMultiple(x, m) \in Nat
           /\ PrevMultiple(x, m) <= x
           /\ PrevMultiple(x, m) % m = 0
<1> DEFINE r == x % m  q == x \div m
<1>1. /\ r \in 0 .. (m - 1) /\ q \in Nat
      /\ x = m * q + r
  BY Z3
<1>2. PrevMultiple(x, m) = m * q /\ m * q \in Nat
  BY <1>1 DEF PrevMultiple
<1>3. PrevMultiple(x, m) % m = 0
  <2> HIDE DEF q
  <2>1. (m * q) % m = 0
    BY <1>1, <1>2, MultipleIff
  <2>2. QED
    BY <1>2, <2>1
<1>4. PrevMultiple(x, m) <= x
  BY <1>1 DEF PrevMultiple
<1>5. QED
  BY <1>2, <1>3, <1>4

\* Two multiples of m that differ are at least m apart.
LEMMA MultiplesApart ==
    ASSUME NEW x \in Nat, NEW y \in Nat, NEW m \in Nat \ {0},
           x % m = 0, y % m = 0, x < y
    PROVE  x + m <= y
<1>1. y - x \in Nat /\ y - x > 0 /\ x <= y
  OBVIOUS
<1>2. (y - x) % m = 0
  BY <1>1, MultipleDiff
<1>3. y - x >= m
  BY <1>1, <1>2, MultipleAtLeast
<1>4. QED
  BY <1>3

\* Rounding down gives the greatest multiple: none lies above it, up to its
\* argument, and its argument is less than m above it.
LEMMA PrevMultipleIsGreatest ==
    ASSUME NEW x \in Nat, NEW m \in Nat \ {0}
    PROVE  /\ x < PrevMultiple(x, m) + m
           /\ \A p \in Nat : p % m = 0 /\ p <= x => p <= PrevMultiple(x, m)
<1> DEFINE d == PrevMultiple(x, m)
<1>1. d \in Nat /\ d <= x /\ d % m = 0
  BY PrevMultipleBelow
<1>2. x < d + m
  <2>1. x % m \in 0 .. (m - 1)
    BY Z3
  <2>2. QED
    BY <2>1 DEF PrevMultiple
<1> HIDE DEF d
<1>3. ASSUME NEW p \in Nat, p % m = 0, p <= x, d < p
      PROVE  FALSE
  <2>1. d + m <= p
    BY <1>1, <1>3, MultiplesApart
  <2>2. QED
    BY <1>1, <1>2, <1>3, <2>1
<1>4. \A p \in Nat : p % m = 0 /\ p <= x => p <= d
  BY <1>1, <1>3
<1>5. QED
  BY <1>2, <1>4 DEF d

-----------------------------------------------------------------------------
(* Products *)

\* Comparing two multiples of a positive number compares the factors.
LEMMA ProductOrder ==
    ASSUME NEW x \in Int, NEW y \in Int, NEW m \in Nat \ {0}
    PROVE  /\ x <= y <=> x * m <= y * m
           /\ x < y <=> x * m < y * m
<1>1. x <= y => x * m <= y * m
  <2>1. (y - x) * m = y * m - x * m
    OBVIOUS
  <2>2. y - x >= 0 => (y - x) * m >= 0
    OBVIOUS
  <2>3. QED
    BY <2>1, <2>2
<1>2. y < x => y * m < x * m
  <2>1. (x - y) * m = x * m - y * m
    OBVIOUS
  <2>2. x - y > 0 => (x - y) * m > 0
    OBVIOUS
  <2>3. QED
    BY <2>1, <2>2
<1>3. y <= x => y * m <= x * m
  <2>1. (x - y) * m = x * m - y * m
    OBVIOUS
  <2>2. x - y >= 0 => (x - y) * m >= 0
    OBVIOUS
  <2>3. QED
    BY <2>1, <2>2
<1>4. x < y => x * m < y * m
  <2>1. (y - x) * m = y * m - x * m
    OBVIOUS
  <2>2. y - x > 0 => (y - x) * m > 0
    OBVIOUS
  <2>3. QED
    BY <2>1, <2>2
<1>5. x * m \in Int /\ y * m \in Int
  OBVIOUS
<1>6. QED
  BY <1>1, <1>2, <1>3, <1>4, <1>5

\* The quotient and the remainder are the ones that fit.
LEMMA QuotientIs ==
    ASSUME NEW m \in Nat \ {0}, NEW q \in Nat, NEW r \in 0 .. (m - 1)
    PROVE  (q * m + r) \div m = q /\ (q * m + r) % m = r
BY Z3

-----------------------------------------------------------------------------
(* Extremes: the one form of induction these proofs use *)

LEMMA LeastElement ==
    ASSUME NEW S \in SUBSET Nat, S # {}
    PROVE  \E x \in S : \A y \in S : x <= y
<1>1. \E x \in S : \A y \in S : ~ (<<y, x>> \in OpToRel(<, Nat))
  BY WFMin, NatLessThanWellFounded
<1>2. \A x, y \in Nat : ~ (<<y, x>> \in OpToRel(<, Nat)) => x <= y
  BY DEF OpToRel
<1>3. QED
  BY <1>1, <1>2

LEMMA GreatestElement ==
    ASSUME NEW S \in SUBSET Nat, S # {}, NEW b \in Nat, \A x \in S : x <= b
    PROVE  \E x \in S : \A y \in S : y <= x
<1> DEFINE T == {b - x : x \in S}
<1>1. T \in SUBSET Nat /\ T # {}
  <2>1. \A x \in S : b - x \in Nat
    OBVIOUS
  <2>2. PICK x \in S : TRUE
    OBVIOUS
  <2>3. b - x \in T
    BY <2>2
  <2>4. QED
    BY <2>1, <2>3
<1>2. PICK t \in T : \A u \in T : t <= u
  BY <1>1, LeastElement
<1>3. PICK x \in S : t = b - x
  BY <1>2
<1>4. \A y \in S : b - x <= b - y
  BY <1>2, <1>3
<1>5. \A y \in S : y <= x
  BY <1>4
<1>6. QED
  BY <1>5

\* n multiples in a row are n.
LEMMA MultiplesCount ==
    ASSUME NEW m \in Nat \ {0}, NEW c \in Nat, c % m = 0, NEW n \in Nat
    PROVE  LET T == {a \in Nat : a % m = 0 /\ c <= a /\ a < c + n * m}
           IN  IsFiniteSet(T) /\ Cardinality(T) = n
<1> DEFINE T == {a \in Nat : a % m = 0 /\ c <= a /\ a < c + n * m}
           f == [i \in 1 .. n |-> c + (i - 1) * m]
<1>1. c \in Nat /\ c % m = 0 /\ m \in Nat \ {0}
  OBVIOUS
<1>2. ASSUME NEW i \in 1 .. n
      PROVE  f[i] \in T
  <2>1. PICK x \in Nat : x = (i - 1) * m
    BY <1>1
  <2>2. x % m = 0
    <3>1. x = m * (i - 1) /\ i - 1 \in Nat
      BY <1>1, <2>1
    <3>2. QED
      BY <1>1, <3>1, MultipleIff
  <2>3. (c + x) % m = 0
    BY <1>1, <2>2, MultipleSum
  <2>4. x < n * m /\ n * m \in Nat
    <3>1. i - 1 < n /\ i - 1 \in Int /\ n \in Int
      OBVIOUS
    <3>2. (i - 1) * m < n * m
      BY <1>1, <3>1, ProductOrder
    <3>3. QED
      BY <1>1, <2>1, <3>2
  <2>5. f[i] = c + x
    BY <2>1
  <2>6. c + x \in Nat /\ c <= c + x /\ c + x < c + n * m
    BY <1>1, <2>4
  <2>7. QED
    BY <2>3, <2>5, <2>6
<1>3. ASSUME NEW a \in T
      PROVE  \E i \in 1 .. n : f[i] = a
  <2>1. a \in Nat /\ a % m = 0 /\ c <= a /\ a < c + n * m
    OBVIOUS
  <2>2. PICK d \in Nat : d = a - c
    BY <1>1, <2>1
  <2>3. d % m = 0
    BY <1>1, <2>1, <2>2, MultipleDiff
  <2>4. PICK k \in Nat : d = m * k
    BY <1>1, <2>3, MultipleIff
  <2>5. k * m < n * m
    BY <1>1, <2>1, <2>2, <2>4
  <2>6. k < n
    BY <1>1, <2>5, ProductOrder
  <2>7. PICK i \in 1 .. n : i - 1 = k
    <3>1. k + 1 \in 1 .. n /\ (k + 1) - 1 = k
      BY <2>6
    <3>2. QED
      BY <3>1
  <2>8. f[i] = c + k * m
    BY <2>7
  <2>9. c + k * m = a
    <3>1. k * m = m * k
      BY <1>1
    <3>2. QED
      BY <1>1, <2>1, <2>2, <2>4, <3>1
  <2>10. f[i] = a
    BY <2>8, <2>9
  <2> HIDE DEF f
  <2>11. QED
    BY <2>10
<1>4. ASSUME NEW i \in 1 .. n, NEW j \in 1 .. n, f[i] = f[j]
      PROVE  i = j
  <2>1. PICK x \in Int, y \in Int : x = i - 1 /\ y = j - 1
    OBVIOUS
  <2>2. x * m \in Int /\ y * m \in Int /\ c + x * m = c + y * m
    BY <1>1, <1>4, <2>1
  <2>3. x * m = y * m
    BY <1>1, <2>2
  <2>4. x <= y /\ y <= x
    BY <1>1, <2>2, <2>3, ProductOrder
  <2>5. QED
    BY <2>1, <2>4
<1> HIDE DEF f, T
<1>5. f \in Bijection(1 .. n, T)
  <2>1. f \in [1 .. n -> T]
    <3>1. f = [i \in 1 .. n |-> f[i]]
      BY DEF f
    <3>2. QED
      BY <1>2, <3>1
  <2>2. f \in Injection(1 .. n, T)
    BY <1>4, <2>1 DEF Injection, IsInjective
  <2>3. f \in Surjection(1 .. n, T)
    BY <1>3, <2>1 DEF Surjection
  <2>4. QED
    BY <2>2, <2>3 DEF Bijection
<1>6. ExistsBijection(1 .. n, T)
  BY <1>5 DEF ExistsBijection
<1>7. IsFiniteSet(T) /\ Cardinality(T) = n
  BY <1>6, FS_NatBijection, FS_CountingElements
<1>8. QED
  BY <1>7 DEF T

=============================================================================
