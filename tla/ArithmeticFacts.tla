--------------------------- MODULE ArithmeticFacts ---------------------------
(***************************************************************************)
(* Facts about natural numbers, and about quotients and remainders by a    *)
(* divisor that is not a constant, which the provers do not know.          *)
(***************************************************************************)
EXTENDS Integers, WellFoundedInduction, TLAPS

\* A set of natural numbers has a least one, ...
LEMMA LeastNatural ==
  ASSUME NEW S \in SUBSET Nat, S # {}
  PROVE  \E m \in S : \A k \in S : m <= k
<1>1. PICK m \in S : \A k \in S : ~(<<k, m>> \in OpToRel(<, Nat))
  BY NatLessThanWellFounded, WFMin
<1>2. \A k \in S : ~(k < m)
  BY <1>1 DEF OpToRel
<1> QED BY <1>2

\* ... and a greatest one when it is bounded.
LEMMA GreatestNatural ==
  ASSUME NEW n \in Nat, NEW S \in SUBSET (0 .. n), S # {}
  PROVE  \E m \in S : \A k \in S : k <= m
<1> DEFINE T == {k \in Nat : n - k \in S}
<1>1. PICK z \in S : TRUE
  OBVIOUS
<1>2. n - z \in T
  <2>1. n - (n - z) = z /\ n - z \in Nat
    OBVIOUS
  <2> QED BY <2>1
<1>3. PICK m \in T : \A k \in T : m <= k
  BY <1>2, LeastNatural
<1>4. ASSUME NEW k \in S PROVE k <= n - m
  <2>1. n - (n - k) = k /\ n - k \in Nat
    OBVIOUS
  <2>2. n - k \in T
    BY <2>1
  <2>3. m <= n - k
    BY <1>3, <2>2
  <2> QED BY <2>3
<1> QED BY <1>3, <1>4

\* Quotient and remainder are unique, one half: the smaller quotient ...
LEMMA QuotientNotLess ==
  ASSUME NEW r \in Nat \ {0}, NEW p \in Int, NEW q \in Int,
         NEW x \in 0 .. r - 1, NEW y \in 0 .. r - 1,
         r * p + x = r * q + y
  PROVE  ~(p < q)
<1> SUFFICES ASSUME p < q PROVE FALSE
  OBVIOUS
<1>1. PICK d \in Nat : q = p + 1 + d
  <2>1. q - p - 1 \in Nat /\ q = p + 1 + (q - p - 1)
    OBVIOUS
  <2> QED BY <2>1
<1>2. r * q = r * p + r + r * d
  BY <1>1, Z3
<1>3. r * d \in Nat
  BY Z3
<1>4. r * p \in Int
  OBVIOUS
<1> QED BY <1>2, <1>3, <1>4

\* ... so neither is smaller, ...
LEMMA QuotientUnique ==
  ASSUME NEW r \in Nat \ {0}, NEW p \in Int, NEW q \in Int,
         NEW x \in 0 .. r - 1, NEW y \in 0 .. r - 1,
         r * p + x = r * q + y
  PROVE  p = q
<1>1. ~(p < q) /\ ~(q < p)
  BY QuotientNotLess
<1> QED BY <1>1

\* ... and the remainders are the same too.
LEMMA RemainderUnique ==
  ASSUME NEW r \in Nat \ {0}, NEW p \in Int, NEW q \in Int,
         NEW x \in 0 .. r - 1, NEW y \in 0 .. r - 1,
         r * p + x = r * q + y
  PROVE  x = y
<1>1. p = q
  BY QuotientUnique
<1>2. r * p \in Int
  OBVIOUS
<1> QED BY <1>1, <1>2

\* A counter that wraps at its rate is the frame number modulo the rate: this
\* is the step of the counter against the step of the remainder.
LEMMA RemainderStep ==
  ASSUME NEW n \in Nat, NEW r \in Nat \ {0}
  PROVE  /\ (n % r) + 1 >= r => (n + 1) % r = 0
         /\ ~((n % r) + 1 >= r) => (n + 1) % r = (n % r) + 1
         /\ n % r \in 0 .. r - 1
<1>1. n % r \in 0 .. r - 1 /\ (n + 1) % r \in 0 .. r - 1
  OBVIOUS
<1>2. n = (r * (n \div r)) + (n % r)
  BY Z3
<1>3. n + 1 = (r * ((n + 1) \div r)) + ((n + 1) % r)
  BY Z3
<1>4. n \div r \in Int /\ (n + 1) \div r \in Int
  BY Z3
<1>5. r * (n \div r) \in Int
  BY <1>4
<1>6. CASE (n % r) + 1 >= r
  <2>1. (n % r) + 1 = r
    BY <1>1, <1>6
  <2>2. r * ((n \div r) + 1) = (r * (n \div r)) + r
    BY <1>4, Z3
  <2>3. r * ((n \div r) + 1) + 0 = (r * ((n + 1) \div r)) + ((n + 1) % r)
    BY <2>1, <2>2, <1>1, <1>2, <1>3, <1>5
  <2>4. 0 \in 0 .. r - 1 /\ (n \div r) + 1 \in Int
    BY <1>4
  <2>5. 0 = (n + 1) % r
    BY <2>3, <2>4, <1>1, <1>4, RemainderUnique
  <2> QED BY <2>5, <1>1, <1>6
<1>7. CASE ~((n % r) + 1 >= r)
  <2>1. (n % r) + 1 \in 0 .. r - 1
    BY <1>1, <1>7
  <2>2. (r * (n \div r)) + ((n % r) + 1)
          = (r * ((n + 1) \div r)) + ((n + 1) % r)
    BY <2>1, <1>1, <1>2, <1>3, <1>5
  <2>3. (n % r) + 1 = (n + 1) % r
    BY <2>1, <2>2, <1>1, <1>4, RemainderUnique
  <2> QED BY <2>3, <1>1, <1>7
<1> QED BY <1>6, <1>7

\* A quotient of natural numbers is one, is no larger than the dividend, and is
\* not 0 when the divisor is no larger than the dividend.
LEMMA QuotientBounds ==
  ASSUME NEW n \in Nat, NEW r \in Nat \ {0}
  PROVE  /\ n \div r \in 0 .. n
         /\ r <= n => n \div r # 0
<1> DEFINE q == n \div r
           m == n % r
<1>1. m \in 0 .. r - 1
  OBVIOUS
<1>2. n = (r * q) + m /\ q \in Int
  BY Z3
<1> HIDE DEF q, m
<1>3. q >= 0
  <2> SUFFICES ASSUME q < 0 PROVE FALSE
    BY <1>2
  <2>1. PICK d \in Nat : q = -1 - d
    <3>1. -1 - q \in Nat /\ q = -1 - (-1 - q)
      BY <1>2
    <3> QED BY <3>1
  <2>2. r * q = -r - r * d
    BY <2>1, Z3
  <2>3. r * d \in Nat
    BY Z3
  <2> QED BY <2>2, <2>3, <1>1, <1>2
<1>4. q <= n
  <2>1. PICK d \in Nat : r = d + 1
    <3>1. r - 1 \in Nat /\ r = (r - 1) + 1
      OBVIOUS
    <3> QED BY <3>1
  <2>2. r * q = d * q + q /\ d * q \in Nat
    BY <2>1, <1>2, <1>3, Z3
  <2> QED BY <2>2, <1>1, <1>2
<1>5. ASSUME r <= n, q = 0 PROVE FALSE
  BY <1>1, <1>2, <1>5
<1> QED BY <1>2, <1>3, <1>4, <1>5 DEF q

\* The remainder of 0.
LEMMA ZeroRemainder ==
  ASSUME NEW r \in Nat \ {0}
  PROVE  0 % r = 0
<1>1. 0 % r \in 0 .. r - 1 /\ 0 \in 0 .. r - 1
  OBVIOUS
<1>2. 0 = (r * (0 \div r)) + (0 % r) /\ 0 \div r \in Int
  BY Z3
<1>3. r * 0 + 0 = (r * (0 \div r)) + (0 % r)
  BY <1>2
<1> QED BY <1>1, <1>2, <1>3, RemainderUnique

\* What is r * p and some of a r has the quotient p.
LEMMA Division ==
  ASSUME NEW r \in Nat \ {0}, NEW p \in Int, NEW x \in 0 .. r - 1
  PROVE  (r * p + x) \div r = p /\ (r * p + x) % r = x
<1> DEFINE n == r * p + x
<1>1. n \in Int
  OBVIOUS
<1> HIDE DEF n
<1>2. n % r \in 0 .. r - 1
  BY <1>1
<1>3. n = (r * (n \div r)) + (n % r) /\ n \div r \in Int
  BY <1>1, Z3
<1>4. r * p + x = (r * (n \div r)) + (n % r)
  BY <1>3 DEF n
<1>5. n \div r = p
  BY <1>2, <1>3, <1>4, QuotientUnique
<1>6. n % r = x
  BY <1>2, <1>3, <1>4, RemainderUnique
<1> QED BY <1>5, <1>6 DEF n

\* The cells of row p of a table with r columns.
LEMMA RowOf ==
  ASSUME NEW r \in Nat \ {0}, NEW p \in Int, NEW n \in Int
  PROVE  n \div r = p <=> n \in r * p .. r * p + r - 1
<1>1. ASSUME n \div r = p PROVE n \in r * p .. r * p + r - 1
  <2>1. n % r \in 0 .. r - 1 /\ n = (r * p) + (n % r)
    BY <1>1, Z3
  <2> QED BY <2>1
<1>2. ASSUME n \in r * p .. r * p + r - 1 PROVE n \div r = p
  <2> DEFINE x == n - r * p
  <2>1. x \in 0 .. r - 1 /\ n = r * p + x
    BY <1>2
  <2> HIDE DEF x
  <2> QED BY <2>1, Division
<1> QED BY <1>1, <1>2

\* Row p lies in a table with r columns and t rows.
LEMMA RowInTable ==
  ASSUME NEW r \in Nat \ {0}, NEW t \in Nat \ {0}, NEW p \in 0 .. t - 1
  PROVE  /\ r * p \in Nat
         /\ r * p + r <= r * t
         /\ r * t \in Nat \ {0}
<1>1. PICK d \in Nat : t = p + 1 + d
  <2>1. t - p - 1 \in Nat /\ t = p + 1 + (t - p - 1)
    OBVIOUS
  <2> QED BY <2>1
<1>2. r * t = r * p + r + r * d
  BY <1>1, Z3
<1>3. r * d \in Nat /\ r * p \in Nat
  BY Z3
<1> QED BY <1>2, <1>3

\* What quotient and remainder are.
LEMMA QuotientRemainder ==
  ASSUME NEW r \in Nat \ {0}, NEW n \in Int
  PROVE  /\ n \div r \in Int
         /\ n % r \in 0 .. r - 1
         /\ n = (r * (n \div r)) + (n % r)
<1>1. n \div r \in Int
  BY Z3
<1>2. n % r \in 0 .. r - 1
  BY Z3
<1>3. n = (r * (n \div r)) + (n % r)
  BY Z3
<1> QED BY <1>1, <1>2, <1>3

\* A quotient is rounded down.
LEMMA RoundedDown ==
  ASSUME NEW n \in Nat, NEW r \in Nat \ {0}
  PROVE  /\ (n \div r) * r <= n
         /\ n < ((n \div r) + 1) * r
<1>1. PICK q \in Int : q = n \div r
  BY QuotientRemainder
<1>2. n % r \in 0 .. r - 1 /\ n = (r * q) + (n % r)
  BY <1>1, QuotientRemainder
<1>3. q * r = r * q /\ (q + 1) * r = r * q + r /\ r * q \in Int
  OBVIOUS
<1> QED BY <1>1, <1>2, <1>3

\* Division keeps the order.
LEMMA QuotientMonotone ==
  ASSUME NEW r \in Nat \ {0}, NEW m \in Int, NEW n \in Int, m <= n
  PROVE  m \div r <= n \div r
<1> DEFINE p == m \div r
           q == n \div r
<1>1. p \in Int /\ q \in Int
  BY Z3
<1>2. m \in r * p .. r * p + r - 1 /\ n \in r * q .. r * q + r - 1
  BY <1>1, RowOf
<1> HIDE DEF p, q
<1>3. ASSUME q < p PROVE FALSE
  <2>1. PICK d \in Nat : p = q + 1 + d
    <3>1. p - q - 1 \in Nat /\ p = q + 1 + (p - q - 1)
      BY <1>1, <1>3
    <3> QED BY <3>1
  <2>2. r * p = r * q + r + r * d
    BY <1>1, <2>1
  <2>3. r * d \in Nat /\ r * p \in Int /\ r * q \in Int
    BY <1>1
  <2> QED BY <1>2, <2>2, <2>3
<1> QED BY <1>1, <1>3 DEF p, q

\* A product keeps the order of a factor.
LEMMA ProductMonotone ==
  ASSUME NEW c \in Nat, NEW m \in Int, NEW n \in Int, m <= n
  PROVE  m * c <= n * c
<1>1. PICK d \in Nat : n = m + d
  <2>1. n - m \in Nat /\ n = m + (n - m)
    OBVIOUS
  <2> QED BY <2>1
<1>2. n * c = m * c + d * c /\ d * c \in Nat /\ m * c \in Int
  BY <1>1
<1> QED BY <1>2

==============================================================================
