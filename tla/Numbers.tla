------------------------------ MODULE Numbers ------------------------------
(***************************************************************************)
(* What the proofs need of the natural numbers.  Induction: a set of them  *)
(* has a least member, a bounded one a greatest.  Recursion: a function    *)
(* may be defined from its own values at lower arguments.  Arithmetic:     *)
(* remainders, primes, powers, and Fermat's theorem with what it makes of  *)
(* two exponents that are inverse to each other, on which RSA rests.       *)
(***************************************************************************)
EXTENDS Naturals, WellFoundedInduction, FiniteSetTheorems, TLAPS

LEMMA Least == ASSUME NEW S \in SUBSET Nat, S # {} PROVE \E n \in S : \A m \in S : n <= m
<1> DEFINE Before == OpToRel(<, Nat)
<1>1. IsWellFoundedOn(Before, Nat)
  BY NatLessThanWellFounded
<1>2. \A x, y \in Nat : x < y => <<x, y>> \in Before
  BY DEF OpToRel
<1> HIDE DEF Before
<1>3. PICK n \in S : \A m \in S : <<m, n>> \notin Before
  BY <1>1, WFMin
<1>4. \A m \in S : ~(m < n)
  BY <1>2, <1>3, Zenon
<1>5. \A m \in S : n <= m
  BY <1>4
<1> QED
  BY <1>5

LEMMA Greatest ==
  ASSUME NEW n \in Nat, NEW S \in SUBSET (1 .. n), S # {} PROVE \E m \in S : \A k \in S : k <= m
<1> DEFINE Down == {n - k : k \in S}
<1>1. Down \in SUBSET Nat /\ Down # {}
  <2>1. \A k \in S : k \in 1 .. n
    OBVIOUS
  <2>2. \A k \in S : n - k \in Nat
    BY <2>1
  <2>3. PICK k \in S : TRUE
    OBVIOUS
  <2>4. n - k \in Down
    BY <2>3
  <2> QED
    BY <2>2, <2>4
<1>2. PICK d \in Down : \A e \in Down : d <= e
  BY <1>1, Least
<1>3. PICK m \in S : d = n - m
  BY <1>2
<1>4. \A k \in S : n - m <= n - k
  BY <1>2, <1>3
<1> QED
  BY <1>4

\* Induction: a set that has 0 and, with each number, the next one has them all.
LEMMA Induct ==
  ASSUME NEW S \in SUBSET Nat, 0 \in S, \A k \in S : k + 1 \in S
  PROVE  \A k \in Nat : k \in S
<1> SUFFICES ASSUME Nat \ S # {} PROVE FALSE
  OBVIOUS
<1>1. PICK k \in Nat \ S : \A j \in Nat \ S : k <= j
  BY Least
<1>2. k - 1 \in Nat /\ k = (k - 1) + 1 /\ k - 1 \in S
  BY <1>1
<1> QED
  BY <1>1, <1>2

-----------------------------------------------------------------------------
(* Recursion.                                                              *)

\* f is base at 0 and, at any other argument, what step makes of it and of f at a lower one.
Follows(N, base, down, step, f) ==
  f = [k \in N |-> IF k = 0 THEN base ELSE step[<<k, f[down[k]]>>]]

LEMMA Recursion ==
  ASSUME NEW N \in SUBSET Nat, 0 \in N, NEW V, NEW base \in V,
         NEW down \in [N -> N], \A k \in N : k # 0 => down[k] < k,
         NEW step \in [N \X V -> V]
  PROVE  \E f \in [N -> V] : Follows(N, base, down, step, f)
<1> DEFINE Upto(n) == {k \in N : k <= n}
           Value(k, f) == IF k = 0 THEN base ELSE step[<<k, f[down[k]]>>]
           Part(n, f) == f \in [Upto(n) -> V] /\ \A k \in Upto(n) : f[k] = Value(k, f)
<1>1. ASSUME NEW n \in N, NEW m \in N, NEW f, NEW g, Part(n, f), Part(m, g), NEW x \in Upto(n), x <= m
      PROVE  f[x] = g[x]
  <2> DEFINE Bad == {k \in N : k <= n /\ k <= m /\ f[k] # g[k]}
  <2>1. SUFFICES ASSUME Bad # {} PROVE FALSE
    <3>1. x \in N /\ x <= n
      OBVIOUS
    <3> QED
      BY <1>1, <3>1
  <2>2. PICK k \in Bad : \A j \in Bad : k <= j
    <3>1. Bad \in SUBSET Nat
      OBVIOUS
    <3> QED
      BY <2>1, <3>1, Least
  <2>3. k \in N /\ k <= n /\ k <= m /\ f[k] # g[k]
    OBVIOUS
  <2>4. f[k] = Value(k, f) /\ g[k] = Value(k, g)
    BY <1>1, <2>3
  <2>5. k # 0
    BY <2>3, <2>4
  <2>6. down[k] \in N /\ down[k] < k
    BY <2>3, <2>5
  <2>7. f[down[k]] # g[down[k]]
    BY <2>3, <2>4, <2>5
  <2>8. down[k] \in Bad
    <3> HIDE DEF Value, Part
    <3>1. k \in Nat /\ n \in Nat /\ m \in Nat /\ down[k] \in Nat
      BY <2>3, <2>6
    <3>2. down[k] <= n /\ down[k] <= m
      BY <2>3, <2>6, <3>1
    <3> QED
      BY <2>6, <2>7, <3>2
  <2>9. k <= down[k] /\ k \in Nat /\ down[k] \in Nat
    BY <2>2, <2>3, <2>6, <2>8
  <2> QED
    BY <2>6, <2>9
<1>2. ASSUME NEW n \in N PROVE \E f : Part(n, f)
  <2> DEFINE Bad == {k \in N : ~\E f : Part(k, f)}
  <2>1. SUFFICES ASSUME Bad # {} PROVE FALSE
    OBVIOUS
  <2> HIDE DEF Part
  <2>2. PICK k \in Bad : \A j \in Bad : k <= j
    <3>1. Bad \in SUBSET Nat
      OBVIOUS
    <3> QED
      BY <2>1, <3>1, Least
  <2>3. k \in N /\ ~\E f : Part(k, f)
    OBVIOUS
  <2> DEFINE H(j) == CHOOSE f : Part(j, f)
             g == [j \in Upto(k) |-> IF j = 0 THEN base ELSE step[<<j, H(down[j])[down[j]]>>]]
  <2>4. ASSUME NEW j \in N, j < k PROVE Part(j, H(j))
    <3>1. j \notin Bad
      BY <2>2, <2>4
    <3>2. \E f : Part(j, f)
      BY <3>1
    <3> QED
      BY <3>2
  <2>5. ASSUME NEW j \in N, j < k PROVE H(j)[j] \in V
    <3>1. Part(j, H(j))
      BY <2>4, <2>5
    <3>2. j \in Upto(j)
      OBVIOUS
    <3> HIDE DEF H, Upto
    <3> QED
      BY <3>1, <3>2 DEF Part
  <2> HIDE DEF H
  <2>6. ASSUME NEW j \in Upto(k), j # 0
        PROVE  /\ down[j] \in N /\ down[j] < j /\ down[j] < k
               /\ step[<<j, H(down[j])[down[j]]>>] \in V
    <3>1. j \in N /\ j <= k /\ k \in N /\ k \in Nat /\ j \in Nat
      BY <2>3
    <3>2. down[j] \in N /\ down[j] < j /\ down[j] \in Nat
      BY <2>6, <3>1
    <3>3. down[j] < k
      BY <3>1, <3>2
    <3>4. H(down[j])[down[j]] \in V
      BY <2>5, <3>2, <3>3
    <3> QED
      BY <3>1, <3>2, <3>3, <3>4
  <2>7. g \in [Upto(k) -> V]
    BY <2>6
  <2>8. ASSUME NEW j \in Upto(k) PROVE g[j] = Value(j, g)
    <3>1. CASE j = 0
      BY <3>1
    <3>2. CASE j # 0
      <4> DEFINE i == down[j]
      <4>1. i \in N /\ i < k /\ i < j /\ i \in Upto(k) /\ i \in Nat
        <5>1. i \in N /\ i < k /\ i < j
          BY <2>6, <3>2
        <5>2. i \in Nat /\ k \in Nat
          BY <2>3, <5>1
        <5> QED
          BY <5>1, <5>2
      <4>2. g[j] = step[<<j, H(i)[i]>>]
        BY <3>2
      <4>3. CASE i = 0
        <5>1. Part(i, H(i)) /\ i \in Upto(i)
          BY <2>4, <4>1
        <5>2. H(i)[i] = Value(i, H(i))
          BY <5>1 DEF Part
        <5> QED
          BY <3>2, <4>1, <4>2, <4>3, <5>2
      <4>4. CASE i # 0
        <5> DEFINE h == down[i]
        <5>1. Part(i, H(i)) /\ i \in Upto(i)
          BY <2>4, <4>1
        <5>2. H(i)[i] = step[<<i, H(i)[h]>>]
          BY <4>4, <5>1 DEF Part
        <5>3. h \in N /\ h < i /\ h < k /\ h \in Upto(i) /\ h \in Upto(h) /\ h \in Nat /\ h <= i
          <6>1. h \in N /\ h < i
            BY <2>6, <4>1, <4>4
          <6>2. h \in Nat /\ i \in Nat /\ k \in Nat
            BY <2>3, <4>1, <6>1
          <6>3. h < k /\ h <= i /\ h <= h
            BY <4>1, <6>1, <6>2
          <6> QED
            BY <6>1, <6>2, <6>3
        <5>4. Part(h, H(h))
          BY <2>4, <5>3
        <5>5. H(h)[h] = H(i)[h]
          BY <1>1, <4>1, <5>1, <5>3, <5>4
        <5>6. g[i] = step[<<i, H(h)[h]>>]
          BY <4>1, <4>4
        <5> QED
          BY <3>2, <4>2, <5>2, <5>5, <5>6
      <4> QED
        BY <4>3, <4>4
    <3> QED
      BY <3>1, <3>2
  <2>9. Part(k, g)
    BY <2>7, <2>8 DEF Part
  <2> QED
    BY <2>3, <2>9
<1> DEFINE H(n) == CHOOSE f : Part(n, f)
           F == [n \in N |-> H(n)[n]]
<1>3. ASSUME NEW n \in N PROVE Part(n, H(n)) /\ n \in Upto(n)
  <2> HIDE DEF Part
  <2>1. n <= n
    OBVIOUS
  <2> QED
    BY <1>2, <2>1
<1> HIDE DEF H
<1>4. F \in [N -> V]
  BY <1>3
<1>5. ASSUME NEW n \in N PROVE F[n] = Value(n, F)
  <2>1. CASE n = 0
    BY <1>3, <2>1
  <2>2. CASE n # 0
    <3> DEFINE d == down[n]
    <3>1. d \in N /\ d < n /\ d \in Upto(n) /\ d \in Upto(d) /\ d <= n
      <4>1. d \in N /\ d < n
        BY <2>2
      <4>2. d \in Nat /\ n \in Nat
        BY <4>1
      <4> QED
        BY <4>1, <4>2
    <3>2. H(n)[n] = step[<<n, H(n)[d]>>]
      BY <1>3, <2>2
    <3>3. H(n)[d] = H(d)[d]
      <4> HIDE DEF Part
      <4>1. Part(n, H(n)) /\ Part(d, H(d)) /\ d \in N /\ d \in Upto(n) /\ d <= d
        BY <1>3, <3>1
      <4> HIDE DEF Upto, d
      <4> QED
        BY <1>1, <4>1
    <3> QED
      BY <2>2, <3>1, <3>2, <3>3
  <2> QED
    BY <2>1, <2>2
<1> HIDE DEF H
<1>6. Follows(N, base, down, step, F)
  <2> HIDE DEF F
  <2>1. F = [n \in N |-> Value(n, F)]
    BY <1>4, <1>5
  <2> QED
    BY <2>1 DEF Follows
<1> QED
  BY <1>4, <1>6

-----------------------------------------------------------------------------
(* Division.                                                               *)

LEMMA ProductNat == ASSUME NEW a \in Nat, NEW b \in Nat PROVE a * b \in Nat /\ a * b = b * a
  OBVIOUS

LEMMA ProductGrows ==
  ASSUME NEW a \in Nat, NEW b \in Nat, NEW c \in Nat, b < c, a > 0
  PROVE  a * b + a <= a * c
<1>1. PICK d \in Nat : c = b + 1 + d
  <2>1. c - b - 1 \in Nat /\ c = b + 1 + (c - b - 1)
    OBVIOUS
  <2> QED
    BY <2>1
<1>2. a * c = a * b + a + a * d
  BY <1>1
<1> QED
  BY <1>2, ProductNat

LEMMA Division ==
  ASSUME NEW n \in Nat, n > 0, NEW a \in Nat
  PROVE  a % n \in 0 .. n - 1 /\ a \div n \in Nat /\ a = n * (a \div n) + (a % n)
  OBVIOUS

LEMMA Remainder ==
  ASSUME NEW n \in Nat, n > 0, NEW k \in Nat, NEW r \in 0 .. n - 1
  PROVE  (n * k + r) % n = r /\ (n * k + r) \div n = k
<1> DEFINE a == n * k + r
           j == a \div n
           s == a % n
<1>1. a \in Nat
  BY ProductNat
<1>2. j \in Nat /\ s \in 0 .. n - 1 /\ a = n * j + s
  BY <1>1, Division
<1>3. a = n * k + r
  OBVIOUS
<1> HIDE DEF a, j, s
<1>4. n * k \in Nat /\ n * j \in Nat
  BY <1>2, ProductNat
<1>5. ~(j < k)
  <2>1. SUFFICES ASSUME j < k PROVE FALSE
    OBVIOUS
  <2>2. n * j + n <= n * k
    BY <1>2, <2>1, ProductGrows
  <2> QED
    BY <1>2, <1>3, <1>4, <2>2
<1>6. ~(k < j)
  <2>1. SUFFICES ASSUME k < j PROVE FALSE
    OBVIOUS
  <2>2. n * k + n <= n * j
    BY <1>2, <2>1, ProductGrows
  <2> QED
    BY <1>2, <1>3, <1>4, <2>2
<1>7. j = k
  BY <1>2, <1>5, <1>6
<1>8. s = r
  BY <1>2, <1>3, <1>4, <1>7
<1> QED
  BY <1>7, <1>8 DEF a, j, s

Divides(d, a) == \E k \in Nat : a = d * k

LEMMA DividesIs ==
  ASSUME NEW n \in Nat, n > 0, NEW a \in Nat
  PROVE  Divides(n, a) <=> a % n = 0
<1>1. ASSUME Divides(n, a) PROVE a % n = 0
  <2>1. PICK k \in Nat : a = n * k
    BY <1>1 DEF Divides
  <2>2. 0 \in 0 .. n - 1 /\ n * k + 0 = n * k
    BY ProductNat
  <2> QED
    BY <2>1, <2>2, Remainder
<1>2. ASSUME a % n = 0 PROVE Divides(n, a)
  <2>1. a = n * (a \div n) /\ a \div n \in Nat
    BY <1>2, Division, ProductNat
  <2> QED
    BY <2>1 DEF Divides
<1> QED
  BY <1>1, <1>2

\* a and b leave the same remainder.
Congruent(n, a, b) == a % n = b % n

LEMMA SameRemainder ==
  ASSUME NEW n \in Nat, n > 0, NEW a \in Nat, NEW b \in Nat, b <= a
  PROVE  Congruent(n, a, b) <=> Divides(n, a - b)
<1> DEFINE x == a \div n
           y == b \div n
           r == a % n
           s == b % n
<1>1. x \in Nat /\ r \in 0 .. n - 1 /\ a = n * x + r
  BY Division
<1>2. y \in Nat /\ s \in 0 .. n - 1 /\ b = n * y + s
  BY Division
<1>3. n * x \in Nat /\ n * y \in Nat
  BY <1>1, <1>2, ProductNat
<1> SUFFICES r = s <=> Divides(n, a - b)
  BY DEF Congruent
<1> HIDE DEF x, y, r, s
<1>4. ASSUME r = s PROVE Divides(n, a - b)
  <2>1. ~(x < y)
    <3>1. SUFFICES ASSUME x < y PROVE FALSE
      OBVIOUS
    <3>2. n * x + n <= n * y
      BY <1>1, <1>2, <3>1, ProductGrows
    <3> QED
      BY <1>1, <1>2, <1>3, <1>4, <3>2
  <2>2. PICK k \in Nat : x = y + k
    <3>1. x - y \in Nat /\ x = y + (x - y)
      BY <1>1, <1>2, <2>1
    <3> QED
      BY <3>1
  <2>3. n * x = n * y + n * k /\ n * k \in Nat
    BY <1>2, <2>2, ProductNat
  <2>4. a - b = n * k
    BY <1>1, <1>2, <1>3, <1>4, <2>3
  <2> QED
    BY <2>2, <2>4 DEF Divides
<1>5. ASSUME Divides(n, a - b) PROVE r = s
  <2>1. PICK k \in Nat : a - b = n * k
    BY <1>5 DEF Divides
  <2>2. n * (y + k) = n * y + n * k /\ n * k \in Nat /\ y + k \in Nat
    BY <1>2, <2>1, ProductNat
  <2>3. a = n * (y + k) + s
    BY <1>2, <1>3, <2>1, <2>2
  <2> QED
    BY <1>2, <2>2, <2>3, Remainder DEF r
<1> QED
  BY <1>4, <1>5

\* A factor may be replaced by its remainder.
LEMMA ProductRemainder ==
  ASSUME NEW n \in Nat, n > 0, NEW a \in Nat, NEW b \in Nat
  PROVE  (a * b) % n = ((a % n) * b) % n
<1> DEFINE x == a \div n
           r == a % n
           y == (r * b) \div n
           s == (r * b) % n
<1>1. x \in Nat /\ r \in Nat /\ a = n * x + r
  BY Division
<1>2. r * b \in Nat
  BY <1>1, ProductNat
<1>3. y \in Nat /\ s \in 0 .. n - 1 /\ r * b = n * y + s
  BY <1>2, Division
<1> SUFFICES (a * b) % n = s
  OBVIOUS
<1> HIDE DEF x, y, r, s
<1>4. a * b = n * (x * b) + r * b
  BY <1>1
<1>5. x * b \in Nat /\ n * (x * b) \in Nat /\ n * y \in Nat
  BY <1>1, <1>3, ProductNat
<1>6. n * (x * b + y) = n * (x * b) + n * y /\ x * b + y \in Nat
  BY <1>3, <1>5
<1>7. a * b = n * (x * b + y) + s
  BY <1>3, <1>4, <1>5, <1>6
<1>8. (n * (x * b + y) + s) % n = s
  BY <1>3, <1>6, Remainder
<1> QED
  BY <1>7, <1>8

LEMMA SameProduct ==
  ASSUME NEW n \in Nat, n > 0, NEW a \in Nat, NEW b \in Nat, NEW c \in Nat, Congruent(n, a, b)
  PROVE  Congruent(n, a * c, b * c)
<1>1. (a * c) % n = ((a % n) * c) % n
  BY ProductRemainder
<1>2. (b * c) % n = ((b % n) * c) % n
  BY ProductRemainder
<1> QED
  BY <1>1, <1>2 DEF Congruent

LEMMA SameProducts ==
  ASSUME NEW n \in Nat, n > 0, NEW a \in Nat, NEW b \in Nat, Congruent(n, a, b),
         NEW c \in Nat, NEW d \in Nat, Congruent(n, c, d)
  PROVE  Congruent(n, a * c, b * d)
<1>1. Congruent(n, a * c, b * c)
  BY SameProduct
<1>2. Congruent(n, c * b, d * b)
  BY SameProduct
<1>3. c * b = b * c /\ d * b = b * d
  BY ProductNat
<1> QED
  BY <1>1, <1>2, <1>3 DEF Congruent

LEMMA SameAsRemainder ==
  ASSUME NEW n \in Nat, n > 0, NEW a \in Nat
  PROVE  Congruent(n, a % n, a) /\ a % n \in Nat /\ a % n < n
<1>1. a % n \in 0 .. n - 1 /\ n * 0 + (a % n) = a % n
  BY Division
<1>2. (n * 0 + (a % n)) % n = a % n
  BY <1>1, Remainder
<1> QED
  BY <1>1, <1>2 DEF Congruent

LEMMA SameBelow ==
  ASSUME NEW n \in Nat, NEW a \in Nat, a < n, NEW b \in Nat, b < n, Congruent(n, a, b)
  PROVE  a = b
<1>1. a \in 0 .. n - 1 /\ b \in 0 .. n - 1 /\ n > 0 /\ n * 0 + a = a /\ n * 0 + b = b
  OBVIOUS
<1>2. (n * 0 + a) % n = a
  BY <1>1, Remainder
<1>3. (n * 0 + b) % n = b
  BY <1>1, Remainder
<1> QED
  BY <1>1, <1>2, <1>3 DEF Congruent

-----------------------------------------------------------------------------
(* Primes.                                                                 *)

IsPrime(p) == p \in Nat /\ p > 1 /\ \A d \in 2 .. p - 1 : p % d # 0

LEMMA PrimeFactors ==
  ASSUME NEW p, IsPrime(p), NEW d \in Nat, Divides(d, p)
  PROVE  d = 1 \/ d = p
<1>1. PICK k \in Nat : p = d * k
  BY DEF Divides
<1>2. p \in Nat /\ p > 1
  BY DEF IsPrime
<1>3. d # 0
  BY <1>1, <1>2
<1>4. k # 0
  BY <1>1, <1>2
<1>5. d <= p
  <2>1. CASE k = 1
    BY <1>1, <2>1
  <2>2. CASE k > 1
    <3>1. d * 1 + d <= d * k
      BY <1>3, <2>2, ProductGrows
    <3> QED
      BY <1>1, <3>1
  <2> QED
    BY <1>4, <2>1, <2>2
<1>6. p % d = 0
  BY <1>2, <1>3, DividesIs
<1> QED
  BY <1>2, <1>3, <1>5, <1>6 DEF IsPrime

LEMMA EuclidsLemma ==
  ASSUME NEW p, IsPrime(p), NEW a \in Nat, NEW b \in Nat, Divides(p, a * b)
  PROVE  Divides(p, a) \/ Divides(p, b)
<1> DEFINE S == {s \in Nat : s > 0 /\ Divides(p, s * b)}
<1>1. p \in Nat /\ p > 1
  BY DEF IsPrime
<1>2. p \in S
  BY <1>1 DEF Divides
<1>3. PICK s \in S : \A t \in S : s <= t
  <2>1. S \in SUBSET Nat /\ S # {}
    BY <1>2
  <2> HIDE DEF S
  <2> QED
    BY <2>1, Least
<1>4. s \in Nat /\ s > 0 /\ Divides(p, s * b)
  OBVIOUS
<1>5. ASSUME NEW t \in Nat, Divides(p, t * b) PROVE Divides(s, t)
  <2> DEFINE k == t \div s
             r == t % s
  <2>1. k \in Nat /\ r \in 0 .. s - 1 /\ t = s * k + r
    BY <1>4, Division
  <2> HIDE DEF k
  <2>2. PICK u \in Nat : s * b = p * u
    BY <1>4 DEF Divides
  <2>3. PICK v \in Nat : t * b = p * v
    BY <1>5 DEF Divides
  <2>4. r \in Nat /\ r < s
    BY <1>4, <2>1
  <2>5. CASE r = 0
    BY <1>4, <2>5, DividesIs
  <2>6. CASE r > 0
    <3> HIDE DEF r
    <3>1. t * b = (s * b) * k + r * b
      BY <1>4, <2>1, <2>4
    <3>2. p * v = (p * u) * k + r * b
      BY <2>2, <2>3, <3>1
    <3>3. (p * u) * k = p * (u * k) /\ u * k \in Nat /\ r * b \in Nat
      BY <1>1, <2>1, <2>2, <2>4, ProductNat
    <3>4. p * v = p * (u * k) + r * b
      BY <3>2, <3>3
    <3>5. ~(v < u * k)
      <4>1. SUFFICES ASSUME v < u * k PROVE FALSE
        OBVIOUS
      <4>2. p * v + p <= p * (u * k)
        BY <1>1, <2>3, <3>3, <4>1, ProductGrows
      <4>3. p * v \in Nat /\ p * (u * k) \in Nat
        BY <1>1, <2>3, <3>3, ProductNat
      <4> QED
        BY <1>1, <3>3, <3>4, <4>2, <4>3
    <3>6. v - u * k \in Nat /\ p * (v - u * k) = p * v - p * (u * k)
      BY <1>1, <2>3, <3>3, <3>5
    <3>7. p * v \in Nat /\ p * (u * k) \in Nat
      BY <1>1, <2>3, <3>3, ProductNat
    <3>8. r * b = p * (v - u * k)
      BY <3>3, <3>4, <3>6, <3>7
    <3>9. r \in S
      BY <2>4, <2>6, <3>6, <3>8 DEF Divides
    <3>10. s <= r
      BY <1>3, <3>9
    <3> QED
      BY <1>4, <2>4, <3>10
  <2> QED
    BY <2>4, <2>5, <2>6
<1>6. Divides(s, p)
  BY <1>1, <1>2, <1>5
<1>7. CASE s = 1
  BY <1>4, <1>7
<1>8. CASE s = p
  BY <1>5, <1>8
<1> HIDE DEF S
<1> QED
  BY <1>4, <1>6, <1>7, <1>8, PrimeFactors

\* What agrees up to p and up to q, two primes, agrees up to their product.
LEMMA TwoPrimes ==
  ASSUME NEW p, IsPrime(p), NEW q, IsPrime(q), p # q, NEW a \in Nat, NEW b \in Nat, b <= a,
         Congruent(p, a, b), Congruent(q, a, b)
  PROVE  Congruent(p * q, a, b)
<1>1. p \in Nat /\ p > 1 /\ q \in Nat /\ q > 1 /\ a - b \in Nat
  BY DEF IsPrime
<1>2. p * q \in Nat /\ p * q > 0
  BY <1>1
<1>3. Divides(p, a - b) /\ Divides(q, a - b)
  <2>1. p > 0 /\ q > 0
    BY <1>1
  <2>2. Divides(p, a - b)
    BY <1>1, <2>1, SameRemainder
  <2>3. Divides(q, a - b)
    BY <1>1, <2>1, SameRemainder
  <2> QED
    BY <2>2, <2>3
<1>4. PICK k \in Nat : a - b = p * k
  BY <1>3 DEF Divides
<1>5. ~Divides(q, p)
  BY <1>1, PrimeFactors
<1>6. Divides(q, k)
  BY <1>1, <1>3, <1>4, <1>5, EuclidsLemma
<1>7. PICK j \in Nat : k = q * j
  BY <1>6 DEF Divides
<1>8. a - b = (p * q) * j
  BY <1>1, <1>4, <1>7
<1>9. Divides(p * q, a - b)
  BY <1>7, <1>8 DEF Divides
<1> QED
  BY <1>2, <1>9, SameRemainder

-----------------------------------------------------------------------------
(* Powers.                                                                 *)

IsPower(b, f) == f \in [Nat -> Nat] /\ f[0] = 1 /\ \A k \in Nat : f[k + 1] = f[k] * b
Power(b) == CHOOSE f : IsPower(b, f)

LEMMA PowerIs == ASSUME NEW b \in Nat PROVE IsPower(b, Power(b))
<1> DEFINE down == [k \in Nat |-> IF k = 0 THEN 0 ELSE k - 1]
           step == [x \in Nat \X Nat |-> x[2] * b]
<1>1. down \in [Nat -> Nat] /\ (\A k \in Nat : k # 0 => down[k] < k) /\ step \in [Nat \X Nat -> Nat]
  BY ProductNat
<1>2. \A k, v \in Nat : down[k + 1] = k /\ step[<<k + 1, v>>] = v * b
  OBVIOUS
<1> HIDE DEF down, step
<1>3. PICK f \in [Nat -> Nat] : Follows(Nat, 1, down, step, f)
  BY <1>1, Recursion
<1>4. f[0] = 1
  BY <1>3 DEF Follows
<1>5. ASSUME NEW k \in Nat PROVE f[k + 1] = f[k] * b
  <2>1. k + 1 \in Nat /\ k + 1 # 0
    OBVIOUS
  <2>2. f[k + 1] = step[<<k + 1, f[down[k + 1]]>>]
    BY <1>3, <2>1, Zenon DEF Follows
  <2> QED
    BY <1>2, <2>2
<1>6. IsPower(b, f)
  BY <1>4, <1>5 DEF IsPower
<1> QED
  BY <1>6 DEF Power

LEMMA PowerNat == ASSUME NEW b \in Nat, NEW k \in Nat PROVE Power(b)[k] \in Nat
  BY PowerIs DEF IsPower

LEMMA PowerOne == ASSUME NEW b \in Nat PROVE Power(b)[1] = b
<1>1. Power(b)[0] = 1 /\ Power(b)[0 + 1] = Power(b)[0] * b
  BY PowerIs DEF IsPower
<1> QED
  BY <1>1

LEMMA PowerOfOne == ASSUME NEW k \in Nat PROVE Power(1)[k] = 1
<1> DEFINE f == Power(1)
           S == {j \in Nat : f[j] = 1}
<1>1. f[0] = 1 /\ \A j \in Nat : f[j + 1] = f[j] * 1
  BY PowerIs DEF IsPower
<1>2. 0 \in S /\ \A j \in S : j + 1 \in S
  BY <1>1
<1>3. k \in S
  <2> HIDE DEF S
  <2> QED
    BY <1>2, Induct DEF S
<1> QED
  BY <1>3

LEMMA PowerSum ==
  ASSUME NEW b \in Nat, NEW i \in Nat, NEW j \in Nat
  PROVE  Power(b)[i + j] = Power(b)[i] * Power(b)[j]
<1> DEFINE f == Power(b)
           S == {k \in Nat : f[i + k] = f[i] * f[k]}
<1>1. f \in [Nat -> Nat] /\ f[0] = 1 /\ \A k \in Nat : f[k + 1] = f[k] * b
  BY PowerIs DEF IsPower
<1> HIDE DEF f
<1>2. 0 \in S
  BY <1>1
<1>3. ASSUME NEW k \in S PROVE k + 1 \in S
  <2>1. i + k \in Nat /\ i + (k + 1) = (i + k) + 1
    OBVIOUS
  <2>2. f[i + (k + 1)] = f[i + k] * b /\ f[k + 1] = f[k] * b
    BY <1>1, <2>1
  <2>3. f[i] \in Nat /\ f[k] \in Nat
    BY <1>1
  <2>4. (f[i] * f[k]) * b = f[i] * (f[k] * b)
    BY <2>3
  <2> QED
    BY <2>2, <2>4
<1>4. j \in S
  BY <1>2, <1>3, Induct
<1> QED
  BY <1>4 DEF f

LEMMA PowerPower ==
  ASSUME NEW b \in Nat, NEW i \in Nat, NEW j \in Nat
  PROVE  Power(b)[i * j] = Power(Power(b)[i])[j]
<1> DEFINE c == Power(b)[i]
           g == Power(c)
           S == {k \in Nat : Power(b)[i * k] = g[k]}
<1>1. c \in Nat /\ Power(b)[0] = 1
  BY PowerIs DEF IsPower
<1>2. g[0] = 1 /\ \A k \in Nat : g[k + 1] = g[k] * c
  BY <1>1, PowerIs DEF IsPower
<1>3. 0 \in S
  BY <1>1, <1>2
<1>4. ASSUME NEW k \in S PROVE k + 1 \in S
  <2>1. i * k \in Nat /\ i * (k + 1) = i * k + i
    BY ProductNat
  <2>2. Power(b)[i * k + i] = Power(b)[i * k] * c
    BY <2>1, PowerSum
  <2> QED
    BY <1>2, <2>1, <2>2
<1>5. j \in S
  <2> HIDE DEF S
  <2> QED
    BY <1>3, <1>4, Induct DEF S
<1> QED
  BY <1>5

\* A power depends on the remainder of its base alone.
LEMMA PowerSame ==
  ASSUME NEW n \in Nat, n > 0, NEW a \in Nat, NEW b \in Nat, Congruent(n, a, b), NEW j \in Nat
  PROVE  Congruent(n, Power(a)[j], Power(b)[j])
<1> DEFINE f == Power(a)
           g == Power(b)
           S == {k \in Nat : Congruent(n, f[k], g[k])}
<1>1. f \in [Nat -> Nat] /\ f[0] = 1 /\ \A k \in Nat : f[k + 1] = f[k] * a
  BY PowerIs DEF IsPower
<1>2. g \in [Nat -> Nat] /\ g[0] = 1 /\ \A k \in Nat : g[k + 1] = g[k] * b
  BY PowerIs DEF IsPower
<1> HIDE DEF f, g
<1>3. 0 \in S
  BY <1>1, <1>2 DEF Congruent
<1>4. ASSUME NEW k \in S PROVE k + 1 \in S
  <2>1. f[k] \in Nat /\ g[k] \in Nat /\ Congruent(n, f[k], g[k])
    BY <1>1, <1>2
  <2>2. Congruent(n, f[k] * a, g[k] * b)
    BY <2>1, SameProducts
  <2> QED
    BY <1>1, <1>2, <2>2
<1>5. j \in S
  <2> HIDE DEF S
  <2> QED
    BY <1>3, <1>4, Induct DEF S
<1> QED
  BY <1>5 DEF f, g

-----------------------------------------------------------------------------
(* Fermat's theorem: multiplying by a turns the numbers below p in circles *)
(* of one length, which divides p - 1.                                     *)

LEMMA SameCancel ==
  ASSUME NEW p, IsPrime(p), NEW c \in Nat, ~Divides(p, c),
         NEW a \in Nat, NEW b \in Nat, Congruent(p, a * c, b * c)
  PROVE  Congruent(p, a, b)
<1>1. p \in Nat /\ p > 0
  BY DEF IsPrime
<1>2. ASSUME NEW x \in Nat, NEW y \in Nat, y <= x, Congruent(p, x * c, y * c)
      PROVE  Congruent(p, x, y)
  <2>1. PICK z \in Nat : x = y + z
    <3>1. x - y \in Nat /\ x = y + (x - y)
      BY <1>2
    <3> QED
      BY <3>1
  <2>2. x * c = y * c + z * c /\ y * c \in Nat /\ z * c \in Nat
    BY <2>1, ProductNat
  <2>3. x * c \in Nat /\ y * c <= x * c /\ x * c - y * c = z * c
    BY <2>2
  <2>4. Divides(p, z * c)
    BY <1>1, <1>2, <2>2, <2>3, SameRemainder
  <2>5. Divides(p, z)
    BY <2>4, EuclidsLemma
  <2>6. x - y = z
    BY <2>1
  <2> QED
    BY <1>1, <1>2, <2>5, <2>6, SameRemainder
<1>3. CASE b <= a
  BY <1>2, <1>3
<1>4. CASE a <= b
  <2>1. Congruent(p, b * c, a * c)
    BY DEF Congruent
  <2>2. Congruent(p, b, a)
    BY <1>2, <1>4, <2>1
  <2> QED
    BY <2>2 DEF Congruent
<1> QED
  BY <1>3, <1>4

LEMMA PowerOfOther ==
  ASSUME NEW p, IsPrime(p), NEW a \in Nat, ~Divides(p, a), NEW k \in Nat
  PROVE  ~Divides(p, Power(a)[k])
<1> DEFINE f == Power(a)
           S == {j \in Nat : ~Divides(p, f[j])}
<1>1. f \in [Nat -> Nat] /\ f[0] = 1 /\ \A j \in Nat : f[j + 1] = f[j] * a
  BY PowerIs DEF IsPower
<1>2. p \in Nat /\ p > 1
  BY DEF IsPrime
<1> HIDE DEF f
<1>3. 0 \in S
  <2>1. 1 \in 0 .. p - 1 /\ p * 0 + 1 = 1
    BY <1>2
  <2>2. 1 % p = 1
    BY <1>2, <2>1, Remainder
  <2> QED
    BY <1>1, <1>2, <2>2, DividesIs
<1>4. ASSUME NEW j \in S PROVE j + 1 \in S
  <2>1. f[j] \in Nat /\ ~Divides(p, f[j])
    BY <1>1
  <2>2. ~Divides(p, f[j] * a)
    BY <2>1, EuclidsLemma
  <2> QED
    BY <1>1, <2>2
<1>5. k \in S
  <2> HIDE DEF S
  <2> QED
    BY <1>3, <1>4, Induct DEF S
<1> QED
  BY <1>5 DEF f

\* What is left of a number that p does not divide.
LEMMA BelowPrime ==
  ASSUME NEW p, IsPrime(p), NEW a \in Nat
  PROVE  /\ ~Divides(p, a) => a % p \in 1 .. p - 1
         /\ a \in 1 .. p - 1 => ~Divides(p, a)
<1>1. p \in Nat /\ p > 0
  BY DEF IsPrime
<1>2. a % p \in 0 .. p - 1
  BY <1>1, Division
<1>3. Divides(p, a) <=> a % p = 0
  BY <1>1, DividesIs
<1>4. ASSUME a \in 1 .. p - 1 PROVE a % p = a
  <2>1. a \in 0 .. p - 1 /\ p * 0 + a = a
    BY <1>1, <1>4
  <2>2. (p * 0 + a) % p = a
    BY <1>1, <2>1, Remainder
  <2> QED
    BY <2>1, <2>2
<1> QED
  BY <1>1, <1>2, <1>3, <1>4

LEMMA ComesBack ==
  ASSUME NEW p, IsPrime(p), NEW a \in Nat, ~Divides(p, a)
  PROVE  \E d \in Nat : d > 0 /\ Congruent(p, Power(a)[d], 1)
<1> DEFINE P == Power(a)
           f == [k \in 0 .. p - 1 |-> P[k] % p]
<1>1. p \in Nat /\ p > 1 /\ \A k \in Nat : P[k] \in Nat /\ ~Divides(p, P[k])
  BY PowerNat, PowerOfOther DEF IsPrime
<1>2. f \in [0 .. p - 1 -> 1 .. p - 1]
  BY <1>1, BelowPrime
<1>3. /\ IsFiniteSet(0 .. p - 1) /\ IsFiniteSet(1 .. p - 1)
      /\ Cardinality(1 .. p - 1) < Cardinality(0 .. p - 1)
  <2>1. IsFiniteSet(0 .. p - 1) /\ Cardinality(0 .. p - 1) = p
    BY <1>1, FS_Interval
  <2>2. IsFiniteSet(1 .. p - 1) /\ Cardinality(1 .. p - 1) = p - 1
    BY <1>1, FS_Interval
  <2> QED
    BY <1>1, <2>1, <2>2
<1>4. PICK i, j \in 0 .. p - 1 : i # j /\ f[i] = f[j]
  <2> HIDE DEF f
  <2> QED
    BY <1>2, <1>3, FS_PigeonHole
<1>5. ASSUME NEW x \in Nat, NEW y \in Nat, x < y, Congruent(p, P[x], P[y])
      PROVE  \E d \in Nat : d > 0 /\ Congruent(p, P[d], 1)
  <2>1. PICK d \in Nat : d > 0 /\ y = d + x
    <3>1. y - x \in Nat /\ y - x > 0 /\ y = (y - x) + x
      BY <1>5
    <3> QED
      BY <3>1
  <2>2. P[y] = P[d] * P[x]
    BY <2>1, PowerSum
  <2>3. P[x] \in Nat /\ P[d] \in Nat /\ ~Divides(p, P[x]) /\ 1 * P[x] = P[x]
    BY <1>1
  <2>4. Congruent(p, P[d] * P[x], 1 * P[x])
    BY <1>5, <2>2, <2>3 DEF Congruent
  <2>5. Congruent(p, P[d], 1)
    <3> HIDE DEF P
    <3> QED
      BY <2>3, <2>4, SameCancel
  <2> QED
    BY <2>1, <2>5
<1>6. Congruent(p, P[i], P[j]) /\ Congruent(p, P[j], P[i]) /\ i \in Nat /\ j \in Nat
  BY <1>1, <1>4 DEF Congruent
<1>7. i < j \/ j < i
  BY <1>4, <1>6
<1> QED
  BY <1>5, <1>6, <1>7

\* d is the number of steps after which multiplying by a comes back for the first time.
Period(p, a, d) ==
  /\ d \in Nat /\ d > 0 /\ Congruent(p, Power(a)[d], 1)
  /\ \A k \in Nat : k > 0 /\ k < d => ~Congruent(p, Power(a)[k], 1)

OnCircle(p, a, x, k) == (x * Power(a)[k]) % p
Circle(p, a, d, x) == {OnCircle(p, a, x, k) : k \in 0 .. d - 1}
Closed(p, a, S) == S \subseteq 1 .. p - 1 /\ \A x \in S : (x * a) % p \in S

LEMMA PeriodExists ==
  ASSUME NEW p, IsPrime(p), NEW a \in Nat, ~Divides(p, a)
  PROVE  \E d : Period(p, a, d)
<1> DEFINE S == {d \in Nat : d > 0 /\ Congruent(p, Power(a)[d], 1)}
<1>1. S # {} /\ S \in SUBSET Nat
  BY ComesBack
<1>2. PICK d \in S : \A k \in S : d <= k
  <2> HIDE DEF S
  <2> QED
    BY <1>1, Least
<1>3. Period(p, a, d)
  BY <1>2 DEF Period
<1> QED
  BY <1>3

LEMMA AtIs ==
  ASSUME NEW p, IsPrime(p), NEW a \in Nat, ~Divides(p, a), NEW x \in 1 .. p - 1, NEW k \in Nat
  PROVE  /\ OnCircle(p, a, x, k) \in 1 .. p - 1
         /\ Congruent(p, OnCircle(p, a, x, k), x * Power(a)[k])
         /\ OnCircle(p, a, x, k + 1) = (OnCircle(p, a, x, k) * a) % p
         /\ OnCircle(p, a, x, 0) = x
<1>1. p \in Nat /\ p > 0 /\ x \in Nat /\ x < p
  BY DEF IsPrime
<1> DEFINE f == Power(a)
           y == x * f[k]
<1>2. f[k] \in Nat /\ f[0] = 1 /\ f[k + 1] = f[k] * a /\ ~Divides(p, f[k])
  BY PowerIs, PowerOfOther DEF IsPower
<1>3. ~Divides(p, x)
  BY <1>1, BelowPrime
<1>4. y \in Nat /\ ~Divides(p, y)
  <2> HIDE DEF f
  <2> QED
    BY <1>1, <1>2, <1>3, ProductNat, EuclidsLemma
<1>5. OnCircle(p, a, x, k) = y % p
  BY DEF OnCircle
<1>6. y % p \in 1 .. p - 1
  <2> HIDE DEF y
  <2> QED
    BY <1>4, BelowPrime
<1>7. Congruent(p, y % p, y) /\ y % p \in Nat
  <2> HIDE DEF y
  <2> QED
    BY <1>1, <1>4, SameAsRemainder
<1>8. Congruent(p, (y % p) * a, y * a)
  <2> HIDE DEF y
  <2> QED
    BY <1>1, <1>4, <1>7, SameProduct
<1>9. x * f[k + 1] = y * a
  <2> HIDE DEF f
  <2> QED
    BY <1>1, <1>2
<1>10. OnCircle(p, a, x, k + 1) = ((y % p) * a) % p
  <2>1. OnCircle(p, a, x, k + 1) = (x * f[k + 1]) % p
    BY DEF OnCircle
  <2> QED
    BY <1>8, <1>9, <2>1 DEF Congruent
<1>11. OnCircle(p, a, x, 0) = x
  <2>1. OnCircle(p, a, x, 0) = (x * 1) % p
    BY <1>2 DEF OnCircle
  <2>2. x * 1 = x /\ p * 0 + x = x /\ x \in 0 .. p - 1
    BY <1>1
  <2>3. (p * 0 + x) % p = x
    BY <1>1, <2>2, Remainder
  <2> QED
    BY <2>1, <2>2, <2>3
<1> HIDE DEF y
<1> QED
  BY <1>5, <1>6, <1>7, <1>10, <1>11 DEF y

\* A circle goes through d numbers.
LEMMA CircleSize ==
  ASSUME NEW p, IsPrime(p), NEW a \in Nat, ~Divides(p, a), NEW d, Period(p, a, d),
         NEW x \in 1 .. p - 1
  PROVE  IsFiniteSet(Circle(p, a, d, x)) /\ Cardinality(Circle(p, a, d, x)) = d
<1> DEFINE D == 0 .. d - 1
           C == Circle(p, a, d, x)
           P == Power(a)
           f == [k \in D |-> OnCircle(p, a, x, k)]
<1>1. d \in Nat /\ d > 0 /\ p \in Nat /\ p > 0 /\ x \in Nat /\ ~Divides(p, x)
  <2>1. d \in Nat /\ d > 0 /\ p \in Nat /\ p > 0
    BY DEF Period, IsPrime
  <2>2. x \in Nat
    BY <2>1
  <2> QED
    BY <2>1, <2>2, BelowPrime
<1>2. ASSUME NEW i \in D, NEW j \in D, i < j PROVE OnCircle(p, a, x, i) # OnCircle(p, a, x, j)
  <2>1. SUFFICES ASSUME OnCircle(p, a, x, i) = OnCircle(p, a, x, j) PROVE FALSE
    OBVIOUS
  <2>2. i \in Nat /\ j \in Nat /\ j < d
    BY <1>1
  <2>3. PICK k \in Nat : k > 0 /\ k < d /\ j = k + i
    <3>1. j - i \in Nat /\ j - i > 0 /\ j - i < d /\ j = (j - i) + i
      BY <1>1, <1>2, <2>2
    <3> QED
      BY <3>1
  <2>4. P[i] \in Nat /\ P[k] \in Nat /\ ~Divides(p, P[i]) /\ P[j] = P[k] * P[i]
    BY <2>2, <2>3, PowerNat, PowerOfOther, PowerSum
  <2>5. Congruent(p, x * P[i], x * P[j])
    BY <2>1 DEF Congruent, OnCircle
  <2> HIDE DEF P
  <2>6. P[j] \in Nat /\ x * P[i] = P[i] * x /\ x * P[j] = P[j] * x
    BY <1>1, <2>4, ProductNat
  <2>7. Congruent(p, P[i], P[j])
    BY <1>1, <2>4, <2>5, <2>6, SameCancel
  <2>8. 1 * P[i] = P[i]
    BY <2>4
  <2>9. Congruent(p, P[k] * P[i], 1 * P[i])
    BY <2>4, <2>7, <2>8 DEF Congruent
  <2>10. Congruent(p, P[k], 1)
    BY <2>4, <2>9, SameCancel
  <2> QED
    BY <2>3, <2>10 DEF P, Period
<1>3. \A i, j \in D : f[i] = f[j] => i = j
  <2>1. \A i, j \in D : i \in Nat /\ j \in Nat
    BY <1>1
  <2>2. ASSUME NEW i \in D, NEW j \in D, f[i] = f[j], i # j PROVE FALSE
    <3>1. i < j \/ j < i
      BY <2>1, <2>2
    <3> QED
      BY <1>2, <2>2, <3>1
  <2> QED
    BY <2>2
<1>4. f \in [D -> C] /\ \A y \in C : \E k \in D : f[k] = y
  BY DEF Circle
<1>5. IsFiniteSet(D) /\ Cardinality(D) = d
  <2>1. 0 \in Int /\ d - 1 \in Int /\ ~(0 > d - 1) /\ (d - 1) - 0 + 1 = d
    BY <1>1
  <2> QED
    BY <2>1, FS_Interval
<1> HIDE DEF D, C, f
<1>6. f \in Bijection(D, C)
  BY <1>3, <1>4 DEF Bijection, Injection, Surjection, IsInjective
<1>7. ExistsBijection(D, C)
  BY <1>6 DEF ExistsBijection
<1> QED
  BY <1>5, <1>7, FS_Bijection DEF C

\* A set that multiplying by a does not leave has, with a number, its circle.
LEMMA CircleInside ==
  ASSUME NEW p, IsPrime(p), NEW a \in Nat, ~Divides(p, a), NEW d, Period(p, a, d),
         NEW S, Closed(p, a, S), NEW x \in S
  PROVE  Circle(p, a, d, x) \subseteq S
<1> DEFINE T == {k \in Nat : OnCircle(p, a, x, k) \in S}
<1>1. x \in 1 .. p - 1 /\ d \in Nat
  BY DEF Closed, Period
<1>2. 0 \in T
  BY <1>1, AtIs
<1>3. ASSUME NEW k \in T PROVE k + 1 \in T
  <2>1. OnCircle(p, a, x, k + 1) = (OnCircle(p, a, x, k) * a) % p
    BY <1>1, AtIs
  <2>2. (OnCircle(p, a, x, k) * a) % p \in S
    BY Zenon DEF Closed
  <2> QED
    BY <2>1, <2>2
<1>4. \A k \in Nat : k \in T
  <2> HIDE DEF T
  <2> QED
    BY <1>2, <1>3, Induct DEF T
<1>5. \A k \in 0 .. d - 1 : k \in Nat
  BY <1>1
<1> QED
  BY <1>4, <1>5 DEF Circle

\* What is left without the circle is such a set again.
LEMMA CircleOutside ==
  ASSUME NEW p, IsPrime(p), NEW a \in Nat, ~Divides(p, a), NEW d, Period(p, a, d),
         NEW S, Closed(p, a, S), NEW x \in S
  PROVE  Closed(p, a, S \ Circle(p, a, d, x))
<1>1. /\ x \in 1 .. p - 1 /\ S \subseteq 1 .. p - 1 /\ d \in Nat /\ d > 0
      /\ p \in Nat /\ p > 0
  BY DEF Closed, Period, IsPrime
<1>2. OnCircle(p, a, x, d) = x
  <2> DEFINE f == Power(a)[d]
  <2>1. f \in Nat /\ Congruent(p, f, 1) /\ x \in Nat /\ x < p
    BY <1>1, PowerNat DEF Period
  <2>2. OnCircle(p, a, x, d) \in 1 .. p - 1 /\ Congruent(p, OnCircle(p, a, x, d), x * f)
    BY <1>1, AtIs
  <2> HIDE DEF f
  <2>3. Congruent(p, f * x, 1 * x)
    BY <1>1, <2>1, SameProduct
  <2>4. f * x = x * f /\ 1 * x = x
    BY <2>1, ProductNat
  <2>5. Congruent(p, OnCircle(p, a, x, d), x)
    BY <2>2, <2>3, <2>4 DEF Congruent
  <2>6. OnCircle(p, a, x, d) \in Nat /\ OnCircle(p, a, x, d) < p
    BY <1>1, <2>2
  <2> QED
    BY <1>1, <2>1, <2>5, <2>6, SameBelow
<1>3. ASSUME NEW y \in 1 .. p - 1, NEW k \in 0 .. d - 1, (y * a) % p = OnCircle(p, a, x, k)
      PROVE  y \in Circle(p, a, d, x)
  <2>1. PICK j \in 0 .. d - 1 : j \in Nat /\ OnCircle(p, a, x, j + 1) = OnCircle(p, a, x, k)
    <3>1. CASE k = 0
      <4>1. d - 1 \in 0 .. d - 1 /\ d - 1 \in Nat /\ (d - 1) + 1 = d
        BY <1>1
      <4>2. OnCircle(p, a, x, 0) = x
        BY <1>1, AtIs
      <4> QED
        BY <1>2, <3>1, <4>1, <4>2
    <3>2. CASE k # 0
      <4>1. k - 1 \in 0 .. d - 1 /\ k - 1 \in Nat /\ (k - 1) + 1 = k
        BY <1>1, <3>2
      <4> QED
        BY <4>1
    <3> QED
      BY <3>1, <3>2
  <2> DEFINE z == OnCircle(p, a, x, j)
  <2>2. z \in 1 .. p - 1 /\ OnCircle(p, a, x, j + 1) = (z * a) % p
    BY <1>1, <2>1, AtIs
  <2>3. z \in Circle(p, a, d, x)
    BY DEF Circle
  <2> HIDE DEF z
  <2>4. y \in Nat /\ y < p /\ z \in Nat /\ z < p
    BY <1>1, <2>2
  <2>5. Congruent(p, y * a, z * a)
    BY <1>3, <2>1, <2>2 DEF Congruent
  <2>6. Congruent(p, y, z)
    BY <2>4, <2>5, SameCancel
  <2>7. y = z
    BY <1>1, <2>4, <2>6, SameBelow
  <2> QED
    BY <2>3, <2>7
<1>4. ASSUME NEW y \in S \ Circle(p, a, d, x) PROVE (y * a) % p \in S \ Circle(p, a, d, x)
  <2>1. (y * a) % p \in S /\ y \in 1 .. p - 1
    BY <1>1 DEF Closed
  <2>2. (y * a) % p \notin Circle(p, a, d, x)
    BY <1>3, <2>1 DEF Circle
  <2> QED
    BY <2>1, <2>2
<1> QED
  BY <1>1, <1>4 DEF Closed

LEMMA CirclesCount ==
  ASSUME NEW p, IsPrime(p), NEW a \in Nat, ~Divides(p, a), NEW d, Period(p, a, d),
         NEW S, Closed(p, a, S)
  PROVE  Divides(d, Cardinality(S))
<1>1. d \in Nat /\ d > 0 /\ p \in Nat /\ p > 0
  BY DEF Period, IsPrime
<1>2. \A T : Closed(p, a, T) => IsFiniteSet(T) /\ Cardinality(T) \in Nat
  <2>1. IsFiniteSet(1 .. p - 1)
    BY <1>1, FS_Interval
  <2> QED
    BY <2>1, FS_Subset, FS_CardinalityType DEF Closed
<1> DEFINE Bad == {n \in Nat : \E T : Closed(p, a, T) /\ Cardinality(T) = n /\ ~Divides(d, n)}
<1>3. SUFFICES ASSUME Bad # {} PROVE FALSE
  BY <1>2
<1>4. PICK n \in Bad : \A m \in Bad : n <= m
  <2>1. Bad \in SUBSET Nat
    OBVIOUS
  <2> HIDE DEF Bad
  <2> QED
    BY <1>3, <2>1, Least
<1>5. PICK T : Closed(p, a, T) /\ Cardinality(T) = n /\ ~Divides(d, n)
  OBVIOUS
<1>6. IsFiniteSet(T) /\ n \in Nat
  BY <1>2, <1>5
<1>7. PICK x \in T : TRUE
  <2>1. T # {}
    <3>1. SUFFICES ASSUME T = {} PROVE FALSE
      OBVIOUS
    <3>2. n = 0 /\ 0 = d * 0
      BY <1>1, <1>5, <3>1, FS_EmptySet
    <3> QED
      BY <1>5, <3>2 DEF Divides
  <2> QED
    BY <2>1
<1> DEFINE C == Circle(p, a, d, x)
           R == T \ C
           m == Cardinality(R)
<1>8. x \in 1 .. p - 1
  BY <1>5 DEF Closed
<1>9. IsFiniteSet(C) /\ Cardinality(C) = d
  BY <1>8, CircleSize
<1>10. C \subseteq T /\ Closed(p, a, R)
  BY <1>5, CircleInside, CircleOutside
<1> HIDE DEF C
<1>11. m = n - d /\ m \in Nat
  <2>1. T \cap C = C
    BY <1>10
  <2>2. Cardinality(T \ C) = Cardinality(T) - Cardinality(T \cap C)
    BY <1>6, FS_Difference
  <2> QED
    BY <1>2, <1>5, <1>9, <1>10, <2>1, <2>2
<1>12. ~Divides(d, m)
  <2>1. SUFFICES ASSUME Divides(d, m) PROVE FALSE
    OBVIOUS
  <2>2. PICK k \in Nat : m = d * k
    BY <2>1 DEF Divides
  <2>3. n = d * (k + 1)
    BY <1>1, <1>6, <1>11, <2>2
  <2> QED
    BY <1>5, <2>2, <2>3 DEF Divides
<1>13. m \in Bad
  BY <1>10, <1>11, <1>12
<1>14. n <= m
  BY <1>4, <1>13
<1> HIDE DEF m
<1> QED
  BY <1>1, <1>6, <1>11, <1>14

LEMMA Fermat ==
  ASSUME NEW p, IsPrime(p), NEW a \in Nat, ~Divides(p, a)
  PROVE  Congruent(p, Power(a)[p - 1], 1)
<1>1. PICK d : Period(p, a, d)
  BY PeriodExists
<1>2. p \in Nat /\ p > 1 /\ d \in Nat /\ Congruent(p, Power(a)[d], 1)
  BY <1>1 DEF Period, IsPrime
<1>3. Closed(p, a, 1 .. p - 1)
  <2>1. ASSUME NEW x \in 1 .. p - 1 PROVE (x * a) % p \in 1 .. p - 1
    <3>1. x \in Nat
      OBVIOUS
    <3>2. ~Divides(p, x)
      BY <2>1, <3>1, BelowPrime
    <3>3. x * a \in Nat /\ ~Divides(p, x * a)
      BY <3>1, <3>2, ProductNat, EuclidsLemma
    <3> QED
      BY <3>3, BelowPrime
  <2> QED
    BY <2>1 DEF Closed
<1>4. Cardinality(1 .. p - 1) = p - 1
  <2>1. 1 \in Int /\ p - 1 \in Int /\ ~(1 > p - 1) /\ (p - 1) - 1 + 1 = p - 1
    BY <1>2
  <2> QED
    BY <2>1, FS_Interval
<1>5. Divides(d, p - 1)
  BY <1>1, <1>3, <1>4, CirclesCount
<1>6. PICK k \in Nat : p - 1 = d * k
  BY <1>5 DEF Divides
<1>7. Power(a)[d * k] = Power(Power(a)[d])[k] /\ Power(a)[d] \in Nat
  BY <1>2, PowerPower, PowerNat
<1>8. Congruent(p, Power(Power(a)[d])[k], Power(1)[k])
  BY <1>2, <1>7, PowerSame
<1>9. Power(1)[k] = 1
  BY PowerOfOne
<1> QED
  BY <1>6, <1>7, <1>8, <1>9

LEMMA FermatPower ==
  ASSUME NEW p, IsPrime(p), NEW a \in Nat, NEW j \in Nat
  PROVE  Congruent(p, Power(a)[(p - 1) * j + 1], a)
<1>1. p \in Nat /\ p > 0 /\ p - 1 \in Nat /\ (p - 1) * j \in Nat
  BY ProductNat DEF IsPrime
<1> DEFINE n == (p - 1) * j
           x == Power(a)[n]
<1>2. x \in Nat /\ Power(a)[n + 1] = x * a
  BY <1>1, PowerIs DEF IsPower
<1>3. CASE Divides(p, a)
  <2>1. PICK k \in Nat : a = p * k
    BY <1>3 DEF Divides
  <2> HIDE DEF x
  <2>2. x * a = p * (x * k) /\ x * k \in Nat /\ x * a \in Nat
    BY <1>1, <1>2, <2>1, ProductNat
  <2>3. Divides(p, x * a)
    BY <2>2 DEF Divides
  <2>4. (x * a) % p = 0 /\ a % p = 0
    BY <1>1, <1>3, <2>2, <2>3, DividesIs
  <2> QED
    BY <1>2, <2>4 DEF Congruent
<1>4. CASE ~Divides(p, a)
  <2> DEFINE y == Power(a)[p - 1]
  <2>1. x = Power(y)[j] /\ y \in Nat
    BY <1>1, PowerPower, PowerNat
  <2>2. Congruent(p, y, 1)
    BY <1>4, Fermat
  <2>3. Power(1)[j] = 1
    BY PowerOfOne
  <2> HIDE DEF x, y
  <2>4. Congruent(p, x, 1)
    BY <1>1, <2>1, <2>2, <2>3, PowerSame
  <2>5. Congruent(p, x * a, 1 * a)
    BY <1>1, <1>2, <2>4, SameProduct
  <2>6. 1 * a = a
    OBVIOUS
  <2> QED
    BY <1>2, <2>5, <2>6
<1> QED
  BY <1>3, <1>4

\* What two exponents that are inverse to each other modulo (p - 1)(q - 1) do to a number.
LEMMA ExponentsInvert ==
  ASSUME NEW p, IsPrime(p), NEW q, IsPrime(q), p # q,
         NEW d \in Nat, NEW e \in Nat, NEW k \in Nat, d * e = ((p - 1) * (q - 1)) * k + 1,
         NEW a \in Nat
  PROVE  Congruent(p * q, Power(Power(a)[d])[e], a)
<1>1. p \in Nat /\ p > 0 /\ p - 1 \in Nat /\ q \in Nat /\ q > 0 /\ q - 1 \in Nat
  BY DEF IsPrime
<1>2. d * e \in Nat /\ Power(Power(a)[d])[e] = Power(a)[d * e]
  BY ProductNat, PowerPower
<1> DEFINE x == Power(a)[d * e]
<1>3. x \in Nat
  BY <1>2, PowerNat
<1>4. /\ (q - 1) * k \in Nat /\ d * e = (p - 1) * ((q - 1) * k) + 1
      /\ (p - 1) * k \in Nat /\ d * e = (q - 1) * ((p - 1) * k) + 1
  BY <1>1, ProductNat
<1>5. Congruent(p, x, a)
  BY <1>4, FermatPower
<1>6. Congruent(q, x, a)
  BY <1>4, FermatPower
<1>7. SUFFICES Congruent(p * q, x, a)
  BY <1>2
<1>8. x <= a \/ a <= x
  BY <1>3
<1> HIDE DEF x
<1>9. CASE a <= x
  BY <1>3, <1>5, <1>6, <1>9, TwoPrimes
<1>10. CASE x <= a
  <2>1. Congruent(p, a, x) /\ Congruent(q, a, x)
    BY <1>5, <1>6 DEF Congruent
  <2>2. Congruent(p * q, a, x)
    BY <1>3, <1>10, <2>1, TwoPrimes
  <2> QED
    BY <2>2 DEF Congruent
<1> QED
  BY <1>8, <1>9, <1>10
=============================================================================
