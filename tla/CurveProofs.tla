----------------------------- MODULE CurveProofs ----------------------------
(***************************************************************************)
(* The algebra of edwards.rs, for every prime, every square a and every    *)
(* nonsquare d.                                                            *)
(*                                                                         *)
(* The field has inverses; the unified addition law never divides by zero  *)
(* on the curve and makes its points a commutative group; the extended     *)
(* formulas compute in that group whatever the scaling of their operands;  *)
(* the one inversion of BatchNormalize normalizes every point; and the     *)
(* base point table holds the multiples its rows and columns stand for.    *)
(***************************************************************************)
EXTENDS Edwards, WellFoundedInduction, TLAPS

\* A set of numbers that holds zero and every successor holds them all.
LEMMA SetInduction ==
    ASSUME NEW S \in SUBSET Nat, 0 \in S, \A n \in S : n + 1 \in S
    PROVE  S = Nat
<1> DEFINE T == Nat \ S
           R == {ss \in Nat \X Nat : ss[1] < ss[2]}
<1> SUFFICES ASSUME T # {} PROVE FALSE
    OBVIOUS
<1>1. IsWellFoundedOn(R, Nat)
    BY NatLessThanWellFounded DEF OpToRel
<1>2. PICK x \in T : \A y \in T : ~(<<y, x>> \in R)
  <2>1. T \subseteq Nat /\ T # {}
      OBVIOUS
  <2> HIDE DEF T, R
  <2> QED
      BY <1>1, <2>1, WFMin, Zenon
<1>3. x \in Nat /\ x # 0 /\ x - 1 \in Nat /\ x - 1 \in T
    OBVIOUS
<1>4. <<x - 1, x>> \in R
    BY <1>3
<1> QED
    BY <1>2, <1>3, <1>4

-----------------------------------------------------------------------------
\* The field.

\* A quotient is a natural number, and a remainder is below the divisor.
LEMMA Division ==
    ASSUME NEW k \in Nat, NEW w \in Nat \ {0}
    PROVE  k \div w \in Nat /\ k % w \in 0 .. w - 1
BY SMT

\* A number is its quotient times the divisor, and its remainder.
LEMMA DivisionExact ==
    ASSUME NEW k \in Nat, NEW w \in Nat \ {0}
    PROVE  k = w * (k \div w) + (k % w)
<1> DEFINE q == k \div w
           r == k % w
<1>1. q \in Nat /\ r \in Nat /\ r < w /\ k = w * q + r
    BY SMT
<1> QED
    BY <1>1, Zenon

\* The element of the field that an integer stands for.
Residue(n) == n % P

\* Elements are integers, and integers have residues.
LEMMA ResidueTyped ==
    /\ P \in Nat \ {0} /\ 4 < P /\ Elements \subseteq Nat
    /\ \A n \in Int : Residue(n) \in Elements /\ Residue(n) \in Int
    /\ \A x \in Elements : Residue(x) = x
<1>1. P \in Nat \ {0} /\ 4 < P
    BY FieldAssumption DEF FieldAssumption
<1>2. \A n \in Int : n % P \in 0 .. P - 1
    BY <1>1
<1>3. \A x \in 0 .. P - 1 : x % P = x /\ x \in Nat
    BY <1>1
<1> QED
    BY <1>1, <1>2, <1>3 DEF Residue, Elements

\* An integer is a multiple of the modulus and its residue.
LEMMA ResidueForm ==
    ASSUME NEW n \in Int
    PROVE  \E k \in Int : n = P * k + Residue(n)
<1>1. P \in Nat \ {0}
    BY ResidueTyped
<1>2. n = P * (n \div P) + (n % P) /\ n \div P \in Int
    BY <1>1, SMT
<1> QED
    BY <1>2 DEF Residue

\* A multiple of the modulus does not change the residue.
LEMMA ResidueShift ==
    ASSUME NEW n \in Int, NEW k \in Int
    PROVE  Residue(n + P * k) = Residue(n)
<1>1. P \in Nat \ {0} /\ Residue(n) \in 0 .. P - 1 /\ Residue(n + P * k) \in 0 .. P - 1
    BY ResidueTyped DEF Elements
<1>2. PICK a \in Int : n = P * a + Residue(n)
    BY ResidueForm
<1>3. PICK b \in Int : n + P * k = P * b + Residue(n + P * k)
  <2>1. n + P * k \in Int
      BY <1>1
  <2> QED
      BY <2>1, ResidueForm
<1> DEFINE r == Residue(n)
           s == Residue(n + P * k)
           f == a + k - b
<1>4. s - r = P * f /\ f \in Int
  <2>1. n = P * a + r /\ n + P * k = P * b + s /\ r \in Int /\ s \in Int
      BY <1>1, <1>2, <1>3
  <2> HIDE DEF r, s
  <2>2. P * f = P * a + P * k - P * b /\ f \in Int
      BY <1>1
  <2> HIDE DEF f
  <2> QED
      BY <1>1, <2>1, <2>2
<1>5. r \in 0 .. P - 1 /\ s \in 0 .. P - 1
    BY <1>1
<1> HIDE DEF r, s, f
<1>6. f = 0
  <2>1. CASE f >= 1
    <3>1. P * f >= P * 1
        BY <1>1, <1>4, <2>1
    <3> QED
        BY <1>1, <1>4, <1>5, <3>1
  <2>2. CASE f <= -1
    <3>1. P * f <= P * (-1)
        BY <1>1, <1>4, <2>2
    <3> QED
        BY <1>1, <1>4, <1>5, <3>1
  <2> QED
      BY <1>4, <2>1, <2>2
<1>7. r = s
    BY <1>1, <1>4, <1>5, <1>6
<1> QED
    BY <1>7 DEF r, s

\* The field computes with residues.
LEMMA ResidueComputes ==
    ASSUME NEW m \in Int, NEW n \in Int
    PROVE  /\ FAdd(Residue(m), Residue(n)) = Residue(m + n)
           /\ FSub(Residue(m), Residue(n)) = Residue(m - n)
           /\ FMul(Residue(m), Residue(n)) = Residue(m * n)
<1> DEFINE r == Residue(m)
           s == Residue(n)
<1>1. P \in Nat \ {0} /\ r \in Int /\ s \in Int
    BY ResidueTyped
<1>2. PICK a \in Int : m = P * a + r
    BY ResidueForm
<1>3. PICK b \in Int : n = P * b + s
    BY ResidueForm
<1> HIDE DEF r, s
<1>4. m + n = (r + s) + P * (a + b) /\ r + s \in Int /\ a + b \in Int
    BY <1>1, <1>2, <1>3
<1>5. m - n = (r - s) + P * (a - b) /\ r - s \in Int /\ a - b \in Int
    BY <1>1, <1>2, <1>3
<1>6. /\ m * n = r * s + P * (P * (a * b) + a * s + b * r)
      /\ r * s \in Int /\ P * (a * b) + a * s + b * r \in Int
    BY <1>1, <1>2, <1>3
<1>7. Residue(m + n) = Residue(r + s)
    BY <1>4, ResidueShift
<1>8. Residue(m - n) = Residue(r - s)
    BY <1>5, ResidueShift
<1>9. Residue(m * n) = Residue(r * s)
    BY <1>6, ResidueShift
<1> QED
    BY <1>7, <1>8, <1>9 DEF FAdd, FSub, FMul, Residue, r, s

\* u and v differ by m times what a and b differ by.
Differ(u, v, m, a, b) == u - v = m * (a - b)

\* Integers that differ by a multiple of what congruent ones differ by.
LEMMA Congruent ==
    ASSUME NEW u \in Int, NEW v \in Int, NEW m \in Int, NEW a \in Int, NEW b \in Int,
           Differ(u, v, m, a, b), Residue(a) = Residue(b)
    PROVE  Residue(u) = Residue(v)
<1>0. u - v = m * (a - b)
    BY DEF Differ
<1>1. Residue(a - b) = Residue(b - b)
    BY ResidueComputes
<1>2. Residue(m * (a - b)) = Residue(m * (b - b))
  <2>1. a - b \in Int /\ b - b \in Int
      OBVIOUS
  <2>2. /\ Residue(m * (a - b)) = FMul(Residue(m), Residue(a - b))
        /\ Residue(m * (b - b)) = FMul(Residue(m), Residue(b - b))
      BY <2>1, ResidueComputes, Zenon
  <2> QED
      BY <1>1, <2>2
<1> DEFINE w == u - v
<1>3. w \in Int /\ u = v + w /\ Residue(w) = Residue(0)
  <2>1. m * (b - b) = 0
      OBVIOUS
  <2> QED
      BY <1>0, <1>2, <2>1
<1> HIDE DEF w
<1> DEFINE o == 0
<1>4. o \in Int /\ v + o = v /\ Residue(w) = Residue(o)
    BY <1>3
<1> HIDE DEF o
<1>5. Residue(v + w) = FAdd(Residue(v), Residue(w)) /\ Residue(v + o) = FAdd(Residue(v), Residue(o))
    BY <1>3, <1>4, ResidueComputes
<1> QED
    BY <1>3, <1>4, <1>5

\* The least multiple of an element that is not zero divides the modulus.
LEMMA FieldInverts ==
    ASSUME NEW x \in Elements \ {0}
    PROVE  \E y \in Elements : FMul(x, y) = 1
<1> DEFINE T == {n \in Nat : n # 0 /\ \E y \in Elements : FMul(x, y) = n}
           R == {ss \in Nat \X Nat : ss[1] < ss[2]}
<1>1. P \in Nat \ {0} /\ 4 < P /\ x \in Nat /\ 0 \in Elements /\ 1 \in Elements
    BY ResidueTyped DEF Elements
<1>2. x \in T
  <2>1. x * 1 = x
      BY <1>1
  <2>2. FMul(x, 1) = x
      BY <2>1, ResidueTyped DEF FMul, Residue
  <2> QED
      BY <1>1, <2>2
<1>3. IsWellFoundedOn(R, Nat)
    BY NatLessThanWellFounded DEF OpToRel
<1>4. PICK d \in T : \A n \in T : ~(<<n, d>> \in R)
  <2>1. T \subseteq Nat /\ T # {}
      BY <1>2
  <2> HIDE DEF T, R
  <2> QED
      BY <1>3, <2>1, WFMin, Zenon
<1>5. d \in Nat \ {0} /\ \A n \in T : ~(n < d)
  <2>1. d \in Nat \ {0}
      OBVIOUS
  <2>2. ASSUME NEW n \in T, n < d PROVE FALSE
    <3>1. n \in Nat
        OBVIOUS
    <3>2. <<n, d>> \in R
        BY <2>1, <2>2, <3>1
    <3> QED
        BY <1>4, <3>2
  <2> QED
      BY <2>1, <2>2
<1>6. PICK y \in Elements : FMul(x, y) = d
    OBVIOUS
<1> HIDE DEF R, T
<1> DEFINE q == P \div d
           r == P % d
<1>7. q \in Nat /\ r \in 0 .. d - 1 /\ P = d * q + r
    BY <1>1, <1>5, Division, DivisionExact
<1> HIDE DEF q, r
<1>8. y \in Nat /\ d \in Elements /\ d = Residue(x * y)
  <2>1. y \in Nat /\ x * y \in Int
      BY <1>1, ResidueTyped
  <2> QED
      BY <1>6, <2>1, ResidueTyped DEF FMul, Residue
<1>9. d < P /\ r < P
    BY <1>1, <1>5, <1>7, <1>8 DEF Elements
<1> DEFINE k == -(q * y)
           z == Residue(k)
<1>10. k \in Int /\ z \in Elements
  <2>1. k \in Int
      BY <1>7, <1>8
  <2> HIDE DEF k
  <2> QED
      BY <2>1, ResidueTyped
<1>11. FMul(x, z) = r
  <2>1. FMul(x, z) = Residue(x * k)
    <3>1. Residue(x) = x
        BY ResidueTyped
    <3> HIDE DEF k
    <3> QED
        BY <1>1, <1>10, <3>1, ResidueComputes
  <2>2. Residue(d) = Residue(x * y)
      BY <1>8, ResidueTyped
  <2> DEFINE a == x * y
             u == x * k
             v == -(q * d)
             m == -q
  <2>3. a \in Int /\ d \in Int /\ u \in Int /\ v \in Int /\ m \in Int /\ Residue(a) = Residue(d)
      BY <1>1, <1>5, <1>7, <1>8, <1>10, <2>2
  <2>4. Differ(u, v, m, a, d)
      BY <1>1, <1>5, <1>7, <1>8 DEF Differ
  <2>5. Residue(u) = Residue(v)
    <3> HIDE DEF a, u, v, m
    <3> QED
        BY <2>3, <2>4, Congruent
  <2>6. Residue(v) = Residue(r)
    <3>1. r = v + P * 1 /\ r \in Int
        BY <1>1, <1>5, <1>7
    <3> HIDE DEF v
    <3> QED
        BY <2>3, <3>1, ResidueShift
  <2>7. Residue(r) = r
      BY <1>7, <1>9, <1>1, ResidueTyped DEF Elements
  <2> QED
      BY <2>1, <2>5, <2>6, <2>7
<1>12. r = 0
  <2>1. r # 0 => r \in T
      BY <1>7, <1>10, <1>11 DEF T
  <2> QED
      BY <1>5, <1>7, <2>1
<1>13. d = 1
    BY <1>1, <1>5, <1>9, <1>12, PrimeAssumption DEF PrimeAssumption, r
<1> QED
    BY <1>6, <1>13

\* invert finds the inverse.
LEMMA InvertFinds ==
    ASSUME NEW x \in Elements \ {0}
    PROVE  FInvert(x) \in Elements /\ FMul(x, FInvert(x)) = 1
BY FieldInverts DEF FInvert

\* Zero and one, and factors of either.
LEMMA ResidueUnits ==
    /\ Residue(0) = 0 /\ Residue(1) = 1 /\ 0 \in Elements /\ 1 \in Elements
    /\ P \in Nat /\ 4 < P
BY ResidueTyped DEF Elements

\* A factor that is not zero can be cancelled.
LEMMA Cancel ==
    ASSUME NEW a \in Int, NEW b \in Int, NEW c \in Int, Residue(c) # 0,
           Residue(a * c) = Residue(b * c)
    PROVE  Residue(a) = Residue(b)
<1> DEFINE y == FInvert(Residue(c))
<1>1. y \in Int /\ FMul(Residue(c), y) = 1 /\ y = Residue(y)
  <2>1. Residue(c) \in Elements \ {0}
      BY ResidueTyped
  <2>2. y \in Elements /\ FMul(Residue(c), y) = 1
      BY <2>1, InvertFinds
  <2> HIDE DEF y
  <2> QED
      BY <2>2, ResidueTyped
<1> HIDE DEF y
<1>2. Residue(c * y) = Residue(1)
    BY <1>1, ResidueComputes, ResidueUnits
<1>3. ASSUME NEW e \in Int PROVE Residue((e * c) * y) = Residue(e)
  <2> DEFINE u == (e * c) * y
             f == c * y
  <2>1. Differ(u, e, e, f, 1) /\ u \in Int /\ f \in Int /\ Residue(f) = Residue(1)
      BY <1>1, <1>2 DEF Differ
  <2> HIDE DEF u, f
  <2>2. Residue(u) = Residue(e)
      BY <2>1, Congruent
  <2> QED
      BY <2>2 DEF u
<1>4. Residue((a * c) * y) = Residue((b * c) * y)
  <2> DEFINE f == a * c
             g == b * c
  <2>1. f \in Int /\ g \in Int /\ Residue(f) = Residue(g)
      OBVIOUS
  <2> HIDE DEF f, g
  <2>2. Residue(f * y) = Residue(g * y)
      BY <1>1, <2>1, ResidueComputes
  <2> QED
      BY <2>2 DEF f, g
<1> QED
    BY <1>3, <1>4

\* A product is zero only if a factor is.
LEMMA NoZeroDivisors ==
    ASSUME NEW a \in Int, NEW b \in Int, Residue(a * b) = 0
    PROVE  Residue(a) = 0 \/ Residue(b) = 0
<1>1. 0 * b = 0
    OBVIOUS
<1> QED
    BY <1>1, Cancel, ResidueUnits

-----------------------------------------------------------------------------
\* Integers that stand for zero.
Zero(n) == Residue(n) = 0

\* Combinations of integers.
Sum2(u, m1, z1, m2, z2) == u = m1 * z1 + m2 * z2
Sum4(u, m1, z1, m2, z2, m3, z3, m4, z4) == u = m1 * z1 + m2 * z2 + m3 * z3 + m4 * z4

\* Integers that stand for zero are the multiples of the modulus.
LEMMA ZeroForm ==
    ASSUME NEW n \in Int
    PROVE  Zero(n) <=> \E k \in Int : n = P * k
<1>1. P \in Nat /\ Residue(0) = 0
    BY ResidueUnits
<1>2. PICK q \in Int : n = P * q + Residue(n)
    BY ResidueForm
<1>3. Zero(n) => n = P * q
    BY <1>1, <1>2 DEF Zero
<1>4. ASSUME NEW k \in Int, n = P * k PROVE Zero(n)
  <2> DEFINE o == 0
             m == o + P * k
  <2>1. o \in Int /\ n = m /\ Residue(o) = 0
      BY <1>1, <1>4
  <2> HIDE DEF o
  <2>2. Residue(m) = Residue(o)
      BY <2>1, ResidueShift
  <2> QED
      BY <2>1, <2>2 DEF Zero
<1> QED
    BY <1>3, <1>4

\* Combinations of such integers stand for zero.
LEMMA Vanishes ==
    ASSUME NEW u, NEW m1 \in Int, NEW z1 \in Int, NEW m2 \in Int, NEW z2 \in Int,
           Sum2(u, m1, z1, m2, z2), Zero(z1), Zero(z2)
    PROVE  u \in Int /\ Zero(u)
<1>1. P \in Nat
    BY ResidueUnits
<1>2. PICK k1 \in Int : z1 = P * k1
    BY ZeroForm
<1>3. PICK k2 \in Int : z2 = P * k2
    BY ZeroForm
<1> DEFINE k == m1 * k1 + m2 * k2
<1>4. k \in Int /\ u = P * k /\ u \in Int
    BY <1>1, <1>2, <1>3 DEF Sum2
<1> HIDE DEF k
<1> QED
    BY <1>4, ZeroForm

\* The same for four.
LEMMA AllVanish ==
    ASSUME NEW u, NEW m1 \in Int, NEW z1 \in Int, NEW m2 \in Int, NEW z2 \in Int,
           NEW m3 \in Int, NEW z3 \in Int, NEW m4 \in Int, NEW z4 \in Int,
           Sum4(u, m1, z1, m2, z2, m3, z3, m4, z4), Zero(z1), Zero(z2), Zero(z3), Zero(z4)
    PROVE  u \in Int /\ Zero(u)
<1> DEFINE v == m1 * z1 + m2 * z2
           w == m3 * z3 + m4 * z4
<1>1. Sum2(v, m1, z1, m2, z2) /\ Sum2(w, m3, z3, m4, z4) /\ u = v + w
    BY DEF Sum2, Sum4
<1> HIDE DEF v, w
<1>2. v \in Int /\ Zero(v) /\ w \in Int /\ Zero(w)
    BY <1>1, Vanishes
<1> DEFINE one == 1
<1>3. Sum2(u, one, v, one, w) /\ one \in Int
    BY <1>1, <1>2 DEF Sum2
<1> HIDE DEF one
<1> QED
    BY <1>2, <1>3, Vanishes

\* A product that stands for zero has a factor that does.
LEMMA ZeroFactor ==
    ASSUME NEW a \in Int, NEW b \in Int, Zero(a * b)
    PROVE  Zero(a) \/ Zero(b)
BY NoZeroDivisors DEF Zero

\* Integers with the same residue differ by one that stands for zero.
LEMMA ZeroDifference ==
    ASSUME NEW a \in Int, NEW b \in Int
    PROVE  Zero(a - b) <=> Residue(a) = Residue(b)
<1>1. P \in Nat
    BY ResidueUnits
<1>2. ASSUME Zero(a - b) PROVE Residue(a) = Residue(b)
  <2>1. a - b \in Int
      OBVIOUS
  <2>2. PICK k \in Int : a - b = P * k
      BY <1>2, <2>1, ZeroForm
  <2>3. a = b + P * k
      BY <1>1, <2>2
  <2> QED
      BY <2>3, ResidueShift
<1>3. ASSUME Residue(a) = Residue(b) PROVE Zero(a - b)
  <2>1. Residue(a - b) = FSub(Residue(a), Residue(b)) /\ Residue(b - b) = FSub(Residue(b), Residue(b))
      BY ResidueComputes
  <2>2. b - b = 0
      OBVIOUS
  <2> QED
      BY <1>3, <2>1, <2>2, ResidueUnits DEF Zero
<1> QED
    BY <1>2, <1>3

\* An integer and its residue differ by one.
LEMMA ZeroReduces ==
    ASSUME NEW n \in Int
    PROVE  Zero(Residue(n) - n) /\ Residue(n) \in Int /\ Residue(n) \in Elements
<1>1. Residue(n) \in Elements /\ Residue(n) \in Int /\ Residue(Residue(n)) = Residue(n)
    BY ResidueTyped
<1> QED
    BY <1>1, ZeroDifference

\* Elements that differ by one that stands for zero are equal.
LEMMA ElementsEqual ==
    ASSUME NEW a \in Elements, NEW b \in Elements, Zero(a - b)
    PROVE  a = b
<1>1. a \in Int /\ b \in Int /\ Residue(a) = a /\ Residue(b) = b
    BY ResidueTyped
<1> QED
    BY <1>1, ZeroDifference

-----------------------------------------------------------------------------
\* The curve.

\* What vanishes for the coordinates of a point.
Curve(x, y) == EDWARDS_A * (x * x) + y * y - (1 + EDWARDS_D * ((x * x) * (y * y)))
OnCurve(x, y) == Zero(Curve(x, y))

\* An integer that does not stand for zero has an inverse.
LEMMA ZeroInverts ==
    ASSUME NEW n \in Int, ~Zero(n)
    PROVE  \E i \in Int : Zero(n * i - 1)
<1> DEFINE r == Residue(n)
           i == FInvert(r)
<1>1. r \in Elements \ {0}
    BY ResidueTyped DEF Zero
<1> HIDE DEF r
<1>2. i \in Elements /\ FMul(r, i) = 1
    BY <1>1, InvertFinds
<1> HIDE DEF i
<1>3. i \in Int /\ Residue(i) = i
    BY <1>2, ResidueTyped
<1>4. Residue(n * i) = Residue(1)
    BY <1>2, <1>3, ResidueComputes, ResidueUnits DEF r
<1>5. n * i \in Int /\ 1 \in Int
    BY <1>3
<1>6. Zero(n * i - 1)
    BY <1>4, <1>5, ZeroDifference
<1> QED
    BY <1>3, <1>6

\* The coefficients: integers, one a square and not zero, the other not a square.
LEMMA Coefficients ==
    /\ EDWARDS_A \in Int /\ EDWARDS_D \in Int /\ ~Zero(EDWARDS_A)
    /\ EDWARDS_A \in Elements /\ EDWARDS_D \in Elements
    /\ \E s \in Int : Zero(s * s - EDWARDS_A)
    /\ \A w \in Int : ~Zero(w * w - EDWARDS_D)
<1>1. EDWARDS_A \in Int /\ EDWARDS_D \in Int /\ EDWARDS_A \in Elements \ {0} /\ EDWARDS_D \in Elements
    BY EdwardsAssumption, ResidueTyped DEF EdwardsAssumption
<1>2. Residue(EDWARDS_A) = EDWARDS_A /\ Residue(EDWARDS_D) = EDWARDS_D
    BY <1>1, ResidueTyped
<1>3. \E s \in Int : Zero(s * s - EDWARDS_A)
  <2>1. PICK s \in Elements : FSquare(s) = EDWARDS_A
      BY EdwardsAssumption DEF EdwardsAssumption
  <2>2. s \in Int /\ s * s \in Int /\ Residue(s * s) = EDWARDS_A
      BY <2>1, ResidueTyped DEF FSquare, FMul, Residue
  <2>3. Zero(s * s - EDWARDS_A)
      BY <1>1, <1>2, <2>2, ZeroDifference
  <2> QED
      BY <2>2, <2>3
<1>4. ASSUME NEW w \in Int, Zero(w * w - EDWARDS_D) PROVE FALSE
  <2> DEFINE s == Residue(w)
  <2>1. s \in Elements
      BY ResidueTyped
  <2>2. FMul(s, s) = Residue(w * w)
      BY ResidueComputes
  <2>3. w * w \in Int
      OBVIOUS
  <2>4. Residue(w * w) = EDWARDS_D
      BY <1>1, <1>2, <1>4, <2>3, ZeroDifference
  <2>5. FSquare(s) # EDWARDS_D
      BY <2>1, EdwardsAssumption, Zenon DEF EdwardsAssumption
  <2> QED
      BY <2>2, <2>4, <2>5 DEF FSquare
<1> QED
    BY <1>1, <1>2, <1>3, <1>4 DEF Zero

\* Two is not zero.
LEMMA TwoIsNotZero == ~Zero(2)
BY ResidueTyped DEF Zero, Elements

\* Only zero is d times a square and a square.
LEMMA NoSquareRatio ==
    ASSUME NEW u \in Int, NEW v \in Int, Zero(u * u - EDWARDS_D * (v * v))
    PROVE  Zero(v)
<1> SUFFICES ASSUME ~Zero(v) PROVE FALSE
    OBVIOUS
<1>1. EDWARDS_D \in Int
    BY Coefficients
<1>2. PICK i \in Int : Zero(v * i - 1)
    BY ZeroInverts
<1> DEFINE n == u * u - EDWARDS_D * (v * v)
           m == v * i - 1
           w == u * i
           c == EDWARDS_D * (v * i + 1)
           r == w * w - EDWARDS_D
           ii == i * i
<1>3. Sum2(r, ii, n, c, m)
    BY <1>1 DEF Sum2
<1>4. n \in Int /\ m \in Int /\ w \in Int /\ c \in Int /\ ii \in Int /\ Zero(n) /\ Zero(m)
    BY <1>1, <1>2
<1>5. Zero(r)
  <2> HIDE DEF n, m, c, r, ii
  <2> QED
      BY <1>3, <1>4, Vanishes
<1> HIDE DEF w
<1> QED
    BY <1>4, <1>5, Coefficients

\* The product of all four coordinates, times d.
Cross(x1, y1, x2, y2) == EDWARDS_D * ((x1 * x2) * (y1 * y2))

\* One step to completeness: if the product is its own inverse, a root s of a
\* shows a square that is d times a square.
LEMMA RootVanishes ==
    ASSUME NEW x1 \in Int, NEW y1 \in Int, NEW x2 \in Int, NEW y2 \in Int, NEW s \in Int,
           OnCurve(x1, y1), OnCurve(x2, y2), Zero(s * s - EDWARDS_A),
           Zero(Cross(x1, y1, x2, y2) * Cross(x1, y1, x2, y2) - 1)
    PROVE  Zero((x1 * y1) * (s * x2 + y2))
<1> DEFINE e == Cross(x1, y1, x2, y2)
           g == e * e - 1
           r == s * s - EDWARDS_A
           h1 == Curve(x1, y1)
           h2 == Curve(x2, y2)
           u == s * x1 + e * y1
           v == (x1 * y1) * (s * x2 + y2)
           n == u * u - EDWARDS_D * (v * v)
           f == EDWARDS_D * ((x1 * x1) * (y1 * y1))
           one == 1
           c2 == x1 * x1 - f * (x2 * x2)
           c3 == y1 * y1 - 1
           c4 == -f
<1>1. EDWARDS_A \in Int /\ EDWARDS_D \in Int
    BY Coefficients
<1>2. Sum4(n, one, h1, c2, r, c3, g, c4, h2)
    BY <1>1, SMTT(60) DEF Sum4, Curve, Cross
<1>3. /\ e \in Int /\ g \in Int /\ r \in Int /\ h1 \in Int /\ h2 \in Int /\ u \in Int /\ v \in Int
      /\ n \in Int /\ one \in Int /\ c2 \in Int /\ c3 \in Int /\ c4 \in Int
  <2>1. e \in Int /\ f \in Int
      BY <1>1 DEF Cross
  <2> HIDE DEF e, f
  <2> QED
      BY <1>1, <2>1 DEF Curve
<1>4. Zero(h1) /\ Zero(h2) /\ Zero(r) /\ Zero(g)
    BY DEF OnCurve
<1> HIDE DEF e, g, r, h1, h2, f, one, c2, c3, c4
<1>5. Zero(n)
  <2> HIDE DEF n
  <2> QED
      BY <1>2, <1>3, <1>4, AllVanish
<1> HIDE DEF u, v
<1>6. Zero(v)
    BY <1>3, <1>5, NoSquareRatio
<1> QED
    BY <1>6 DEF v

\* The denominators of the law are never zero: for a square a and a d that is
\* not a square the law is complete.
LEMMA LawIsComplete ==
    ASSUME NEW x1 \in Int, NEW y1 \in Int, NEW x2 \in Int, NEW y2 \in Int,
           OnCurve(x1, y1), OnCurve(x2, y2)
    PROVE  ~Zero(1 + Cross(x1, y1, x2, y2)) /\ ~Zero(1 - Cross(x1, y1, x2, y2))
<1> DEFINE e == Cross(x1, y1, x2, y2)
<1>1. EDWARDS_A \in Int /\ EDWARDS_D \in Int
    BY Coefficients
<1>2. e \in Int /\ e = EDWARDS_D * ((x1 * x2) * (y1 * y2))
    BY <1>1 DEF Cross
<1> HIDE DEF e
<1> SUFFICES ASSUME Zero(1 + e) \/ Zero(1 - e) PROVE FALSE
    BY DEF e
<1> DEFINE g == e * e - 1
           p == 1 + e
           q == 1 - e
<1>3. Zero(g) /\ g \in Int
  <2> DEFINE o == 0
             m == -p
  <2>1. p \in Int /\ q \in Int /\ o \in Int /\ m \in Int /\ Zero(o)
      BY <1>2, ResidueUnits DEF Zero
  <2>2. Sum2(g, m, q, o, o) /\ g = (-q) * p
      BY <1>2 DEF Sum2
  <2> DEFINE l == -q
  <2>3. Sum2(g, l, p, o, o) /\ l \in Int
      BY <1>2 DEF Sum2
  <2>4. Zero(p) \/ Zero(q)
      OBVIOUS
  <2> HIDE DEF g, o, m, p, q, l
  <2> QED
      BY <2>1, <2>2, <2>3, <2>4, Vanishes
<1>4. ~Zero(e)
  <2> SUFFICES ASSUME Zero(e) PROVE FALSE
      OBVIOUS
  <2> DEFINE m == -1
             o == 1
  <2>1. Sum2(o, e, e, m, g) /\ m \in Int
      BY <1>2 DEF Sum2
  <2> HIDE DEF m, o, g
  <2>2. Zero(o)
      BY <1>2, <1>3, <2>1, Vanishes
  <2> QED
      BY <2>2, ResidueUnits DEF Zero, o
<1>5. ASSUME NEW n \in Int, NEW k \in Int, e = n * k, Zero(n) PROVE FALSE
  <2> DEFINE o == 0
  <2>1. Sum2(e, k, n, o, o) /\ o \in Int /\ Zero(o)
      BY <1>5, ResidueUnits DEF Sum2, Zero
  <2> HIDE DEF o
  <2> QED
      BY <1>4, <1>5, <2>1, Vanishes
<1>6. ~Zero(x1 * y1) /\ ~Zero(y2)
  <2>1. e = (x1 * y1) * (EDWARDS_D * (x2 * y2)) /\ e = y2 * (EDWARDS_D * ((x1 * x2) * y1))
      BY <1>1, <1>2
  <2>2. x1 * y1 \in Int /\ EDWARDS_D * (x2 * y2) \in Int /\ EDWARDS_D * ((x1 * x2) * y1) \in Int
      BY <1>1
  <2>3. ~Zero(x1 * y1)
      BY <1>5, <2>1, <2>2
  <2> QED
      BY <1>5, <2>1, <2>2, <2>3
<1>7. PICK s \in Int : Zero(s * s - EDWARDS_A)
    BY Coefficients
<1>8. ASSUME NEW t \in Int, Zero(t * t - EDWARDS_A) PROVE Zero(t * x2 + y2)
  <2>1. Zero((x1 * y1) * (t * x2 + y2))
      BY <1>3, <1>8, RootVanishes DEF e
  <2>2. x1 * y1 \in Int /\ t * x2 + y2 \in Int
      OBVIOUS
  <2> QED
      BY <1>6, <2>1, <2>2, ZeroFactor
<1> DEFINE z1 == s * x2 + y2
           z2 == (-s) * x2 + y2
           d == 2 * y2
           i == 1
<1>9. Zero(z1) /\ Zero(z2)
  <2>1. -s \in Int /\ (-s) * (-s) = s * s
      OBVIOUS
  <2> QED
      BY <1>7, <1>8, <2>1
<1>10. Sum2(d, i, z1, i, z2) /\ z1 \in Int /\ z2 \in Int /\ i \in Int
    BY DEF Sum2
<1>11. Zero(d)
  <2> HIDE DEF z1, z2, d, i
  <2> QED
      BY <1>9, <1>10, Vanishes
<1> QED
    BY <1>6, <1>11, ZeroFactor, TwoIsNotZero

\* What vanishes for the coordinates of a sum.
LawX(x1, y1, x2, y2, s) == s * (1 + Cross(x1, y1, x2, y2)) - (x1 * y2 + y1 * x2)
LawY(x1, y1, x2, y2, t) == t * (1 - Cross(x1, y1, x2, y2)) - (y1 * y2 - EDWARDS_A * (x1 * x2))
SumOf(x1, y1, x2, y2, s, t) == Zero(LawX(x1, y1, x2, y2, s)) /\ Zero(LawY(x1, y1, x2, y2, t))

\* A quotient of residues.
LEMMA Quotient ==
    ASSUME NEW n \in Int, NEW c \in Int, ~Zero(c)
    PROVE  LET s == FMul(Residue(n), FInvert(Residue(c))) IN s \in Elements /\ Zero(s * c - n)
<1> DEFINE r == Residue(c)
           i == FInvert(r)
           s == FMul(Residue(n), i)
           a == n * i
           z == s - a
           l == c * i - 1
           u == s * c - n
<1>1. r \in Elements \ {0}
    BY ResidueTyped DEF Zero
<1>2. i \in Elements /\ FMul(r, i) = 1
    BY <1>1, InvertFinds
<1> HIDE DEF i
<1>3. i \in Int /\ Residue(i) = i
    BY <1>2, ResidueTyped
<1>4. Residue(c * i) = Residue(1) /\ c * i \in Int /\ 1 \in Int
    BY <1>2, <1>3, ResidueComputes, ResidueUnits
<1>5. Zero(l)
    BY <1>4, ZeroDifference
<1>6. s = Residue(a) /\ a \in Int
    BY <1>3, ResidueComputes
<1>7. Zero(z) /\ s \in Elements /\ s \in Int
  <2> HIDE DEF a, s
  <2> QED
      BY <1>6, ZeroReduces
<1> HIDE DEF s
<1>8. Sum2(u, c, z, n, l) /\ z \in Int /\ l \in Int
    BY <1>3, <1>7 DEF Sum2
<1>9. Zero(u)
  <2> HIDE DEF u, z, l
  <2> QED
      BY <1>5, <1>7, <1>8, Vanishes
<1> QED
    BY <1>7, <1>9 DEF s, i, r

\* AffineSum computes it.
LEMMA SumFollowsLaw ==
    ASSUME NEW x1 \in Elements, NEW y1 \in Elements, NEW x2 \in Elements, NEW y2 \in Elements,
           OnCurve(x1, y1), OnCurve(x2, y2)
    PROVE  \E s, t \in Elements :
             AffineSum(<<x1, y1>>, <<x2, y2>>) = <<s, t>> /\ SumOf(x1, y1, x2, y2, s, t)
<1> DEFINE c == Cross(x1, y1, x2, y2)
           e == FMul(EDWARDS_D, FMul(FMul(x1, x2), FMul(y1, y2)))
           f == FAdd(FMul(x1, y2), FMul(y1, x2))
           g == FSub(FMul(y1, y2), FMul(EDWARDS_A, FMul(x1, x2)))
           m == x1 * y2 + y1 * x2
           n == y1 * y2 - EDWARDS_A * (x1 * x2)
           a == 1 + c
           b == 1 - c
           s == FMul(Residue(m), FInvert(Residue(a)))
           t == FMul(Residue(n), FInvert(Residue(b)))
<1>1. /\ EDWARDS_A \in Int /\ EDWARDS_D \in Int /\ Residue(EDWARDS_A) = EDWARDS_A
      /\ Residue(EDWARDS_D) = EDWARDS_D /\ Residue(1) = 1
    BY Coefficients, ResidueTyped, ResidueUnits
<1>2. /\ x1 \in Int /\ y1 \in Int /\ x2 \in Int /\ y2 \in Int
      /\ Residue(x1) = x1 /\ Residue(y1) = y1 /\ Residue(x2) = x2 /\ Residue(y2) = y2
    BY ResidueTyped
<1>3. e = Residue(c) /\ c \in Int
  <2>1. x1 * x2 \in Int /\ y1 * y2 \in Int /\ (x1 * x2) * (y1 * y2) \in Int
      BY <1>2
  <2>2. FMul(x1, x2) = Residue(x1 * x2) /\ FMul(y1, y2) = Residue(y1 * y2)
      BY <1>2, ResidueComputes
  <2>3. FMul(FMul(x1, x2), FMul(y1, y2)) = Residue((x1 * x2) * (y1 * y2))
      BY <2>1, <2>2, ResidueComputes
  <2>4. e = Residue(EDWARDS_D * ((x1 * x2) * (y1 * y2)))
      BY <1>1, <2>1, <2>3, ResidueComputes
  <2> QED
      BY <1>1, <2>1, <2>4 DEF Cross
<1>4. FAdd(1, e) = Residue(a) /\ FSub(1, e) = Residue(b) /\ a \in Int /\ b \in Int
  <2> HIDE DEF c, e
  <2> QED
      BY <1>1, <1>3, ResidueComputes
<1>5. f = Residue(m) /\ m \in Int
  <2>1. x1 * y2 \in Int /\ y1 * x2 \in Int
      BY <1>2
  <2>2. FMul(x1, y2) = Residue(x1 * y2) /\ FMul(y1, x2) = Residue(y1 * x2)
      BY <1>2, ResidueComputes
  <2> DEFINE j == x1 * y2
             k == y1 * x2
  <2>3. j \in Int /\ k \in Int /\ FMul(x1, y2) = Residue(j) /\ FMul(y1, x2) = Residue(k)
      BY <2>1, <2>2
  <2> HIDE DEF j, k
  <2>4. f = Residue(j + k) /\ j + k \in Int
      BY <2>3, ResidueComputes
  <2> QED
      BY <2>4 DEF j, k
<1>6. g = Residue(n) /\ n \in Int
  <2>1. y1 * y2 \in Int /\ x1 * x2 \in Int /\ EDWARDS_A * (x1 * x2) \in Int
      BY <1>1, <1>2
  <2>2. FMul(y1, y2) = Residue(y1 * y2) /\ FMul(x1, x2) = Residue(x1 * x2)
      BY <1>2, ResidueComputes
  <2>3. FMul(EDWARDS_A, FMul(x1, x2)) = Residue(EDWARDS_A * (x1 * x2))
      BY <1>1, <2>1, <2>2, ResidueComputes
  <2> DEFINE j == y1 * y2
             k == EDWARDS_A * (x1 * x2)
  <2>4. /\ j \in Int /\ k \in Int /\ FMul(y1, y2) = Residue(j)
        /\ FMul(EDWARDS_A, FMul(x1, x2)) = Residue(k)
      BY <2>1, <2>2, <2>3
  <2> HIDE DEF j, k
  <2>5. g = Residue(j - k) /\ j - k \in Int
      BY <2>4, ResidueComputes
  <2> QED
      BY <2>5 DEF j, k
<1>7. AffineSum(<<x1, y1>>, <<x2, y2>>) = <<s, t>>
  <2>1. AffineSum(<<x1, y1>>, <<x2, y2>>) = <<FMul(f, FInvert(FAdd(1, e))), FMul(g, FInvert(FSub(1, e)))>>
      BY DEF AffineSum
  <2> QED
      BY <1>4, <1>5, <1>6, <2>1
<1>8. ~Zero(a) /\ ~Zero(b)
    BY <1>2, LawIsComplete
<1>9. s \in Elements /\ Zero(s * a - m) /\ t \in Elements /\ Zero(t * b - n)
  <2> HIDE DEF a, b, m, n
  <2> QED
      BY <1>4, <1>5, <1>6, <1>8, Quotient
<1> HIDE DEF s, t
<1>10. SumOf(x1, y1, x2, y2, s, t)
    BY <1>9 DEF SumOf, LawX, LawY
<1> QED
    BY <1>7, <1>9, <1>10

\* The law determines the sum.
LEMMA LawIsUnique ==
    ASSUME NEW x1 \in Int, NEW y1 \in Int, NEW x2 \in Int, NEW y2 \in Int,
           NEW s \in Elements, NEW t \in Elements, NEW u \in Elements, NEW v \in Elements,
           OnCurve(x1, y1), OnCurve(x2, y2), SumOf(x1, y1, x2, y2, s, t), SumOf(x1, y1, x2, y2, u, v)
    PROVE  s = u /\ t = v
<1> DEFINE c == Cross(x1, y1, x2, y2)
           a == 1 + c
           b == 1 - c
           o == 1
           m == -1
<1>1. /\ EDWARDS_A \in Int /\ c \in Int /\ o \in Int /\ m \in Int /\ a \in Int /\ b \in Int
      /\ s \in Int /\ t \in Int /\ u \in Int /\ v \in Int
    BY Coefficients, ResidueTyped DEF Cross
<1>2. ~Zero(a) /\ ~Zero(b)
    BY LawIsComplete
<1> HIDE DEF c
<1> DEFINE z1 == LawX(x1, y1, x2, y2, s)
           z2 == LawX(x1, y1, x2, y2, u)
           z3 == LawY(x1, y1, x2, y2, t)
           z4 == LawY(x1, y1, x2, y2, v)
           p == (s - u) * a
           q == (t - v) * b
<1>3. /\ z1 = s * a - (x1 * y2 + y1 * x2) /\ z2 = u * a - (x1 * y2 + y1 * x2)
      /\ z3 = t * b - (y1 * y2 - EDWARDS_A * (x1 * x2)) /\ z4 = v * b - (y1 * y2 - EDWARDS_A * (x1 * x2))
    BY DEF LawX, LawY, c
<1>4. Zero(z1) /\ Zero(z2) /\ Zero(z3) /\ Zero(z4)
    BY DEF SumOf
<1> HIDE DEF z1, z2, z3, z4
<1>5. Sum2(p, o, z1, m, z2) /\ Sum2(q, o, z3, m, z4)
    BY <1>1, <1>3 DEF Sum2
<1>6. z1 \in Int /\ z2 \in Int /\ z3 \in Int /\ z4 \in Int
    BY <1>1, <1>3
<1>7. Zero(p) /\ Zero(q)
  <2> HIDE DEF p, q, o, m
  <2> QED
      BY <1>1, <1>4, <1>5, <1>6, Vanishes
<1>8. s - u \in Int /\ t - v \in Int
    BY <1>1
<1>9. Zero(s - u) /\ Zero(t - v)
  <2> HIDE DEF a, b
  <2> QED
      BY <1>1, <1>2, <1>7, <1>8, ZeroFactor
<1> QED
    BY <1>9, ElementsEqual

\* What the law gives is on the curve.
LEMMA LawStaysOnCurve ==
    ASSUME NEW x1 \in Int, NEW y1 \in Int, NEW x2 \in Int, NEW y2 \in Int, NEW s \in Int, NEW t \in Int,
           OnCurve(x1, y1), OnCurve(x2, y2), SumOf(x1, y1, x2, y2, s, t)
    PROVE  OnCurve(s, t)
<1> DEFINE e == Cross(x1, y1, x2, y2)
           a == 1 + e
           b == 1 - e
           m == x1 * y2 + y1 * x2
           n == y1 * y2 - EDWARDS_A * (x1 * x2)
           f1 == EDWARDS_D * ((x1 * x1) * (y1 * y1))
           f2 == EDWARDS_D * ((x2 * x2) * (y2 * y2))
           h1 == Curve(x1, y1)
           h2 == Curve(x2, y2)
           g == 1 + e * e
           m1 == (1 + f2) * g - f2 * (2 * (1 + f1) + h1) + h2 * g
           m2 == (1 + f1) * g - f1 * (2 * (1 + f2) + h2)
           k == ((EDWARDS_A * (m * m)) * (b * b) + (n * n) * (a * a))
                  - ((a * a) * (b * b) + EDWARDS_D * ((m * m) * (n * n)))
           z1 == s * a - m
           z2 == t * b - n
           c1 == (s * a + m) * (EDWARDS_A * (b * b) - EDWARDS_D * ((t * b) * (t * b)))
           c2 == (t * b + n) * (a * a - EDWARDS_D * (m * m))
           o == 1
           z == 0
           h == Curve(s, t)
           w == (a * b) * (a * b)
           u == w * h
<1>1. EDWARDS_A \in Int /\ EDWARDS_D \in Int
    BY Coefficients
<1>2. e \in Int /\ h1 \in Int /\ h2 \in Int /\ f1 \in Int /\ f2 \in Int
    BY <1>1 DEF Cross, Curve
<1>3. k = m1 * h1 + m2 * h2
  <2> DEFINE g1 == x1 * y1
             g2 == x2 * y2
             s1 == EDWARDS_A * (x1 * x1) + y1 * y1
             s2 == EDWARDS_A * (x2 * x2) + y2 * y2
             v1 == y1 * y1 - EDWARDS_A * (x1 * x1)
             v2 == y2 * y2 - EDWARDS_A * (x2 * x2)
  <2>1. EDWARDS_A * (m * m) + n * n = s1 * s2
      BY <1>1
  <2>2. n * n - EDWARDS_A * (m * m) = v1 * v2 - 4 * (EDWARDS_A * (g1 * g2))
      BY <1>1
  <2>3. m * n = g1 * v2 + g2 * v1
      BY <1>1
  <2>4. /\ v1 * v1 = s1 * s1 - 4 * (EDWARDS_A * (g1 * g1))
        /\ v2 * v2 = s2 * s2 - 4 * (EDWARDS_A * (g2 * g2))
      BY <1>1
  <2>5. /\ f1 = EDWARDS_D * (g1 * g1) /\ f2 = EDWARDS_D * (g2 * g2) /\ e = EDWARDS_D * (g1 * g2)
        /\ s1 = (1 + f1) + h1 /\ s2 = (1 + f2) + h2
      BY <1>1 DEF Cross, Curve
  <2>6. m \in Int /\ n \in Int /\ g1 \in Int /\ g2 \in Int /\ s1 \in Int /\ s2 \in Int /\ v1 \in Int /\ v2 \in Int
      BY <1>1
  <2> HIDE DEF m, n, e, f1, f2, g1, g2, s1, s2, v1, v2, h1, h2
  <2>7. (EDWARDS_A * (m * m)) * (b * b) + (n * n) * (a * a)
          = (s1 * s2) * (1 + e * e) + (2 * e) * (v1 * v2 - 4 * (EDWARDS_A * (g1 * g2)))
    <3>1. (EDWARDS_A * (m * m)) * (b * b) + (n * n) * (a * a)
            = (EDWARDS_A * (m * m) + n * n) * (1 + e * e) + (2 * e) * (n * n - EDWARDS_A * (m * m))
        BY <1>1, <1>2, <2>6
    <3> QED
        BY <2>1, <2>2, <3>1
  <2>8. EDWARDS_D * ((m * m) * (n * n))
          = f1 * (s2 * s2) + f2 * (s1 * s1) + (2 * e) * (v1 * v2) - 8 * (EDWARDS_A * (f1 * (g2 * g2)))
    <3>1. (m * m) * (n * n) = (m * n) * (m * n)
        BY <2>6
    <3>2. EDWARDS_D * ((g1 * v2 + g2 * v1) * (g1 * v2 + g2 * v1))
            = (EDWARDS_D * (g1 * g1)) * (v2 * v2) + (EDWARDS_D * (g2 * g2)) * (v1 * v1)
                + (2 * (EDWARDS_D * (g1 * g2))) * (v1 * v2)
        BY <1>1, <2>6
    <3>3. EDWARDS_D * ((m * m) * (n * n))
            = f1 * (s2 * s2 - 4 * (EDWARDS_A * (g2 * g2))) + f2 * (s1 * s1 - 4 * (EDWARDS_A * (g1 * g1)))
                + (2 * e) * (v1 * v2)
        BY <2>3, <2>4, <2>5, <3>1, <3>2
    <3>4. f2 * (g1 * g1) = f1 * (g2 * g2)
        BY <1>1, <2>5, <2>6
    <3> QED
        BY <1>1, <1>2, <2>6, <3>3, <3>4
  <2>9. (2 * e) * (EDWARDS_A * (g1 * g2)) = 2 * (EDWARDS_A * (f1 * (g2 * g2))) /\ e * e = f1 * f2
      BY <1>1, <2>5, <2>6
  <2>10. k = (s1 * s2) * g - (a * a) * (b * b) - f1 * (s2 * s2) - f2 * (s1 * s1)
    <3> DEFINE l == (EDWARDS_A * (m * m)) * (b * b) + (n * n) * (a * a)
               r == EDWARDS_D * ((m * m) * (n * n))
               c == (a * a) * (b * b)
               p == (s1 * s2) * g
               i == (2 * e) * (v1 * v2)
               j == (2 * e) * (EDWARDS_A * (g1 * g2))
               q == EDWARDS_A * (f1 * (g2 * g2))
               t1 == f1 * (s2 * s2)
               t2 == f2 * (s1 * s1)
               x == (2 * e) * (v1 * v2 - 4 * (EDWARDS_A * (g1 * g2)))
    <3>1. x = i - 4 * j
        BY <1>1, <1>2, <2>6
    <3>2. k = l - (c + r) /\ l = p + x /\ r = t1 + t2 + i - 8 * q /\ j = 2 * q
      <4>1. k = l - (c + r)
          OBVIOUS
      <4>2. l = p + x
          BY <2>7, Zenon
      <4>3. r = t1 + t2 + i - 8 * q
          BY <2>8, Zenon
      <4>4. j = 2 * q
          BY <2>9, Zenon
      <4> HIDE DEF k, l, r, c, p, i, j, q, t1, t2, x
      <4> QED
          BY <4>1, <4>2, <4>3, <4>4
    <3>3. /\ c \in Int /\ p \in Int /\ i \in Int /\ q \in Int /\ t1 \in Int /\ t2 \in Int
        BY <1>1, <1>2, <2>6
    <3>4. l - (c + r) = p - c - t1 - t2
      <4> HIDE DEF k, l, r, c, p, i, j, q, t1, t2, x
      <4> QED
          BY <3>1, <3>2, <3>3
    <3> QED
        BY <3>2, <3>4
  <2>11. (a * a) * (b * b) = (1 - f1 * f2) * (1 - f1 * f2) /\ g = 1 + f1 * f2
    <3>1. (a * a) * (b * b) = (1 - e * e) * (1 - e * e)
        BY <1>2
    <3> QED
        BY <2>9, <3>1
  <2> HIDE DEF k, a, b, g
  <2> DEFINE r == 1 + f1 * f2
  <2>12. ((1 + f1) + h1) * ((1 + f2) + h2) * r - (1 - f1 * f2) * (1 - f1 * f2)
           - f1 * (((1 + f2) + h2) * ((1 + f2) + h2)) - f2 * (((1 + f1) + h1) * ((1 + f1) + h1))
           = ((1 + f2) * r - f2 * (2 * (1 + f1) + h1) + h2 * r) * h1
               + ((1 + f1) * r - f1 * (2 * (1 + f2) + h2)) * h2
      BY <1>2
  <2> QED
      BY <2>5, <2>10, <2>11, <2>12
<1> HIDE DEF f1, f2
<1>4. Sum2(k, m1, h1, m2, h2) /\ m1 \in Int /\ m2 \in Int
  <2>1. g \in Int
      BY <1>2
  <2> HIDE DEF h1, h2, k, g
  <2> QED
      BY <1>2, <1>3, <2>1 DEF Sum2
<1>5. Zero(k) /\ k \in Int
  <2>1. Zero(h1) /\ Zero(h2)
      BY DEF OnCurve
  <2> HIDE DEF h1, h2, k, m1, m2
  <2> QED
      BY <1>2, <1>4, <2>1, Vanishes
<1>6. Zero(z1) /\ Zero(z2)
    BY DEF SumOf, LawX, LawY
<1> HIDE DEF e
<1>7. a \in Int /\ b \in Int /\ m \in Int /\ n \in Int
    BY <1>1, <1>2
<1> HIDE DEF a, b, m, n
<1>8. Sum4(u, o, k, c1, z1, c2, z2, z, z)
    BY <1>1, <1>7, SMTT(60) DEF Sum4, Curve
<1>9. c1 \in Int /\ c2 \in Int /\ z1 \in Int /\ z2 \in Int /\ o \in Int /\ z \in Int /\ h \in Int /\ w \in Int
    BY <1>1, <1>7 DEF Curve
<1>10. Zero(u)
  <2>1. Zero(z)
      BY ResidueUnits DEF Zero
  <2> HIDE DEF u, o, k, c1, c2, z1, z2, z
  <2> QED
      BY <1>5, <1>6, <1>8, <1>9, <2>1, AllVanish
<1>11. ~Zero(w)
  <2>1. ~Zero(a) /\ ~Zero(b)
      BY LawIsComplete DEF a, b, e
  <2> DEFINE ab == a * b
  <2>2. ab \in Int /\ ~Zero(ab)
      BY <1>7, <2>1, ZeroFactor
  <2> HIDE DEF ab
  <2>3. ~Zero(ab * ab)
      BY <2>2, ZeroFactor
  <2> QED
      BY <2>3 DEF ab
<1> HIDE DEF w, h
<1>12. Zero(h)
    BY <1>9, <1>10, <1>11, ZeroFactor
<1> QED
    BY <1>12 DEF h, OnCurve

\* The law does not look at the order.
LEMMA LawCommutes ==
    ASSUME NEW x1 \in Int, NEW y1 \in Int, NEW x2 \in Int, NEW y2 \in Int, NEW s \in Int, NEW t \in Int,
           SumOf(x1, y1, x2, y2, s, t)
    PROVE  SumOf(x2, y2, x1, y1, s, t)
<1>1. EDWARDS_A \in Int /\ EDWARDS_D \in Int
    BY Coefficients
<1>2. Cross(x2, y2, x1, y1) = Cross(x1, y1, x2, y2)
    BY <1>1 DEF Cross
<1>3. x2 * y1 + y2 * x1 = x1 * y2 + y1 * x2 /\ y2 * y1 - EDWARDS_A * (x2 * x1) = y1 * y2 - EDWARDS_A * (x1 * x2)
    BY <1>1
<1> QED
    BY <1>2, <1>3 DEF SumOf, LawX, LawY

\* Adding the neutral point.
LEMMA LawIsNeutral ==
    ASSUME NEW x \in Int, NEW y \in Int
    PROVE  SumOf(x, y, 0, 1, x, y) /\ OnCurve(0, 1)
<1>1. EDWARDS_A \in Int /\ EDWARDS_D \in Int
    BY Coefficients
<1>2. LawX(x, y, 0, 1, x) = 0 /\ LawY(x, y, 0, 1, y) = 0 /\ Curve(0, 1) = 0
    BY <1>1 DEF LawX, LawY, Cross, Curve
<1> QED
    BY <1>2, ResidueUnits DEF SumOf, Zero, OnCurve

\* Adding the opposite point.
LEMMA LawHasOpposites ==
    ASSUME NEW x \in Int, NEW y \in Int, NEW n \in Int, OnCurve(x, y), Zero(n + x)
    PROVE  OnCurve(n, y) /\ SumOf(x, y, n, y, 0, 1)
<1> DEFINE h == Curve(x, y)
           l == n + x
           o == 1
           z == 0
           m == -1
           c == (n - x) * (EDWARDS_A - EDWARDS_D * (y * y))
           u == Curve(n, y)
           v == LawX(x, y, n, y, 0)
           w == LawY(x, y, n, y, 1)
           p == -y
           q == x * EDWARDS_A - EDWARDS_D * (x * (y * y))
<1>1. EDWARDS_A \in Int /\ EDWARDS_D \in Int
    BY Coefficients
<1>2. Sum2(u, o, h, c, l)
    BY <1>1 DEF Sum2, Curve
<1>3. Sum2(v, p, l, z, z)
    BY <1>1 DEF Sum2, LawX, Cross
<1>4. Sum2(w, m, h, q, l)
    BY <1>1, SMTT(30) DEF Sum2, LawY, Cross, Curve
<1>5. /\ h \in Int /\ l \in Int /\ o \in Int /\ z \in Int /\ m \in Int /\ c \in Int
      /\ p \in Int /\ q \in Int
    BY <1>1 DEF Curve
<1>6. Zero(h) /\ Zero(l) /\ Zero(z)
    BY ResidueUnits DEF OnCurve, Zero
<1>7. Zero(u) /\ Zero(v) /\ Zero(w)
  <2> HIDE DEF h, l, o, z, m, c, u, v, w, p, q
  <2> QED
      BY <1>2, <1>3, <1>4, <1>5, <1>6, Vanishes
<1> QED
    BY <1>7 DEF OnCurve, SumOf

-----------------------------------------------------------------------------
\* The law is associative.  Both ways to add three points lead to the same
\* numerators and denominators, up to a combination of what vanishes on the
\* curve.  Collected by the coordinates of the third point, six coefficients
\* are left, and they vanish for the other two points.

\* The coefficients.
CoefficientY(p, n1, c0, g2, w0, w1) == p * (1 + EDWARDS_D * (g2 * g2)) - n1 * w0 + c0 * w1
CoefficientX(q, n2, d0, g2, w0, w1) == q * (1 + EDWARDS_D * (g2 * g2)) - n2 * w0 + d0 * w1
CoefficientXYY(p, q, n1, c0, d0, g1, g2, v, w0, w1) ==
    EDWARDS_D * (p * (g1 * v) + q * (g2 * (g1 - g2))) - n1 * w1 - EDWARDS_D * (c0 * w0) - d0 * w1
CoefficientXXY(p, q, n2, c0, d0, g1, g2, v, w0, w1) ==
    EDWARDS_D * (q * (g1 * v) - EDWARDS_A * (p * (g2 * (g1 + g2)))) - n2 * w1
      - EDWARDS_D * (d0 * w0) - EDWARDS_A * (c0 * w1)
CoefficientYYY(p, c0, g1, g2, w1) == EDWARDS_D * (p * (g2 * (g1 - g2))) - c0 * w1
CoefficientXXX(q, d0, g1, g2, w1) == EDWARDS_D * (q * (g2 * (g1 + g2))) + d0 * w1

\* They vanish.
LEMMA CoefficientsVanish ==
    ASSUME NEW x1 \in Int, NEW y1 \in Int, NEW x2 \in Int, NEW y2 \in Int,
           OnCurve(x1, y1), OnCurve(x2, y2)
    PROVE  LET e == Cross(x1, y1, x2, y2)
               n1 == x1 * y2 + y1 * x2
               n2 == y1 * y2 - EDWARDS_A * (x1 * x2)
               p == n1 * (1 - e)
               q == n2 * (1 + e)
               g1 == x1 * y1
               g2 == x2 * y2
               v == y2 * y2 - EDWARDS_A * (x2 * x2)
               c0 == g2 * (x1 * y2 - y1 * x2)
               d0 == -(g2 * (EDWARDS_A * (x1 * x2) + y1 * y2))
               w0 == (1 - e) * (1 + e)
               w1 == EDWARDS_D * (n1 * n2)
           IN  /\ Zero(CoefficientY(p, n1, c0, g2, w0, w1))
               /\ Zero(CoefficientX(q, n2, d0, g2, w0, w1))
               /\ Zero(CoefficientXYY(p, q, n1, c0, d0, g1, g2, v, w0, w1))
               /\ Zero(CoefficientXXY(p, q, n2, c0, d0, g1, g2, v, w0, w1))
               /\ Zero(CoefficientYYY(p, c0, g1, g2, w1))
               /\ Zero(CoefficientXXX(q, d0, g1, g2, w1))
<1> DEFINE e == Cross(x1, y1, x2, y2)
           n1 == x1 * y2 + y1 * x2
           n2 == y1 * y2 - EDWARDS_A * (x1 * x2)
           p == n1 * (1 - e)
           q == n2 * (1 + e)
           g1 == x1 * y1
           g2 == x2 * y2
           v == y2 * y2 - EDWARDS_A * (x2 * x2)
           c0 == g2 * (x1 * y2 - y1 * x2)
           d0 == -(g2 * (EDWARDS_A * (x1 * x2) + y1 * y2))
           w0 == (1 - e) * (1 + e)
           w1 == EDWARDS_D * (n1 * n2)
           h1 == Curve(x1, y1)
           h2 == Curve(x2, y2)
           \* How they are made of what vanishes for the points.
           j1 == EDWARDS_D * (g2 * n1)
           j2 == EDWARDS_D * (g2 * n2)
           k1 == -(j1 * g2)
           k2 == j1 * g1
           k3 == -(j2 * g2)
           k4 == -(j2 * g1)
           k5 == j1 * g2
           k6 == -(j1 * g1)
           a1 == (EDWARDS_D * g2) * ((x1 * y2) * (y2 * y2) - EDWARDS_A * ((y1 * x2) * (x2 * x2))
                   + (EDWARDS_D * (g2 * g2)) * (y1 * x2 - x1 * y2))
           a2 == (EDWARDS_D * g2) * (x1 * y2 - y1 * x2 + (y1 * x2) * (y1 * y1) - EDWARDS_A * ((x1 * y2) * (x1 * x1)))
           b1 == (EDWARDS_D * g2) * ((EDWARDS_D * (g2 * g2)) * (y1 * y2 + EDWARDS_A * (x1 * x2))
                   - (y1 * y2) * (y2 * y2) - EDWARDS_A * (EDWARDS_A * ((x1 * x2) * (x2 * x2))))
           b2 == (EDWARDS_D * g2) * ((y1 * y2) * (y1 * y1) - y1 * y2 - EDWARDS_A * (x1 * x2)
                   + EDWARDS_A * (EDWARDS_A * ((x1 * x2) * (x1 * x1))))
           cy == CoefficientY(p, n1, c0, g2, w0, w1)
           cx == CoefficientX(q, n2, d0, g2, w0, w1)
           cxyy == CoefficientXYY(p, q, n1, c0, d0, g1, g2, v, w0, w1)
           cxxy == CoefficientXXY(p, q, n2, c0, d0, g1, g2, v, w0, w1)
           cyyy == CoefficientYYY(p, c0, g1, g2, w1)
           cxxx == CoefficientXXX(q, d0, g1, g2, w1)
<1>1. EDWARDS_A \in Int /\ EDWARDS_D \in Int
    BY Coefficients
<1>2. Sum2(cy, k1, h1, k2, h2)
    BY <1>1, SMTT(60) DEF Sum2, CoefficientY, Cross, Curve
<1>3. Sum2(cx, k3, h1, k4, h2)
    BY <1>1, SMTT(60) DEF Sum2, CoefficientX, Cross, Curve
<1>4. Sum2(cxyy, a1, h1, a2, h2)
    BY <1>1, SMTT(60) DEF Sum2, CoefficientXYY, Cross, Curve
<1>5. Sum2(cxxy, b1, h1, b2, h2)
    BY <1>1, SMTT(60) DEF Sum2, CoefficientXXY, Cross, Curve
<1>6. Sum2(cyyy, k5, h1, k6, h2)
    BY <1>1, SMTT(60) DEF Sum2, CoefficientYYY, Cross, Curve
<1>7. Sum2(cxxx, k3, h1, k4, h2)
    BY <1>1, SMTT(60) DEF Sum2, CoefficientXXX, Cross, Curve
<1>8. /\ h1 \in Int /\ h2 \in Int /\ a1 \in Int /\ a2 \in Int /\ b1 \in Int /\ b2 \in Int
      /\ k1 \in Int /\ k2 \in Int /\ k3 \in Int /\ k4 \in Int
      /\ k5 \in Int /\ k6 \in Int
    BY <1>1 DEF Curve
<1>9. Zero(h1) /\ Zero(h2)
    BY DEF OnCurve
<1>10. Zero(cy) /\ Zero(cx) /\ Zero(cxyy) /\ Zero(cxxy) /\ Zero(cyyy) /\ Zero(cxxx)
  <2> HIDE DEF cy, cx, cxyy, cxxy, cyyy, cxxx, h1, h2, k1, k2, k3, k4, k5, k6, a1, a2, b1, b2
  <2> QED
      BY <1>2, <1>3, <1>4, <1>5, <1>6, <1>7, <1>8, <1>9, Vanishes
<1> QED
    BY <1>10, Zenon

\* Collecting by the coordinates x and y of the third point, for the first
\* coordinate of the sum and for the second.
CollectsTo(p, q, n1, n2, c0, d0, w0, w1, g1, g2, v, x, y) ==
    LET f == EDWARDS_D * (g2 * (x * y))
            n34 == (x * y) * v + g2 * (y * y - EDWARDS_A * (x * x))
            m1 == n1 * y + n2 * x + EDWARDS_D * ((c0 * y + d0 * x) * (x * y))
            m2 == n2 * y - EDWARDS_A * (n1 * x)
                    + EDWARDS_D * ((EDWARDS_A * (c0 * x) - d0 * y) * (x * y))
            h == Curve(x, y)
            cy == CoefficientY(p, n1, c0, g2, w0, w1)
            cx == CoefficientX(q, n2, d0, g2, w0, w1)
            cxyy == CoefficientXYY(p, q, n1, c0, d0, g1, g2, v, w0, w1)
            cxxy == CoefficientXXY(p, q, n2, c0, d0, g1, g2, v, w0, w1)
            cyyy == CoefficientYYY(p, c0, g1, g2, w1)
            cxxx == CoefficientXXX(q, d0, g1, g2, w1)
        IN  /\ (p * y + q * x) * ((1 - f) * (1 + f) + EDWARDS_D * (g1 * n34)) - m1 * (w0 + w1 * (x * y))
                 = (cy * y + cx * x + cxyy * (x * (y * y)) + cxxy * ((x * x) * y))
                     + (cyyy * (y * (y * y)) - (EDWARDS_A * cxxx) * (x * (x * x))
                        + (EDWARDS_D * ((p * y + q * x) * (g2 * g2)) + w1 * (c0 * y + d0 * x)) * h)
            /\ (q * y - EDWARDS_A * (p * x)) * ((1 - f) * (1 + f) - EDWARDS_D * (g1 * n34))
                   - m2 * (w0 - w1 * (x * y))
                 = (cx * y - (EDWARDS_A * cy) * x - cxxy * (x * (y * y)) + (EDWARDS_A * cxyy) * ((x * x) * y))
                     + (-(cxxx * (y * (y * y))) - ((EDWARDS_A * EDWARDS_A) * cyyy) * (x * (x * x))
                        + (EDWARDS_D * ((q * y - EDWARDS_A * (p * x)) * (g2 * g2))
                             - w1 * (EDWARDS_A * (c0 * x) - d0 * y)) * h)

\* The two collected forms are identities.
LEMMA Collected ==
    ASSUME NEW p \in Int, NEW q \in Int, NEW n1 \in Int, NEW n2 \in Int, NEW c0 \in Int, NEW d0 \in Int,
           NEW w0 \in Int, NEW w1 \in Int, NEW g1 \in Int, NEW g2 \in Int, NEW v \in Int,
           NEW x \in Int, NEW y \in Int
    PROVE  CollectsTo(p, q, n1, n2, c0, d0, w0, w1, g1, g2, v, x, y)
<1>1. EDWARDS_A \in Int /\ EDWARDS_D \in Int
    BY Coefficients
<1> QED
    BY <1>1, SMTT(60) DEF CollectsTo, Curve, CoefficientX, CoefficientY, CoefficientXYY, CoefficientXXY, CoefficientXXX, CoefficientYYY

\* The numerators of one way times the denominators of the other agree.
LEMMA WaysAgree ==
    ASSUME NEW x1 \in Int, NEW y1 \in Int, NEW x2 \in Int, NEW y2 \in Int, NEW x3 \in Int, NEW y3 \in Int,
           OnCurve(x1, y1), OnCurve(x2, y2), OnCurve(x3, y3)
    PROVE  LET e == Cross(x1, y1, x2, y2)
               f == Cross(x2, y2, x3, y3)
               n1 == x1 * y2 + y1 * x2
               n2 == y1 * y2 - EDWARDS_A * (x1 * x2)
               n3 == x2 * y3 + y2 * x3
               n4 == y2 * y3 - EDWARDS_A * (x2 * x3)
               w == (1 - e) * (1 + e)
               r == (1 - f) * (1 + f)
           IN  /\ Zero(((n1 * (1 - e)) * y3 + (n2 * (1 + e)) * x3) * (r + EDWARDS_D * ((x1 * y1) * (n3 * n4)))
                         - (x1 * (n4 * (1 + f)) + y1 * (n3 * (1 - f))) * (w + EDWARDS_D * ((x3 * y3) * (n1 * n2))))
               /\ Zero(((n2 * (1 + e)) * y3 - EDWARDS_A * ((n1 * (1 - e)) * x3))
                           * (r - EDWARDS_D * ((x1 * y1) * (n3 * n4)))
                         - (y1 * (n4 * (1 + f)) - EDWARDS_A * (x1 * (n3 * (1 - f))))
                           * (w - EDWARDS_D * ((x3 * y3) * (n1 * n2))))
<1> DEFINE e == Cross(x1, y1, x2, y2)
           f == Cross(x2, y2, x3, y3)
           n1 == x1 * y2 + y1 * x2
           n2 == y1 * y2 - EDWARDS_A * (x1 * x2)
           n3 == x2 * y3 + y2 * x3
           n4 == y2 * y3 - EDWARDS_A * (x2 * x3)
           w0 == (1 - e) * (1 + e)
           r == (1 - f) * (1 + f)
           p == n1 * (1 - e)
           q == n2 * (1 + e)
           g1 == x1 * y1
           g2 == x2 * y2
           v == y2 * y2 - EDWARDS_A * (x2 * x2)
           c0 == g2 * (x1 * y2 - y1 * x2)
           d0 == -(g2 * (EDWARDS_A * (x1 * x2) + y1 * y2))
           w1 == EDWARDS_D * (n1 * n2)
           h == Curve(x3, y3)
           k == EDWARDS_D * (g2 * (x3 * y3))
           n34 == (x3 * y3) * v + g2 * (y3 * y3 - EDWARDS_A * (x3 * x3))
           m1 == n1 * y3 + n2 * x3 + EDWARDS_D * ((c0 * y3 + d0 * x3) * (x3 * y3))
           m2 == n2 * y3 - EDWARDS_A * (n1 * x3) + EDWARDS_D * ((EDWARDS_A * (c0 * x3) - d0 * y3) * (x3 * y3))
           cy == CoefficientY(p, n1, c0, g2, w0, w1)
           cx == CoefficientX(q, n2, d0, g2, w0, w1)
           cxyy == CoefficientXYY(p, q, n1, c0, d0, g1, g2, v, w0, w1)
           cxxy == CoefficientXXY(p, q, n2, c0, d0, g1, g2, v, w0, w1)
           cyyy == CoefficientYYY(p, c0, g1, g2, w1)
           cxxx == CoefficientXXX(q, d0, g1, g2, w1)
           l1 == (p * y3 + q * x3) * (r + EDWARDS_D * (g1 * (n3 * n4)))
                   - (x1 * (n4 * (1 + f)) + y1 * (n3 * (1 - f))) * (w0 + EDWARDS_D * ((x3 * y3) * (n1 * n2)))
           l2 == (q * y3 - EDWARDS_A * (p * x3)) * (r - EDWARDS_D * (g1 * (n3 * n4)))
                   - (y1 * (n4 * (1 + f)) - EDWARDS_A * (x1 * (n3 * (1 - f))))
                       * (w0 - EDWARDS_D * ((x3 * y3) * (n1 * n2)))
<1>1. EDWARDS_A \in Int /\ EDWARDS_D \in Int
    BY Coefficients
<1>2. f = k /\ n3 * n4 = n34 /\ e \in Int
    BY <1>1 DEF Cross
<1>3. x1 * (n4 * (1 + k)) + y1 * (n3 * (1 - k)) = m1
    BY <1>1
<1>4. y1 * (n4 * (1 + k)) - EDWARDS_A * (x1 * (n3 * (1 - k))) = m2
    BY <1>1
<1>5. EDWARDS_D * ((x3 * y3) * (n1 * n2)) = w1 * (x3 * y3)
    BY <1>1
<1>6. Zero(cy) /\ Zero(cx) /\ Zero(cxyy) /\ Zero(cxxy) /\ Zero(cyyy) /\ Zero(cxxx) /\ Zero(h)
    BY CoefficientsVanish DEF OnCurve
<1>7. /\ p \in Int /\ q \in Int /\ n1 \in Int /\ n2 \in Int /\ c0 \in Int /\ d0 \in Int /\ w0 \in Int
      /\ w1 \in Int /\ g1 \in Int /\ g2 \in Int /\ v \in Int /\ h \in Int
  <2>1. n1 \in Int /\ n2 \in Int /\ g1 \in Int /\ g2 \in Int /\ v \in Int /\ h \in Int
      BY <1>1 DEF Curve
  <2>2. c0 \in Int /\ d0 \in Int
      BY <1>1
  <2> HIDE DEF e, n1, n2
  <2>3. p \in Int /\ q \in Int /\ w0 \in Int /\ w1 \in Int
      BY <1>1, <1>2, <2>1
  <2> QED
      BY <2>1, <2>2, <2>3
<1>8. /\ l1 = (p * y3 + q * x3) * ((1 - k) * (1 + k) + EDWARDS_D * (g1 * n34)) - m1 * (w0 + w1 * (x3 * y3))
      /\ l2 = (q * y3 - EDWARDS_A * (p * x3)) * ((1 - k) * (1 + k) - EDWARDS_D * (g1 * n34))
                - m2 * (w0 - w1 * (x3 * y3))
  <2> HIDE DEF e, f, n1, n2, n3, n4, w0, p, q, g1, g2, v, c0, d0, w1, h, k, n34, m1, m2
  <2> QED
      BY <1>2, <1>3, <1>4, <1>5
<1> DEFINE u1 == cy * y3 + cx * x3 + cxyy * (x3 * (y3 * y3)) + cxxy * ((x3 * x3) * y3)
           k1 == EDWARDS_D * ((p * y3 + q * x3) * (g2 * g2)) + w1 * (c0 * y3 + d0 * x3)
           v1 == cyyy * (y3 * (y3 * y3)) - (EDWARDS_A * cxxx) * (x3 * (x3 * x3)) + k1 * h
           u2 == cx * y3 - (EDWARDS_A * cy) * x3 - cxxy * (x3 * (y3 * y3)) + (EDWARDS_A * cxyy) * ((x3 * x3) * y3)
           k2 == EDWARDS_D * ((q * y3 - EDWARDS_A * (p * x3)) * (g2 * g2)) - w1 * (EDWARDS_A * (c0 * x3) - d0 * y3)
           v2 == -(cxxx * (y3 * (y3 * y3))) - ((EDWARDS_A * EDWARDS_A) * cyyy) * (x3 * (x3 * x3)) + k2 * h
<1>9. l1 = u1 + v1 /\ l2 = u2 + v2
  <2> HIDE DEF e, f, n1, n2, n3, n4, w0, r, p, q, g1, g2, v, c0, d0, w1, l1, l2
  <2>1. /\ (p * y3 + q * x3) * ((1 - k) * (1 + k) + EDWARDS_D * (g1 * n34)) - m1 * (w0 + w1 * (x3 * y3)) = u1 + v1
        /\ (q * y3 - EDWARDS_A * (p * x3)) * ((1 - k) * (1 + k) - EDWARDS_D * (g1 * n34))
                - m2 * (w0 - w1 * (x3 * y3)) = u2 + v2
    <3>1. CollectsTo(p, q, n1, n2, c0, d0, w0, w1, g1, g2, v, x3, y3)
        <4> HIDE DEF h, k, n34, m1, m2, cy, cx, cxyy, cxxy, cyyy, cxxx, k1, k2, u1, u2, v1, v2
        <4> QED
            BY <1>7, Collected
    <3> QED
        BY <3>1, Zenon DEF CollectsTo
  <2> QED
      BY <1>8, <2>1, Zenon
<1>10. /\ cy \in Int /\ cx \in Int /\ cxyy \in Int /\ cxxy \in Int /\ cyyy \in Int /\ cxxx \in Int
       /\ k1 \in Int /\ k2 \in Int
  <2> HIDE DEF e, n1, n2, w0, p, q, g1, g2, v, c0, d0, w1, h
  <2> QED
      BY <1>1, <1>7 DEF CoefficientX, CoefficientY, CoefficientXYY, CoefficientXXY, CoefficientXXX, CoefficientYYY
<1> HIDE DEF e, f, n1, n2, n3, n4, w0, r, p, q, g1, g2, v, c0, d0, w1, h, l1, l2, cy, cx, cxyy, cxxy, cyyy, cxxx, k1, k2
<1>11. Zero(u1) /\ u1 \in Int /\ Zero(u2) /\ u2 \in Int
  <2> DEFINE a1 == x3 * (y3 * y3)
             a2 == (x3 * x3) * y3
             b1 == -(EDWARDS_A * x3)
             b2 == -(x3 * (y3 * y3))
             b3 == EDWARDS_A * ((x3 * x3) * y3)
  <2>1. Sum4(u1, y3, cy, x3, cx, a1, cxyy, a2, cxxy) /\ Sum4(u2, y3, cx, b1, cy, b2, cxxy, b3, cxyy)
      BY <1>1, <1>10 DEF Sum4
  <2>2. a1 \in Int /\ a2 \in Int /\ b1 \in Int /\ b2 \in Int /\ b3 \in Int
      BY <1>1
  <2> HIDE DEF u1, u2, a1, a2, b1, b2, b3
  <2> QED
      BY <1>6, <1>10, <2>1, <2>2, AllVanish
<1>12. Zero(v1) /\ v1 \in Int /\ Zero(v2) /\ v2 \in Int
  <2> DEFINE a1 == y3 * (y3 * y3)
             a2 == -(EDWARDS_A * (x3 * (x3 * x3)))
             b1 == -(y3 * (y3 * y3))
             b2 == -((EDWARDS_A * EDWARDS_A) * (x3 * (x3 * x3)))
             o == 0
  <2>1. Sum4(v1, a1, cyyy, a2, cxxx, k1, h, o, o) /\ Sum4(v2, b1, cxxx, b2, cyyy, k2, h, o, o)
      BY <1>1, <1>7, <1>10 DEF Sum4
  <2>2. a1 \in Int /\ a2 \in Int /\ b1 \in Int /\ b2 \in Int /\ o \in Int /\ Zero(o)
      BY <1>1, ResidueUnits DEF Zero
  <2> HIDE DEF v1, v2, a1, a2, b1, b2, o
  <2> QED
      BY <1>6, <1>7, <1>10, <2>1, <2>2, AllVanish
<1> HIDE DEF u1, u2, v1, v2
<1>13. Zero(l1) /\ Zero(l2)
  <2> DEFINE o == 1
  <2>1. Sum2(l1, o, u1, o, v1) /\ Sum2(l2, o, u2, o, v2) /\ o \in Int
      BY <1>9, <1>11, <1>12 DEF Sum2
  <2> HIDE DEF o
  <2> QED
      BY <1>11, <1>12, <2>1, Vanishes
<1> QED
    BY <1>13, Zenon DEF l1, l2, e, f, n1, n2, n3, n4, w0, r, p, q, g1

\* A quotient of r and g, without the division.
IsQuotient(a, g, r) == Zero(a * g - r)

\* Two quotients of the same value, written with other factors.
SameQuotient(w, f, l, r, e, g, la, ya, za, wa, a) ==
    /\ Zero(la * ya - za * wa) /\ Zero(w * l - la) /\ Zero(f * g - ya) /\ Zero(f * r - za)
    /\ Zero(w * e - wa) /\ Zero(a * e - l)

\* Two quotients of which the numerators of one times the denominators of the
\* other agree have the same value: l = a e with l = la/w, e = wa/w, and
\* r/g = za/ya, with r = za/f and g = ya/f.
LEMMA CrossMultiply ==
    ASSUME NEW w \in Int, NEW f \in Int, NEW l \in Int, NEW r \in Int, NEW e \in Int, NEW g \in Int,
           NEW la \in Int, NEW ya \in Int, NEW za \in Int, NEW wa \in Int, NEW a \in Int,
           ~Zero(w), ~Zero(f), ~Zero(e), SameQuotient(w, f, l, r, e, g, la, ya, za, wa, a)
    PROVE  IsQuotient(a, g, r)
<1> DEFINE z0 == la * ya - za * wa
           z1 == w * l - la
           z2 == f * g - ya
           z3 == f * r - za
           z4 == w * e - wa
           z5 == a * e - l
           fg == f * g
           we == -(w * e)
           mz == -za
           wf == w * f
           k == l * g - r * e
           t == wf * k
           h == t - z0
           ag == a * g - r
           eg == e * ag
           o == 1
<1>1. Sum4(h, fg, z1, la, z2, we, z3, mz, z4)
    BY DEF Sum4
<1>2. Sum2(eg, g, z5, o, k)
    BY DEF Sum2
<1>3. Sum2(t, o, z0, o, h)
    BY DEF Sum2
<1>4. /\ z0 \in Int /\ z1 \in Int /\ z2 \in Int /\ z3 \in Int /\ z4 \in Int /\ z5 \in Int /\ fg \in Int
      /\ we \in Int /\ mz \in Int /\ wf \in Int /\ k \in Int /\ ag \in Int /\ o \in Int /\ h \in Int
    OBVIOUS
<1>5. ~Zero(wf)
    BY ZeroFactor
<1>6. Zero(t)
  <2>1. Zero(z0) /\ Zero(z1) /\ Zero(z2) /\ Zero(z3) /\ Zero(z4)
      BY DEF SameQuotient
  <2> HIDE DEF z0, z1, z2, z3, z4, fg, we, mz, t, h, o
  <2>2. Zero(h)
      BY <1>1, <1>4, <2>1, AllVanish
  <2> QED
      BY <1>3, <1>4, <2>1, <2>2, Vanishes
<1>7. Zero(k)
  <2> HIDE DEF wf, k
  <2> QED
      BY <1>4, <1>5, <1>6, ZeroFactor
<1>8. Zero(eg)
  <2>1. Zero(z5)
      BY DEF SameQuotient
  <2> HIDE DEF z5, k, eg, o
  <2> QED
      BY <1>2, <1>4, <1>7, <2>1, Vanishes
<1> HIDE DEF ag
<1>9. Zero(ag)
    BY <1>4, <1>8, ZeroFactor
<1> QED
    BY <1>9 DEF ag, IsQuotient

\* The law is associative.
LEMMA LawAssociates ==
    ASSUME NEW x1 \in Int, NEW y1 \in Int, NEW x2 \in Int, NEW y2 \in Int, NEW x3 \in Int, NEW y3 \in Int,
           NEW s \in Int, NEW t \in Int, NEW u \in Int, NEW v \in Int, NEW a \in Int, NEW b \in Int,
           OnCurve(x1, y1), OnCurve(x2, y2), OnCurve(x3, y3),
           SumOf(x1, y1, x2, y2, s, t), SumOf(x2, y2, x3, y3, u, v), SumOf(s, t, x3, y3, a, b)
    PROVE  SumOf(x1, y1, u, v, a, b)
<1> DEFINE e == Cross(x1, y1, x2, y2)
           f == Cross(x2, y2, x3, y3)
           n1 == x1 * y2 + y1 * x2
           n2 == y1 * y2 - EDWARDS_A * (x1 * x2)
           n3 == x2 * y3 + y2 * x3
           n4 == y2 * y3 - EDWARDS_A * (x2 * x3)
           w == (1 - e) * (1 + e)
           r == (1 - f) * (1 + f)
           c == Cross(s, t, x3, y3)
           d == Cross(x1, y1, u, v)
           z1 == LawX(x1, y1, x2, y2, s)
           z2 == LawY(x1, y1, x2, y2, t)
           z3 == LawX(x2, y2, x3, y3, u)
           z4 == LawY(x2, y2, x3, y3, v)
           g1 == x1 * y1
           g3 == x3 * y3
<1>1. /\ EDWARDS_A \in Int /\ EDWARDS_D \in Int /\ e \in Int /\ f \in Int /\ n1 \in Int /\ n2 \in Int
      /\ n3 \in Int /\ n4 \in Int /\ c \in Int /\ d \in Int /\ g1 \in Int /\ g3 \in Int
    BY Coefficients DEF Cross
<1>2. OnCurve(s, t) /\ OnCurve(u, v)
    BY LawStaysOnCurve
<1>3. ~Zero(w) /\ ~Zero(r) /\ ~Zero(1 + c) /\ ~Zero(1 - c) /\ ~Zero(1 + d) /\ ~Zero(1 - d)
  <2>1. ~Zero(1 + e) /\ ~Zero(1 - e) /\ ~Zero(1 + f) /\ ~Zero(1 - f)
      BY LawIsComplete
  <2>2. ~Zero(1 + c) /\ ~Zero(1 - c) /\ ~Zero(1 + d) /\ ~Zero(1 - d)
      BY <1>2, LawIsComplete
  <2> HIDE DEF e, f, c, d
  <2>3. 1 + e \in Int /\ 1 - e \in Int /\ 1 + f \in Int /\ 1 - f \in Int
      BY <1>1
  <2> QED
      BY <2>1, <2>2, <2>3, ZeroFactor
<1>4. /\ z1 = s * (1 + e) - n1 /\ z2 = t * (1 - e) - n2 /\ z3 = u * (1 + f) - n3 /\ z4 = v * (1 - f) - n4
      /\ c = EDWARDS_D * ((s * t) * g3) /\ d = EDWARDS_D * (g1 * (u * v))
    BY <1>1 DEF LawX, LawY, Cross
<1>5. Zero(z1) /\ Zero(z2) /\ Zero(z3) /\ Zero(z4)
    BY DEF SumOf
<1>6. /\ Zero(((n1 * (1 - e)) * y3 + (n2 * (1 + e)) * x3) * (r + EDWARDS_D * (g1 * (n3 * n4)))
                - (x1 * (n4 * (1 + f)) + y1 * (n3 * (1 - f))) * (w + EDWARDS_D * (g3 * (n1 * n2))))
      /\ Zero(((n2 * (1 + e)) * y3 - EDWARDS_A * ((n1 * (1 - e)) * x3))
                  * (r - EDWARDS_D * (g1 * (n3 * n4)))
                - (y1 * (n4 * (1 + f)) - EDWARDS_A * (x1 * (n3 * (1 - f))))
                  * (w - EDWARDS_D * (g3 * (n1 * n2))))
    BY WaysAgree, Zenon
<1>7. Zero(a * (1 + c) - (s * y3 + t * x3)) /\ Zero(b * (1 - c) - (t * y3 - EDWARDS_A * (s * x3)))
    BY Zenon DEF SumOf, LawX, LawY
<1> HIDE DEF e, f, n1, n2, n3, n4, c, d, z1, z2, z3, z4, g1, g3
<1>8. w \in Int /\ r \in Int /\ z1 \in Int /\ z2 \in Int /\ z3 \in Int /\ z4 \in Int
    BY <1>1, <1>4
<1> DEFINE la == (n1 * (1 - e)) * y3 + (n2 * (1 + e)) * x3
           lb == (n2 * (1 + e)) * y3 - EDWARDS_A * ((n1 * (1 - e)) * x3)
           ya == r + EDWARDS_D * (g1 * (n3 * n4))
           yb == r - EDWARDS_D * (g1 * (n3 * n4))
           za == x1 * (n4 * (1 + f)) + y1 * (n3 * (1 - f))
           zb == y1 * (n4 * (1 + f)) - EDWARDS_A * (x1 * (n3 * (1 - f)))
           wa == w + EDWARDS_D * (g3 * (n1 * n2))
           wb == w - EDWARDS_D * (g3 * (n1 * n2))
           sa == s * y3 + t * x3
           sb == t * y3 - EDWARDS_A * (s * x3)
           ra == x1 * v + y1 * u
           rb == y1 * v - EDWARDS_A * (x1 * u)
           ca == 1 + c
           cb == 1 - c
           da == 1 + d
           db == 1 - d
<1>9. /\ la \in Int /\ lb \in Int /\ ya \in Int /\ yb \in Int /\ za \in Int /\ zb \in Int /\ wa \in Int
      /\ wb \in Int /\ sa \in Int /\ sb \in Int /\ ra \in Int /\ rb \in Int /\ ca \in Int /\ cb \in Int
      /\ da \in Int /\ db \in Int
  <2> HIDE DEF w, r
  <2>1. la \in Int /\ lb \in Int /\ ya \in Int /\ yb \in Int
      BY <1>1, <1>8
  <2>2. za \in Int /\ zb \in Int /\ wa \in Int /\ wb \in Int
      BY <1>1, <1>8
  <2>3. sa \in Int /\ sb \in Int /\ ra \in Int /\ rb \in Int /\ ca \in Int /\ cb \in Int /\ da \in Int /\ db \in Int
      BY <1>1
  <2> QED
      BY <2>1, <2>2, <2>3
<1>10. Zero(w * sa - la) /\ Zero(w * sb - lb)
  <2> DEFINE p1 == w * sa - la
             p2 == w * sb - lb
             m1 == (1 - e) * y3
             m2 == (1 + e) * x3
             m3 == -(EDWARDS_A * ((1 - e) * x3))
             m4 == (1 + e) * y3
  <2>1. Sum2(p1, m1, z1, m2, z2) /\ Sum2(p2, m3, z1, m4, z2)
      BY <1>1, <1>4 DEF Sum2
  <2>2. m1 \in Int /\ m2 \in Int /\ m3 \in Int /\ m4 \in Int
      BY <1>1
  <2> HIDE DEF p1, p2, m1, m2, m3, m4
  <2>3. Zero(p1) /\ Zero(p2)
      BY <1>5, <1>8, <2>1, <2>2, Vanishes
  <2> QED
      BY <2>3 DEF p1, p2
<1>11. Zero(r * ra - za) /\ Zero(r * rb - zb)
  <2> DEFINE p1 == r * ra - za
             p2 == r * rb - zb
             m1 == x1 * (1 + f)
             m2 == y1 * (1 - f)
             m3 == y1 * (1 + f)
             m4 == -(EDWARDS_A * (x1 * (1 - f)))
  <2>1. Sum2(p1, m1, z4, m2, z3) /\ Sum2(p2, m3, z4, m4, z3)
      BY <1>1, <1>4 DEF Sum2
  <2>2. m1 \in Int /\ m2 \in Int /\ m3 \in Int /\ m4 \in Int
      BY <1>1
  <2> HIDE DEF p1, p2, m1, m2, m3, m4
  <2>3. Zero(p1) /\ Zero(p2)
      BY <1>5, <1>8, <2>1, <2>2, Vanishes
  <2> QED
      BY <2>3 DEF p1, p2
<1>12. Zero(w * ca - wa) /\ Zero(w * cb - wb)
  <2> DEFINE p1 == w * ca - wa
             p2 == w * cb - wb
             m1 == (EDWARDS_D * g3) * (t * (1 - e))
             m2 == (EDWARDS_D * g3) * n1
             m3 == -m1
             m4 == -m2
  <2>1. p1 = (EDWARDS_D * g3) * (((s * (1 + e)) * (t * (1 - e))) - n1 * n2)
      BY <1>1, <1>4
  <2>2. s * (1 + e) = z1 + n1 /\ t * (1 - e) = z2 + n2
      BY <1>1, <1>4, <1>8
  <2>3. Sum2(p1, m1, z1, m2, z2) /\ p2 = -p1
      BY <1>1, <1>4, <1>8, <2>1, <2>2 DEF Sum2
  <2>4. m1 \in Int /\ m2 \in Int /\ m3 \in Int /\ m4 \in Int
      BY <1>1
  <2>5. Sum2(p2, m3, z1, m4, z2)
      BY <1>8, <2>3, <2>4 DEF Sum2
  <2> HIDE DEF p1, p2, m1, m2, m3, m4
  <2>6. Zero(p1) /\ Zero(p2)
      BY <1>5, <1>8, <2>3, <2>4, <2>5, Vanishes
  <2> QED
      BY <2>6 DEF p1, p2
<1>13. Zero(r * da - ya) /\ Zero(r * db - yb)
  <2> DEFINE p1 == r * da - ya
             p2 == r * db - yb
             m1 == (EDWARDS_D * g1) * (v * (1 - f))
             m2 == (EDWARDS_D * g1) * n3
             m3 == -m1
             m4 == -m2
  <2>1. p1 = (EDWARDS_D * g1) * (((u * (1 + f)) * (v * (1 - f))) - n3 * n4)
      BY <1>1, <1>4
  <2>2. u * (1 + f) = z3 + n3 /\ v * (1 - f) = z4 + n4
      BY <1>1, <1>4, <1>8
  <2>3. Sum2(p1, m1, z3, m2, z4) /\ p2 = -p1
      BY <1>1, <1>4, <1>8, <2>1, <2>2 DEF Sum2
  <2>4. m1 \in Int /\ m2 \in Int /\ m3 \in Int /\ m4 \in Int
      BY <1>1
  <2>5. Sum2(p2, m3, z3, m4, z4)
      BY <1>8, <2>3, <2>4 DEF Sum2
  <2> HIDE DEF p1, p2, m1, m2, m3, m4
  <2>6. Zero(p1) /\ Zero(p2)
      BY <1>5, <1>8, <2>3, <2>4, <2>5, Vanishes
  <2> QED
      BY <2>6 DEF p1, p2
<1>14. Zero(la * ya - za * wa) /\ Zero(lb * yb - zb * wb)
    BY <1>6, Zenon
<1>15. Zero(a * ca - sa) /\ Zero(b * cb - sb) /\ ~Zero(ca) /\ ~Zero(cb) /\ ~Zero(w) /\ ~Zero(r)
    BY <1>3, <1>7, Zenon
<1> HIDE DEF w, r, la, lb, ya, yb, za, zb, wa, wb, sa, sb, ra, rb, ca, cb, da, db
<1>16. SameQuotient(w, r, sa, ra, ca, da, la, ya, za, wa, a) /\ SameQuotient(w, r, sb, rb, cb, db, lb, yb, zb, wb, b)
    BY <1>10, <1>11, <1>12, <1>13, <1>14, <1>15, Zenon DEF SameQuotient
<1>17. IsQuotient(a, da, ra)
  <2>1. /\ w \in Int /\ r \in Int /\ sa \in Int /\ ra \in Int /\ ca \in Int /\ da \in Int /\ la \in Int
        /\ ya \in Int /\ za \in Int /\ wa \in Int /\ a \in Int
      BY <1>8, <1>9
  <2>2. ~Zero(w) /\ ~Zero(r) /\ ~Zero(ca)
      BY <1>15
  <2>3. SameQuotient(w, r, sa, ra, ca, da, la, ya, za, wa, a)
      BY <1>16
  <2> QED
      BY <2>1, <2>2, <2>3, CrossMultiply
<1>18. IsQuotient(b, db, rb)
  <2>1. /\ w \in Int /\ r \in Int /\ sb \in Int /\ rb \in Int /\ cb \in Int /\ db \in Int /\ lb \in Int
        /\ yb \in Int /\ zb \in Int /\ wb \in Int /\ b \in Int
      BY <1>8, <1>9
  <2>2. ~Zero(w) /\ ~Zero(r) /\ ~Zero(cb)
      BY <1>15
  <2>3. SameQuotient(w, r, sb, rb, cb, db, lb, yb, zb, wb, b)
      BY <1>16
  <2> QED
      BY <2>1, <2>2, <2>3, CrossMultiply
<1> QED
    BY <1>17, <1>18, Zenon DEF SumOf, LawX, LawY, IsQuotient, da, db, ra, rb, d

-----------------------------------------------------------------------------
\* The points of the curve with the law are a commutative group.

\* A pair of elements stands for a sum.
PointSum(p, q, r) == SumOf(p[1], p[2], q[1], q[2], r[1], r[2])

\* What the equation of a point says in integers.
LEMMA PointsOnCurve ==
    ASSUME NEW x \in Elements, NEW y \in Elements
    PROVE  <<x, y>> \in Points <=> OnCurve(x, y)
<1> DEFINE xx == x * x
           yy == y * y
           l == EDWARDS_A * xx + yy
           r == 1 + EDWARDS_D * (xx * yy)
           left == FAdd(FMul(EDWARDS_A, FSquare(x)), FSquare(y))
           right == FAdd(1, FMul(EDWARDS_D, FMul(FSquare(x), FSquare(y))))
<1>1. /\ EDWARDS_A \in Int /\ EDWARDS_D \in Int /\ Residue(EDWARDS_A) = EDWARDS_A
      /\ Residue(EDWARDS_D) = EDWARDS_D /\ Residue(1) = 1 /\ x \in Int /\ y \in Int
      /\ Residue(x) = x /\ Residue(y) = y
    BY Coefficients, ResidueTyped, ResidueUnits
<1>2. xx \in Int /\ yy \in Int /\ FSquare(x) = Residue(xx) /\ FSquare(y) = Residue(yy)
    BY <1>1, ResidueComputes DEF FSquare
<1> HIDE DEF xx, yy
<1> DEFINE j == EDWARDS_A * xx
           k == xx * yy
           m == EDWARDS_D * k
<1>3. j \in Int /\ FMul(EDWARDS_A, FSquare(x)) = Residue(j)
    BY <1>1, <1>2, ResidueComputes
<1>4. k \in Int /\ FMul(FSquare(x), FSquare(y)) = Residue(k)
    BY <1>2, ResidueComputes
<1> HIDE DEF k
<1>5. m \in Int /\ FMul(EDWARDS_D, FMul(FSquare(x), FSquare(y))) = Residue(m)
    BY <1>1, <1>4, ResidueComputes
<1> HIDE DEF j, m
<1>6. left = Residue(j + yy) /\ right = Residue(1 + m)
    BY <1>1, <1>2, <1>3, <1>5, ResidueComputes
<1>7. j + yy \in Int /\ 1 + m \in Int
    BY <1>2, <1>3, <1>5
<1>8. left = right <=> Zero((j + yy) - (1 + m))
    BY <1>6, <1>7, ZeroDifference
<1>9. Curve(x, y) = (j + yy) - (1 + m)
    BY <1>1 DEF Curve, j, m, k, xx, yy
<1>10. <<x, y>> \in Points <=> left = right
    BY DEF Points
<1> QED
    BY <1>8, <1>9, <1>10 DEF OnCurve

\* A point is a pair of elements on the curve.
LEMMA PointParts ==
    ASSUME NEW p \in Points
    PROVE  /\ p[1] \in Elements /\ p[2] \in Elements /\ p[1] \in Int /\ p[2] \in Int
           /\ p = <<p[1], p[2]>> /\ OnCurve(p[1], p[2])
<1>1. p[1] \in Elements /\ p[2] \in Elements /\ p = <<p[1], p[2]>>
    BY DEF Points
<1> QED
    BY <1>1, PointsOnCurve, ResidueTyped

\* The sum is a point, and the law gives it.
LEMMA SumOfPoints ==
    ASSUME NEW p \in Points, NEW q \in Points
    PROVE  AffineSum(p, q) \in Points /\ PointSum(p, q, AffineSum(p, q))
<1>1. /\ p[1] \in Elements /\ p[2] \in Elements /\ p[1] \in Int /\ p[2] \in Int
      /\ p = <<p[1], p[2]>> /\ OnCurve(p[1], p[2])
      /\ q[1] \in Elements /\ q[2] \in Elements /\ q[1] \in Int /\ q[2] \in Int
      /\ q = <<q[1], q[2]>> /\ OnCurve(q[1], q[2])
    BY PointParts
<1>2. PICK s \in Elements, t \in Elements :
        /\ AffineSum(<<p[1], p[2]>>, <<q[1], q[2]>>) = <<s, t>>
        /\ SumOf(p[1], p[2], q[1], q[2], s, t)
    BY <1>1, SumFollowsLaw
<1>3. s \in Int /\ t \in Int
    BY ResidueTyped
<1>4. OnCurve(s, t)
    BY <1>1, <1>2, <1>3, LawStaysOnCurve
<1>5. AffineSum(p, q) = <<s, t>>
    BY <1>1, <1>2, Zenon
<1> QED
    BY <1>2, <1>4, <1>5, PointsOnCurve DEF PointSum

\* Only the sum does.
LEMMA SumIsTheOnly ==
    ASSUME NEW p \in Points, NEW q \in Points, NEW r \in Points, PointSum(p, q, r)
    PROVE  r = AffineSum(p, q)
<1> DEFINE s == AffineSum(p, q)
<1>1. s \in Points /\ PointSum(p, q, s)
    BY SumOfPoints
<1> HIDE DEF s
<1>2. /\ p[1] \in Int /\ p[2] \in Int /\ OnCurve(p[1], p[2])
      /\ q[1] \in Int /\ q[2] \in Int /\ OnCurve(q[1], q[2])
      /\ r[1] \in Elements /\ r[2] \in Elements /\ r = <<r[1], r[2]>>
      /\ s[1] \in Elements /\ s[2] \in Elements /\ s = <<s[1], s[2]>>
    BY <1>1, PointParts
<1>3. r[1] = s[1] /\ r[2] = s[2]
    BY <1>1, <1>2, LawIsUnique DEF PointSum
<1> QED
    BY <1>2, <1>3 DEF s

\* The order does not matter.
LEMMA PointsCommute ==
    ASSUME NEW p \in Points, NEW q \in Points
    PROVE  AffineSum(p, q) = AffineSum(q, p)
<1> DEFINE s == AffineSum(q, p)
<1>1. s \in Points /\ PointSum(q, p, s)
    BY SumOfPoints
<1> HIDE DEF s
<1>2. /\ p[1] \in Int /\ p[2] \in Int /\ q[1] \in Int /\ q[2] \in Int /\ s[1] \in Int /\ s[2] \in Int
    BY <1>1, PointParts
<1>3. PointSum(p, q, s)
    BY <1>1, <1>2, LawCommutes DEF PointSum
<1> QED
    BY <1>1, <1>3, SumIsTheOnly DEF s

\* Nor does the grouping.
LEMMA PointsAssociate ==
    ASSUME NEW p \in Points, NEW q \in Points, NEW r \in Points
    PROVE  AffineSum(AffineSum(p, q), r) = AffineSum(p, AffineSum(q, r))
<1> DEFINE s == AffineSum(p, q)
           u == AffineSum(q, r)
           a == AffineSum(s, r)
<1>1. s \in Points /\ PointSum(p, q, s) /\ u \in Points /\ PointSum(q, r, u)
    BY SumOfPoints
<1> HIDE DEF s, u
<1>2. a \in Points /\ PointSum(s, r, a)
    BY <1>1, SumOfPoints
<1> HIDE DEF a
<1>3. /\ p[1] \in Int /\ p[2] \in Int /\ q[1] \in Int /\ q[2] \in Int /\ r[1] \in Int /\ r[2] \in Int
      /\ s[1] \in Int /\ s[2] \in Int /\ u[1] \in Int /\ u[2] \in Int /\ a[1] \in Int /\ a[2] \in Int
      /\ OnCurve(p[1], p[2]) /\ OnCurve(q[1], q[2]) /\ OnCurve(r[1], r[2])
    BY <1>1, <1>2, PointParts
<1>4. PointSum(p, u, a)
  <2>1. /\ SumOf(p[1], p[2], q[1], q[2], s[1], s[2]) /\ SumOf(q[1], q[2], r[1], r[2], u[1], u[2])
        /\ SumOf(s[1], s[2], r[1], r[2], a[1], a[2])
      BY <1>1, <1>2 DEF PointSum
  <2> QED
      BY <1>3, <2>1, LawAssociates DEF PointSum
<1>5. a = AffineSum(p, u)
    BY <1>1, <1>2, <1>4, SumIsTheOnly
<1> QED
    BY <1>5 DEF a, s, u

\* The neutral point.
LEMMA PointsHaveNeutral ==
    /\ Neutral \in Points
    /\ \A p \in Points : AffineSum(p, Neutral) = p /\ AffineSum(Neutral, p) = p
<1>1. Neutral = <<0, 1>> /\ 0 \in Elements /\ 1 \in Elements /\ 0 \in Int /\ 1 \in Int
    BY ResidueTyped DEF Neutral, Elements
<1>2. Neutral \in Points
    BY <1>1, LawIsNeutral, PointsOnCurve
<1>3. ASSUME NEW p \in Points PROVE AffineSum(p, Neutral) = p /\ AffineSum(Neutral, p) = p
  <2>1. p[1] \in Int /\ p[2] \in Int /\ Neutral[1] = 0 /\ Neutral[2] = 1
      BY <1>1, PointParts
  <2>2. PointSum(p, Neutral, p)
      BY <2>1, LawIsNeutral DEF PointSum
  <2> QED
      BY <1>2, <2>2, SumIsTheOnly, PointsCommute
<1> QED
    BY <1>2, <1>3

\* The opposite points.
LEMMA PointsHaveOpposites ==
    ASSUME NEW p \in Points
    PROVE  Opposite(p) \in Points /\ AffineSum(p, Opposite(p)) = Neutral
<1> DEFINE n == FNeg(p[1])
<1>1. p[1] \in Int /\ p[2] \in Int /\ OnCurve(p[1], p[2]) /\ Residue(p[1]) = p[1] /\ p[2] \in Elements
    BY PointParts, ResidueTyped
<1>2. n \in Elements /\ n \in Int /\ Zero(n + p[1])
  <2> DEFINE m == 0 - p[1]
  <2>1. n = Residue(m) /\ m \in Int
    <3> DEFINE o == 0
               x == p[1]
    <3>1. o \in Int /\ x \in Int /\ Residue(o) = o /\ Residue(x) = x
        BY <1>1, ResidueUnits
    <3>2. n = FSub(o, x) /\ m = o - x
        BY DEF FNeg
    <3> HIDE DEF o, x, n, m
    <3>3. FSub(Residue(o), Residue(x)) = Residue(o - x) /\ o - x \in Int
        BY <3>1, ResidueComputes
    <3> QED
        BY <3>1, <3>2, <3>3
  <2>2. Zero(n - m) /\ n \in Elements /\ n \in Int
      BY <2>1, ZeroReduces
  <2>3. n - m = n + p[1]
      BY <1>1, <2>2
  <2> QED
      BY <2>2, <2>3
<1> HIDE DEF n
<1>3. OnCurve(n, p[2]) /\ SumOf(p[1], p[2], n, p[2], 0, 1)
    BY <1>1, <1>2, LawHasOpposites
<1>4. Opposite(p) = <<n, p[2]>>
    BY DEF Opposite, n
<1>5. Opposite(p) \in Points
    BY <1>1, <1>2, <1>3, <1>4, PointsOnCurve
<1>6. PointSum(p, Opposite(p), Neutral)
    BY <1>3, <1>4 DEF PointSum, Neutral
<1> QED
    BY <1>5, <1>6, PointsHaveNeutral, SumIsTheOnly

\* The affine points are a commutative group under the addition law: this is
\* what scalar multiplication by any chain of additions relies on.
THEOREM PointsAreAGroup ==
    /\ Neutral \in Points
    /\ \A p \in Points : Opposite(p) \in Points /\ AffineSum(p, Opposite(p)) = Neutral
    /\ \A p \in Points : AffineSum(p, Neutral) = p /\ AffineSum(Neutral, p) = p
    /\ \A p, q \in Points : AffineSum(p, q) \in Points /\ AffineSum(p, q) = AffineSum(q, p)
    /\ \A p, q, r \in Points : AffineSum(AffineSum(p, q), r) = AffineSum(p, AffineSum(q, r))
BY PointsHaveNeutral, PointsHaveOpposites, SumOfPoints, PointsCommute, PointsAssociate

-----------------------------------------------------------------------------
\* Multiples of a point.

\* The first n + 1 multiples of a point, and all of them.
Chain(f, n, q) ==
    /\ f \in [0 .. n -> Points] /\ f[0] = Neutral
    /\ \A i \in 0 .. n - 1 : f[i + 1] = AffineSum(f[i], q)
Tower(t, q) ==
    /\ t \in [Nat -> Points] /\ t[0] = Neutral
    /\ \A i \in Nat : t[i + 1] = AffineSum(t[i], q)

\* Chains exist.
LEMMA ChainsExist ==
    ASSUME NEW q \in Points
    PROVE  \A n \in Nat : \E f : Chain(f, n, q)
<1> DEFINE S == {n \in Nat : \E f : Chain(f, n, q)}
<1>1. 0 \in S
  <2>1. Chain([i \in 0 .. 0 |-> Neutral], 0, q)
      BY PointsAreAGroup DEF Chain
  <2> QED
      BY <2>1
<1>2. ASSUME NEW n \in S PROVE n + 1 \in S
  <2>1. PICK f : Chain(f, n, q)
      OBVIOUS
  <2> DEFINE g == [i \in 0 .. n + 1 |-> IF i = n + 1 THEN AffineSum(f[n], q) ELSE f[i]]
  <2>2. n \in Nat /\ f \in [0 .. n -> Points] /\ f[n] \in Points
      BY <2>1 DEF Chain
  <2>3. AffineSum(f[n], q) \in Points
      BY <2>2, PointsAreAGroup
  <2>4. g \in [0 .. n + 1 -> Points] /\ g[0] = Neutral
      BY <2>1, <2>2, <2>3 DEF Chain
  <2>5. ASSUME NEW i \in 0 .. (n + 1) - 1 PROVE g[i + 1] = AffineSum(g[i], q)
    <3>1. CASE i = n
        BY <2>2, <3>1
    <3>2. CASE i # n
        BY <2>1, <2>2, <3>2 DEF Chain
    <3> QED
        BY <3>1, <3>2
  <2>6. Chain(g, n + 1, q)
      BY <2>4, <2>5 DEF Chain
  <2> QED
      BY <2>2, <2>6
<1>3. S = Nat
  <2>1. S \in SUBSET Nat
      OBVIOUS
  <2> HIDE DEF S
  <2> QED
      BY <1>1, <1>2, <2>1, SetInduction
<1> QED
    BY <1>3

\* They agree with each other.
LEMMA ChainsAgree ==
    ASSUME NEW q \in Points, NEW n \in Nat, NEW f, Chain(f, n, q), NEW m \in Nat, NEW g, Chain(g, m, q)
    PROVE  \A i \in Nat : i <= n /\ i <= m => f[i] = g[i]
<1> DEFINE S == {i \in Nat : i <= n /\ i <= m => f[i] = g[i]}
<1>1. 0 \in S
    BY DEF Chain
<1>2. ASSUME NEW i \in S PROVE i + 1 \in S
    BY DEF Chain
<1>3. S = Nat
  <2>1. S \in SUBSET Nat
      OBVIOUS
  <2> HIDE DEF S
  <2> QED
      BY <1>1, <1>2, <2>1, SetInduction
<1> QED
    BY <1>3

\* All multiples together.
LEMMA TowerExists ==
    ASSUME NEW q \in Points
    PROVE  \E t : Tower(t, q)
<1> DEFINE c(n) == CHOOSE f : Chain(f, n, q)
           t == [n \in Nat |-> c(n)[n]]
<1>1. \A n \in Nat : Chain(c(n), n, q)
    BY ChainsExist
<1> HIDE DEF c
<1>2. \A n \in Nat : c(n)[n] \in Points
    BY <1>1 DEF Chain
<1>3. c(0)[0] = Neutral
    BY <1>1 DEF Chain
<1>4. ASSUME NEW i \in Nat PROVE c(i + 1)[i + 1] = AffineSum(c(i)[i], q)
  <2>1. Chain(c(i), i, q) /\ Chain(c(i + 1), i + 1, q) /\ i + 1 \in Nat
      BY <1>1
  <2>2. c(i)[i] = c(i + 1)[i]
      BY <2>1, ChainsAgree
  <2>3. c(i + 1)[i + 1] = AffineSum(c(i + 1)[i], q)
      BY <2>1 DEF Chain
  <2> QED
      BY <2>2, <2>3
<1>5. t \in [Nat -> Points] /\ t[0] = Neutral /\ \A i \in Nat : t[i + 1] = AffineSum(t[i], q)
    BY <1>2, <1>3, <1>4
<1> QED
    BY <1>5 DEF Tower

\* Multiples add up.
LEMMA TowerAdds ==
    ASSUME NEW q \in Points, NEW t, Tower(t, q), NEW i \in Nat
    PROVE  \A j \in Nat : t[i + j] = AffineSum(t[i], t[j])
<1> DEFINE S == {j \in Nat : t[i + j] = AffineSum(t[i], t[j])}
<1>1. t[i] \in Points
    BY DEF Tower
<1>2. 0 \in S
  <2>1. i + 0 = i /\ t[0] = Neutral
      BY DEF Tower
  <2> QED
      BY <1>1, <2>1, PointsAreAGroup
<1>3. ASSUME NEW j \in S PROVE j + 1 \in S
  <2>1. j \in Nat /\ i + j \in Nat /\ i + (j + 1) = (i + j) + 1 /\ j + 1 \in Nat
      OBVIOUS
  <2>2. t[j] \in Points /\ t[(i + j) + 1] = AffineSum(t[i + j], q) /\ t[j + 1] = AffineSum(t[j], q)
      BY <2>1 DEF Tower
  <2>3. AffineSum(AffineSum(t[i], t[j]), q) = AffineSum(t[i], AffineSum(t[j], q))
      BY <1>1, <2>2, PointsAreAGroup
  <2> QED
      BY <2>1, <2>2, <2>3
<1>4. S = Nat
  <2>1. S \in SUBSET Nat
      OBVIOUS
  <2> HIDE DEF S
  <2> QED
      BY <1>2, <1>3, <2>1, SetInduction
<1> QED
    BY <1>4

\* Doubling and adding gives them.
LEMMA MultipleClimbs ==
    ASSUME NEW n \in Int, NEW q \in Points, NEW t, Tower(t, IF n < 0 THEN Opposite(q) ELSE q)
    PROVE  PointMultiple(n, q) = t[IF n < 0 THEN -n ELSE n]
<1> DEFINE step == IF n < 0 THEN Opposite(q) ELSE q
           Climbed(f) == [j \in Nat |->
               IF j = 0 THEN Neutral
               ELSE LET half == f[j \div 2]
                        even == AffineSum(half, half)
                    IN  IF j % 2 = 0 THEN even ELSE AffineSum(even, step)]
           m == CHOOSE f : f = Climbed(f)
<1>1. PointMultiple(n, q) = m[IF n < 0 THEN -n ELSE n]
    BY Zenon DEF PointMultiple
<1>2. step \in Points /\ t \in [Nat -> Points] /\ t[0] = Neutral /\ Tower(t, step)
  <2>1. step \in Points
      BY PointsAreAGroup
  <2> QED
      BY <2>1 DEF Tower
<1>3. \A j \in Nat : j # 0 =>
        /\ j \div 2 \in Nat /\ j \div 2 < j /\ j % 2 \in {0, 1}
        /\ j = ((j \div 2) + (j \div 2)) + (j % 2)
    OBVIOUS
<1> HIDE DEF step
<1>4. t = Climbed(t)
  <2>1. ASSUME NEW j \in Nat, j # 0
        PROVE  t[j] = LET half == t[j \div 2]
                          even == AffineSum(half, half)
                      IN  IF j % 2 = 0 THEN even ELSE AffineSum(even, step)
    <3> DEFINE h == j \div 2
               k == h + h
    <3>1. h \in Nat /\ k \in Nat /\ j % 2 \in {0, 1} /\ j = k + (j % 2)
        BY <1>3, <2>1
    <3> HIDE DEF h
    <3>2. t[k] = AffineSum(t[h], t[h])
        BY <1>2, <3>1, TowerAdds
    <3> HIDE DEF k
    <3>3. t[k + 1] = AffineSum(t[k], step)
        BY <1>2, <3>1 DEF Tower
    <3>4. CASE j % 2 = 0
        BY <3>1, <3>2, <3>4 DEF h
    <3>5. CASE j % 2 = 1
        BY <3>1, <3>2, <3>3, <3>5 DEF h
    <3> QED
        BY <3>1, <3>4, <3>5
  <2> QED
      BY <1>2, <2>1
<1>5. m = Climbed(m)
    BY <1>4, Zenon
<1> HIDE DEF m
<1> DEFINE S == {k \in Nat : \A j \in 0 .. k : m[j] = t[j]}
<1>6. 0 \in S
    BY <1>2, <1>5
<1>7. ASSUME NEW k \in S PROVE k + 1 \in S
  <2>1. k \in Nat /\ \A j \in 0 .. k : m[j] = t[j]
      OBVIOUS
  <2> DEFINE i == k + 1
  <2>2. i \in Nat /\ i # 0
      BY <2>1
  <2> HIDE DEF i
  <2>3. i \div 2 \in Nat /\ i \div 2 < i
      BY <1>3, <2>2
  <2>4. i \div 2 \in 0 .. k
      BY <2>1, <2>3 DEF i
  <2>5. m[i] = LET half == m[i \div 2]
                   even == AffineSum(half, half)
               IN  IF i % 2 = 0 THEN even ELSE AffineSum(even, step)
      BY <1>5, <2>2
  <2>6. t[i] = LET half == t[i \div 2]
                   even == AffineSum(half, half)
               IN  IF i % 2 = 0 THEN even ELSE AffineSum(even, step)
      BY <1>4, <2>2
  <2>7. m[i] = t[i]
      BY <2>1, <2>4, <2>5, <2>6, Zenon
  <2> QED
      BY <2>1, <2>2, <2>7 DEF i
<1>8. S = Nat
  <2>1. S \in SUBSET Nat
      OBVIOUS
  <2> HIDE DEF S
  <2> QED
      BY <1>6, <1>7, <2>1, SetInduction
<1>9. (IF n < 0 THEN -n ELSE n) \in Nat
    OBVIOUS
<1>10. \A k \in Nat : m[k] = t[k]
    BY <1>8
<1> QED
    BY <1>1, <1>9, <1>10

\* A set of integers that holds zero and with a number both its neighbours.
LEMMA IntegerInduction ==
    ASSUME NEW S \in SUBSET Int, 0 \in S, \A n \in S : n + 1 \in S /\ n - 1 \in S
    PROVE  S = Int
<1> DEFINE T == {n \in Nat : n \in S /\ -n \in S}
<1>1. 0 \in T
    OBVIOUS
<1>2. ASSUME NEW n \in T PROVE n + 1 \in T
  <2>1. n \in Nat /\ n + 1 \in S /\ (-n) - 1 \in S /\ (-n) - 1 = -(n + 1)
      OBVIOUS
  <2> QED
      BY <2>1
<1>3. T = Nat
  <2>1. T \in SUBSET Nat
      OBVIOUS
  <2> HIDE DEF T
  <2> QED
      BY <1>1, <1>2, <2>1, SetInduction
<1>4. ASSUME NEW n \in Int PROVE n \in S
  <2>1. CASE n >= 0
      BY <1>3, <2>1
  <2>2. CASE n < 0
    <3>1. -n \in T /\ -(-n) = n
        BY <1>3, <2>2
    <3> QED
        BY <3>1
  <2> QED
      BY <2>1, <2>2
<1> QED
    BY <1>4

\* What is added can be taken away.
LEMMA PointsCancel ==
    ASSUME NEW p \in Points, NEW q \in Points, NEW r \in Points
    PROVE  /\ AffineSum(AffineSum(p, q), Opposite(q)) = p
           /\ AffineSum(p, q) = AffineSum(r, q) => p = r
           /\ AffineSum(p, q) = Neutral => q = Opposite(p)
<1>1. Opposite(q) \in Points /\ AffineSum(q, Opposite(q)) = Neutral
    BY PointsAreAGroup
<1>2. \A s \in Points : AffineSum(AffineSum(s, q), Opposite(q)) = s
  <2> TAKE s \in Points
  <2>1. AffineSum(AffineSum(s, q), Opposite(q)) = AffineSum(s, AffineSum(q, Opposite(q)))
      BY <1>1, PointsAreAGroup
  <2> QED
      BY <1>1, <2>1, PointsAreAGroup
<1>3. AffineSum(p, q) = AffineSum(r, q) => p = r
    BY <1>2
<1>4. ASSUME AffineSum(p, q) = Neutral PROVE q = Opposite(p)
  <2> DEFINE o == Opposite(p)
  <2>1. o \in Points /\ AffineSum(p, o) = Neutral
      BY PointsAreAGroup
  <2> HIDE DEF o
  <2>2. AffineSum(AffineSum(q, p), o) = AffineSum(q, AffineSum(p, o))
      BY <2>1, PointsAreAGroup
  <2>3. AffineSum(q, p) = Neutral /\ AffineSum(q, Neutral) = q /\ AffineSum(Neutral, o) = o
      BY <1>4, <2>1, PointsAreAGroup
  <2> QED
      BY <2>1, <2>2, <2>3 DEF o
<1> QED
    BY <1>2, <1>3, <1>4

\* The multiples of a point are points, in either direction one apart.
LEMMA MultipleSteps ==
    ASSUME NEW q \in Points, NEW n \in Int
    PROVE  /\ PointMultiple(n, q) \in Points
           /\ PointMultiple(n + 1, q) = AffineSum(PointMultiple(n, q), q)
           /\ PointMultiple(0, q) = Neutral
<1>1. Opposite(q) \in Points /\ AffineSum(q, Opposite(q)) = Neutral
    BY PointsAreAGroup
<1>2. PICK t : Tower(t, q)
    BY TowerExists
<1>3. PICK d : Tower(d, Opposite(q))
    BY <1>1, TowerExists
<1>4. \A m \in Int : PointMultiple(m, q) = IF m < 0 THEN d[-m] ELSE t[m]
  <2> TAKE m \in Int
  <2>1. CASE m < 0
      BY <1>3, <2>1, MultipleClimbs
  <2>2. CASE ~(m < 0)
      BY <1>2, <2>2, MultipleClimbs
  <2> QED
      BY <2>1, <2>2
<1>5. \A m \in Nat : t[m] \in Points /\ d[m] \in Points
    BY <1>2, <1>3 DEF Tower
<1>6. t[0] = Neutral /\ d[0] = Neutral
    BY <1>2, <1>3 DEF Tower
<1>7. CASE n >= 0
  <2>1. n \in Nat /\ n + 1 \in Nat /\ t[n + 1] = AffineSum(t[n], q)
      BY <1>2, <1>7 DEF Tower
  <2> QED
      BY <1>4, <1>5, <1>6, <2>1
<1>8. CASE n < 0
  <2> DEFINE k == -n - 1
  <2>1. k \in Nat /\ -n = k + 1 /\ -(n + 1) = k /\ n + 1 \in Int /\ (n + 1 < 0 \/ k = 0)
      BY <1>8
  <2> HIDE DEF k
  <2>2. d[k + 1] = AffineSum(d[k], Opposite(q)) /\ d[k] \in Points
      BY <1>3, <2>1 DEF Tower
  <2>3. AffineSum(d[k + 1], q) = d[k]
    <3>1. AffineSum(AffineSum(d[k], Opposite(q)), q) = AffineSum(d[k], AffineSum(Opposite(q), q))
        BY <1>1, <2>2, PointsAreAGroup
    <3>2. AffineSum(Opposite(q), q) = Neutral
        BY <1>1, PointsAreAGroup
    <3> QED
        BY <2>2, <3>1, <3>2, PointsAreAGroup
  <2>4. PointMultiple(n, q) = d[k + 1] /\ d[k + 1] \in Points
      BY <1>4, <1>5, <1>8, <2>1
  <2>5. PointMultiple(n + 1, q) = d[k]
    <3>1. CASE n + 1 < 0
        BY <1>4, <2>1, <3>1
    <3>2. CASE ~(n + 1 < 0)
      <4>1. k = 0 /\ n + 1 = 0
          BY <1>8, <2>1, <3>2
      <4> QED
          BY <1>4, <1>6, <4>1
    <3> QED
        BY <3>1, <3>2
  <2> QED
      BY <1>4, <1>6, <2>3, <2>4, <2>5
<1> QED
    BY <1>7, <1>8

\* Multiples add up.
LEMMA MultiplesAdd ==
    ASSUME NEW q \in Points, NEW m \in Int, NEW n \in Int
    PROVE  PointMultiple(m + n, q) = AffineSum(PointMultiple(m, q), PointMultiple(n, q))
<1> DEFINE at(i) == PointMultiple(i, q)
           S == {k \in Int : at(m + k) = AffineSum(at(m), at(k))}
<1>1. \A i \in Int : at(i) \in Points /\ at(i + 1) = AffineSum(at(i), q)
    BY MultipleSteps
<1>2. at(0) = Neutral
    BY MultipleSteps
<1> HIDE DEF at
<1>3. 0 \in S
  <2>1. m + 0 = m
      OBVIOUS
  <2> QED
      BY <1>1, <1>2, <2>1, PointsAreAGroup
<1>4. ASSUME NEW k \in S PROVE k + 1 \in S /\ k - 1 \in S
  <2>1. /\ k \in Int /\ k + 1 \in Int /\ k - 1 \in Int /\ m + k \in Int /\ m + (k - 1) \in Int
        /\ (m + k) + 1 = m + (k + 1) /\ (m + (k - 1)) + 1 = m + k /\ (k - 1) + 1 = k
      OBVIOUS
  <2>2. at(m + (k + 1)) = AffineSum(at(m + k), q) /\ at(m + k) = AffineSum(at(m), at(k))
      BY <1>1, <2>1
  <2>3. AffineSum(AffineSum(at(m), at(k)), q) = AffineSum(at(m), AffineSum(at(k), q))
      BY <1>1, <2>1, PointsAreAGroup
  <2>4. AffineSum(at(k), q) = at(k + 1)
      BY <1>1, <2>1
  <2>5. k + 1 \in S
      BY <2>1, <2>2, <2>3, <2>4
  <2> DEFINE a == at(m + (k - 1))
             b == at(k - 1)
  <2>6. a \in Points /\ b \in Points /\ AffineSum(a, q) = at(m + k) /\ AffineSum(b, q) = at(k) /\ at(m) \in Points
      BY <1>1, <2>1
  <2>7. AffineSum(a, q) = AffineSum(AffineSum(at(m), b), q) /\ AffineSum(at(m), b) \in Points
    <3> HIDE DEF a, b
    <3>1. AffineSum(AffineSum(at(m), b), q) = AffineSum(at(m), AffineSum(b, q))
        BY <2>6, PointsAreAGroup
    <3> QED
        BY <2>2, <2>6, <3>1, PointsAreAGroup
  <2>8. a = AffineSum(at(m), b)
    <3> HIDE DEF a, b
    <3> QED
        BY <2>6, <2>7, PointsCancel
  <2> QED
      BY <2>1, <2>5, <2>8
<1>5. S = Int
  <2>1. S \in SUBSET Int
      OBVIOUS
  <2> HIDE DEF S
  <2> QED
      BY <1>3, <1>4, <2>1, IntegerInduction
<1> QED
    BY <1>5 DEF at

\* One times a point.
LEMMA MultipleOfOne ==
    ASSUME NEW q \in Points
    PROVE  PointMultiple(1, q) = q
<1>1. PointMultiple(0 + 1, q) = AffineSum(PointMultiple(0, q), q) /\ PointMultiple(0, q) = Neutral
    BY MultipleSteps
<1>2. 0 + 1 = 1
    OBVIOUS
<1> QED
    BY <1>1, <1>2, PointsAreAGroup

\* The multiple for a negative number.
LEMMA MultiplesNegate ==
    ASSUME NEW q \in Points, NEW n \in Int
    PROVE  PointMultiple(-n, q) = Opposite(PointMultiple(n, q))
<1> DEFINE k == -n
<1>1. k \in Int /\ n + k = 0
    OBVIOUS
<1> HIDE DEF k
<1>2. PointMultiple(n + k, q) = AffineSum(PointMultiple(n, q), PointMultiple(k, q))
    BY <1>1, MultiplesAdd
<1>3. PointMultiple(n, q) \in Points /\ PointMultiple(k, q) \in Points /\ PointMultiple(0, q) = Neutral
    BY <1>1, MultipleSteps
<1>4. PointMultiple(k, q) = Opposite(PointMultiple(n, q))
    BY <1>1, <1>2, <1>3, PointsCancel
<1> QED
    BY <1>4 DEF k

\* Multiples of multiples.
LEMMA MultiplesMultiply ==
    ASSUME NEW q \in Points, NEW n \in Int, NEW m \in Int
    PROVE  PointMultiple(m, PointMultiple(n, q)) = PointMultiple(m * n, q)
<1> DEFINE r == PointMultiple(n, q)
           S == {k \in Int : PointMultiple(k, r) = PointMultiple(k * n, q)}
<1>1. r \in Points
    BY MultipleSteps
<1> HIDE DEF r
<1>2. 0 \in S
  <2>1. 0 * n = 0
      OBVIOUS
  <2> QED
      BY <1>1, <2>1, MultipleSteps
<1>3. ASSUME NEW k \in S PROVE k + 1 \in S /\ k - 1 \in S
  <2> DEFINE a == k * n
             l == k - 1
             b == l * n
  <2>1. /\ k \in Int /\ k + 1 \in Int /\ l \in Int /\ a \in Int /\ b \in Int
        /\ (k + 1) * n = a + n /\ b + n = a /\ l + 1 = k
      OBVIOUS
  <2>2. PointMultiple(k, r) = PointMultiple(a, q)
      OBVIOUS
  <2> HIDE DEF a, b, l
  <2>3. PointMultiple(k + 1, r) = AffineSum(PointMultiple(k, r), r)
      BY <1>1, <2>1, MultipleSteps
  <2>4. PointMultiple(a + n, q) = AffineSum(PointMultiple(a, q), r)
      BY <2>1, MultiplesAdd DEF r
  <2>5. k + 1 \in S
      BY <2>1, <2>2, <2>3, <2>4
  <2>6. PointMultiple(l + 1, r) = AffineSum(PointMultiple(l, r), r)
      BY <1>1, <2>1, MultipleSteps
  <2>7. PointMultiple(b + n, q) = AffineSum(PointMultiple(b, q), r)
      BY <2>1, MultiplesAdd DEF r
  <2>8. PointMultiple(l, r) \in Points /\ PointMultiple(b, q) \in Points
      BY <1>1, <2>1, MultipleSteps
  <2>9. PointMultiple(l, r) = PointMultiple(b, q)
      BY <1>1, <2>1, <2>2, <2>6, <2>7, <2>8, PointsCancel
  <2> QED
      BY <2>1, <2>5, <2>9 DEF l, b
<1>4. S = Int
  <2>1. S \in SUBSET Int
      OBVIOUS
  <2> HIDE DEF S
  <2> QED
      BY <1>2, <1>3, <2>1, IntegerInduction
<1> QED
    BY <1>4 DEF r

-----------------------------------------------------------------------------
\* Extended coordinates.

\* The extended points that stand for a point, and its table entry.
Holds(v, q) ==
    /\ v \in ExtendedPoints /\ v.z # 0
    /\ v.x = FMul(q[1], v.z) /\ v.y = FMul(q[2], v.z) /\ v.t = FMul(FMul(q[1], q[2]), v.z)
Niels(q) ==
    [x |-> q[1], y |-> q[2], xy |-> FAdd(q[1], q[2]), dt |-> FMul(FMul(q[1], q[2]), EDWARDS_D)]

\* The field's operations on residues that are given by name.
Names(e, c) == e = Residue(c) /\ c \in Int

LEMMA NamesCompute ==
    ASSUME NEW e, NEW f, NEW c, NEW d, Names(e, c), Names(f, d)
    PROVE  /\ Names(FAdd(e, f), c + d) /\ Names(FSub(e, f), c - d) /\ Names(FMul(e, f), c * d)
           /\ e \in Elements
<1>1. c \in Int /\ d \in Int /\ e = Residue(c) /\ f = Residue(d)
    BY DEF Names
<1>2. c + d \in Int /\ c - d \in Int /\ c * d \in Int
    BY <1>1
<1> QED
    BY <1>1, <1>2, ResidueComputes, ResidueTyped DEF Names

\* Elements name themselves.
LEMMA NamesOfElements ==
    ASSUME NEW x \in Elements
    PROVE  Names(x, x) /\ x \in Int
BY ResidueTyped DEF Names

\* Names of numbers that differ by one that stands for zero.
LEMMA NamesAgree ==
    ASSUME NEW e, NEW c, NEW d, Names(e, c), d \in Int, Zero(c - d)
    PROVE  Names(e, d)
BY ZeroDifference DEF Names

\* The coordinates, the last of them not zero, of an extended point.
LEMMA HoldsByNames ==
    ASSUME NEW x \in Elements, NEW y \in Elements, NEW a, NEW b, NEW c, NEW d,
           NEW e, NEW f, NEW g, NEW h,
           Names(e, a), Names(f, b), Names(g, c), Names(h, d), ~Zero(c),
           Zero(a - x * c), Zero(b - y * c), Zero(d - (x * y) * c)
    PROVE  Holds([x |-> e, y |-> f, z |-> g, t |-> h], <<x, y>>)
<1> DEFINE v == [x |-> e, y |-> f, z |-> g, t |-> h]
           m == x * c
           n == y * c
           xy == x * y
           k == xy * c
<1>1. Names(x, x) /\ Names(y, y) /\ x \in Int /\ y \in Int
    BY NamesOfElements
<1>2. c \in Int
    BY DEF Names
<1>3. m \in Int /\ n \in Int /\ xy \in Int /\ k \in Int
    BY <1>1, <1>2
<1>4. Names(FMul(x, g), m) /\ Names(FMul(y, g), n) /\ Names(FMul(x, y), xy)
    BY <1>1, NamesCompute
<1>5. Names(FMul(FMul(x, y), g), k)
  <2> HIDE DEF xy
  <2> QED
      BY <1>4, NamesCompute
<1>6. Names(e, m) /\ Names(f, n) /\ Names(h, k)
  <2>1. Zero(a - m) /\ Zero(b - n) /\ Zero(d - k)
      OBVIOUS
  <2> HIDE DEF m, n, k
  <2> QED
      BY <1>3, <2>1, NamesAgree
<1> HIDE DEF m, n, xy, k
<1>7. e = FMul(x, g) /\ f = FMul(y, g) /\ h = FMul(FMul(x, y), g)
    BY <1>4, <1>5, <1>6 DEF Names
<1>8. g # 0
    BY DEF Names, Zero
<1>9. v \in ExtendedPoints
  <2>1. e \in Elements /\ f \in Elements /\ g \in Elements /\ h \in Elements
      BY NamesCompute
  <2> QED
      BY <2>1 DEF ExtendedPoints
<1> QED
    BY <1>7, <1>8, <1>9 DEF Holds

\* Their coordinates in integers.
LEMMA HoldsNames ==
    ASSUME NEW q \in Points, NEW v, Holds(v, q)
    PROVE  /\ v.z \in Int /\ ~Zero(v.z) /\ Names(v.z, v.z)
           /\ Names(v.x, q[1] * v.z) /\ Names(v.y, q[2] * v.z) /\ Names(v.t, (q[1] * q[2]) * v.z)
<1> DEFINE x == q[1]
           y == q[2]
           z == v.z
           xy == x * y
<1>1. x \in Elements /\ y \in Elements /\ z \in Elements /\ z # 0
    BY PointParts DEF Holds, ExtendedPoints
<1>2. v.x = FMul(x, z) /\ v.y = FMul(y, z) /\ v.t = FMul(FMul(x, y), z)
    BY DEF Holds
<1> HIDE DEF x, y, z
<1>3. Names(x, x) /\ Names(y, y) /\ Names(z, z) /\ z \in Int /\ ~Zero(z)
    BY <1>1, ResidueTyped DEF Names, Zero
<1>4. Names(FMul(x, z), x * z) /\ Names(FMul(y, z), y * z) /\ Names(FMul(x, y), xy)
    BY <1>3, NamesCompute
<1>5. Names(FMul(FMul(x, y), z), xy * z)
  <2> HIDE DEF xy
  <2> QED
      BY <1>3, <1>4, NamesCompute
<1> QED
    BY <1>2, <1>3, <1>4, <1>5 DEF x, y, z

\* The four products that end every formula give the sum of two points.
LEMMA AssembledHolds ==
    ASSUME NEW p \in Points, NEW q \in Points, NEW k \in Int, NEW j \in Int, ~Zero(k), ~Zero(j),
           NEW cross, NEW difference, NEW sum, NEW twisted,
           Names(cross, (p[1] * q[2] + p[2] * q[1]) * k),
           Names(difference, (1 - Cross(p[1], p[2], q[1], q[2])) * j),
           Names(sum, (1 + Cross(p[1], p[2], q[1], q[2])) * k),
           Names(twisted, (p[2] * q[2] - EDWARDS_A * (p[1] * q[1])) * j)
    PROVE  Holds(Assemble(cross, difference, sum, twisted), AffineSum(p, q))
<1> DEFINE r == AffineSum(p, q)
           e == Cross(p[1], p[2], q[1], q[2])
           m == p[1] * q[2] + p[2] * q[1]
           n == p[2] * q[2] - EDWARDS_A * (p[1] * q[1])
           s == r[1]
           t == r[2]
           z1 == LawX(p[1], p[2], q[1], q[2], s)
           z2 == LawY(p[1], p[2], q[1], q[2], t)
<1>1. p[1] \in Int /\ p[2] \in Int /\ q[1] \in Int /\ q[2] \in Int /\ OnCurve(p[1], p[2]) /\ OnCurve(q[1], q[2])
    BY PointParts
<1>2. EDWARDS_A \in Int /\ e \in Int /\ m \in Int /\ n \in Int
    BY <1>1, Coefficients DEF Cross
<1>3. r \in Points /\ Zero(z1) /\ Zero(z2)
    BY SumOfPoints DEF PointSum, SumOf
<1>4. s \in Elements /\ t \in Elements /\ s \in Int /\ t \in Int /\ r = <<s, t>>
    BY <1>3, PointParts
<1>5. z1 = s * (1 + e) - m /\ z2 = t * (1 - e) - n
    BY DEF LawX, LawY
<1>6. ~Zero(1 + e) /\ ~Zero(1 - e)
    BY <1>1, LawIsComplete
<1>7. Names(cross, m * k) /\ Names(difference, (1 - e) * j) /\ Names(sum, (1 + e) * k) /\ Names(twisted, n * j)
    OBVIOUS
<1> HIDE DEF r, e, m, n, s, t, z1, z2
<1> DEFINE ca == m * k
           di == (1 - e) * j
           su == (1 + e) * k
           tw == n * j
           a == ca * di
           b == su * tw
           c == di * su
           d == ca * tw
<1>8. ca \in Int /\ di \in Int /\ su \in Int /\ tw \in Int /\ z1 \in Int /\ z2 \in Int
    BY <1>2, <1>4, <1>5
<1>9. ~Zero(c)
  <2>1. 1 + e \in Int /\ 1 - e \in Int
      BY <1>2
  <2>2. ~Zero(di) /\ ~Zero(su)
      BY <1>6, <2>1, ZeroFactor
  <2> HIDE DEF di, su
  <2> QED
      BY <1>8, <2>2, ZeroFactor
<1>10. Zero(a - s * c) /\ Zero(b - t * c) /\ Zero(d - (s * t) * c)
  <2> DEFINE u1 == a - s * c
             u2 == b - t * c
             u3 == d - (s * t) * c
             o == 0
             m1 == -((1 - e) * (j * k))
             m2 == -((1 + e) * (j * k))
             m3 == -((t * (1 - e)) * (j * k))
             m4 == -(m * (j * k))
  <2>1. Sum2(u1, m1, z1, o, o) /\ Sum2(u2, m2, z2, o, o)
      BY <1>2, <1>4, <1>5 DEF Sum2
  <2>2. Sum2(u3, m3, z1, m4, z2)
      BY <1>2, <1>4, <1>5, SMTT(30) DEF Sum2
  <2>3. m1 \in Int /\ m2 \in Int /\ m3 \in Int /\ m4 \in Int /\ o \in Int /\ Zero(o)
      BY <1>2, <1>4, ResidueUnits DEF Zero
  <2> HIDE DEF u1, u2, u3, o, m1, m2, m3, m4
  <2>4. Zero(u1) /\ Zero(u2) /\ Zero(u3)
      BY <1>3, <1>8, <2>1, <2>2, <2>3, Vanishes
  <2> QED
      BY <2>4 DEF u1, u2, u3
<1>11. /\ Names(FMul(cross, difference), a) /\ Names(FMul(sum, twisted), b)
       /\ Names(FMul(difference, sum), c) /\ Names(FMul(cross, twisted), d)
  <2>1. Names(cross, ca) /\ Names(difference, di) /\ Names(sum, su) /\ Names(twisted, tw)
      BY <1>7
  <2> HIDE DEF ca, di, su, tw
  <2> QED
      BY <2>1, NamesCompute
<1> HIDE DEF a, b, c, d
<1>12. Holds([x |-> FMul(cross, difference), y |-> FMul(sum, twisted),
              z |-> FMul(difference, sum), t |-> FMul(cross, twisted)], <<s, t>>)
    BY <1>4, <1>9, <1>10, <1>11, HoldsByNames
<1> QED
    BY <1>4, <1>12 DEF Assemble, r

\* What an addition and a mixed addition compute before the last products: the
\* second point is scaled by u, which is one for a table entry.
LEMMA CrossTerms ==
    ASSUME NEW x1 \in Int, NEW y1 \in Int, NEW x2 \in Int, NEW y2 \in Int, NEW z \in Int, NEW u \in Int,
           NEW a, NEW b, NEW c, NEW d, NEW f, NEW s,
           Names(a, x1 * z), Names(b, y1 * z), Names(c, x2 * u), Names(d, y2 * u),
           Names(f, Cross(x1, y1, x2, y2) * (z * u)), Names(s, z * u)
    PROVE  LET xx == FMul(a, c)
               yy == FMul(b, d)
           IN  /\ Names(FSub(FMul(FAdd(a, b), FAdd(c, d)), FAdd(xx, yy)), (x1 * y2 + y1 * x2) * (z * u))
               /\ Names(FSub(s, f), (1 - Cross(x1, y1, x2, y2)) * (z * u))
               /\ Names(FAdd(s, f), (1 + Cross(x1, y1, x2, y2)) * (z * u))
               /\ Names(FSub(yy, FMul(xx, EDWARDS_A)), (y1 * y2 - EDWARDS_A * (x1 * x2)) * (z * u))
<1> DEFINE ai == x1 * z
           bi == y1 * z
           ci == x2 * u
           di == y2 * u
           e == Cross(x1, y1, x2, y2)
           k == z * u
           fi == e * k
           xx == FMul(a, c)
           yy == FMul(b, d)
           product == FMul(FAdd(a, b), FAdd(c, d))
           cross == FSub(product, FAdd(xx, yy))
           twisted == FSub(yy, FMul(xx, EDWARDS_A))
           xi == ai * ci
           yi == bi * di
           pi == (ai + bi) * (ci + di)
           gi == pi - (xi + yi)
           ti == yi - xi * EDWARDS_A
<1>1. EDWARDS_A \in Int /\ Names(EDWARDS_A, EDWARDS_A) /\ e \in Int
    BY Coefficients, NamesOfElements DEF Cross
<1>2. ai \in Int /\ bi \in Int /\ ci \in Int /\ di \in Int /\ k \in Int /\ fi \in Int
    BY <1>1
<1>3. gi = (x1 * y2 + y1 * x2) * k /\ ti = (y1 * y2 - EDWARDS_A * (x1 * x2)) * k
    BY <1>1
<1>4. k - fi = (1 - e) * k /\ k + fi = (1 + e) * k
    BY <1>1, <1>2
<1>5. Names(a, ai) /\ Names(b, bi) /\ Names(c, ci) /\ Names(d, di) /\ Names(f, fi) /\ Names(s, k)
    OBVIOUS
<1> HIDE DEF ai, bi, ci, di, e, k, fi
<1>6. Names(xx, xi) /\ Names(yy, yi)
    BY <1>5, NamesCompute
<1>7. Names(product, pi)
  <2> DEFINE m == ai + bi
             n == ci + di
  <2>1. Names(FAdd(a, b), m) /\ Names(FAdd(c, d), n)
      BY <1>5, NamesCompute
  <2> HIDE DEF m, n
  <2>2. Names(FMul(FAdd(a, b), FAdd(c, d)), m * n)
      BY <2>1, NamesCompute
  <2> QED
      BY <2>2 DEF m, n
<1> HIDE DEF xx, yy, product, xi, yi, pi
<1>8. Names(cross, gi)
  <2> DEFINE m == xi + yi
  <2>1. Names(FAdd(xx, yy), m)
      BY <1>6, NamesCompute
  <2> HIDE DEF m
  <2>2. Names(FSub(product, FAdd(xx, yy)), pi - m)
      BY <1>7, <2>1, NamesCompute
  <2> QED
      BY <2>2 DEF m
<1>9. Names(twisted, ti)
  <2> DEFINE m == xi * EDWARDS_A
  <2>1. Names(FMul(xx, EDWARDS_A), m)
      BY <1>1, <1>6, NamesCompute
  <2> HIDE DEF m
  <2>2. Names(FSub(yy, FMul(xx, EDWARDS_A)), yi - m)
      BY <1>6, <2>1, NamesCompute
  <2> QED
      BY <2>2 DEF m
<1>10. Names(FSub(s, f), k - fi) /\ Names(FAdd(s, f), k + fi)
    BY <1>5, NamesCompute
<1> DEFINE cr == (x1 * y2 + y1 * x2) * k
           tw == (y1 * y2 - EDWARDS_A * (x1 * x2)) * k
           dn == (1 - e) * k
           up == (1 + e) * k
<1>11. gi = cr /\ ti = tw /\ k - fi = dn /\ k + fi = up
    BY <1>3, <1>4
<1> HIDE DEF cr, tw, dn, up, gi, ti
<1>12. Names(cross, cr) /\ Names(twisted, tw) /\ Names(FSub(s, f), dn) /\ Names(FAdd(s, f), up)
    BY <1>8, <1>9, <1>10, <1>11
<1> QED
    BY <1>12, Zenon DEF cross, twisted, xx, yy, product, cr, tw, dn, up, e, k

\* Addition.
LEMMA SumsHold ==
    ASSUME NEW p \in Points, NEW q \in Points, NEW v, NEW w, Holds(v, p), Holds(w, q)
    PROVE  Holds(Add(v, w), AffineSum(p, q))
<1> DEFINE x1 == p[1]
           y1 == p[2]
           x2 == q[1]
           y2 == q[2]
           z == v.z
           u == w.z
           k == z * u
           f == FMul(FMul(v.t, EDWARDS_D), w.t)
           g1 == (x1 * y1) * z
           g2 == (x2 * y2) * u
           fi == Cross(x1, y1, x2, y2) * k
           s == FMul(z, u)
<1>1. x1 \in Int /\ y1 \in Int /\ x2 \in Int /\ y2 \in Int
    BY PointParts
<1>2. /\ z \in Int /\ ~Zero(z) /\ Names(z, z)
      /\ Names(v.x, x1 * z) /\ Names(v.y, y1 * z) /\ Names(v.t, g1)
      /\ u \in Int /\ ~Zero(u) /\ Names(u, u)
      /\ Names(w.x, x2 * u) /\ Names(w.y, y2 * u) /\ Names(w.t, g2)
    BY HoldsNames
<1>3. EDWARDS_D \in Int /\ Names(EDWARDS_D, EDWARDS_D)
    BY Coefficients, NamesOfElements
<1> HIDE DEF x1, y1, x2, y2, z, u
<1>4. Names(s, k) /\ k \in Int
    BY <1>2, NamesCompute
<1>5. ~Zero(k)
    BY <1>2, <1>4, ZeroFactor
<1>6. Names(f, fi)
  <2>1. (g1 * EDWARDS_D) * g2 = fi
      BY <1>1, <1>2, <1>3 DEF Cross
  <2> DEFINE m == g1 * EDWARDS_D
             n == m * g2
  <2> HIDE DEF g1, g2, fi
  <2>2. Names(FMul(v.t, EDWARDS_D), m)
      BY <1>2, <1>3, NamesCompute
  <2> HIDE DEF m
  <2>3. Names(f, n)
      BY <1>2, <2>2, NamesCompute
  <2>4. n = fi
      BY <2>1 DEF m
  <2> QED
      BY <2>3, <2>4
<1> HIDE DEF k, s, f
<1> DEFINE xx == FMul(v.x, w.x)
           yy == FMul(v.y, w.y)
           cross == FSub(FMul(FAdd(v.x, v.y), FAdd(w.x, w.y)), FAdd(xx, yy))
           twisted == FSub(yy, FMul(xx, EDWARDS_A))
<1>7. /\ Names(cross, (x1 * y2 + y1 * x2) * k) /\ Names(FSub(s, f), (1 - Cross(x1, y1, x2, y2)) * k)
      /\ Names(FAdd(s, f), (1 + Cross(x1, y1, x2, y2)) * k)
      /\ Names(twisted, (y1 * y2 - EDWARDS_A * (x1 * x2)) * k)
  <2>1. Names(f, Cross(x1, y1, x2, y2) * (z * u)) /\ Names(s, z * u)
      BY <1>4, <1>6 DEF k
  <2>2. /\ Names(cross, (x1 * y2 + y1 * x2) * (z * u)) /\ Names(FSub(s, f), (1 - Cross(x1, y1, x2, y2)) * (z * u))
        /\ Names(FAdd(s, f), (1 + Cross(x1, y1, x2, y2)) * (z * u))
        /\ Names(twisted, (y1 * y2 - EDWARDS_A * (x1 * x2)) * (z * u))
      BY <1>1, <1>2, <2>1, CrossTerms, Zenon
  <2> QED
      BY <2>2, Zenon DEF k
<1>8. Add(v, w) = Assemble(cross, FSub(s, f), FAdd(s, f), twisted)
    BY Zenon DEF Add, s, f, z, u
<1> HIDE DEF cross, twisted
<1>9. Holds(Assemble(cross, FSub(s, f), FAdd(s, f), twisted), AffineSum(p, q))
    BY <1>4, <1>5, <1>7, AssembledHolds, Zenon DEF x1, y1, x2, y2
<1> QED
    BY <1>8, <1>9

\* Mixed addition of a table entry.
LEMMA MixedSumsHold ==
    ASSUME NEW p \in Points, NEW q \in Points, NEW v, Holds(v, p)
    PROVE  Holds(AddAffine(v, Niels(q)), AffineSum(p, q))
<1> DEFINE x1 == p[1]
           y1 == p[2]
           x2 == q[1]
           y2 == q[2]
           z == v.z
           u == 1
           k == z * u
           f == FMul(v.t, FMul(FMul(x2, y2), EDWARDS_D))
           g1 == (x1 * y1) * z
           fi == Cross(x1, y1, x2, y2) * k
<1>1. /\ x1 \in Int /\ y1 \in Int /\ x2 \in Int /\ y2 \in Int /\ u \in Int
      /\ x2 \in Elements /\ y2 \in Elements
    BY PointParts
<1>2. /\ z \in Int /\ ~Zero(z) /\ Names(z, z)
      /\ Names(v.x, x1 * z) /\ Names(v.y, y1 * z) /\ Names(v.t, g1)
    BY HoldsNames
<1>3. EDWARDS_D \in Int /\ Names(EDWARDS_D, EDWARDS_D) /\ Names(x2, x2) /\ Names(y2, y2)
    BY <1>1, Coefficients, NamesOfElements
<1> HIDE DEF x1, y1, x2, y2, z
<1>4. Names(z, k) /\ k \in Int /\ ~Zero(k) /\ Names(x2, x2 * u) /\ Names(y2, y2 * u)
  <2>1. k = z /\ x2 * u = x2 /\ y2 * u = y2
      BY <1>1, <1>2
  <2> QED
      BY <1>2, <1>3, <2>1
<1> HIDE DEF u
<1>5. Names(f, fi)
  <2> DEFINE g == x2 * y2
             h == g * EDWARDS_D
             n == g1 * h
  <2>1. n = fi
      BY <1>1, <1>2, <1>3 DEF Cross, u
  <2>2. Names(FMul(x2, y2), g)
      BY <1>3, NamesCompute
  <2> HIDE DEF g1, g, fi
  <2>3. Names(FMul(FMul(x2, y2), EDWARDS_D), h)
      BY <1>3, <2>2, NamesCompute
  <2> HIDE DEF h
  <2>4. Names(f, n)
      BY <1>2, <2>3, NamesCompute
  <2> QED
      BY <2>1, <2>4
<1> HIDE DEF f
<1> DEFINE xx == FMul(v.x, x2)
           yy == FMul(v.y, y2)
           cross == FSub(FMul(FAdd(v.x, v.y), FAdd(x2, y2)), FAdd(xx, yy))
           twisted == FSub(yy, FMul(xx, EDWARDS_A))
<1>6. /\ Names(cross, (x1 * y2 + y1 * x2) * (z * u)) /\ Names(FSub(z, f), (1 - Cross(x1, y1, x2, y2)) * (z * u))
      /\ Names(FAdd(z, f), (1 + Cross(x1, y1, x2, y2)) * (z * u))
      /\ Names(twisted, (y1 * y2 - EDWARDS_A * (x1 * x2)) * (z * u))
    BY <1>1, <1>2, <1>4, <1>5, CrossTerms, Zenon
<1>7. AddAffine(v, Niels(q)) = Assemble(cross, FSub(z, f), FAdd(z, f), twisted)
    BY DEF AddAffine, Niels, z, f, x2, y2
<1>8. Holds(Assemble(cross, FSub(z, f), FAdd(z, f), twisted), AffineSum(p, q))
  <2> HIDE DEF cross, twisted
  <2> QED
      BY <1>4, <1>6, AssembledHolds, Zenon DEF x1, y1, x2, y2
<1> QED
    BY <1>7, <1>8

\* What a doubling computes before the last products, for a point scaled by z.
DoublingTerms(x, y, z, a, b, c) ==
    LET xx == FSquare(a)
            yy == FSquare(b)
            zz == FSquare(c)
            tx == FMul(xx, EDWARDS_A)
            sum == FAdd(tx, yy)
        IN  /\ Names(FSub(FSquare(FAdd(a, b)), FAdd(xx, yy)), (x * y + y * x) * (z * z))
            /\ Names(FSub(sum, FAdd(zz, zz)), (1 - Cross(x, y, x, y)) * (-(z * z)))
            /\ Names(sum, (1 + Cross(x, y, x, y)) * (z * z))
            /\ Names(FSub(tx, yy), (y * y - EDWARDS_A * (x * x)) * (-(z * z)))

\* It does so on the curve, where the sum of the squares is one and the product
\* of the coordinates, times d.
LEMMA DoubleTerms ==
    ASSUME NEW x \in Int, NEW y \in Int, NEW z \in Int, OnCurve(x, y),
           NEW a, NEW b, NEW c, Names(a, x * z), Names(b, y * z), Names(c, z)
    PROVE  DoublingTerms(x, y, z, a, b, c)
<1> DEFINE k == z * z
           j == -k
           e == Cross(x, y, x, y)
           h == Curve(x, y)
           ai == x * z
           bi == y * z
           xi == ai * ai
           yi == bi * bi
           ti == xi * EDWARDS_A
           si == ti + yi
           pi == (ai + bi) * (ai + bi)
           c1 == (x * y + y * x) * k
           d1 == (1 - e) * j
           s1 == (1 + e) * k
           t1 == (y * y - EDWARDS_A * (x * x)) * j
           xx == FSquare(a)
           yy == FSquare(b)
           zz == FSquare(c)
<1>1. EDWARDS_A \in Int /\ Names(EDWARDS_A, EDWARDS_A) /\ EDWARDS_D \in Int
    BY Coefficients, NamesOfElements
<1>2. e \in Int /\ h \in Int /\ Zero(h)
    BY <1>1 DEF Cross, Curve, OnCurve
<1>3. k \in Int /\ ai \in Int /\ bi \in Int /\ j \in Int
    OBVIOUS
<1>4. si = (EDWARDS_A * (x * x) + y * y) * k /\ h = (EDWARDS_A * (x * x) + y * y) - (1 + e)
    BY <1>1 DEF Curve, Cross
<1>5. pi - (xi + yi) = c1 /\ ti - yi = t1
    BY <1>1
<1>6. Names(a, ai) /\ Names(b, bi) /\ Names(c, z)
    OBVIOUS
<1> HIDE DEF e, h, ai, bi
<1>7. xi \in Int /\ yi \in Int /\ ti \in Int /\ pi \in Int
    BY <1>1, <1>3
<1>8. Names(xx, xi) /\ Names(yy, yi) /\ Names(zz, k)
    BY <1>6, NamesCompute DEF FSquare
<1>9. Names(FSquare(FAdd(a, b)), pi)
  <2> DEFINE m == ai + bi
  <2>1. Names(FAdd(a, b), m)
      BY <1>6, NamesCompute
  <2> HIDE DEF m
  <2>2. Names(FMul(FAdd(a, b), FAdd(a, b)), m * m)
      BY <2>1, NamesCompute
  <2> QED
      BY <2>2 DEF FSquare, m
<1>10. si - s1 = k * h /\ (si - (k + k)) - d1 = k * h /\ s1 \in Int /\ d1 \in Int
  <2> DEFINE g == EDWARDS_A * (x * x) + y * y
  <2>1. g \in Int /\ si = g * k /\ h = g - (1 + e)
      BY <1>1, <1>4
  <2> HIDE DEF g, si, k
  <2> QED
      BY <1>2, <1>3, <2>1
<1> HIDE DEF xi, yi, pi, k, c1, t1, s1, d1, xx, yy, zz
<1>11. Names(FSub(FSquare(FAdd(a, b)), FAdd(xx, yy)), c1)
  <2> DEFINE m == xi + yi
  <2>1. Names(FAdd(xx, yy), m)
      BY <1>8, NamesCompute
  <2> HIDE DEF m
  <2>2. Names(FSub(FSquare(FAdd(a, b)), FAdd(xx, yy)), pi - m)
      BY <1>9, <2>1, NamesCompute
  <2> QED
      BY <1>5, <2>2 DEF m
<1> DEFINE tx == FMul(xx, EDWARDS_A)
           sum == FAdd(tx, yy)
           kk == k + k
<1>12. Names(tx, ti) /\ Names(FAdd(zz, zz), kk)
    BY <1>1, <1>8, NamesCompute
<1> HIDE DEF ti, tx, kk
<1>13. Names(sum, si) /\ Names(FSub(tx, yy), ti - yi)
    BY <1>8, <1>12, NamesCompute
<1>14. Names(FSub(tx, yy), t1)
    BY <1>5, <1>13
<1>15. si - s1 = k * h /\ (si - kk) - d1 = k * h
    BY <1>10 DEF kk
<1>16. si \in Int /\ kk \in Int
    BY <1>3, <1>7 DEF kk, ti
<1> HIDE DEF si, sum
<1>17. Names(FSub(sum, FAdd(zz, zz)), si - kk)
    BY <1>12, <1>13, NamesCompute
<1> DEFINE m == si - kk
           l == si - s1
           n == m - d1
           o == 0
<1>18. Zero(l) /\ Zero(n)
  <2>1. Sum2(l, k, h, o, o) /\ Sum2(n, k, h, o, o) /\ o \in Int
      BY <1>2, <1>3, <1>15 DEF Sum2
  <2>2. Zero(o)
      BY ResidueUnits DEF Zero
  <2> HIDE DEF l, n, o, m
  <2> QED
      BY <1>2, <1>3, <2>1, <2>2, Vanishes
<1>19. Names(sum, s1)
  <2> HIDE DEF n, m
  <2> QED
      BY <1>10, <1>13, <1>18, NamesAgree
<1>20. Names(FSub(sum, FAdd(zz, zz)), d1)
  <2>1. Names(FSub(sum, FAdd(zz, zz)), m) /\ Zero(m - d1)
      BY <1>17, <1>18
  <2> HIDE DEF n, m, l
  <2> QED
      BY <1>10, <2>1, NamesAgree
<1> QED
    BY <1>11, <1>14, <1>19, <1>20, Zenon DEF DoublingTerms, c1, d1, s1, t1, k, e, sum, tx, xx, yy, zz

\* Doubling.
LEMMA DoublesHold ==
    ASSUME NEW p \in Points, NEW v, Holds(v, p)
    PROVE  Holds(Double(v), AffineSum(p, p))
<1> DEFINE x == p[1]
           y == p[2]
           z == v.z
           a == v.x
           b == v.y
           k == z * z
           j == -k
           xx == FSquare(a)
           yy == FSquare(b)
           zz == FSquare(z)
           tx == FMul(xx, EDWARDS_A)
           sum == FAdd(tx, yy)
           cross == FSub(FSquare(FAdd(a, b)), FAdd(xx, yy))
           difference == FSub(sum, FAdd(zz, zz))
           twisted == FSub(tx, yy)
<1>1. Double(v) = Assemble(cross, difference, sum, twisted)
    BY DEF Double
<1>2. x \in Int /\ y \in Int /\ OnCurve(x, y)
    BY PointParts
<1>3. z \in Int /\ ~Zero(z) /\ Names(z, z) /\ Names(a, x * z) /\ Names(b, y * z)
    BY HoldsNames
<1> HIDE DEF x, y, z, a, b
<1>4. /\ Names(cross, (x * y + y * x) * k) /\ Names(difference, (1 - Cross(x, y, x, y)) * j)
      /\ Names(sum, (1 + Cross(x, y, x, y)) * k) /\ Names(twisted, (y * y - EDWARDS_A * (x * x)) * j)
  <2>1. DoublingTerms(x, y, z, a, b, z)
      BY <1>2, <1>3, DoubleTerms
  <2> QED
      BY <2>1, Zenon DEF DoublingTerms
<1>5. k \in Int /\ j \in Int /\ ~Zero(k)
    BY <1>3, ZeroFactor
<1>6. ~Zero(j)
  <2> DEFINE m == -1
             o == 0
  <2>1. Sum2(k, m, j, m, o) /\ m \in Int /\ o \in Int
      BY <1>5 DEF Sum2
  <2>2. Zero(o)
      BY ResidueUnits DEF Zero
  <2> HIDE DEF m, o, k, j
  <2> QED
      BY <1>5, <2>1, <2>2, Vanishes
<1> HIDE DEF k, j, cross, difference, sum, twisted
<1>7. Holds(Assemble(cross, difference, sum, twisted), AffineSum(p, p))
    BY <1>4, <1>5, <1>6, AssembledHolds, Zenon DEF x, y
<1> QED
    BY <1>1, <1>7

\* An element and its names: one of the integers it names.
LEMMA NamesOfSame ==
    ASSUME NEW e, NEW f, NEW c, Names(e, c), Names(f, c)
    PROVE  e = f
BY DEF Names

\* A point with its own coordinates and z = 1: the base point, and the identity.
LEMMA AffineHolds ==
    ASSUME NEW q \in Points
    PROVE  Holds([x |-> q[1], y |-> q[2], z |-> 1, t |-> FMul(q[1], q[2])], q)
<1> DEFINE x == q[1]
           y == q[2]
           one == 1
           xy == x * y
           z1 == x - x * one
           z2 == y - y * one
           z3 == xy - xy * one
<1>1. x \in Elements /\ y \in Elements /\ q = <<x, y>> /\ x \in Int /\ y \in Int
    BY PointParts
<1> HIDE DEF x, y
<1>2. Names(x, x) /\ Names(y, y) /\ Names(one, one) /\ ~Zero(one)
    BY <1>1, NamesOfElements, ResidueUnits DEF Names, Zero
<1>3. Names(FMul(x, y), xy)
    BY <1>2, NamesCompute
<1>4. z1 = 0 /\ z2 = 0 /\ z3 = 0
    BY <1>1
<1>5. Zero(z1) /\ Zero(z2) /\ Zero(z3)
    BY <1>4, ResidueUnits DEF Zero
<1> HIDE DEF one, xy
<1>6. Zero(x - x * one) /\ Zero(y - y * one) /\ Zero(xy - xy * one)
    BY <1>5, Zenon DEF z1, z2, z3
<1>7. Holds([x |-> x, y |-> y, z |-> one, t |-> FMul(x, y)], <<x, y>>)
  <2>1. Zero(xy - (x * y) * one)
      BY <1>6, Zenon DEF xy
  <2> QED
      BY <1>1, <1>2, <1>3, <1>6, <2>1, HoldsByNames, Zenon
<1> QED
    BY <1>1, <1>7 DEF one, x, y

\* The identity and the base point.
LEMMA ConstantsHold == Holds(Identity, Neutral) /\ BasePoint \in Points /\ Holds(Basepoint, BasePoint)
<1>1. Neutral \in Points /\ BasePoint \in Points
    BY PointsAreAGroup, EdwardsAssumption DEF EdwardsAssumption
<1>2. FMul(0, 1) = 0
  <2>1. Names(0, 0) /\ Names(1, 1)
      BY ResidueUnits DEF Names
  <2>2. Names(FMul(0, 1), 0 * 1) /\ 0 * 1 = 0
    <3>1. Names(FMul(0, 1), 0 * 1)
        BY <2>1, NamesCompute, Zenon
    <3> QED
        BY <3>1
  <2> QED
      BY <2>1, <2>2, NamesOfSame
<1>3. Holds(Identity, Neutral)
  <2>1. Neutral[1] = 0 /\ Neutral[2] = 1
      BY DEF Neutral
  <2>2. Holds([x |-> Neutral[1], y |-> Neutral[2], z |-> 1, t |-> FMul(Neutral[1], Neutral[2])], Neutral)
      BY <1>1, AffineHolds
  <2> QED
      BY <1>2, <2>1, <2>2 DEF Identity
<1>4. Holds(Basepoint, BasePoint)
  <2>1. BasePoint[1] = BASE_X /\ BasePoint[2] = BASE_Y
      BY DEF BasePoint
  <2>2. Holds([x |-> BasePoint[1], y |-> BasePoint[2], z |-> 1, t |-> FMul(BasePoint[1], BasePoint[2])], BasePoint)
      BY <1>1, AffineHolds
  <2> QED
      BY <2>1, <2>2 DEF Basepoint
<1> QED
    BY <1>1, <1>3, <1>4

\* Signs move through products.
LEMMA NegativeProducts ==
    ASSUME NEW x \in Elements, NEW z \in Elements
    PROVE  FNeg(x) \in Elements /\ FMul(FNeg(x), z) = FNeg(FMul(x, z))
<1> DEFINE o == 0
           m == o - x
           n == x * z
           i == m * z
           j == o - n
<1>1. Names(o, o) /\ Names(x, x) /\ Names(z, z) /\ x \in Int /\ z \in Int /\ o \in Int
    BY NamesOfElements, ResidueUnits DEF Names
<1>2. i = j
    BY <1>1
<1>3. FNeg(x) = FSub(o, x) /\ FNeg(FMul(x, z)) = FSub(o, FMul(x, z))
    BY DEF FNeg
<1> HIDE DEF o
<1>4. Names(FSub(o, x), m) /\ FSub(o, x) \in Elements
  <2>1. Names(FSub(o, x), m)
      BY <1>1, NamesCompute
  <2> QED
      BY <2>1, NamesCompute
<1>5. Names(FMul(x, z), n)
    BY <1>1, NamesCompute
<1> HIDE DEF m, n
<1>6. Names(FMul(FSub(o, x), z), i)
    BY <1>1, <1>4, NamesCompute
<1>7. Names(FSub(o, FMul(x, z)), j)
    BY <1>1, <1>5, NamesCompute
<1> HIDE DEF i, j
<1>8. FMul(FSub(o, x), z) = FSub(o, FMul(x, z))
    BY <1>2, <1>6, <1>7, NamesOfSame
<1> QED
    BY <1>3, <1>4, <1>8

\* Products are elements.
LEMMA ProductTyped ==
    ASSUME NEW x \in Elements, NEW y \in Elements
    PROVE  FMul(x, y) \in Elements /\ FAdd(x, y) \in Elements /\ FSub(x, y) \in Elements
<1>1. Names(x, x) /\ Names(y, y)
    BY NamesOfElements
<1>2. Names(FMul(x, y), x * y) /\ Names(FAdd(x, y), x + y) /\ Names(FSub(x, y), x - y)
    BY <1>1, NamesCompute
<1> QED
    BY <1>2, NamesCompute

\* The opposite of an extended point.
LEMMA NegativesHold ==
    ASSUME NEW q \in Points, NEW v, Holds(v, q)
    PROVE  Holds([v EXCEPT !.x = FNeg(@), !.t = FNeg(@)], Opposite(q))
<1> DEFINE w == [v EXCEPT !.x = FNeg(@), !.t = FNeg(@)]
           x == q[1]
           y == q[2]
           xy == FMul(x, y)
           r == Opposite(q)
<1>1. x \in Elements /\ y \in Elements /\ r[1] = FNeg(x) /\ r[2] = y
    BY PointParts DEF Opposite
<1>2. /\ v \in ExtendedPoints /\ v.x \in Elements /\ v.z \in Elements /\ v.t \in Elements /\ v.z # 0
      /\ v.x = FMul(x, v.z) /\ v.y = FMul(y, v.z) /\ v.t = FMul(xy, v.z)
    BY DEF Holds, ExtendedPoints
<1> HIDE DEF x, y, r
<1>3. xy \in Elements
    BY <1>1, ProductTyped
<1>4. FMul(FNeg(x), y) = FNeg(xy) /\ FNeg(x) \in Elements
    BY <1>1, NegativeProducts
<1> HIDE DEF xy
<1>5. FMul(FNeg(x), v.z) = FNeg(v.x) /\ FMul(FNeg(xy), v.z) = FNeg(v.t)
    BY <1>1, <1>2, <1>3, NegativeProducts
<1>6. FNeg(v.x) \in Elements /\ FNeg(v.t) \in Elements
    BY <1>2, NegativeProducts
<1>7. w.x = FNeg(v.x) /\ w.y = v.y /\ w.z = v.z /\ w.t = FNeg(v.t) /\ w \in ExtendedPoints
    BY <1>2, <1>6 DEF ExtendedPoints
<1> QED
    BY <1>1, <1>2, <1>4, <1>5, <1>7 DEF Holds, r

\* The table entry of the neutral point, and of an opposite.
LEMMA NielsOfNeutral == NielsIdentity = Niels(Neutral)
<1>1. Names(0, 0) /\ Names(1, 1) /\ EDWARDS_D \in Int /\ Names(EDWARDS_D, EDWARDS_D)
    BY ResidueUnits, Coefficients, NamesOfElements DEF Names
<1>2. 0 + 1 = 1 /\ 0 * 1 = 0 /\ 0 * EDWARDS_D = 0
    BY <1>1
<1>3. FAdd(0, 1) = 1
  <2>1. Names(FAdd(0, 1), 0 + 1)
      BY <1>1, NamesCompute, Zenon
  <2> QED
      BY <1>1, <1>2, <2>1, NamesOfSame
<1>4. FMul(0, 1) = 0 /\ FMul(0, EDWARDS_D) = 0
  <2>1. Names(FMul(0, 1), 0 * 1) /\ Names(FMul(0, EDWARDS_D), 0 * EDWARDS_D)
      BY <1>1, NamesCompute, Zenon
  <2> QED
      BY <1>1, <1>2, <2>1, NamesOfSame
<1> QED
    BY <1>3, <1>4 DEF NielsIdentity, Niels, Neutral

\* negate of a table entry is the entry of the opposite point.
LEMMA NielsOfOpposite ==
    ASSUME NEW q \in Points
    PROVE  NegateNiels(Niels(q)) = Niels(Opposite(q))
<1> DEFINE x == q[1]
           y == q[2]
<1>1. x \in Elements /\ y \in Elements /\ Opposite(q)[1] = FNeg(x) /\ Opposite(q)[2] = y
    BY PointParts DEF Opposite
<1>2. EDWARDS_D \in Elements
    BY Coefficients
<1> HIDE DEF x, y
<1>3. FMul(x, y) \in Elements
    BY <1>1, ProductTyped
<1>4. FMul(FNeg(x), y) = FNeg(FMul(x, y))
    BY <1>1, NegativeProducts
<1>5. FMul(FNeg(FMul(x, y)), EDWARDS_D) = FNeg(FMul(FMul(x, y), EDWARDS_D))
    BY <1>2, <1>3, NegativeProducts
<1>6. Niels(q) = [x |-> x, y |-> y, xy |-> FAdd(x, y), dt |-> FMul(FMul(x, y), EDWARDS_D)]
    BY DEF Niels, x, y
<1> QED
    BY <1>1, <1>4, <1>5, <1>6 DEF NegateNiels, Niels

\* Dividing an extended point by its z gives the table entry.
LEMMA NormalizedIsNiels ==
    ASSUME NEW q \in Points, NEW v, Holds(v, q), NEW i \in Elements, FMul(v.z, i) = 1
    PROVE  FromProjective(v, i) = Niels(q)
<1> DEFINE x == q[1]
           y == q[2]
           z == v.z
           xz == x * z
           yz == y * z
           k == z * i
<1>1. x \in Elements /\ y \in Elements /\ Names(x, x) /\ Names(y, y) /\ x \in Int /\ y \in Int
    BY PointParts, NamesOfElements
<1>2. z \in Int /\ Names(z, z) /\ Names(v.x, xz) /\ Names(v.y, yz)
    BY HoldsNames
<1>3. Names(i, i) /\ i \in Int /\ Names(1, 1)
    BY NamesOfElements, ResidueUnits DEF Names
<1> HIDE DEF x, y
<1>4. k \in Int /\ Zero(k - 1)
  <2>1. Names(FMul(z, i), k)
      BY <1>2, <1>3, NamesCompute
  <2>2. k \in Int /\ Residue(k) = Residue(1) /\ 1 \in Int
      BY <1>3, <2>1 DEF Names, z
  <2> HIDE DEF k
  <2> QED
      BY <2>2, ZeroDifference
<1>5. ASSUME NEW c \in Int, Names(c, c), NEW e, Names(e, c * z) PROVE FMul(e, i) = c
  <2> DEFINE m == c * z
             n == m * i
             u == n - c
             l == k - 1
             o == 0
  <2>1. Names(FMul(e, i), n) /\ n \in Int
    <3> HIDE DEF m
    <3>1. Names(e, m)
        BY <1>5 DEF m
    <3>2. Names(FMul(e, i), n)
        BY <1>3, <3>1, NamesCompute
    <3> QED
        BY <3>2 DEF Names
  <2>2. Sum2(u, c, l, o, o)
      BY <1>2, <1>3 DEF Sum2
  <2>3. o \in Int /\ Zero(o) /\ Zero(l) /\ l \in Int
      BY <1>4, ResidueUnits DEF Zero
  <2> HIDE DEF l, o, n
  <2>4. Zero(n - c)
    <3> HIDE DEF u
    <3>1. Zero(u)
        BY <1>5, <2>2, <2>3, Vanishes
    <3> QED
        BY <3>1 DEF u
  <2>5. Names(FMul(e, i), c)
      BY <1>5, <2>1, <2>4, NamesAgree
  <2> QED
      BY <1>5, <2>5, NamesOfSame
<1>6. FMul(v.x, i) = x /\ FMul(v.y, i) = y
    BY <1>1, <1>2, <1>5
<1> QED
    BY <1>6 DEF FromProjective, Niels, x, y

\* What holds a point passes is_valid.
LEMMA HoldsIsValid ==
    ASSUME NEW q \in Points, NEW v, Holds(v, q)
    PROVE  IsValid(v)
<1> DEFINE x == q[1]
           y == q[2]
           z == v.z
           X == x * z
           Y == y * z
           T == (x * y) * z
<1>1. x \in Int /\ y \in Int /\ z \in Int /\ v.z # 0 /\ OnCurve(x, y)
    BY PointParts, HoldsNames DEF Holds
<1>2. Names(v.x, X) /\ Names(v.y, Y) /\ Names(v.z, z) /\ Names(v.t, T)
    BY HoldsNames
<1>3. X \in Int /\ Y \in Int /\ T \in Int
    BY <1>2 DEF Names
<1>4. EDWARDS_A \in Int /\ EDWARDS_D \in Int /\ Names(EDWARDS_A, EDWARDS_A) /\ Names(EDWARDS_D, EDWARDS_D)
    BY Coefficients, NamesOfElements
<1>5. X * Y = z * T
    BY <1>1, SMTT(20)
<1>6. FMul(v.x, v.y) = FMul(v.z, v.t)
  <2> DEFINE a == X * Y
             b == z * T
  <2> HIDE DEF X, Y, z, T
  <2>1. Names(FMul(v.x, v.y), a) /\ Names(FMul(v.z, v.t), b)
      BY <1>2, NamesCompute
  <2>2. a = b
      BY <1>5
  <2> HIDE DEF a, b
  <2> QED
      BY <2>1, <2>2, NamesOfSame
<1> DEFINE xx == X * X
           yy == Y * Y
           zz == z * z
<1>7. Names(FSquare(v.x), xx) /\ Names(FSquare(v.y), yy) /\ Names(FSquare(v.z), zz)
  <2> HIDE DEF X, Y, z
  <2> QED
      BY <1>2, NamesCompute DEF FSquare
<1> DEFINE ax == xx * EDWARDS_A
           dx == xx * EDWARDS_D
           l1 == ax * zz
           l2 == yy * zz
           r1 == zz * zz
           r2 == dx * yy
           left == FAdd(FMul(FMul(FSquare(v.x), EDWARDS_A), FSquare(v.z)), FMul(FSquare(v.y), FSquare(v.z)))
           right == FAdd(FSquare(FSquare(v.z)), FMul(FMul(FSquare(v.x), EDWARDS_D), FSquare(v.y)))
<1>8. Names(left, l1 + l2) /\ Names(right, r1 + r2)
  <2> HIDE DEF xx, yy, zz
  <2>1. Names(FMul(FSquare(v.x), EDWARDS_A), ax) /\ Names(FMul(FSquare(v.x), EDWARDS_D), dx)
      BY <1>4, <1>7, NamesCompute
  <2> HIDE DEF ax, dx
  <2>2. /\ Names(FMul(FMul(FSquare(v.x), EDWARDS_A), FSquare(v.z)), l1)
        /\ Names(FMul(FSquare(v.y), FSquare(v.z)), l2)
        /\ Names(FMul(FMul(FSquare(v.x), EDWARDS_D), FSquare(v.y)), r2)
      BY <1>7, <2>1, NamesCompute
  <2>3. Names(FSquare(FSquare(v.z)), r1)
    <3>1. Names(FMul(FSquare(v.z), FSquare(v.z)), r1)
        BY <1>7, NamesCompute
    <3> QED
        BY <3>1, Zenon DEF FSquare
  <2> HIDE DEF l1, l2, r1, r2
  <2> QED
      BY <2>2, <2>3, NamesCompute
<1>9. Zero((l1 + l2) - (r1 + r2)) /\ (r1 + r2) \in Int
  <2> DEFINE u == (l1 + l2) - (r1 + r2)
             l == Curve(x, y)
             k == zz * zz
             o == 0
  <2>1. Sum2(u, k, l, o, o)
    <3>1. u = k * l
        BY <1>1, <1>4, SMTT(60) DEF Curve
    <3>2. k * l \in Int
        BY <1>1, <1>4 DEF Curve
    <3> HIDE DEF u, k, l
    <3> QED
        BY <3>1, <3>2 DEF Sum2
  <2>2. o \in Int /\ Zero(o) /\ Zero(l) /\ l \in Int /\ k \in Int
      BY <1>1, <1>4, ResidueUnits DEF Zero, OnCurve, Curve
  <2>3. (r1 + r2) \in Int
      BY <1>1, <1>4
  <2> HIDE DEF l, o, k
  <2>4. Zero(u)
    <3> HIDE DEF u
    <3> QED
        BY <2>1, <2>2, Vanishes
  <2> QED
      BY <2>3, <2>4
<1>10. left = right
  <2> DEFINE m == l1 + l2
             n == r1 + r2
  <2>1. Names(left, m) /\ Names(right, n) /\ Zero(m - n) /\ n \in Int
      BY <1>8, <1>9
  <2> HIDE DEF m, n, left, right
  <2>2. Names(left, n)
      BY <2>1, NamesAgree
  <2> QED
      BY <2>1, <2>2, NamesOfSame
<1> QED
    BY <1>1, <1>6, <1>10 DEF IsValid

\* And a valid extended point with the coordinates of a point holds it.
LEMMA ValidHolds ==
    ASSUME NEW q \in Points, NEW v \in ExtendedPoints, IsValid(v),
           v.x = FMul(q[1], v.z), v.y = FMul(q[2], v.z)
    PROVE  Holds(v, q)
<1> DEFINE x == q[1]
           y == q[2]
           z == v.z
           t == v.t
           X == x * z
           Y == y * z
           T == (x * y) * z
<1>1. v.x \in Elements /\ v.y \in Elements /\ z \in Elements /\ t \in Elements
    BY DEF ExtendedPoints
<1>2. z # 0 /\ FMul(v.x, v.y) = FMul(z, t)
    BY DEF IsValid
<1>3. Names(x, x) /\ Names(y, y) /\ Names(z, z) /\ Names(t, t) /\ x \in Int /\ y \in Int /\ z \in Int /\ t \in Int
    BY <1>1, PointParts, NamesOfElements
<1>4. Names(v.x, X) /\ Names(v.y, Y)
  <2> HIDE DEF x, y, z
  <2>1. Names(FMul(x, z), x * z) /\ Names(FMul(y, z), y * z)
      BY <1>3, NamesCompute
  <2> QED
      BY <2>1 DEF x, y, z
<1>5. Names(FMul(FMul(x, y), z), T)
  <2> HIDE DEF x, y, z
  <2>1. Names(FMul(x, y), x * y)
      BY <1>3, NamesCompute
  <2> DEFINE k == x * y
  <2> HIDE DEF k
  <2>2. Names(FMul(FMul(x, y), z), k * z)
      BY <1>3, <2>1, NamesCompute DEF k
  <2> QED
      BY <2>2 DEF k
<1>6. X * Y = z * T /\ X \in Int /\ Y \in Int /\ T \in Int
    BY <1>3, SMTT(20)
<1>7. z * T \in Int /\ z * t \in Int /\ z * (T - t) = z * T - z * t
    BY <1>3, <1>6
<1>8. Zero(z * T - z * t)
  <2> DEFINE a == X * Y
             b == z * t
  <2> HIDE DEF X, Y, z, t
  <2>1. Names(FMul(v.x, v.y), a) /\ Names(FMul(z, t), b)
      BY <1>3, <1>4, NamesCompute
  <2> HIDE DEF a, b
  <2>2. Zero(a - b)
    <3>1. a \in Int /\ b \in Int /\ Residue(a) = Residue(b)
        BY <1>2, <2>1 DEF Names
    <3> QED
        BY <3>1, ZeroDifference
  <2> QED
      BY <1>6, <2>2 DEF a, b
<1>9. Zero(T - t)
  <2> DEFINE d == T - t
  <2>1. d \in Int /\ Zero(z * d)
      BY <1>3, <1>6, <1>7, <1>8
  <2>2. ~Zero(z)
      BY <1>1, <1>2, ResidueTyped DEF Zero
  <2> HIDE DEF d
  <2>3. Zero(d)
      BY <1>3, <2>1, <2>2, ZeroFactor
  <2> QED
      BY <2>3 DEF d
<1>10. t = FMul(FMul(x, y), z)
  <2> HIDE DEF t, T, x, y, z
  <2>1. Names(FMul(FMul(x, y), z), t)
      BY <1>3, <1>5, <1>9, NamesAgree
  <2> QED
      BY <1>3, <2>1, NamesOfSame
<1> QED
    BY <1>2, <1>10 DEF Holds

\* Standing for a multiple of the base point is holding it.
LEMMA RepresentsHolds ==
    ASSUME NEW n \in Int, NEW v
    PROVE  Represents(v, n) <=> Holds(v, BaseMultiple(n))
<1>1. BaseMultiple(n) \in Points
    BY MultipleSteps, ConstantsHold DEF BaseMultiple
<1>2. ASSUME Represents(v, n) PROVE Holds(v, BaseMultiple(n))
    BY <1>1, <1>2, ValidHolds DEF Represents, StandsForMultiple
<1>3. ASSUME Holds(v, BaseMultiple(n)) PROVE Represents(v, n)
  <2>1. IsValid(v)
      BY <1>1, <1>3, HoldsIsValid
  <2> QED
      BY <1>3, <2>1 DEF Represents, StandsForMultiple, Holds
<1> QED
    BY <1>2, <1>3

\* The test for the identity of an extended point.
LEMMA IdentityIsTested ==
    ASSUME NEW q \in Points, NEW v, Holds(v, q)
    PROVE  v.x = 0 /\ v.y = v.z <=> q = Neutral
<1> DEFINE x == q[1]
           y == q[2]
           z == v.z
<1>1. x \in Int /\ y \in Int /\ z \in Int /\ x \in Elements /\ y \in Elements /\ q = <<x, y>> /\ ~Zero(z)
    BY PointParts, HoldsNames
<1>2. Names(v.x, x * z) /\ Names(v.y, y * z) /\ Names(z, z)
    BY HoldsNames
<1>3. 0 \in Elements /\ 1 \in Elements /\ Residue(0) = 0 /\ Residue(1) = 1
    BY ResidueUnits
<1> HIDE DEF x, y, z
<1>4. ASSUME v.x = 0 PROVE x = 0
  <2>1. Zero(x * z)
      BY <1>2, <1>4 DEF Names, Zero
  <2>2. Zero(x)
      BY <1>1, <2>1, ZeroFactor
  <2>3. x - 0 = x
      BY <1>1
  <2> QED
      BY <1>1, <1>3, <2>2, <2>3, ElementsEqual
<1>5. ASSUME v.y = z PROVE y = 1
  <2> DEFINE m == y * z
             d == y - 1
  <2>1. Residue(m) = Residue(z) /\ m \in Int
      BY <1>2, <1>5 DEF Names
  <2>2. Zero(m - z)
      BY <1>1, <2>1, ZeroDifference
  <2>3. m - z = d * z /\ d \in Int
      BY <1>1
  <2>4. Zero(d * z)
      BY <2>2, <2>3
  <2> HIDE DEF d
  <2>5. Zero(d)
      BY <1>1, <2>3, <2>4, ZeroFactor
  <2> QED
      BY <1>1, <1>3, <2>5, ElementsEqual DEF d
<1>6. ASSUME q = Neutral PROVE v.x = 0 /\ v.y = z
  <2>1. x = 0 /\ y = 1
      BY <1>6 DEF x, y, Neutral
  <2>2. x * z = 0 /\ y * z = z
      BY <1>1, <2>1
  <2> QED
      BY <1>2, <1>3, <2>2 DEF Names
<1> QED
    BY <1>1, <1>4, <1>5, <1>6 DEF Neutral, z

\* Multiplication of elements is associative and commutative.
LEMMA ProductsAssociate ==
    ASSUME NEW a \in Elements, NEW b \in Elements, NEW c \in Elements
    PROVE  /\ FMul(a, b) \in Elements /\ FMul(a, b) = FMul(b, a)
           /\ FMul(FMul(a, b), c) = FMul(a, FMul(b, c))
<1> DEFINE ab == a * b
           bc == b * c
           l == ab * c
           r == a * bc
<1>1. a \in Int /\ b \in Int /\ c \in Int /\ Names(a, a) /\ Names(b, b) /\ Names(c, c)
    BY NamesOfElements
<1>2. Names(FMul(a, b), ab) /\ Names(FMul(b, c), bc) /\ Names(FMul(b, a), b * a)
    BY <1>1, NamesCompute
<1>3. b * a = ab /\ l = r
    BY <1>1, SMTT(20)
<1> HIDE DEF ab, bc
<1>4. Names(FMul(FMul(a, b), c), l) /\ Names(FMul(a, FMul(b, c)), r)
    BY <1>1, <1>2, NamesCompute
<1> HIDE DEF l, r
<1>5. FMul(a, b) \in Elements
    BY <1>1, NamesCompute
<1> QED
    BY <1>2, <1>3, <1>4, <1>5, NamesOfSame

\* A product of elements other than zero is not zero, and what has an inverse
\* is not zero.
LEMMA ProductsOfUnits ==
    ASSUME NEW a \in Elements, NEW b \in Elements
    PROVE  /\ a # 0 /\ b # 0 => FMul(a, b) # 0
           /\ FMul(a, b) = 1 => a # 0 /\ b # 0
<1>1. a \in Int /\ b \in Int /\ Names(a, a) /\ Names(b, b) /\ 1 \in Elements /\ Residue(0) = 0
    BY NamesOfElements, ResidueUnits
<1>2. Names(FMul(a, b), a * b)
    BY <1>1, NamesCompute
<1>3. ASSUME FMul(a, b) = 0 PROVE a = 0 \/ b = 0
  <2>1. Zero(a * b)
      BY <1>2, <1>3 DEF Names, Zero
  <2>2. Zero(a) \/ Zero(b)
      BY <1>1, <2>1, ZeroFactor
  <2> QED
      BY <1>1, <2>2 DEF Names, Zero
<1>4. ASSUME FMul(a, b) = 1, a = 0 \/ b = 0 PROVE FALSE
  <2>1. a * b = 0
      BY <1>1, <1>4
  <2>2. FMul(a, b) = 0
      BY <1>1, <1>2, <2>1 DEF Names
  <2> QED
      BY <1>4, <2>2
<1> QED
    BY <1>3, <1>4

\* A value and a step for every index up to n make a sequence of values.
Iterated(f, V, start, n, g) ==
    f \in [0 .. n -> V] /\ f[0] = start /\ \A i \in 1 .. n : f[i] = g[i][f[i - 1]]

\* It exists.
LEMMA Iterates ==
    ASSUME NEW V, NEW start \in V, NEW n \in Nat, NEW g, \A i \in 1 .. n : g[i] \in [V -> V]
    PROVE  \E f : Iterated(f, V, start, n, g)
<1> DEFINE S == {m \in Nat : m <= n => \E f : Iterated(f, V, start, m, g)}
<1>1. 0 \in S
  <2>1. Iterated([i \in 0 .. 0 |-> start], V, start, 0, g)
      BY DEF Iterated
  <2> QED
      BY <2>1
<1>2. ASSUME NEW m \in S PROVE m + 1 \in S
  <2>1. m \in Nat /\ m + 1 \in Nat
      OBVIOUS
  <2> SUFFICES ASSUME m + 1 <= n PROVE \E f : Iterated(f, V, start, m + 1, g)
      BY <2>1
  <2>2. PICK f : Iterated(f, V, start, m, g)
      BY <2>1
  <2> DEFINE k == m + 1
             e == [i \in 0 .. k |-> IF i = k THEN g[k][f[m]] ELSE f[i]]
  <2>3. g[k] \in [V -> V] /\ f[m] \in V /\ k - 1 = m
      BY <2>1, <2>2 DEF Iterated
  <2>4. g[k][f[m]] \in V
      BY <2>3
  <2>5. e \in [0 .. k -> V]
      BY <2>1, <2>2, <2>4 DEF Iterated
  <2>6. e[0] = start
      BY <2>1, <2>2 DEF Iterated
  <2>7. ASSUME NEW i \in 1 .. k PROVE e[i] = g[i][e[i - 1]]
    <3>1. CASE i = k
        BY <2>1, <2>2, <2>3, <3>1 DEF Iterated
    <3>2. CASE i \in 1 .. m
        BY <2>1, <2>2, <3>2 DEF Iterated
    <3> QED
        BY <2>1, <3>1, <3>2
  <2>8. Iterated(e, V, start, k, g)
      BY <2>5, <2>6, <2>7 DEF Iterated
  <2> QED
      BY <2>8
<1>3. S = Nat
  <2> HIDE DEF S
  <2>1. S \in SUBSET Nat
      BY DEF S
  <2> QED
      BY <1>1, <1>2, <2>1, SetInduction
<1>4. n \in S
  <2> HIDE DEF S
  <2> QED
      BY <1>3
<1> QED
    BY <1>4

\* A property that starts and is kept up to n.
LEMMA BoundedInduction ==
    ASSUME NEW n \in Nat, NEW S, 0 \in S, \A i \in 0 .. n - 1 : i \in S => i + 1 \in S
    PROVE  \A i \in 0 .. n : i \in S
<1> DEFINE T == {i \in Nat : i <= n => i \in S}
<1>1. 0 \in T
    OBVIOUS
<1>2. ASSUME NEW i \in T PROVE i + 1 \in T
    OBVIOUS
<1>3. T = Nat
  <2>1. T \in SUBSET Nat
      OBVIOUS
  <2> HIDE DEF T
  <2> QED
      BY <1>1, <1>2, <2>1, SetInduction
<1> QED
    BY <1>3

\* The products of the z, the inverses taken apart from them, and the table
\* entries they give.
LEMMA BatchNormalizes ==
    ASSUME NEW points, Len(points) \in Nat, NEW q,
           \A i \in 1 .. Len(points) : q[i] \in Points /\ Holds(points[i], q[i])
    PROVE  BatchNormalize(points) = [i \in 1 .. Len(points) |-> Niels(q[i])]
<1> DEFINE n == Len(points)
           Products(f) == [i \in 0 .. n |-> IF i = 0 THEN 1 ELSE FMul(f[i - 1], points[i].z)]
           product == CHOOSE f : f = Products(f)
           Inverses(f) == [i \in 0 .. n |->
               IF i = n THEN FInvert(product[n]) ELSE FMul(f[i + 1], points[i + 1].z)]
           inverse == CHOOSE f : f = Inverses(f)
<1>1. BatchNormalize(points)
        = [i \in 1 .. n |-> FromProjective(points[i], FMul(inverse[i], product[i - 1]))]
    BY Zenon DEF BatchNormalize
<1>0. n \in Nat /\ \A i \in 1 .. n : q[i] \in Points /\ Holds(points[i], q[i])
    OBVIOUS
<1> HIDE DEF n
<1>2. 1 \in Elements /\ 1 # 0
    BY ResidueUnits
<1>3. \A i \in 1 .. n : points[i].z \in Elements /\ points[i].z # 0
    BY <1>0 DEF Holds, ExtendedPoints
<1>4. \A a, b \in Elements : FMul(a, b) \in Elements
    BY ProductsAssociate
<1>5. product = Products(product)
  <2> DEFINE g == [i \in 1 .. n |-> [e \in Elements |-> FMul(e, points[i].z)]]
  <2>1. \A i \in 1 .. n : g[i] \in [Elements -> Elements]
      BY <1>0, <1>3, <1>4
  <2>2. \A i \in 1 .. n : \A e \in Elements : g[i][e] = FMul(e, points[i].z)
      BY <1>0
  <2> HIDE DEF g
  <2>3. PICK f : Iterated(f, Elements, 1, n, g)
      BY <1>0, <1>2, <2>1, Iterates
  <2>4. \A i \in 0 .. n : f[i] = IF i = 0 THEN 1 ELSE FMul(f[i - 1], points[i].z)
    <3> TAKE i \in 0 .. n
    <3>1. CASE i = 0
        BY <1>0, <2>3, <3>1 DEF Iterated
    <3>2. CASE i # 0
      <4>1. i \in 1 .. n /\ i - 1 \in 0 .. n
          BY <1>0, <3>2
      <4>2. f[i] = g[i][f[i - 1]] /\ f[i - 1] \in Elements
          BY <1>0, <2>3, <4>1 DEF Iterated
      <4> QED
          BY <1>0, <2>2, <3>2, <4>1, <4>2
    <3> QED
        BY <1>0, <3>1, <3>2
  <2>5. f = Products(f)
      BY <1>0, <2>3, <2>4 DEF Iterated
  <2> QED
      BY <1>0, <2>5, Zenon
<1> HIDE DEF product
<1>6. \A i \in 0 .. n : product[i] \in Elements /\ product[i] # 0
  <2> DEFINE S == {i \in 0 .. n : product[i] \in Elements /\ product[i] # 0}
  <2>1. 0 \in S
      BY <1>0, <1>2, <1>5
  <2>2. ASSUME NEW i \in 0 .. n - 1, i \in S PROVE i + 1 \in S
    <3>1. i + 1 \in 1 .. n /\ (i + 1) - 1 = i /\ i + 1 # 0
        BY <1>0, <2>2
    <3>2. product[i + 1] = FMul(product[i], points[i + 1].z)
        BY <1>0, <1>5, <3>1
    <3>3. points[i + 1].z \in Elements /\ points[i + 1].z # 0 /\ product[i] \in Elements /\ product[i] # 0
        BY <1>0, <1>3, <2>2, <3>1
    <3>4. FMul(product[i], points[i + 1].z) \in Elements /\ FMul(product[i], points[i + 1].z) # 0
        BY <1>0, <3>3, ProductsOfUnits, ProductsAssociate
    <3> QED
        BY <1>0, <3>1, <3>2, <3>4
  <2> HIDE DEF S
  <2>3. \A i \in 0 .. n : i \in S
      BY <1>0, <2>1, <2>2, BoundedInduction
  <2> QED
      BY <1>0, <2>3 DEF S
<1>7. inverse = Inverses(inverse)
  <2> DEFINE g == [i \in 1 .. n |-> [e \in Elements |-> FMul(e, points[(n - i) + 1].z)]]
             start == FInvert(product[n])
  <2>1. \A i \in 1 .. n : g[i] \in [Elements -> Elements]
    <3>1. \A i \in 1 .. n : (n - i) + 1 \in 1 .. n
        BY <1>0
    <3> QED
        BY <1>0, <1>3, <1>4, <3>1
  <2>2. \A i \in 1 .. n : \A e \in Elements : g[i][e] = FMul(e, points[(n - i) + 1].z)
      BY <1>0
  <2>3. start \in Elements
      BY <1>0, <1>6, InvertFinds
  <2> HIDE DEF g, start
  <2>4. PICK f : Iterated(f, Elements, start, n, g)
      BY <1>0, <2>1, <2>3, Iterates
  <2> DEFINE h == [i \in 0 .. n |-> f[n - i]]
  <2>5. \A i \in 0 .. n : h[i] = IF i = n THEN start ELSE FMul(h[i + 1], points[i + 1].z)
    <3> TAKE i \in 0 .. n
    <3>1. CASE i = n
        BY <1>0, <2>4, <3>1 DEF Iterated
    <3>2. CASE i # n
      <4> DEFINE k == n - i
      <4>1. k \in 1 .. n /\ k # 0 /\ k - 1 \in 0 .. n /\ n - (i + 1) = k - 1 /\ i + 1 \in 0 .. n
            /\ (n - k) + 1 = i + 1
          BY <1>0, <3>2
      <4>2. h[i] = f[k] /\ h[i + 1] = f[k - 1]
          BY <1>0, <4>1
      <4> HIDE DEF k
      <4>3. f[k] = g[k][f[k - 1]] /\ f[k - 1] \in Elements
          BY <1>0, <2>4, <4>1 DEF Iterated
      <4>4. g[k][f[k - 1]] = FMul(f[k - 1], points[i + 1].z)
          BY <1>0, <2>2, <4>1, <4>3
      <4> QED
          BY <1>0, <3>2, <4>2, <4>3, <4>4
    <3> QED
        BY <1>0, <3>1, <3>2
  <2>6. h = Inverses(h)
      BY <1>0, <2>5 DEF start
  <2> QED
      BY <1>0, <2>6, Zenon
<1> HIDE DEF inverse
<1>8. \A i \in 0 .. n : inverse[i] \in Elements /\ FMul(product[i], inverse[i]) = 1
  <2> DEFINE S == {i \in 0 .. n : inverse[n - i] \in Elements /\ FMul(product[n - i], inverse[n - i]) = 1}
  <2>1. 0 \in S
    <3>1. n - 0 = n /\ n \in 0 .. n /\ inverse[n] = FInvert(product[n])
        BY <1>0, <1>7
    <3>2. FInvert(product[n]) \in Elements /\ FMul(product[n], FInvert(product[n])) = 1
        BY <1>0, <1>6, <3>1, InvertFinds
    <3> QED
        BY <1>0, <3>1, <3>2
  <2>2. ASSUME NEW i \in 0 .. n - 1, i \in S PROVE i + 1 \in S
    <3> DEFINE k == n - (i + 1)
               z == points[k + 1].z
    <3>1. k \in 0 .. n - 1 /\ k \in 0 .. n /\ k # n /\ k + 1 = n - i /\ k + 1 \in 1 .. n /\ k + 1 \in 0 .. n
          /\ (k + 1) - 1 = k /\ k + 1 # 0
        BY <1>0, <2>2
    <3> HIDE DEF k
    <3>2. inverse[k] = FMul(inverse[k + 1], z) /\ product[k + 1] = FMul(product[k], z)
        BY <1>0, <1>5, <1>7, <3>1
    <3>3. inverse[k + 1] \in Elements /\ FMul(product[k + 1], inverse[k + 1]) = 1
        BY <1>0, <2>2, <3>1
    <3>4. z \in Elements /\ product[k] \in Elements
        BY <1>0, <1>3, <1>6, <3>1
    <3> HIDE DEF z
    <3>5. FMul(FMul(product[k], z), inverse[k + 1]) = FMul(product[k], FMul(z, inverse[k + 1]))
        BY <1>0, <3>3, <3>4, ProductsAssociate
    <3>6. FMul(z, inverse[k + 1]) = FMul(inverse[k + 1], z) /\ FMul(inverse[k + 1], z) \in Elements
        BY <1>0, <3>3, <3>4, ProductsAssociate
    <3>7. inverse[k] \in Elements /\ FMul(product[k], inverse[k]) = 1
        BY <1>0, <3>2, <3>3, <3>5, <3>6
    <3> QED
        BY <1>0, <2>2, <3>7 DEF k
  <2> HIDE DEF S
  <2>3. \A i \in 0 .. n : i \in S
      BY <1>0, <2>1, <2>2, BoundedInduction
  <2> TAKE i \in 0 .. n
  <2>4. n - i \in 0 .. n /\ n - (n - i) = i
      BY <1>0
  <2>5. n - i \in S
      BY <1>0, <2>3, <2>4 DEF Iterated
  <2> QED
      BY <1>0, <2>4, <2>5 DEF S
<1>9. ASSUME NEW i \in 1 .. n
      PROVE  FromProjective(points[i], FMul(inverse[i], product[i - 1])) = Niels(q[i])
  <2> DEFINE z == points[i].z
             k == inverse[i]
             a == product[i - 1]
  <2>1. i \in 0 .. n /\ i - 1 \in 0 .. n /\ i # 0
      BY <1>0
  <2>2. z \in Elements /\ k \in Elements /\ a \in Elements /\ FMul(product[i], k) = 1 /\ product[i] = FMul(a, z)
      BY <1>0, <1>3, <1>5, <1>6, <1>8, <2>1
  <2> HIDE DEF z, k, a
  <2>3. FMul(k, a) \in Elements /\ FMul(z, FMul(k, a)) = 1
    <3>1. FMul(k, a) \in Elements /\ FMul(z, FMul(k, a)) = FMul(FMul(k, a), z)
        BY <1>0, <2>2, ProductsAssociate
    <3>2. FMul(FMul(k, a), z) = FMul(k, FMul(a, z)) /\ FMul(a, z) \in Elements
        BY <1>0, <2>2, ProductsAssociate
    <3>3. FMul(k, FMul(a, z)) = FMul(FMul(a, z), k)
        BY <1>0, <2>2, <3>2, ProductsAssociate
    <3> QED
        BY <1>0, <2>2, <3>1, <3>2, <3>3
  <2>4. FMul(points[i].z, FMul(k, a)) = 1
      BY <1>0, <2>3 DEF z
  <2>5. FromProjective(points[i], FMul(k, a)) = Niels(q[i])
      BY <1>0, <2>3, <2>4, NormalizedIsNiels
  <2> QED
      BY <1>0, <2>5 DEF k, a
<1> QED
    BY <1>1, <1>9 DEF n

\* The formulas compute extended points.
LEMMA FormulasTyped ==
    ASSUME NEW v \in ExtendedPoints, NEW w \in ExtendedPoints
    PROVE  Add(v, w) \in ExtendedPoints /\ Double(v) \in ExtendedPoints
<1>1. \A a, b \in Elements : FMul(a, b) \in Elements /\ FAdd(a, b) \in Elements /\ FSub(a, b) \in Elements
    BY NamesOfElements, NamesCompute DEF Names
<1>2. EDWARDS_A \in Elements /\ EDWARDS_D \in Elements
    BY Coefficients
<1>3. /\ v.x \in Elements /\ v.y \in Elements /\ v.z \in Elements /\ v.t \in Elements
      /\ w.x \in Elements /\ w.y \in Elements /\ w.z \in Elements /\ w.t \in Elements
    BY DEF ExtendedPoints
<1>4. \A c, d, s, t \in Elements : Assemble(c, d, s, t) \in ExtendedPoints
    BY <1>1 DEF Assemble, ExtendedPoints
<1>5. Add(v, w) \in ExtendedPoints
  <2> DEFINE xx == FMul(v.x, w.x)
             yy == FMul(v.y, w.y)
             dt == FMul(FMul(v.t, EDWARDS_D), w.t)
             zz == FMul(v.z, w.z)
             cross == FSub(FMul(FAdd(v.x, v.y), FAdd(w.x, w.y)), FAdd(xx, yy))
             difference == FSub(zz, dt)
             sum == FAdd(zz, dt)
             twisted == FSub(yy, FMul(xx, EDWARDS_A))
  <2>1. Add(v, w) = Assemble(cross, difference, sum, twisted)
      BY Zenon DEF Add
  <2>2. xx \in Elements /\ yy \in Elements /\ dt \in Elements /\ zz \in Elements
      BY <1>1, <1>2, <1>3
  <2> HIDE DEF xx, yy, dt, zz
  <2>3. cross \in Elements /\ difference \in Elements /\ sum \in Elements /\ twisted \in Elements
      BY <1>1, <1>2, <1>3, <2>2
  <2> HIDE DEF cross, difference, sum, twisted
  <2> QED
      BY <1>4, <2>1, <2>3
<1>6. Double(v) \in ExtendedPoints
  <2> DEFINE xx == FMul(v.x, v.x)
             yy == FMul(v.y, v.y)
             zz == FMul(v.z, v.z)
             twistedXX == FMul(xx, EDWARDS_A)
             cross == FSub(FMul(FAdd(v.x, v.y), FAdd(v.x, v.y)), FAdd(xx, yy))
             sum == FAdd(twistedXX, yy)
             difference == FSub(sum, FAdd(zz, zz))
             twisted == FSub(twistedXX, yy)
  <2>1. Double(v) = Assemble(cross, difference, sum, twisted)
      BY Zenon DEF Double, FSquare
  <2>2. xx \in Elements /\ yy \in Elements /\ zz \in Elements
      BY <1>1, <1>2, <1>3
  <2> HIDE DEF xx, yy, zz
  <2>3. twistedXX \in Elements
      BY <1>1, <1>2, <2>2
  <2> HIDE DEF twistedXX
  <2>4. cross \in Elements /\ sum \in Elements /\ difference \in Elements /\ twisted \in Elements
      BY <1>1, <1>3, <2>2, <2>3
  <2> HIDE DEF cross, difference, sum, twisted
  <2> QED
      BY <1>4, <2>1, <2>4
<1> QED
    BY <1>5, <1>6

\* Twice a multiple, and one more.
LEMMA MultiplesDouble ==
    ASSUME NEW q \in Points, NEW n \in Int
    PROVE  /\ AffineSum(PointMultiple(n, q), PointMultiple(n, q)) = PointMultiple(2 * n, q)
           /\ AffineSum(PointMultiple(n, q), q) = PointMultiple(n + 1, q)
<1>1. n + n = 2 * n
    OBVIOUS
<1> QED
    BY <1>1, MultiplesAdd, MultipleSteps

\* The chain of doublings that leads from a row's first point to the next's.
Doublings(v) ==
    LET doubled[i \in 0 .. 8] == IF i = 0 THEN v ELSE Double(doubled[i - 1]) IN doubled[8]

\* It multiplies by 256.
LEMMA EightDoublings ==
    ASSUME NEW v \in ExtendedPoints
    PROVE  /\ Doublings(v) \in ExtendedPoints
           /\ \A q \in Points : Holds(v, q) => Holds(Doublings(v), PointMultiple(256, q))
<1> DEFINE Doubled(f) == [i \in 0 .. 8 |-> IF i = 0 THEN v ELSE Double(f[i - 1])]
           d == CHOOSE f : f = Doubled(f)
           g == [i \in 1 .. 8 |-> [w \in ExtendedPoints |-> Double(w)]]
<1>1. Doublings(v) = d[8]
    BY Zenon DEF Doublings
<1>2. 8 \in Nat /\ \A i \in 1 .. 8 : g[i] \in [ExtendedPoints -> ExtendedPoints]
    BY FormulasTyped
<1>3. \A i \in 1 .. 8 : \A w \in ExtendedPoints : g[i][w] = Double(w)
    OBVIOUS
<1> HIDE DEF g
<1>4. PICK f : Iterated(f, ExtendedPoints, v, 8, g)
    BY <1>2, Iterates
<1>5. f = Doubled(f)
  <2>1. \A i \in 0 .. 8 : f[i] = IF i = 0 THEN v ELSE Double(f[i - 1])
    <3> TAKE i \in 0 .. 8
    <3>1. CASE i = 0
        BY <1>4, <3>1 DEF Iterated
    <3>2. CASE i # 0
      <4>1. i \in 1 .. 8 /\ i - 1 \in 0 .. 8
          BY <3>2
      <4>2. f[i] = g[i][f[i - 1]] /\ f[i - 1] \in ExtendedPoints
          BY <1>4, <4>1 DEF Iterated
      <4> QED
          BY <1>3, <3>2, <4>1, <4>2
    <3> QED
        BY <3>1, <3>2
  <2> QED
      BY <1>4, <2>1 DEF Iterated
<1>6. d = Doubled(d)
    BY <1>5, Zenon
<1> HIDE DEF d
<1>7. d[0] = v /\ \A i \in 0 .. 7 : d[i + 1] = Double(d[i])
  <2>1. \A i \in 0 .. 7 : i + 1 \in 0 .. 8 /\ i + 1 # 0 /\ (i + 1) - 1 = i
      OBVIOUS
  <2> QED
      BY <1>6, <2>1
<1>8. \A i \in 0 .. 8 : d[i] \in ExtendedPoints
  <2> DEFINE S == {i \in 0 .. 8 : d[i] \in ExtendedPoints}
  <2>1. 0 \in S
      BY <1>7
  <2>2. ASSUME NEW i \in 0 .. 8 - 1, i \in S PROVE i + 1 \in S
      BY <1>7, <2>2, FormulasTyped
  <2> HIDE DEF S
  <2>3. \A i \in 0 .. 8 : i \in S
      BY <2>1, <2>2, BoundedInduction
  <2> QED
      BY <2>3 DEF S
<1>9. ASSUME NEW q \in Points, Holds(v, q) PROVE Holds(d[8], PointMultiple(256, q))
  <2>1. ASSUME NEW i \in 0 .. 7, NEW n \in Int, Holds(d[i], PointMultiple(n, q))
        PROVE  Holds(d[i + 1], PointMultiple(2 * n, q))
    <3>1. PointMultiple(n, q) \in Points
        BY MultipleSteps
    <3>2. Holds(Double(d[i]), AffineSum(PointMultiple(n, q), PointMultiple(n, q)))
        BY <2>1, <3>1, DoublesHold
    <3> QED
        BY <1>7, <3>2, MultiplesDouble
  <2>2. Holds(d[0], PointMultiple(1, q))
      BY <1>7, <1>9, MultipleOfOne
  <2>3. /\ 0 + 1 = 1 /\ 1 + 1 = 2 /\ 2 + 1 = 3 /\ 3 + 1 = 4 /\ 4 + 1 = 5 /\ 5 + 1 = 6 /\ 6 + 1 = 7 /\ 7 + 1 = 8
        /\ 2 * 1 = 2 /\ 2 * 2 = 4 /\ 2 * 4 = 8 /\ 2 * 8 = 16 /\ 2 * 16 = 32 /\ 2 * 32 = 64 /\ 2 * 64 = 128
        /\ 2 * 128 = 256
      OBVIOUS
  <2>4. Holds(d[1], PointMultiple(2, q))
      BY <2>1, <2>2, <2>3
  <2>5. Holds(d[2], PointMultiple(4, q))
      BY <2>1, <2>3, <2>4
  <2>6. Holds(d[3], PointMultiple(8, q))
      BY <2>1, <2>3, <2>5
  <2>7. Holds(d[4], PointMultiple(16, q))
      BY <2>1, <2>3, <2>6
  <2>8. Holds(d[5], PointMultiple(32, q))
      BY <2>1, <2>3, <2>7
  <2>9. Holds(d[6], PointMultiple(64, q))
      BY <2>1, <2>3, <2>8
  <2>10. Holds(d[7], PointMultiple(128, q))
      BY <2>1, <2>3, <2>9
  <2> QED
      BY <2>1, <2>3, <2>10
<1> QED
    BY <1>1, <1>8, <1>9

\* The weights of the rows: each is 256 times the one before.
Weighted(W) ==
    /\ FIELD_BYTES \in Nat \ {0} /\ W[0] = 1
    /\ \A r \in 0 .. FIELD_BYTES - 1 : W[r] \in Int /\ (r # 0 => W[r] = 256 * W[r - 1])

\* Row r starts at the multiple of the base point by its weight.
LEMMA RowsStart ==
    ASSUME NEW W, Weighted(W)
    PROVE  \A r \in 0 .. FIELD_BYTES - 1 : Holds(RowBase[r], BaseMultiple(W[r]))
<1> DEFINE Bases(f) == [r \in 0 .. FIELD_BYTES - 1 |->
               IF r = 0 THEN Basepoint ELSE Doublings(f[r - 1])]
           n == FIELD_BYTES - 1
           g == [r \in 1 .. n |-> [w \in ExtendedPoints |-> Doublings(w)]]
<1>0. /\ FIELD_BYTES \in Nat \ {0} /\ W[0] = 1
      /\ \A r \in 0 .. FIELD_BYTES - 1 : W[r] \in Int /\ (r # 0 => W[r] = 256 * W[r - 1])
    BY DEF Weighted
<1>1. RowBase = CHOOSE f : f = Bases(f)
    BY Zenon DEF RowBase, Doublings
<1>2. n \in Nat /\ \A r \in 1 .. n : g[r] \in [ExtendedPoints -> ExtendedPoints]
    BY <1>0, EightDoublings
<1>3. \A r \in 1 .. n : \A w \in ExtendedPoints : g[r][w] = Doublings(w)
    OBVIOUS
<1>4. Basepoint \in ExtendedPoints /\ BasePoint \in Points /\ Holds(Basepoint, BasePoint)
    BY ConstantsHold DEF Holds
<1> HIDE DEF g, n
<1>5. PICK f : Iterated(f, ExtendedPoints, Basepoint, n, g)
    BY <1>2, <1>4, Iterates
<1>6. f = Bases(f)
  <2>1. \A r \in 0 .. n : f[r] = IF r = 0 THEN Basepoint ELSE Doublings(f[r - 1])
    <3> TAKE r \in 0 .. n
    <3>1. CASE r = 0
        BY <1>5, <3>1 DEF Iterated
    <3>2. CASE r # 0
      <4>1. r \in 1 .. n /\ r - 1 \in 0 .. n
          BY <1>2, <3>2
      <4>2. f[r] = g[r][f[r - 1]] /\ f[r - 1] \in ExtendedPoints
          BY <1>5, <4>1 DEF Iterated
      <4> QED
          BY <1>3, <3>2, <4>1, <4>2
    <3> QED
        BY <3>1, <3>2
  <2> QED
      BY <1>5, <2>1 DEF Iterated, n
<1>7. RowBase = Bases(RowBase)
    BY <1>1, <1>6, Zenon
<1>8. RowBase[0] = Basepoint /\ \A r \in 0 .. n - 1 : RowBase[r + 1] = Doublings(RowBase[r])
  <2>1. \A r \in 0 .. n - 1 : r + 1 \in 0 .. FIELD_BYTES - 1 /\ r + 1 # 0 /\ (r + 1) - 1 = r
      BY <1>0, <1>2 DEF n
  <2>2. 0 \in 0 .. FIELD_BYTES - 1
      BY <1>0
  <2>3. \A r \in 0 .. FIELD_BYTES - 1 : RowBase[r] = IF r = 0 THEN Basepoint ELSE Doublings(RowBase[r - 1])
    <3> DEFINE b == RowBase
    <3>1. b = Bases(b)
        BY <1>7
    <3> HIDE DEF b
    <3>2. \A r \in 0 .. FIELD_BYTES - 1 : b[r] = IF r = 0 THEN Basepoint ELSE Doublings(b[r - 1])
        BY <3>1
    <3> QED
        BY <3>2 DEF b
  <2> QED
      BY <2>1, <2>2, <2>3
<1> DEFINE S == {r \in 0 .. n : Holds(RowBase[r], BaseMultiple(W[r]))}
<1>9. 0 \in S
    BY <1>0, <1>2, <1>4, <1>8, MultipleOfOne DEF BaseMultiple
<1>10. ASSUME NEW r \in 0 .. n - 1, r \in S PROVE r + 1 \in S
  <2>1. r + 1 \in 0 .. n /\ W[r] \in Int /\ W[r + 1] = 256 * W[r] /\ r \in 0 .. n
    <3>1. r \in 0 .. n /\ r + 1 \in 0 .. n /\ r + 1 # 0 /\ (r + 1) - 1 = r
        BY <1>2
    <3> QED
        BY <1>0, <3>1 DEF n
  <2>2. Holds(RowBase[r], BaseMultiple(W[r])) /\ BaseMultiple(W[r]) \in Points
      BY <1>4, <1>10, <2>1, MultipleSteps DEF BaseMultiple
  <2>3. Holds(Doublings(RowBase[r]), PointMultiple(256, BaseMultiple(W[r])))
      BY <2>2, EightDoublings DEF Holds
  <2>4. PointMultiple(256, BaseMultiple(W[r])) = BaseMultiple(256 * W[r])
      BY <1>4, <2>1, MultiplesMultiply DEF BaseMultiple
  <2>5. Holds(RowBase[r + 1], BaseMultiple(W[r + 1]))
      BY <1>8, <2>1, <2>3, <2>4
  <2> QED
      BY <2>1, <2>5
<1>11. \A r \in 0 .. n : r \in S
  <2> HIDE DEF S
  <2> QED
      BY <1>2, <1>9, <1>10, BoundedInduction
<1> QED
    BY <1>11 DEF n

\* The entries of a row are the first eight multiples of its first point.
LEMMA RowsHold ==
    ASSUME NEW r, NEW q \in Points, Holds(RowBase[r], q)
    PROVE  \A e \in 0 .. 7 : Holds(Row(r)[e], PointMultiple(e + 1, q))
<1> DEFINE v == RowBase[r]
           Entries(f) == [e \in 0 .. BASEPOINT_TABLE_WIDTH - 1 |-> IF e = 0 THEN v ELSE Add(f[e - 1], v)]
           d == CHOOSE f : f = Entries(f)
           g == [i \in 1 .. 7 |-> [w \in ExtendedPoints |-> Add(w, v)]]
<1>1. Row(r) = d
    BY Zenon DEF Row
<1>2. BASEPOINT_TABLE_WIDTH - 1 = 7 /\ 7 \in Nat /\ v \in ExtendedPoints
    BY DEF BASEPOINT_TABLE_WIDTH, Holds
<1>3. Holds(v, q)
    OBVIOUS
<1> HIDE DEF v
<1>4. \A i \in 1 .. 7 : g[i] \in [ExtendedPoints -> ExtendedPoints]
    BY <1>2, FormulasTyped
<1>5. \A i \in 1 .. 7 : \A w \in ExtendedPoints : g[i][w] = Add(w, v)
    OBVIOUS
<1> HIDE DEF g
<1>6. PICK f : Iterated(f, ExtendedPoints, v, 7, g)
    BY <1>2, <1>4, Iterates
<1>7. f = Entries(f)
  <2>1. \A i \in 0 .. 7 : f[i] = IF i = 0 THEN v ELSE Add(f[i - 1], v)
    <3> TAKE i \in 0 .. 7
    <3>1. CASE i = 0
        BY <1>6, <3>1 DEF Iterated
    <3>2. CASE i # 0
      <4>1. i \in 1 .. 7 /\ i - 1 \in 0 .. 7
          BY <3>2
      <4>2. f[i] = g[i][f[i - 1]] /\ f[i - 1] \in ExtendedPoints
          BY <1>6, <4>1 DEF Iterated
      <4> QED
          BY <1>5, <3>2, <4>1, <4>2
    <3> QED
        BY <3>1, <3>2
  <2> QED
      BY <1>2, <1>6, <2>1 DEF Iterated
<1>8. d = Entries(d)
    BY <1>7, Zenon
<1> HIDE DEF d
<1>9. d[0] = v /\ \A i \in 0 .. 7 - 1 : d[i + 1] = Add(d[i], v)
  <2>1. \A i \in 0 .. 7 - 1 : i + 1 \in 0 .. 7 /\ i + 1 # 0 /\ (i + 1) - 1 = i
      OBVIOUS
  <2> QED
      BY <1>2, <1>8, <2>1
<1> DEFINE S == {i \in 0 .. 7 : Holds(d[i], PointMultiple(i + 1, q))}
<1>10. 0 \in S
  <2>1. 0 + 1 = 1
      OBVIOUS
  <2> QED
      BY <1>3, <1>9, <2>1, MultipleOfOne
<1>11. ASSUME NEW i \in 0 .. 7 - 1, i \in S PROVE i + 1 \in S
  <2>1. i + 1 \in Int /\ PointMultiple(i + 1, q) \in Points
      BY MultipleSteps
  <2>2. Holds(Add(d[i], v), AffineSum(PointMultiple(i + 1, q), q))
      BY <1>3, <1>11, <2>1, SumsHold
  <2>3. AffineSum(PointMultiple(i + 1, q), q) = PointMultiple((i + 1) + 1, q)
      BY <2>1, MultipleSteps
  <2>4. i + 1 \in 0 .. 7
      OBVIOUS
  <2> QED
      BY <1>9, <2>2, <2>3, <2>4
<1>12. \A i \in 0 .. 7 : i \in S
  <2> HIDE DEF S
  <2> QED
      BY <1>2, <1>10, <1>11, BoundedInduction
<1> QED
    BY <1>1, <1>12

\* Entry m of row r of the normalised table, numbered from one, is m times the
\* weight of the row.
LEMMA TableHolds ==
    ASSUME NEW W, Weighted(W)
    PROVE  \A r \in 0 .. FIELD_BYTES - 1, m \in 1 .. BASEPOINT_TABLE_WIDTH :
              BASEPOINT_TABLE[r * BASEPOINT_TABLE_WIDTH + m] = Niels(BaseMultiple(m * W[r]))
<1> DEFINE n == FIELD_BYTES * BASEPOINT_TABLE_WIDTH
           entries == [i \in 1 .. n |-> Row((i - 1) \div BASEPOINT_TABLE_WIDTH)[(i - 1) % BASEPOINT_TABLE_WIDTH]]
           multiple == [i \in 1 .. n |->
               BaseMultiple((((i - 1) % BASEPOINT_TABLE_WIDTH) + 1) * W[(i - 1) \div BASEPOINT_TABLE_WIDTH])]
<1>0. FIELD_BYTES \in Nat \ {0}
    BY DEF Weighted
<1>1. BASEPOINT_TABLE_WIDTH = 8 /\ n \in Nat /\ Len(entries) = n /\ n = 8 * FIELD_BYTES
  <2>1. BASEPOINT_TABLE_WIDTH = 8 /\ n = 8 * FIELD_BYTES /\ n \in Nat
      BY <1>0 DEF BASEPOINT_TABLE_WIDTH
  <2> DEFINE value(i) == Row((i - 1) \div BASEPOINT_TABLE_WIDTH)[(i - 1) % BASEPOINT_TABLE_WIDTH]
  <2>2. entries = [i \in 1 .. n |-> value(i)]
      OBVIOUS
  <2> HIDE DEF value, n, entries
  <2>3. Len(entries) = n
      BY <2>1, <2>2
  <2> QED
      BY <2>1, <2>3
<1>2. BASEPOINT_TABLE = BatchNormalize(entries)
    BY Zenon DEF BASEPOINT_TABLE
<1>3. BasePoint \in Points
    BY ConstantsHold
<1>4. \A r \in 0 .. FIELD_BYTES - 1 : Holds(RowBase[r], BaseMultiple(W[r])) /\ W[r] \in Int
    BY RowsStart DEF Weighted
<1>5. ASSUME NEW i \in 1 .. n
      PROVE  multiple[i] \in Points /\ Holds(entries[i], multiple[i])
  <2> DEFINE r == (i - 1) \div 8
             e == (i - 1) % 8
  <2>1. r \in 0 .. FIELD_BYTES - 1 /\ e \in 0 .. 7
      BY <1>0, <1>1
  <2>2. entries[i] = Row(r)[e] /\ multiple[i] = BaseMultiple((e + 1) * W[r])
      BY <1>1
  <2> HIDE DEF r, e
  <2>3. W[r] \in Int /\ e + 1 \in Int /\ (e + 1) * W[r] \in Int /\ Holds(RowBase[r], BaseMultiple(W[r]))
      BY <1>4, <2>1
  <2>4. BaseMultiple(W[r]) \in Points /\ BaseMultiple((e + 1) * W[r]) \in Points
      BY <1>3, <2>3, MultipleSteps DEF BaseMultiple
  <2>5. Holds(Row(r)[e], PointMultiple(e + 1, BaseMultiple(W[r])))
      BY <2>1, <2>3, <2>4, RowsHold
  <2>6. PointMultiple(e + 1, BaseMultiple(W[r])) = BaseMultiple((e + 1) * W[r])
      BY <1>3, <2>3, MultiplesMultiply DEF BaseMultiple
  <2> QED
      BY <2>2, <2>4, <2>5, <2>6
<1> HIDE DEF entries
<1>6. BASEPOINT_TABLE = [i \in 1 .. n |-> Niels(multiple[i])]
  <2> HIDE DEF multiple, n
  <2>1. BatchNormalize(entries) = [i \in 1 .. Len(entries) |-> Niels(multiple[i])]
      BY <1>1, <1>5, BatchNormalizes
  <2> QED
      BY <1>1, <1>2, <2>1
<1> TAKE r \in 0 .. FIELD_BYTES - 1, m \in 1 .. BASEPOINT_TABLE_WIDTH
<1> DEFINE i == r * 8 + m
<1>7. m \in 1 .. 8 /\ i \in 1 .. n /\ (i - 1) \div 8 = r /\ ((i - 1) % 8) + 1 = m
    BY <1>0, <1>1
<1>8. multiple[i] = BaseMultiple(m * W[r])
  <2> HIDE DEF i
  <2> QED
      BY <1>1, <1>7
<1> QED
    BY <1>1, <1>6, <1>7, <1>8

\* select_basepoint: the entry for a signed digit, the identity for zero.
LEMMA SelectionHolds ==
    ASSUME NEW W, Weighted(W),
           NEW row \in 0 .. FIELD_BYTES - 1, NEW digit \in -8 .. 8
    PROVE  SelectBasepoint(row, digit) = Niels(BaseMultiple(digit * W[row]))
<1> DEFINE m == IF digit < 0 THEN -digit ELSE digit
           s == IF m \in 1 .. BASEPOINT_TABLE_WIDTH
                THEN BASEPOINT_TABLE[row * BASEPOINT_TABLE_WIDTH + m] ELSE NielsIdentity
           w == W[row]
           k == m * w
<1>1. SelectBasepoint(row, digit) = IF digit < 0 THEN NegateNiels(s) ELSE s
    BY Zenon DEF SelectBasepoint
<1>2. BASEPOINT_TABLE_WIDTH = 8 /\ w \in Int /\ m \in 0 .. 8 /\ k \in Int /\ BasePoint \in Points
    BY ConstantsHold DEF BASEPOINT_TABLE_WIDTH, Weighted
<1>3. digit < 0 => digit * w = -k
  <2>1. digit < 0 => digit + m = 0
      OBVIOUS
  <2>2. (digit + m) * w = digit * w + m * w /\ 0 * w = 0 /\ digit * w \in Int
      BY <1>2
  <2> HIDE DEF m
  <2>3. ASSUME digit < 0 PROVE digit * w + k = 0
      BY <2>1, <2>2, <2>3
  <2> HIDE DEF k
  <2> QED
      BY <1>2, <2>2, <2>3
<1>4. digit >= 0 => digit * w = k
    OBVIOUS
<1>5. s = Niels(BaseMultiple(k))
  <2>1. CASE m = 0
    <3>1. k = 0 /\ s = NielsIdentity
        BY <1>2, <2>1
    <3>2. BaseMultiple(0) = Neutral
        BY <1>2, MultipleSteps DEF BaseMultiple
    <3> QED
        BY <3>1, <3>2, NielsOfNeutral
  <2>2. CASE m # 0
    <3>1. m \in 1 .. BASEPOINT_TABLE_WIDTH
        BY <1>2, <2>2
    <3> HIDE DEF m
    <3>2. BASEPOINT_TABLE[row * BASEPOINT_TABLE_WIDTH + m] = Niels(BaseMultiple(m * W[row]))
        BY <3>1, TableHolds
    <3> QED
        BY <3>1, <3>2
  <2> QED
      BY <2>1, <2>2
<1>6. BaseMultiple(k) \in Points /\ BaseMultiple(-k) = Opposite(BaseMultiple(k))
  <2> HIDE DEF k
  <2> QED
      BY <1>2, MultipleSteps, MultiplesNegate DEF BaseMultiple
<1> HIDE DEF s, k, w, m
<1>7. CASE digit < 0
  <2>1. NegateNiels(Niels(BaseMultiple(k))) = Niels(Opposite(BaseMultiple(k)))
      BY <1>6, NielsOfOpposite
  <2> QED
      BY <1>1, <1>3, <1>5, <1>6, <1>7, <2>1 DEF w
<1>8. CASE ~(digit < 0)
    BY <1>1, <1>4, <1>5, <1>8 DEF w
<1> QED
    BY <1>7, <1>8

\* An accumulator that stands for a multiple: what doubling it, and adding a
\* selected entry to it, make it stand for.
LEMMA AccumulatorsHold ==
    ASSUME NEW W, Weighted(W),
           NEW n \in Int, NEW p, Represents(p, n)
    PROVE  /\ Represents(Double(p), 2 * n)
           /\ \A row \in 0 .. FIELD_BYTES - 1, digit \in -8 .. 8 :
                Represents(AddAffine(p, SelectBasepoint(row, digit)), n + digit * W[row])
<1>1. BasePoint \in Points /\ BaseMultiple(n) \in Points /\ Holds(p, BaseMultiple(n))
    BY ConstantsHold, MultipleSteps, RepresentsHolds DEF BaseMultiple
<1>2. Represents(Double(p), 2 * n)
  <2>1. Holds(Double(p), AffineSum(BaseMultiple(n), BaseMultiple(n)))
      BY <1>1, DoublesHold
  <2>2. Holds(Double(p), BaseMultiple(2 * n)) /\ 2 * n \in Int
      BY <1>1, <2>1, MultiplesDouble DEF BaseMultiple
  <2> QED
      BY <2>2, RepresentsHolds
<1>3. ASSUME NEW row \in 0 .. FIELD_BYTES - 1, NEW digit \in -8 .. 8
      PROVE  Represents(AddAffine(p, SelectBasepoint(row, digit)), n + digit * W[row])
  <2> DEFINE k == digit * W[row]
  <2>1. k \in Int /\ n + k \in Int
    <3>1. W[row] \in Int /\ digit \in Int
        BY DEF Weighted
    <3> QED
        BY <3>1
  <2>2. SelectBasepoint(row, digit) = Niels(BaseMultiple(k))
      BY SelectionHolds
  <2> HIDE DEF k
  <2>3. BaseMultiple(k) \in Points
      BY <1>1, <2>1, MultipleSteps DEF BaseMultiple
  <2>4. Holds(AddAffine(p, Niels(BaseMultiple(k))), AffineSum(BaseMultiple(n), BaseMultiple(k)))
      BY <1>1, <2>3, MixedSumsHold
  <2>5. BaseMultiple(n + k) = AffineSum(BaseMultiple(n), BaseMultiple(k))
      BY <1>1, <2>1, MultiplesAdd DEF BaseMultiple
  <2> QED
      BY <2>1, <2>2, <2>4, <2>5, RepresentsHolds DEF k
<1> QED
    BY <1>2, <1>3

-----------------------------------------------------------------------------
\* The extended coordinates compute in the group: for any two points and
\* whatever represents them, add, the mixed addition of a table entry, double
\* and negate represent the sum, the double and the opposite, are valid again,
\* and the identity is recognised.  Unified addition needs no case apart.
THEOREM FormulasFollowTheLaw ==
    ASSUME NEW p \in Points, NEW q \in Points, NEW v, NEW w, Holds(v, p), Holds(w, q)
    PROVE  /\ Holds(Add(v, w), AffineSum(p, q)) /\ IsValid(Add(v, w))
           /\ Holds(AddAffine(v, Niels(q)), AffineSum(p, q))
           /\ Holds(Double(v), AffineSum(p, p))
           /\ Holds([v EXCEPT !.x = FNeg(@), !.t = FNeg(@)], Opposite(p))
           /\ v.x = 0 /\ v.y = v.z <=> p = Neutral
<1>1. AffineSum(p, q) \in Points
    BY PointsAreAGroup
<1>2. Holds(Add(v, w), AffineSum(p, q)) /\ Holds(AddAffine(v, Niels(q)), AffineSum(p, q))
    BY SumsHold, MixedSumsHold
<1>3. Holds(Double(v), AffineSum(p, p)) /\ IsValid(Add(v, w))
    BY <1>1, <1>2, DoublesHold, HoldsIsValid
<1>4. Holds([v EXCEPT !.x = FNeg(@), !.t = FNeg(@)], Opposite(p))
    BY NegativesHold, Zenon
<1>5. v.x = 0 /\ v.y = v.z <=> p = Neutral
    BY IdentityIsTested
<1> QED
    BY <1>2, <1>3, <1>4, <1>5, Zenon
=============================================================================
