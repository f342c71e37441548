------------------------- MODULE ScalarLoopsProofs --------------------------
(***************************************************************************)
(* The two loops of x301.rs, for every field size, curve and secret.       *)
(*                                                                         *)
(* The signed radix-16 recoding stays inside the table, its digits spell   *)
(* the clamped secret, and the fixed-base loops return the multiple of the *)
(* base point by that number.  Relative to laws that say what one call of  *)
(* the ladder's formulas computes, the ladder returns the coordinate of    *)
(* the multiple of its input, and the two routes to a public key agree.    *)
(***************************************************************************)
EXTENDS FixedBaseLoop, LadderLoop, CurveProofs, TLAPS

-----------------------------------------------------------------------------
\* Arithmetic the recoding rests on.

\* A number below eight times w has at most seven w in it.
LEMMA TopQuotient ==
    ASSUME NEW k \in Nat, NEW w \in Nat \ {0}, k < 8 * w
    PROVE  k \div w \in 0 .. 7
BY SMT

\* clamp_scalar in terms of the top field bit, if that is a multiple of four.
LEMMA ClampArithmetic ==
    ASSUME NEW s \in Nat, RadixAssumption, (2 ^ (FIELD_BITS - 1)) % 4 = 0
    PROVE  /\ ClampScalar(s) \in 2 ^ (FIELD_BITS - 1) .. TwoToField - 1
           /\ ClampScalar(s) % 4 = 0
<1> DEFINE h == 2 ^ (FIELD_BITS - 1)
<1>1. h \in Nat \ {0} /\ TwoToField = 2 * h /\ h % 4 = 0
    BY DEF RadixAssumption
<1>2. ClampScalar(s) = 4 * ((s % h) \div 4) + h
    BY DEF ClampScalar
<1> HIDE DEF h
<1>3. ClampScalar(s) \in h .. 2 * h - 1 /\ ClampScalar(s) % 4 = 0
    BY <1>1, <1>2, SMT
<1> QED
    BY <1>1, <1>3 DEF h

\* Even without its low bits cleared a clamped scalar fits the field width.
LEMMA ClampBelowField ==
    ASSUME NEW s \in Nat
    PROVE  ClampScalar(s) \in Nat /\ ClampScalar(s) < TwoToField
<1> DEFINE h == 2 ^ (FIELD_BITS - 1)
<1>1. h \in Nat \ {0} /\ TwoToField = 2 * h
    BY RadixAssumption DEF RadixAssumption
<1>2. ClampScalar(s) = 4 * ((s % h) \div 4) + h
    BY DEF ClampScalar
<1> HIDE DEF h
<1> QED
    BY <1>1, <1>2, SMT

\* The nibbles of a clamped scalar, the top one at most seven.
LEMMA NibbleRange ==
    ASSUME NEW s \in Secrets
    PROVE  /\ Nibbles(ClampScalar(s)) \in [Digits -> 0 .. 15]
           /\ Nibbles(ClampScalar(s))[Last] \in 0 .. 7
<1> DEFINE k == ClampScalar(s)
<1>1. s \in Nat
    BY RadixAssumption DEF RadixAssumption
<1>2. k \in Nat /\ k < TwoToField
    BY <1>1, ClampBelowField
<1>3. RADIX16_DIGITS \in Nat /\ RADIX16_DIGITS >= 2
    BY RadixAssumption DEF RadixAssumption, RADIX16_DIGITS
<1>4. \A i \in Digits : 16 ^ i \in Nat \ {0}
    BY RadixAssumption DEF RadixAssumption, Digits, Last
<1> HIDE DEF k
<1>5. ASSUME NEW i \in Digits PROVE Nibble(k, i) \in 0 .. 15
    <2>1. k \div 16 ^ i \in Nat
        BY <1>2, <1>4, Division
    <2> QED
        BY <2>1 DEF Nibble
<1>6. Last \in Digits
    BY <1>3 DEF Last, Digits
<1>7. Nibble(k, Last) \in 0 .. 7
    <2> DEFINE w == 16 ^ Last
    <2>1. w \in Nat \ {0} /\ TwoToField <= 8 * w
        BY <1>4, <1>6, RadixAssumption DEF RadixAssumption, Last
    <2>2. TwoToField \in Nat
        BY FieldAssumption DEF FieldAssumption
    <2> HIDE DEF w
    <2>3. k \div w \in 0 .. 7
        BY <1>2, <2>1, <2>2, TopQuotient
    <2> QED
        BY <2>3 DEF Nibble, w
<1>8. Nibbles(k) = [i \in Digits |-> Nibble(k, i)]
    BY DEF Nibbles, Digits, Last
<1> QED
    BY <1>5, <1>6, <1>7, <1>8 DEF k

-----------------------------------------------------------------------------
\* The recoding, digit by digit: the ones it has left are signed, the one it
\* stands at may be sixteen, the others are nibbles.  The top digit, which is
\* never carried out of, starts at seven at most.
Recoding ==
    /\ loop \in {"recode", "odd", "even", "done"}
    /\ loop = "recode" => index \in Digits
    /\ index \in Nat
    /\ digits \in [Digits -> Int]
    /\ DigitsFitTable
    /\ loop = "recode" =>
        digits[Last] \in IF index = Last THEN 0 .. 8 ELSE 0 .. 7

\* The top digit is a digit, and not the lowest.
LEMMA LastIsDigit == Last \in Digits /\ Last \in Nat /\ Last >= 1
BY RadixAssumption DEF RadixAssumption, RADIX16_DIGITS, Last, Digits

\* The carry is zero or one, and leaves its digit between -8 and 7.
LEMMA Carry ==
    ASSUME NEW d \in 0 .. 16
    PROVE  (d + 8) \div 16 \in 0 .. 1 /\ d - 16 * ((d + 8) \div 16) \in -8 .. 7
BY SMT

\* The nibbles of the clamped scalar before the first carry.
LEMMA RecodingInit == Init => Recoding
<1> SUFFICES ASSUME Init PROVE Recoding
    OBVIOUS
<1>1. digits \in [Digits -> 0 .. 15] /\ digits[Last] \in 0 .. 7
    BY NibbleRange DEF Init
<1> QED
    BY <1>1, LastIsDigit DEF Init, Recoding, DigitsFitTable, DigitRange, Digits

\* A carry moves the boundary by one digit; the other steps read digits only.
LEMMA RecodingStep == Recoding /\ [Next]_vars => Recoding'
<1> SUFFICES ASSUME Recoding, [Next]_vars PROVE Recoding'
    OBVIOUS
<1> USE LastIsDigit
<1>1. CASE Recode
    <2> DEFINE d == digits[index]
               c == (d + 8) \div 16
    <2>1. index \in Digits /\ index + 1 \in Digits /\ index < Last /\ index \in Nat
        BY <1>1 DEF Recode, Recoding, Digits
    <2>2. d \in 0 .. 16
        BY <1>1, <2>1 DEF Recode, Recoding, DigitsFitTable, DigitRange
    <2>3. c \in 0 .. 1 /\ d - 16 * c \in -8 .. 7
        BY <2>2, Carry
    <2>4. digits' = [[digits EXCEPT ![index] = d - 16 * c]
                        EXCEPT ![index + 1] = digits[index + 1] + c]
        BY <1>1, <2>1 DEF Recode, Recoding, CarryDigit
    <2>5. digits[index + 1] \in 0 .. 15 /\ digits[Last] \in 0 .. 7
        BY <1>1, <2>1 DEF Recode, Recoding, DigitsFitTable, DigitRange
    <2> HIDE DEF d, c
    <2>6. digits' \in [Digits -> Int]
        BY <2>1, <2>2, <2>3, <2>4, <2>5 DEF Recoding
    <2>7. ASSUME NEW j \in Digits PROVE digits'[j] \in DigitRange(j)'
        <3>1. loop' = "recode" /\ loop = "recode" /\ index' = index + 1
            BY <1>1 DEF Recode
        <3>2. DigitRange(j)' = IF j < index + 1 THEN -8 .. 8
                               ELSE IF j = index + 1 THEN 0 .. 16 ELSE 0 .. 15
            BY <3>1 DEF DigitRange
        <3>3. j \in Int
            BY DEF Digits
        <3>4. CASE j = index
            BY <2>1, <2>3, <2>4, <3>2, <3>4 DEF Recoding
        <3>5. CASE j = index + 1
            BY <2>1, <2>3, <2>4, <2>5, <3>2, <3>5 DEF Recoding
        <3>6. CASE j # index /\ j # index + 1
            <4>1. digits'[j] = digits[j]
                BY <2>4, <3>6 DEF Recoding
            <4>2. digits[j] \in IF j < index THEN -8 .. 8 ELSE 0 .. 15
                BY <3>1, <3>6 DEF Recoding, DigitsFitTable, DigitRange
            <4> QED
                BY <2>1, <3>2, <3>3, <3>6, <4>1, <4>2
        <3> QED
            BY <3>4, <3>5, <3>6
    <2>8. digits'[Last] \in IF index' = Last THEN 0 .. 8 ELSE 0 .. 7
        <3>1. index' = index + 1
            BY <1>1 DEF Recode
        <3>2. CASE index + 1 = Last
            BY <2>1, <2>3, <2>4, <2>5, <3>1, <3>2 DEF Recoding
        <3>3. CASE index + 1 # Last
            BY <2>1, <2>4, <2>5, <3>1, <3>3 DEF Recoding
        <3> QED
            BY <3>2, <3>3
    <2> QED
        BY <1>1, <2>1, <2>6, <2>7, <2>8 DEF Recode, Recoding, DigitsFitTable, Digits, Last
<1>2. CASE RecodeEnds
    <2>1. \A j \in Digits : j \in Int /\ (j < Last \/ j = Last)
        BY DEF Digits
    <2>2. \A j \in Digits : digits[j] \in -8 .. 8
        BY <1>2, <2>1 DEF RecodeEnds, Recoding, DigitsFitTable, DigitRange
    <2> QED
        BY <1>2, <2>2 DEF RecodeEnds, Recoding, DigitsFitTable, DigitRange
<1>3. CASE AddOdd
    BY <1>3 DEF AddOdd, Recoding, DigitsFitTable, DigitRange, Digits
<1>4. CASE Shift
    BY <1>4 DEF Shift, Recoding, DigitsFitTable, DigitRange, Digits
<1>5. CASE AddEven
    BY <1>5 DEF AddEven, Recoding, DigitsFitTable, DigitRange, Digits
<1>6. CASE MapToU
    BY <1>6 DEF MapToU, Recoding, DigitsFitTable, DigitRange, Digits
<1>7. CASE UNCHANGED vars
    BY <1>7 DEF vars, Recoding, DigitsFitTable, DigitRange, Digits
<1> QED
    BY <1>1, <1>2, <1>3, <1>4, <1>5, <1>6, <1>7 DEF Next

\* signed_radix16 never produces a digit outside the eight-entry table rows.
THEOREM RecodedDigitsFit == Spec => []DigitsFitTable
<1>1. Recoding => DigitsFitTable
    BY DEF Recoding
<1> QED
    BY <1>1, RecodingInit, RecodingStep, PTL DEF Spec

-----------------------------------------------------------------------------
\* What the digits spell.

Weight(i) == 16 ^ i
Rows == [Digits -> Int]

\* The weights of the digits.
LEMMA Weights ==
    /\ RADIX16_DIGITS \in Nat \ {0} /\ Last \in Nat /\ Digits = 0 .. RADIX16_DIGITS - 1
    /\ \A i \in Digits : Weight(i) \in Nat \ {0}
    /\ Weight(0) = 1
    /\ \A i \in Digits : i + 1 \in Digits => Weight(i + 1) = 16 * Weight(i)
<1>1. RADIX16_DIGITS \in Nat \ {0} /\ Last = RADIX16_DIGITS - 1
    BY RadixAssumption DEF RadixAssumption, RADIX16_DIGITS, Last
<1> QED
    BY <1>1, RadixAssumption DEF RadixAssumption, Weight, Digits

\* What a digit adds to the sum.
Term(d, positions, i) == IF i \in positions THEN d[i] * Weight(i) ELSE 0

\* A digit times its weight is an integer.
LEMMA TermIsInteger ==
    ASSUME NEW d \in Rows, NEW positions, NEW i \in Digits
    PROVE  Term(d, positions, i) \in Int
<1>1. d[i] \in Int /\ Weight(i) \in Int
    BY Weights DEF Rows
<1>2. d[i] * Weight(i) \in Int
    BY <1>1
<1> QED
    BY <1>2 DEF Term

\* The sums of Spelling up to the n-th.
Sums(d, positions, s, n) ==
    /\ s[0] = 0
    /\ \A j \in 1 .. RADIX16_DIGITS : j <= n => s[j] = s[j - 1] + Term(d, positions, j - 1)

\* One more digit extends them.
LEMMA SumsExist ==
    ASSUME NEW d \in Rows, NEW positions
    PROVE  \E s \in [0 .. RADIX16_DIGITS -> Int] : Sums(d, positions, s, RADIX16_DIGITS)
<1> DEFINE F == RADIX16_DIGITS
           S == {n \in Nat : \E s \in [0 .. F -> Int] : Sums(d, positions, s, n)}
<1>1. F \in Nat \ {0} /\ Digits = 0 .. F - 1
    BY Weights
<1> HIDE DEF F
<1>2. 0 \in S
  <2>1. /\ [i \in 0 .. F |-> 0] \in [0 .. F -> Int]
        /\ Sums(d, positions, [i \in 0 .. F |-> 0], 0)
      BY <1>1 DEF Sums, F
  <2> QED
      BY <2>1
<1>3. ASSUME NEW n \in S PROVE n + 1 \in S
  <2>1. PICK s \in [0 .. F -> Int] : Sums(d, positions, s, n)
      OBVIOUS
  <2>2. CASE n + 1 > F
      BY <1>1, <2>1, <2>2 DEF Sums, F
  <2>3. CASE n + 1 <= F
    <3> DEFINE v == s[n] + Term(d, positions, n)
               t == [s EXCEPT ![n + 1] = v]
    <3>1. n \in Nat /\ n \in Digits /\ n + 1 \in 0 .. F /\ n \in 0 .. F
        BY <1>1, <2>3
    <3>2. v \in Int
        BY <3>1, TermIsInteger
    <3>3. \A i \in 0 .. F : t[i] = IF i = n + 1 THEN v ELSE s[i]
        BY <1>1, <3>1
    <3>4. t[0] = 0
        BY <1>1, <2>1, <3>1, <3>3 DEF Sums
    <3>5. ASSUME NEW i \in 1 .. F, i <= n + 1 PROVE t[i] = t[i - 1] + Term(d, positions, i - 1)
      <4>1. i \in 0 .. F /\ i - 1 \in 0 .. F /\ i - 1 # n + 1
          BY <1>1, <3>1, <3>5
      <4>2. t[i - 1] = s[i - 1]
          BY <3>3, <4>1
      <4>3. CASE i = n + 1
          BY <3>1, <3>3, <4>1, <4>2, <4>3
      <4>4. CASE i # n + 1
        <5>1. i <= n
            BY <3>1, <3>5, <4>4
        <5>2. s[i] = s[i - 1] + Term(d, positions, i - 1)
            BY <2>1, <3>5, <5>1 DEF Sums, F
        <5> QED
            BY <3>3, <4>1, <4>2, <4>4, <5>2
      <4> QED
          BY <4>3, <4>4
    <3>6. t \in [0 .. F -> Int]
        BY <3>2
    <3>7. Sums(d, positions, t, n + 1)
        BY <3>4, <3>5 DEF Sums, F
    <3> HIDE DEF t
    <3> QED
        BY <3>1, <3>6, <3>7
  <2> QED
      BY <1>1, <2>2, <2>3
<1>4. S = Nat
  <2>1. S \in SUBSET Nat
      OBVIOUS
  <2> HIDE DEF S
  <2> QED
      BY <1>2, <1>3, <2>1, SetInduction
<1> QED
    BY <1>1, <1>4 DEF F

\* Spelling gives those sums, and they are integers.
LEMMA SpellingAddsTerms ==
    ASSUME NEW d \in Rows, NEW positions
    PROVE  /\ Sums(d, positions, Spelling(d, positions), RADIX16_DIGITS)
           /\ \A j \in 0 .. RADIX16_DIGITS : Spelling(d, positions)[j] \in Int
<1> DEFINE F == RADIX16_DIGITS
           Extended(s) ==
               [j \in 0 .. F |-> IF j = 0 THEN 0
                    ELSE s[j - 1] + (IF j - 1 \in positions THEN d[j - 1] * 16 ^ (j - 1) ELSE 0)]
           p == Spelling(d, positions)
<1>1. F \in Nat \ {0} /\ Digits = 0 .. F - 1
    BY Weights
<1>2. PICK s \in [0 .. F -> Int] : Sums(d, positions, s, F)
    BY SumsExist
<1>3. s = Extended(s)
    BY <1>1, <1>2 DEF Sums, Term, Weight
<1>4. p = Extended(p)
    BY <1>3, Zenon DEF Spelling
<1> HIDE DEF p
<1>5. p[0] = 0 /\ \A j \in 1 .. F : p[j] = p[j - 1] + Term(d, positions, j - 1)
  <2>1. \A j \in 0 .. F : Extended(p)[j] = IF j = 0 THEN 0 ELSE p[j - 1] + Term(d, positions, j - 1)
      BY DEF Term, Weight
  <2> HIDE DEF Extended
  <2> QED
      BY <1>1, <1>4, <2>1
<1> DEFINE S == {n \in Nat : n <= F => p[n] \in Int}
<1> HIDE DEF F
<1>6. 0 \in S
    BY <1>5
<1>7. ASSUME NEW n \in S PROVE n + 1 \in S
  <2>1. CASE n + 1 > F
      BY <2>1, <1>1
  <2>2. CASE n + 1 <= F
    <3>1. n \in Digits /\ n + 1 \in 1 .. F /\ p[n] \in Int /\ (n + 1) - 1 = n
        BY <1>1, <2>2
    <3>2. Term(d, positions, n) \in Int
        BY <3>1, TermIsInteger
    <3>3. p[n + 1] = p[n] + Term(d, positions, n)
        BY <1>5, <3>1
    <3> QED
        BY <3>1, <3>2, <3>3
  <2> QED
      BY <1>1, <2>1, <2>2
<1>8. S = Nat
  <2>1. S \in SUBSET Nat
      OBVIOUS
  <2> HIDE DEF S
  <2> QED
      BY <1>6, <1>7, <2>1, SetInduction
<1>9. \A i \in 0 .. F : p[i] \in Int
    BY <1>1, <1>8
<1>10. Sums(d, positions, p, F)
    BY <1>5 DEF Sums, F
<1> QED
    BY <1>9, <1>10 DEF p, F

\* Rows and positions whose terms agree but at k spell numbers that differ by
\* the difference there.
LEMMA ValuesDifferByTerm ==
    ASSUME NEW d \in Rows, NEW e \in Rows, NEW dp, NEW ep, NEW k \in Digits,
           \A i \in Digits \ {k} : Term(e, ep, i) = Term(d, dp, i)
    PROVE  /\ ValueOf(e, ep) = ValueOf(d, dp) + (Term(e, ep, k) - Term(d, dp, k))
           /\ ValueOf(d, dp) \in Int
<1> DEFINE F == RADIX16_DIGITS
           p == Spelling(d, dp)
           q == Spelling(e, ep)
           a == Term(e, ep, k) - Term(d, dp, k)
           S == {n \in Nat : n <= F => q[n] = p[n] + (IF n > k THEN a ELSE 0)}
<1>1. F \in Nat \ {0} /\ Digits = 0 .. F - 1 /\ k \in Nat /\ k < F
    BY Weights
<1>2. /\ Sums(d, dp, p, F) /\ Sums(e, ep, q, F)
      /\ \A i \in 0 .. F : p[i] \in Int /\ q[i] \in Int
    BY SpellingAddsTerms
<1>3. /\ Term(e, ep, k) \in Int /\ Term(d, dp, k) \in Int /\ a \in Int
      /\ Term(e, ep, k) = Term(d, dp, k) + a
    BY TermIsInteger
<1>4. p[F] = ValueOf(d, dp) /\ q[F] = ValueOf(e, ep)
    BY DEF ValueOf
<1> HIDE DEF p, q, a, F
<1>5. 0 \in S
    BY <1>1, <1>2 DEF Sums
<1>6. ASSUME NEW n \in S PROVE n + 1 \in S
  <2>1. CASE n + 1 > F
      BY <1>1, <2>1
  <2>2. CASE n + 1 <= F
    <3>1. /\ n \in Nat /\ n \in Digits /\ n + 1 \in 1 .. F /\ (n + 1) - 1 = n
          /\ n \in 0 .. F /\ n + 1 \in 0 .. F /\ n + 1 <= F
          /\ q[n] = p[n] + (IF n > k THEN a ELSE 0)
        BY <1>1, <2>2
    <3>2. p[n + 1] = p[n] + Term(d, dp, n) /\ q[n + 1] = q[n] + Term(e, ep, n)
        BY <1>2, <3>1 DEF Sums, F
    <3>3. p[n] \in Int /\ q[n] \in Int /\ Term(d, dp, n) \in Int
        BY <1>2, <3>1, TermIsInteger
    <3>4. CASE n = k
        BY <1>1, <1>3, <3>1, <3>2, <3>3, <3>4
    <3>5. CASE n # k
      <4>1. Term(e, ep, n) = Term(d, dp, n)
          BY <3>1, <3>5
      <4>2. n > k <=> n + 1 > k
          BY <1>1, <3>1, <3>5
      <4> QED
          BY <1>3, <3>1, <3>2, <3>3, <4>1, <4>2
    <3> QED
        BY <3>4, <3>5
  <2> QED
      BY <1>1, <2>1, <2>2
<1>7. S = Nat
  <2>1. S \in SUBSET Nat
      OBVIOUS
  <2> HIDE DEF S
  <2> QED
      BY <1>5, <1>6, <2>1, SetInduction
<1>8. q[F] = p[F] + a /\ p[F] \in Int
    BY <1>1, <1>2, <1>7
<1> QED
    BY <1>4, <1>8 DEF a

\* A row whose terms are all zero spells zero.
LEMMA NothingSpellsZero ==
    ASSUME NEW d \in Rows, NEW positions, \A i \in Digits : Term(d, positions, i) = 0
    PROVE  ValueOf(d, positions) = 0
<1> DEFINE F == RADIX16_DIGITS
           p == Spelling(d, positions)
           S == {n \in Nat : n <= F => p[n] = 0}
<1>1. F \in Nat \ {0} /\ Digits = 0 .. F - 1
    BY Weights
<1>2. Sums(d, positions, p, F)
    BY SpellingAddsTerms
<1>3. p[F] = ValueOf(d, positions)
    BY DEF ValueOf
<1> HIDE DEF p, F
<1>4. 0 \in S
    BY <1>2 DEF Sums
<1>5. ASSUME NEW n \in S PROVE n + 1 \in S
  <2>1. CASE n + 1 > F
      BY <1>1, <2>1
  <2>2. CASE n + 1 <= F
    <3>1. n \in Digits /\ n + 1 \in 1 .. F /\ p[n] = 0 /\ (n + 1) - 1 = n /\ n + 1 <= F
        BY <1>1, <2>2
    <3>2. p[n + 1] = p[n] + Term(d, positions, n)
        BY <1>2, <3>1 DEF Sums, F
    <3> QED
        BY <3>1, <3>2
  <2> QED
      BY <1>1, <2>1, <2>2
<1>6. S = Nat
  <2>1. S \in SUBSET Nat
      OBVIOUS
  <2> HIDE DEF S
  <2> QED
      BY <1>4, <1>5, <2>1, SetInduction
<1> QED
    BY <1>1, <1>3, <1>6

\* The quotient by sixteen times w, from the quotient by w and its nibble.
LEMMA NextNibble ==
    ASSUME NEW k \in Nat, NEW w \in Nat \ {0}
    PROVE  k \div w = 16 * (k \div (16 * w)) + ((k \div w) % 16)
<1> DEFINE q == k \div w
           r == k % w
           a == q \div 16
           b == q % 16
           c == k \div (16 * w)
           e == k % (16 * w)
<1>0. q = k \div w /\ b = (k \div w) % 16 /\ c = k \div (16 * w)
    OBVIOUS
<1>1. q \in Nat /\ r \in Nat /\ r < w /\ k = w * q + r
    BY Division, DivisionExact
<1>2. 16 * w \in Nat \ {0}
    OBVIOUS
<1>3. c \in Nat /\ e \in Nat /\ e < 16 * w /\ k = (16 * w) * c + e
  <2> DEFINE m == 16 * w
  <2>1. m \in Nat \ {0}
      BY <1>2
  <2> HIDE DEF m
  <2>2. k \div m \in Nat /\ k % m \in 0 .. m - 1
      BY <2>1, Division
  <2>3. k = m * (k \div m) + (k % m)
      BY <2>1, DivisionExact
  <2> QED
      BY <2>1, <2>2, <2>3 DEF m
<1> HIDE DEF q, r, c, e
<1>4. a \in Nat /\ b \in 0 .. 15 /\ q = 16 * a + b
    BY <1>1
<1> HIDE DEF a, b
<1> DEFINE x == w * a
           y == w * b
           z == w * c
<1>5. k = 16 * x + (y + r) /\ k = 16 * z + e /\ x \in Nat /\ y \in Nat /\ z \in Nat
  <2>1. w * q = w * (16 * a + b)
      BY <1>4
  <2>2. w * (16 * a + b) = 16 * x + y
      BY <1>4
  <2>3. (16 * w) * c = 16 * z
      BY <1>3
  <2>4. x \in Nat /\ y \in Nat /\ z \in Nat
      BY <1>3, <1>4
  <2> QED
      BY <1>1, <1>3, <2>1, <2>2, <2>3, <2>4
<1>6. y + r < 16 * w
  <2>1. y <= 15 * w
      BY <1>4
  <2> HIDE DEF y
  <2> QED
      BY <1>1, <1>5, <2>1
<1>7. a = c
  <2>1. CASE a < c
    <3>1. x + w <= z
      <4>1. w * (a + 1) <= w * c
          BY <1>3, <1>4, <2>1
      <4>2. w * (a + 1) = x + w
          BY <1>4
      <4> QED
          BY <4>1, <4>2
    <3> HIDE DEF x, y, z
    <3> QED
        BY <1>1, <1>3, <1>5, <1>6, <3>1
  <2>2. CASE c < a
    <3>1. z + w <= x
      <4>1. w * (c + 1) <= w * a
          BY <1>3, <1>4, <2>2
      <4>2. w * (c + 1) = z + w
          BY <1>3
      <4> QED
          BY <4>1, <4>2
    <3> HIDE DEF x, y, z
    <3> QED
        BY <1>1, <1>3, <1>5, <1>6, <3>1
  <2> QED
      BY <1>3, <1>4, <2>1, <2>2
<1>8. q = 16 * c + b
    BY <1>4, <1>7
<1> QED
    BY <1>0, <1>8, Zenon

\* The nibbles of a number below the radix spell it.
LEMMA NibblesSpell ==
    ASSUME NEW k \in Nat, k \div Weight(Last) \in 0 .. 15
    PROVE  Nibbles(k) \in Rows /\ ValueOf(Nibbles(k), Digits) = k
<1> DEFINE F == RADIX16_DIGITS
           d == Nibbles(k)
           p == Spelling(d, Digits)
           S == {n \in Nat : n < F => p[n] + Weight(n) * (k \div Weight(n)) = k}
<1>1. F \in Nat \ {0} /\ Digits = 0 .. F - 1 /\ Last = F - 1 /\ Last \in Digits
    BY Weights DEF Last
<1>2. \A i \in Digits : Weight(i) \in Nat \ {0} /\ k \div Weight(i) \in Nat
    BY Weights, Division
<1>3. \A i \in Digits : d[i] = (k \div Weight(i)) % 16 /\ d[i] \in 0 .. 15
    BY <1>2 DEF Nibbles, Nibble, Weight, Digits, Last
<1>4. d \in Rows
  <2>1. d = [i \in Digits |-> d[i]]
      BY DEF Nibbles, Digits, Last
  <2> HIDE DEF d
  <2> QED
      BY <1>3, <2>1 DEF Rows
<1>5. /\ Sums(d, Digits, p, F)
      /\ \A i \in 0 .. F : p[i] \in Int
    BY <1>4, SpellingAddsTerms
<1>6. p[F] = ValueOf(d, Digits)
    BY DEF ValueOf
<1> HIDE DEF p, F, d
<1>7. 0 \in S
  <2>1. Weight(0) = 1 /\ k \div 1 = k
      BY Weights
  <2>2. p[0] = 0
      BY <1>5 DEF Sums
  <2> QED
      BY <2>1, <2>2
<1>8. \A i \in Digits : i + 1 \in 1 .. F /\ i + 1 <= F /\ i \in Nat /\ p[i] \in Int /\ p[i + 1] = p[i] + d[i] * Weight(i)
  <2> SUFFICES ASSUME NEW i \in Digits
               PROVE  i + 1 \in 1 .. F /\ i + 1 <= F /\ i \in Nat /\ p[i] \in Int /\ p[i + 1] = p[i] + d[i] * Weight(i)
      OBVIOUS
  <2>1. i + 1 \in 1 .. F /\ i + 1 <= F /\ i \in Nat /\ (i + 1) - 1 = i /\ i \in 0 .. F
      BY <1>1
  <2>2. p[i + 1] = p[i] + Term(d, Digits, i)
      BY <1>5, <2>1 DEF Sums, F
  <2> QED
      BY <1>5, <2>1, <2>2 DEF Term
<1>9. ASSUME NEW n \in S PROVE n + 1 \in S
  <2>1. CASE n + 1 >= F
      BY <1>1, <2>1
  <2>2. CASE n + 1 < F
    <3> DEFINE w == Weight(n)
               q == k \div w
               c == k \div (16 * w)
    <3>1. n \in Digits /\ n + 1 \in Digits /\ p[n] + w * q = k
        BY <1>1, <2>2
    <3>2. Weight(n + 1) = 16 * w /\ w \in Nat \ {0}
        BY <3>1, Weights
    <3>3. p[n + 1] = p[n] + d[n] * w /\ p[n] \in Int
        BY <1>8, <3>1
    <3>4. q = 16 * c + d[n] /\ d[n] \in Int /\ q \in Nat /\ c \in Nat
      <4>1. q = 16 * c + (q % 16)
          BY <3>2, NextNibble
      <4>2. d[n] = q % 16 /\ d[n] \in 0 .. 15 /\ q \in Nat
          BY <1>2, <1>3, <3>1
      <4>3. c \in Nat
        <5>1. k \div Weight(n + 1) \in Nat
            BY <1>2, <3>1
        <5> QED
            BY <3>2, <5>1, Zenon
      <4> HIDE DEF q, c
      <4> QED
          BY <4>1, <4>2, <4>3
    <3> HIDE DEF w, q, c
    <3>5. w * q = (16 * w) * c + d[n] * w
      <4>1. w * (16 * c + d[n]) = (16 * w) * c + d[n] * w
          BY <3>2, <3>4
      <4> QED
          BY <3>4, <4>1
    <3>6. (16 * w) * c \in Int /\ d[n] * w \in Int
        BY <3>2, <3>4
    <3>7. p[n + 1] + (16 * w) * c = k
        BY <3>1, <3>3, <3>5, <3>6
    <3>8. p[n + 1] + Weight(n + 1) * (k \div Weight(n + 1)) = k
        BY <3>2, <3>7 DEF c
    <3> QED
        BY <1>1, <3>8
  <2> QED
      BY <1>1, <2>1, <2>2
<1>10. S = Nat
  <2>1. S \in SUBSET Nat
      OBVIOUS
  <2> HIDE DEF S
  <2> QED
      BY <1>7, <1>9, <2>1, SetInduction
<1>11. p[Last] + Weight(Last) * (k \div Weight(Last)) = k
  <2>1. Last \in S /\ Last < F
    <3>1. Last \in Nat /\ Last < F
        BY <1>1
    <3> HIDE DEF S
    <3> QED
        BY <1>10, <3>1
  <2> QED
      BY <2>1
<1>12. p[F] = k
  <2> DEFINE w == Weight(Last)
             q == k \div w
  <2>1. p[Last + 1] = p[Last] + d[Last] * w /\ p[Last] \in Int /\ Last + 1 = F
      BY <1>1, <1>8
  <2>2. d[Last] = q /\ q \in Nat /\ w \in Nat
    <3>1. q \in 0 .. 15 /\ d[Last] = q % 16 /\ w \in Nat
        BY <1>1, <1>2, <1>3
    <3> HIDE DEF q, w
    <3> QED
        BY <3>1
  <2>3. p[Last] + w * q = k
      BY <1>11
  <2> HIDE DEF w, q
  <2>4. d[Last] * w = w * q
      BY <2>2
  <2> QED
      BY <2>1, <2>3, <2>4
<1> QED
    BY <1>4, <1>6, <1>12 DEF d

\* Taking sixteen carries from a digit and giving the next one their number
\* leaves the number as it was.
LEMMA CarryKeepsValue ==
    ASSUME NEW d \in Rows, NEW i \in Digits, i + 1 \in Digits
    PROVE  CarryDigit(d, i) \in Rows /\ ValueOf(CarryDigit(d, i), Digits) = ValueOf(d, Digits)
<1> DEFINE c == (d[i] + 8) \div 16
           m == [d EXCEPT ![i] = d[i] - 16 * c]
           e == [m EXCEPT ![i + 1] = d[i + 1] + c]
           w == Weight(i)
<1>1. i \in Int /\ d[i] \in Int /\ d[i + 1] \in Int /\ c \in Int /\ w \in Int /\ Weight(i + 1) = 16 * w
    BY Weights DEF Rows
<1>2. CarryDigit(d, i) = e
    BY <1>1 DEF CarryDigit, Rows
<1> HIDE DEF c
<1>3. m \in Rows /\ m[i] = d[i] - 16 * c /\ \A j \in Digits \ {i} : m[j] = d[j]
    BY <1>1 DEF Rows
<1> HIDE DEF m
<1>4. e \in Rows /\ e[i + 1] = d[i + 1] + c /\ \A j \in Digits \ {i + 1} : e[j] = m[j]
    BY <1>1, <1>3 DEF Rows
<1> HIDE DEF e, w
<1>5. /\ ValueOf(m, Digits) = ValueOf(d, Digits) + (Term(m, Digits, i) - Term(d, Digits, i))
      /\ ValueOf(d, Digits) \in Int
  <2>1. \A j \in Digits \ {i} : Term(m, Digits, j) = Term(d, Digits, j)
      BY <1>3 DEF Term
  <2> QED
      BY <1>3, <2>1, ValuesDifferByTerm
<1>6. ValueOf(e, Digits) = ValueOf(m, Digits) + (Term(e, Digits, i + 1) - Term(m, Digits, i + 1))
  <2>1. \A j \in Digits \ {i + 1} : Term(e, Digits, j) = Term(m, Digits, j)
      BY <1>4 DEF Term
  <2> QED
      BY <1>3, <1>4, <2>1, ValuesDifferByTerm
<1>7. Term(m, Digits, i) - Term(d, Digits, i) = -(16 * (c * w))
  <2>1. (d[i] - 16 * c) * w = d[i] * w - 16 * (c * w) /\ d[i] * w \in Int /\ c * w \in Int
      BY <1>1
  <2> QED
      BY <1>3, <2>1 DEF Term, w
<1>8. Term(e, Digits, i + 1) - Term(m, Digits, i + 1) = 16 * (c * w)
  <2>1. m[i + 1] = d[i + 1]
      BY <1>1, <1>3
  <2> DEFINE a == d[i + 1]
             x == 16 * w
  <2>2. a \in Int /\ x \in Int /\ Weight(i + 1) = x /\ c * x = 16 * (c * w)
      BY <1>1
  <2>3. e[i + 1] = a + c /\ m[i + 1] = a
      BY <1>4, <2>1
  <2> HIDE DEF a, x
  <2>4. (a + c) * x = a * x + c * x /\ a * x \in Int /\ c * x \in Int
      BY <1>1, <2>2
  <2>5. Term(e, Digits, i + 1) = (a + c) * x /\ Term(m, Digits, i + 1) = a * x
      BY <2>2, <2>3 DEF Term
  <2> QED
      BY <2>2, <2>4, <2>5
<1>9. c * w \in Int
    BY <1>1
<1> QED
    BY <1>2, <1>4, <1>5, <1>6, <1>7, <1>8, <1>9

\* Through the recoding and after it the digits spell the clamped scalar.
DigitsSpellSecret ==
    ValueOf(digits, Digits) = ClampScalar(secret)

SpellingInvariant == Recoding /\ secret \in Secrets /\ DigitsSpellSecret

\* The nibbles spell the clamped secret.
LEMMA SpellingInit == Init => SpellingInvariant
<1> SUFFICES ASSUME Init PROVE SpellingInvariant
    OBVIOUS
<1> DEFINE k == ClampScalar(secret)
<1>1. k \in Nat /\ digits = Nibbles(k) /\ secret \in Secrets
  <2>1. secret \in Nat
      BY RadixAssumption DEF Init, RadixAssumption
  <2> QED
      BY <2>1, ClampBelowField DEF Init
<1>2. k \div Weight(Last) \in 0 .. 15
  <2>1. Weight(Last) \in Nat \ {0} /\ TwoToField <= 8 * Weight(Last) /\ k < TwoToField /\ TwoToField \in Nat
    <3>1. secret \in Nat
        BY RadixAssumption DEF Init, RadixAssumption
    <3> QED
        BY <3>1, Weights, LastIsDigit, ClampBelowField, FieldAssumption, RadixAssumption
        DEF RadixAssumption, Weight, Last, FieldAssumption
  <2> HIDE DEF k
  <2>2. k < 8 * Weight(Last)
      BY <1>1, <2>1
  <2> QED
      BY <1>1, <2>1, <2>2, TopQuotient
<1>3. ValueOf(Nibbles(k), Digits) = k
    BY <1>1, <1>2, NibblesSpell
<1> QED
    BY <1>1, <1>3, RecodingInit DEF SpellingInvariant, DigitsSpellSecret

\* A carry takes from one digit what it gives to the next.
LEMMA SpellingStep == SpellingInvariant /\ [Next]_vars => SpellingInvariant'
<1> SUFFICES ASSUME SpellingInvariant, [Next]_vars PROVE SpellingInvariant'
    OBVIOUS
<1>1. Recoding'
    BY RecodingStep DEF SpellingInvariant
<1>2. CASE Recode
  <2>1. index \in Digits /\ index + 1 \in Digits /\ digits \in Rows
      BY <1>2, LastIsDigit DEF SpellingInvariant, Recoding, Recode, Digits, Rows
  <2>2. digits' = CarryDigit(digits, index) /\ secret' = secret
      BY <1>2 DEF Recode
  <2>3. ValueOf(digits', Digits) = ValueOf(digits, Digits)
      BY <2>1, <2>2, CarryKeepsValue
  <2> QED
      BY <1>1, <2>2, <2>3 DEF SpellingInvariant, DigitsSpellSecret
<1>3. CASE UNCHANGED <<secret, digits>>
    BY <1>1, <1>3 DEF SpellingInvariant, DigitsSpellSecret
<1> QED
    BY <1>2, <1>3 DEF Next, vars, RecodeEnds, AddOdd, Shift, AddEven, MapToU

\* signed_radix16 recodes the clamped secret and nothing else: at every
\* iteration, for every field size and secret, the digits spell it.
THEOREM RecodedDigitsSpell == Spec => []DigitsSpellSecret
<1>1. SpellingInvariant => DigitsSpellSecret
    BY DEF SpellingInvariant
<1> QED
    BY <1>1, SpellingInit, SpellingStep, PTL DEF Spec

-----------------------------------------------------------------------------
\* The additions and the doublings, for point formulas that follow the law.

\* The weights of the even digits are those of the table's rows.
LEMMA RowWeights == Weighted([r \in 0 .. FIELD_BYTES - 1 |-> 16 ^ (2 * r)])
<1> DEFINE W == [r \in 0 .. FIELD_BYTES - 1 |-> 16 ^ (2 * r)]
<1>1. FIELD_BYTES \in Nat \ {0} /\ Digits = 0 .. 2 * FIELD_BYTES - 1
    BY Weights, RadixAssumption DEF RadixAssumption, RADIX16_DIGITS
<1>2. W[0] = 1
    BY <1>1, Weights DEF Weight
<1>3. ASSUME NEW r \in 0 .. FIELD_BYTES - 1
      PROVE  W[r] \in Int /\ (r # 0 => W[r] = 256 * W[r - 1])
  <2> DEFINE k == 2 * (r - 1)
  <2>1. 2 * r \in Digits /\ Weight(2 * r) \in Int /\ W[r] = Weight(2 * r)
    <3>1. 2 * r \in Digits
        BY <1>1
    <3> QED
        BY <3>1, Weights DEF Weight
  <2>2. ASSUME r # 0 PROVE W[r] = 256 * W[r - 1]
    <3>1. r - 1 \in 0 .. FIELD_BYTES - 1 /\ k \in Digits /\ k + 1 \in Digits /\ (k + 1) + 1 = 2 * r
        BY <1>1, <2>2
    <3>2. W[r - 1] = Weight(k)
        BY <3>1 DEF Weight
    <3> HIDE DEF k
    <3>3. Weight(k + 1) = 16 * Weight(k) /\ Weight(k) \in Int
        BY <3>1, Weights
    <3>4. Weight((k + 1) + 1) = 16 * Weight(k + 1)
        BY <2>1, <3>1, Weights
    <3> QED
        BY <2>1, <3>1, <3>2, <3>3, <3>4
  <2> QED
      BY <2>1, <2>2
<1> HIDE DEF W
<1>4. Weighted(W)
    BY <1>1, <1>2, <1>3 DEF Weighted
<1> QED
    BY <1>4 DEF W

\* What doubling an accumulator, and adding a digit to it, make it represent.
LEMMA LawsApply ==
    ASSUME NEW n \in Int, NEW p, Represents(p, n)
    PROVE  /\ Represents(Double(p), 2 * n)
           /\ \A row \in 0 .. FIELD_BYTES - 1, digit \in -8 .. 8 :
                Represents(AddAffine(p, SelectBasepoint(row, digit)), n + digit * 16 ^ (2 * row))
<1> DEFINE W == [r \in 0 .. FIELD_BYTES - 1 |-> 16 ^ (2 * r)]
<1>1. Weighted(W)
    BY RowWeights
<1>2. \A r \in 0 .. FIELD_BYTES - 1 : W[r] = 16 ^ (2 * r)
    OBVIOUS
<1> HIDE DEF W
<1>3. /\ Represents(Double(p), 2 * n)
      /\ \A row \in 0 .. FIELD_BYTES - 1, digit \in -8 .. 8 :
           Represents(AddAffine(p, SelectBasepoint(row, digit)), n + digit * W[row])
    BY <1>1, AccumulatorsHold
<1> QED
    BY <1>2, <1>3

\* The identity represents zero.
LEMMA IdentityRepresents == Represents(Identity, 0)
<1>1. BaseMultiple(0) = Neutral
    BY ConstantsHold, MultipleSteps DEF BaseMultiple
<1> QED
    BY <1>1, ConstantsHold, RepresentsHolds

\* The positions below one that the odd and the even additions have done.
OddBelow(i) == {j \in Odd : j < i}
EvenBelow(i) == {j \in Digits \ Odd : j < i}

\* The digits at the positions covered so far spell a number the accumulator
\* represents; while the odd ones are added, the sixteenth of it.
Accumulated ==
    /\ loop = "recode" => acc = Identity
    /\ loop = "odd" =>
         /\ index % 2 = 1
         /\ \E n \in Int : ValueOf(digits, OddBelow(index)) = 16 * n /\ Represents(acc, n)
    /\ loop \in {"even", "done"} =>
         /\ index % 2 = 0
         /\ Represents(acc, ValueOf(digits, Odd \cup EvenBelow(index)))
    /\ loop = "done" => index >= RADIX16_DIGITS

AccumulationInvariant == SpellingInvariant /\ Accumulated

\* Whatever positions of whichever row: what their digits spell is an integer.
LEMMA ValueIsInteger ==
    ASSUME NEW d \in Rows, NEW positions
    PROVE  ValueOf(d, positions) \in Int
BY SpellingAddsTerms, Weights DEF ValueOf

\* The digits the additions read are in the range of the table.
LEMMA DigitsInUse ==
    ASSUME SpellingInvariant
    PROVE  digits \in Rows /\ index \in Nat /\ (loop # "recode" => \A j \in Digits : digits[j] \in -8 .. 8)
BY DEF SpellingInvariant, Recoding, DigitsFitTable, DigitRange, Rows

\* An addition of the odd loop: the accumulator then stands for the sixteenth
\* of the odd digits up to and including this one.
LEMMA OddStep ==
    ASSUME AccumulationInvariant, AddOdd
    PROVE  Accumulated'
<1> DEFINE v == ValueOf(digits, OddBelow(index))
           u == ValueOf(digits, OddBelow(index + 2))
           row == index \div 2
           d == digits[index]
<1>1. /\ loop = "odd" /\ index < RADIX16_DIGITS /\ index' = index + 2
      /\ acc' = AddAffine(acc, SelectBasepoint(row, d)) /\ UNCHANGED <<secret, loop, digits, public>>
      /\ index % 2 = 1 /\ SpellingInvariant
    BY DEF AddOdd, AccumulationInvariant, Accumulated, AddDigit
<1>2. digits \in Rows /\ index \in Digits /\ index \in Nat /\ d \in -8 .. 8 /\ d \in Int
  <2>1. index \in Digits
      BY <1>1, DigitsInUse, Weights
  <2> QED
      BY <1>1, <2>1, DigitsInUse
<1>3. row \in 0 .. FIELD_BYTES - 1 /\ index = 2 * row + 1 /\ row \in Nat
    BY <1>1, <1>2, RadixAssumption DEF RadixAssumption, RADIX16_DIGITS
<1>4. Weight(index) = 16 * Weight(2 * row) /\ Weight(2 * row) \in Nat
  <2>1. 2 * row \in Digits /\ 2 * row + 1 \in Digits
      BY <1>2, <1>3, Weights
  <2> QED
      BY <1>3, <2>1, Weights
<1>5. PICK n \in Int : v = 16 * n /\ Represents(acc, n)
    BY <1>1 DEF AccumulationInvariant, Accumulated
<1>6. Represents(acc', n + d * 16 ^ (2 * row))
    BY <1>1, <1>2, <1>3, <1>5, LawsApply
<1>7. u = v + d * Weight(index)
  <2>1. \A i \in Digits \ {index} : i \in OddBelow(index + 2) <=> i \in OddBelow(index)
      BY <1>1, <1>2 DEF OddBelow, Odd, Digits
  <2>2. index \in OddBelow(index + 2) /\ index \notin OddBelow(index)
      BY <1>1, <1>2 DEF OddBelow, Odd
  <2>3. \A i \in Digits \ {index} : Term(digits, OddBelow(index + 2), i) = Term(digits, OddBelow(index), i)
      BY <2>1 DEF Term
  <2>4. Term(digits, OddBelow(index + 2), index) = d * Weight(index) /\ Term(digits, OddBelow(index), index) = 0
      BY <2>2 DEF Term
  <2>5. /\ u = v + (Term(digits, OddBelow(index + 2), index) - Term(digits, OddBelow(index), index))
        /\ v \in Int
      BY <1>2, <2>3, ValuesDifferByTerm
  <2>6. d * Weight(index) \in Int
      BY <1>2, <1>4
  <2> HIDE DEF d, v, u
  <2> QED
      BY <2>4, <2>5, <2>6
<1> DEFINE m == d * Weight(2 * row)
<1>8. m \in Int /\ d * Weight(index) = 16 * m /\ m = d * 16 ^ (2 * row)
  <2>1. d * (16 * Weight(2 * row)) = 16 * (d * Weight(2 * row))
      BY <1>2, <1>4
  <2> QED
      BY <1>2, <1>4, <2>1 DEF Weight
<1>9. index' % 2 = 1
    BY <1>1, <1>2
<1> HIDE DEF m, v, u, row, d
<1>10. u = 16 * (n + m) /\ n + m \in Int
    BY <1>5, <1>7, <1>8
<1>11. ValueOf(digits', OddBelow(index')) = 16 * (n + m) /\ Represents(acc', n + m)
    BY <1>1, <1>6, <1>8, <1>10 DEF u
<1>12. \E k \in Int : ValueOf(digits', OddBelow(index')) = 16 * k /\ Represents(acc', k)
    BY <1>10, <1>11
<1> QED
    BY <1>1, <1>9, <1>12 DEF Accumulated, OddBelow

\* The four doublings turn the sixteenth into the whole of the odd digits.
LEMMA ShiftStep ==
    ASSUME AccumulationInvariant, Shift
    PROVE  Accumulated'
<1>1. /\ loop = "odd" /\ index >= RADIX16_DIGITS /\ loop' = "even" /\ index' = 0 /\ digits' = digits
      /\ acc' = Double(Double(Double(Double(acc)))) /\ SpellingInvariant
    BY DEF Shift, AccumulationInvariant
<1>2. digits \in Rows /\ index \in Nat
    BY <1>1, DigitsInUse
<1>3. PICK n \in Int : ValueOf(digits, OddBelow(index)) = 16 * n /\ Represents(acc, n)
    BY <1>1 DEF AccumulationInvariant, Accumulated
<1>4. OddBelow(index) = Odd /\ Odd \cup EvenBelow(0) = Odd
    BY <1>1, <1>2, Weights DEF OddBelow, EvenBelow, Odd
<1>5. Represents(Double(acc), 2 * n) /\ 2 * n \in Int
    BY <1>3, LawsApply
<1>6. Represents(Double(Double(acc)), 2 * (2 * n)) /\ 2 * (2 * n) \in Int
    BY <1>5, LawsApply
<1>7. Represents(Double(Double(Double(acc))), 2 * (2 * (2 * n))) /\ 2 * (2 * (2 * n)) \in Int
    BY <1>6, LawsApply
<1>8. Represents(acc', 2 * (2 * (2 * (2 * n))))
    BY <1>1, <1>7, LawsApply
<1>9. 2 * (2 * (2 * (2 * n))) = 16 * n
    BY <1>3
<1>10. Represents(acc', ValueOf(digits', Odd \cup EvenBelow(0)))
    BY <1>1, <1>3, <1>4, <1>8, <1>9
<1> QED
    BY <1>1, <1>10 DEF Accumulated, EvenBelow

\* An addition of the even loop adds its digit at its own weight.
LEMMA EvenStep ==
    ASSUME AccumulationInvariant, AddEven
    PROVE  Accumulated'
<1> DEFINE here == Odd \cup EvenBelow(index)
           next == Odd \cup EvenBelow(index + 2)
           v == ValueOf(digits, here)
           u == ValueOf(digits, next)
           row == index \div 2
           d == digits[index]
<1>1. /\ loop = "even" /\ index < RADIX16_DIGITS /\ index' = index + 2
      /\ acc' = AddAffine(acc, SelectBasepoint(row, d)) /\ UNCHANGED <<secret, loop, digits, public>>
      /\ index % 2 = 0 /\ Represents(acc, v) /\ SpellingInvariant
    BY DEF AddEven, AccumulationInvariant, Accumulated, AddDigit
<1>2. digits \in Rows /\ index \in Digits /\ index \in Nat /\ d \in -8 .. 8 /\ d \in Int
  <2>1. index \in Digits
      BY <1>1, DigitsInUse, Weights
  <2> QED
      BY <1>1, <2>1, DigitsInUse
<1>3. row \in 0 .. FIELD_BYTES - 1 /\ index = 2 * row
    BY <1>1, <1>2, RadixAssumption DEF RadixAssumption, RADIX16_DIGITS
<1>4. v \in Int
    BY <1>2, ValueIsInteger
<1>5. Represents(acc', v + d * 16 ^ (2 * row))
  <2> HIDE DEF v
  <2> QED
      BY <1>1, <1>2, <1>3, <1>4, LawsApply
<1>6. u = v + d * Weight(index)
  <2>1. \A i \in Digits \ {index} : i \in next <=> i \in here
      BY <1>1, <1>2 DEF EvenBelow, Odd, Digits
  <2>2. index \in next /\ index \notin here
      BY <1>1, <1>2 DEF EvenBelow, Odd
  <2> HIDE DEF here, next
  <2>3. \A i \in Digits \ {index} : Term(digits, next, i) = Term(digits, here, i)
      BY <2>1 DEF Term
  <2>4. Term(digits, next, index) = d * Weight(index) /\ Term(digits, here, index) = 0
      BY <2>2 DEF Term
  <2>5. u = v + (Term(digits, next, index) - Term(digits, here, index))
      BY <1>2, <2>3, ValuesDifferByTerm
  <2>6. d * Weight(index) \in Int
    <3>1. Weight(index) \in Int
        BY <1>2, Weights
    <3> QED
        BY <1>2, <3>1
  <2> HIDE DEF d, v, u
  <2> QED
      BY <1>4, <2>4, <2>5, <2>6
<1>7. Represents(acc', u)
    BY <1>3, <1>5, <1>6 DEF Weight
<1>8. index' % 2 = 0
    BY <1>1, <1>2
<1>9. Represents(acc', ValueOf(digits', Odd \cup EvenBelow(index')))
    BY <1>1, <1>7
<1> QED
    BY <1>1, <1>8, <1>9 DEF Accumulated, EvenBelow

\* Every step, and what the invariant says.
LEMMA AccumulationStep ==
    ASSUME AccumulationInvariant, [Next]_vars
    PROVE  AccumulationInvariant'
<1>1. SpellingInvariant /\ SpellingInvariant' /\ Accumulated
    BY SpellingStep DEF AccumulationInvariant
<1>2. CASE Recode
    BY <1>1, <1>2 DEF Recode, AccumulationInvariant, Accumulated
<1>3. CASE RecodeEnds
  <2>1. loop' = "odd" /\ index' = 1 /\ acc' = Identity /\ digits' = digits
      BY <1>1, <1>3 DEF RecodeEnds, Accumulated
  <2>2. ValueOf(digits, OddBelow(1)) = 16 * 0
    <3>1. OddBelow(1) = {}
        BY Weights DEF OddBelow, Odd
    <3>2. digits \in Rows /\ \A i \in Digits : Term(digits, {}, i) = 0
        BY <1>1, DigitsInUse DEF Term
    <3> QED
        BY <3>1, <3>2, NothingSpellsZero
  <2>3. Represents(Identity, 0)
      BY IdentityRepresents
  <2>4. \E n \in Int : ValueOf(digits', OddBelow(1)) = 16 * n /\ Represents(acc', n)
      BY <2>1, <2>2, <2>3
  <2>5. /\ index' % 2 = 1
        /\ \E n \in Int : ValueOf(digits', OddBelow(index')) = 16 * n /\ Represents(acc', n)
      BY <2>1, <2>4
  <2>6. Accumulated'
      BY <2>1, <2>5 DEF Accumulated, OddBelow
  <2> QED
      BY <1>1, <2>6 DEF AccumulationInvariant
<1>4. CASE AddOdd
    BY <1>1, <1>4, OddStep DEF AccumulationInvariant
<1>5. CASE Shift
    BY <1>1, <1>5, ShiftStep DEF AccumulationInvariant
<1>6. CASE AddEven
    BY <1>1, <1>6, EvenStep DEF AccumulationInvariant
<1>7. CASE MapToU
    BY <1>1, <1>7 DEF MapToU, AccumulationInvariant, Accumulated, EvenBelow
<1>8. CASE UNCHANGED vars
    BY <1>1, <1>8 DEF vars, AccumulationInvariant, Accumulated, OddBelow, EvenBelow
<1> QED
    BY <1>2, <1>3, <1>4, <1>5, <1>6, <1>7, <1>8 DEF Next

\* What the invariant says while the loops run, and at the end.
LEMMA AccumulatedIsCovered ==
    ASSUME AccumulationInvariant
    PROVE  /\ AccumulatesMultiple
           /\ loop = "done" => StandsForMultiple(acc, ClampScalar(secret))
<1>1. digits \in Rows /\ index \in Nat /\ loop \in {"recode", "odd", "even", "done"}
    BY DigitsInUse DEF AccumulationInvariant, SpellingInvariant, Recoding
<1>2. CASE loop = "recode"
  <2>1. Covered = 0
    <3>1. {j \in Odd : loop = "odd" /\ j < index} = {}
        BY <1>2
    <3>2. \A i \in Digits : Term(digits, {}, i) = 0
        BY DEF Term
    <3>3. ValueOf(digits, {}) = 0
        BY <1>1, <3>2, NothingSpellsZero
    <3>4. Covered = 0 \div 16
        BY <1>2, <3>1, <3>3 DEF Covered
    <3> QED
        BY <3>4
  <2> QED
      BY <1>2, <2>1, IdentityRepresents DEF AccumulationInvariant, Accumulated, Represents, AccumulatesMultiple
<1>3. CASE loop = "odd"
  <2>1. PICK n \in Int : ValueOf(digits, OddBelow(index)) = 16 * n /\ Represents(acc, n)
      BY <1>3 DEF AccumulationInvariant, Accumulated
  <2>2. {j \in Odd : loop = "odd" /\ j < index} = OddBelow(index)
      BY <1>3 DEF OddBelow
  <2>3. Covered = (16 * n) \div 16
      BY <1>3, <2>1, <2>2 DEF Covered
  <2>4. Covered = n
      BY <2>3
  <2> QED
      BY <1>3, <2>1, <2>4 DEF Represents, AccumulatesMultiple
<1>4. CASE loop \in {"even", "done"}
  <2>1. Covered = ValueOf(digits, Odd \cup EvenBelow(index)) /\ StandsForMultiple(acc, Covered)
      BY <1>4 DEF Covered, EvenBelow, AccumulationInvariant, Accumulated, Represents
  <2>2. ASSUME loop = "done" PROVE Covered = ClampScalar(secret)
    <3>1. Odd \cup EvenBelow(index) = Digits
        BY <1>1, <2>2, Weights DEF AccumulationInvariant, Accumulated, EvenBelow, Odd
    <3> QED
        BY <2>1, <3>1 DEF AccumulationInvariant, SpellingInvariant, DigitsSpellSecret
  <2> QED
      BY <2>1, <2>2 DEF AccumulatesMultiple
<1> QED
    BY <1>1, <1>2, <1>3, <1>4

\* Whatever the field, the curve and the secret, the loops accumulate what the
\* digits consumed so far spell, in any iteration, and return the multiple of
\* the base point by the clamped secret.  The point formulas, the table and its
\* normalisation, the split into odd and even digits, the rows they are looked
\* up in and the four doublings fit together.
THEOREM FixedBaseMultiplies ==
    /\ Spec => []AccumulatesMultiple
    /\ Spec => [](loop = "done" => StandsForMultiple(acc, ClampScalar(secret)))
<1>1. Init => AccumulationInvariant
    BY SpellingInit DEF AccumulationInvariant, Accumulated, Init
<1>2. AccumulationInvariant /\ [Next]_vars => AccumulationInvariant'
    BY AccumulationStep
<1>3. AccumulationInvariant => /\ AccumulatesMultiple
                               /\ loop = "done" => StandsForMultiple(acc, ClampScalar(secret))
    BY AccumulatedIsCovered
<1> QED
    BY <1>1, <1>2, <1>3, PTL DEF Spec

-----------------------------------------------------------------------------
\* The scalar bit by bit.

TwoTo(i) == 2 ^ i

\* Powers of two, and that the top one is a multiple of those below.
LEMMA PowersOfTwo ==
    /\ FIELD_BITS \in Nat /\ FIELD_BITS >= 3
    /\ TwoTo(0) = 1 /\ TwoTo(1) = 2 /\ TwoTo(2) = 4
    /\ TwoToField = 2 * TwoTo(FIELD_BITS - 1)
    /\ \A i \in 0 .. FIELD_BITS : TwoTo(i) \in Nat \ {0}
    /\ \A i \in 1 .. FIELD_BITS : TwoTo(i) = 2 * TwoTo(i - 1)
<1>1. /\ FIELD_BITS \in Nat /\ FIELD_BITS >= 3 /\ TwoTo(0) = 1 /\ TwoToField = TwoTo(FIELD_BITS)
      /\ \A i \in 1 .. FIELD_BITS : TwoTo(i) \in Nat /\ TwoTo(i) = 2 * TwoTo(i - 1)
    BY LadderAssumption DEF LadderAssumption, TwoTo, TwoToField
<1>2. TwoTo(1) = 2 /\ TwoTo(2) = 4 /\ TwoToField = 2 * TwoTo(FIELD_BITS - 1)
    BY <1>1
<1>3. \A i \in 0 .. FIELD_BITS : TwoTo(i) \in Nat \ {0}
  <2> DEFINE S == {i \in Nat : i <= FIELD_BITS => TwoTo(i) \in Nat \ {0}}
  <2>1. 0 \in S
      BY <1>1
  <2>2. ASSUME NEW i \in S PROVE i + 1 \in S
    <3>1. CASE i + 1 <= FIELD_BITS
      <4>1. i + 1 \in 1 .. FIELD_BITS /\ i \in Nat /\ TwoTo(i) \in Nat \ {0}
          BY <1>1, <3>1
      <4>2. TwoTo(i + 1) = 2 * TwoTo((i + 1) - 1) /\ (i + 1) - 1 = i
          BY <1>1, <4>1
      <4> QED
          BY <4>1, <4>2
    <3> QED
        BY <1>1, <3>1
  <2>3. S = Nat
    <3>1. S \in SUBSET Nat
        OBVIOUS
    <3> HIDE DEF S
    <3> QED
        BY <2>1, <2>2, <3>1, SetInduction
  <2> QED
      BY <1>1, <2>3
<1> QED
    BY <1>1, <1>2, <1>3

\* A quotient is what leaves a remainder below the divisor.
LEMMA QuotientIs ==
    ASSUME NEW k \in Nat, NEW w \in Nat \ {0}, NEW a \in Nat, NEW e \in 0 .. w - 1, k = w * a + e
    PROVE  k \div w = a
<1> DEFINE c == k \div w
           r == k % w
<1>1. c \in Nat /\ r \in 0 .. w - 1 /\ k = w * c + r
    BY Division, DivisionExact
<1> HIDE DEF c, r
<1> DEFINE x == w * a
           z == w * c
<1>2. x \in Nat /\ z \in Nat /\ x + e = z + r
    BY <1>1
<1>3. CASE a < c
  <2>1. w * (a + 1) <= w * c /\ w * (a + 1) = x + w
      BY <1>1, <1>3
  <2> HIDE DEF x, z
  <2> QED
      BY <1>1, <1>2, <2>1 DEF z
<1>4. CASE c < a
  <2>1. w * (c + 1) <= w * a /\ w * (c + 1) = z + w
      BY <1>1, <1>4
  <2> HIDE DEF x, z
  <2> QED
      BY <1>1, <1>2, <2>1 DEF x
<1> QED
    BY <1>1, <1>3, <1>4 DEF c

\* A number is twice its half and a bit.
LEMMA HalfAndBit ==
    ASSUME NEW k \in Nat, NEW w \in Nat \ {0}
    PROVE  /\ k \div w \in Nat /\ k \div (2 * w) \in Nat
           /\ (k \div w) % 2 \in {0, 1}
           /\ k \div w = 2 * (k \div (2 * w)) + ((k \div w) % 2)
<1> DEFINE q == k \div w
           r == k - w * q
           h == q \div 2
           b == q % 2
<1>1. q \in Nat /\ r \in 0 .. w - 1
    BY SMT
<1>2. k = w * q + r
    BY <1>1
<1>3. h \in Nat /\ b \in {0, 1} /\ q = 2 * h + b
    BY <1>1
<1> HIDE DEF q, r, h, b
<1>4. k = (2 * w) * h + (w * b + r) /\ w * b + r \in 0 .. 2 * w - 1
  <2>1. w * (2 * h + b) = (2 * w) * h + w * b
      BY <1>3
  <2>2. w * b \in {0, w}
      BY <1>3
  <2>3. (2 * w) * h \in Nat
      BY <1>3
  <2> QED
      BY <1>1, <1>2, <1>3, <2>1, <2>2, <2>3
<1>5. k \div (2 * w) = h
  <2> DEFINE v == 2 * w
             e == w * b + r
  <2>1. v \in Nat \ {0} /\ e \in 0 .. v - 1 /\ k = v * h + e
      BY <1>4
  <2> HIDE DEF v, e
  <2>2. k \div v = h
      BY <1>3, <2>1, QuotientIs
  <2> QED
      BY <2>2 DEF v
<1> QED
    BY <1>1, <1>3, <1>5 DEF q, b

\* What is left of a scalar above bit i, and bit i below it.
LEMMA ScalarBits ==
    ASSUME NEW k \in Nat, NEW i \in 0 .. FIELD_BITS - 1
    PROVE  /\ k \div TwoTo(i) \in Nat /\ k \div TwoTo(i + 1) \in Nat
           /\ ScalarBit(k, i) \in {0, 1}
           /\ k \div TwoTo(i) = 2 * (k \div TwoTo(i + 1)) + ScalarBit(k, i)
<1>1. TwoTo(i) \in Nat \ {0} /\ TwoTo(i + 1) = 2 * TwoTo(i)
  <2>1. i \in 0 .. FIELD_BITS /\ i + 1 \in 1 .. FIELD_BITS /\ (i + 1) - 1 = i
      BY PowersOfTwo
  <2> QED
      BY <2>1, PowersOfTwo
<1>2. ScalarBit(k, i) = (k \div TwoTo(i)) % 2
    BY DEF ScalarBit, TwoTo
<1> QED
    BY <1>1, <1>2, HalfAndBit

\* The top bit is an even multiple of every bit below it.
LEMMA TopBitAbove ==
    ASSUME NEW i \in 0 .. FIELD_BITS - 2
    PROVE  \E g \in Nat : TwoTo(FIELD_BITS - 1) = TwoTo(i) * (2 * g)
<1> DEFINE D == FIELD_BITS
           Above(n) == \E g \in Nat : TwoTo(D - 1) = TwoTo((D - 2) - n) * (2 * g)
           S == {n \in Nat : n <= D - 2 => Above(n)}
<1>0. D \in Nat /\ D >= 3
    BY PowersOfTwo
<1>1. 0 \in S
  <2>1. TwoTo(D - 1) = 2 * TwoTo(D - 2)
    <3>1. D - 1 \in 1 .. D /\ (D - 1) - 1 = D - 2
        BY <1>0
    <3> QED
        BY <3>1, PowersOfTwo
  <2>2. D - 2 \in 0 .. D /\ (D - 2) - 0 = D - 2
      BY <1>0
  <2>3. TwoTo(D - 2) \in Nat
      BY <2>2, PowersOfTwo
  <2>4. TwoTo(D - 1) = TwoTo((D - 2) - 0) * (2 * 1)
      BY <2>1, <2>2, <2>3
  <2> QED
      BY <2>4
<1>2. ASSUME NEW n \in S PROVE n + 1 \in S
  <2>1. CASE n + 1 <= D - 2
    <3>1. PICK g \in Nat : TwoTo(D - 1) = TwoTo((D - 2) - n) * (2 * g)
        BY <1>0, <2>1
    <3> DEFINE j == (D - 2) - n
    <3>2. j \in 1 .. D /\ (D - 2) - (n + 1) = j - 1 /\ j - 1 \in 0 .. D
        BY <1>0, <2>1
    <3> HIDE DEF j
    <3>3. TwoTo(j) = 2 * TwoTo(j - 1) /\ TwoTo(j - 1) \in Nat
        BY <3>2, PowersOfTwo
    <3>4. (2 * TwoTo(j - 1)) * (2 * g) = TwoTo(j - 1) * (2 * (2 * g))
        BY <3>3
    <3>5. TwoTo(D - 1) = TwoTo((D - 2) - (n + 1)) * (2 * (2 * g))
        BY <3>1, <3>2, <3>3, <3>4 DEF j
    <3> QED
        BY <3>5
  <2> QED
      BY <1>0, <2>1
<1>3. S = Nat
  <2>1. S \in SUBSET Nat
      OBVIOUS
  <2> HIDE DEF S
  <2> QED
      BY <1>1, <1>2, <2>1, SetInduction
<1>4. (D - 2) - i \in S /\ (D - 2) - ((D - 2) - i) = i /\ (D - 2) - i <= D - 2
  <2>1. (D - 2) - i \in Nat /\ (D - 2) - ((D - 2) - i) = i /\ (D - 2) - i <= D - 2
      BY <1>0
  <2> HIDE DEF S
  <2> QED
      BY <1>3, <2>1
<1> QED
    BY <1>4 DEF D

\* Doubling an addend leaves the parity of a sum alone.
LEMMA Parity ==
    ASSUME NEW x \in Nat, NEW y \in Nat
    PROVE  (2 * x + y) % 2 = y % 2
BY SMT

\* clamp_scalar keeps the bits from 2 up to the one below the top bit.
LEMMA ClampKeepsBits ==
    ASSUME NEW s \in Nat, NEW i \in 2 .. FIELD_BITS - 2
    PROVE  ScalarBit(ClampScalar(s), i) = ScalarBit(s, i)
<1> DEFINE h == TwoTo(FIELD_BITS - 1)
           w == TwoTo(i)
           v == TwoTo(i - 2)
           a == s \div h
           r == s % h
           p == r \div w
           e == r % w
           f == r \div 4
           d == r % 4
           k == ClampScalar(s)
<1>1. h \in Nat \ {0} /\ w \in Nat \ {0} /\ v \in Nat \ {0} /\ w = 4 * v
  <2>1. /\ FIELD_BITS - 1 \in 0 .. FIELD_BITS /\ i \in 1 .. FIELD_BITS /\ i \in 0 .. FIELD_BITS
        /\ i - 1 \in 1 .. FIELD_BITS /\ i - 2 \in 0 .. FIELD_BITS /\ (i - 1) - 1 = i - 2
      BY PowersOfTwo
  <2>2. TwoTo(i) = 2 * TwoTo(i - 1) /\ TwoTo(i - 1) = 2 * TwoTo(i - 2)
      BY <2>1, PowersOfTwo
  <2>3. TwoTo(FIELD_BITS - 1) \in Nat \ {0} /\ TwoTo(i) \in Nat \ {0} /\ TwoTo(i - 2) \in Nat \ {0}
      BY <2>1, PowersOfTwo
  <2> QED
      BY <2>2, <2>3
<1>2. PICK g \in Nat : h = w * (2 * g)
  <2>1. i \in 0 .. FIELD_BITS - 2
      BY PowersOfTwo
  <2> QED
      BY <2>1, TopBitAbove
<1>3. k = 4 * f + h
    BY DEF ClampScalar, TwoTo
<1>4. ScalarBit(k, i) = (k \div w) % 2 /\ ScalarBit(s, i) = (s \div w) % 2
    BY DEF ScalarBit, TwoTo
<1> HIDE DEF h, w, v, k
<1>5. a \in Nat /\ r \in Nat /\ s = h * a + r
  <2>1. a \in Nat /\ r \in 0 .. h - 1
      BY <1>1, Division
  <2>2. s = h * a + r
      BY <1>1, DivisionExact
  <2> QED
      BY <1>1, <2>1, <2>2
<1> HIDE DEF a, r
<1>6. p \in Nat /\ e \in 0 .. w - 1 /\ r = w * p + e
    BY <1>1, <1>5, Division, DivisionExact
<1>7. f \in Nat /\ d \in 0 .. 3 /\ r = 4 * f + d
    BY <1>5
<1> HIDE DEF p, e, f, d
<1>8. e - d \in 0 .. w - 1 /\ 4 * f = w * p + (e - d)
  <2> DEFINE m == v * p
  <2>1. w * p = 4 * m /\ m \in Nat
      BY <1>1, <1>6
  <2> HIDE DEF m
  <2> QED
      BY <1>1, <1>6, <1>7, <2>1
<1>9. k \div w = 2 * g + p
  <2>1. w * (2 * g + p) = w * (2 * g) + w * p
      BY <1>1, <1>6
  <2>2. k = w * (2 * g + p) + (e - d) /\ k \in Nat /\ 2 * g + p \in Nat
      BY <1>1, <1>2, <1>3, <1>6, <1>7, <1>8, <2>1
  <2> DEFINE q == 2 * g + p
             x == e - d
  <2>3. q \in Nat /\ x \in 0 .. w - 1 /\ k = w * q + x
      BY <1>8, <2>2
  <2> HIDE DEF q, x
  <2>4. k \div w = q
      BY <1>1, <2>2, <2>3, QuotientIs
  <2> QED
      BY <2>4 DEF q
<1>10. s \div w = 2 * (g * a) + p
  <2>1. (w * (2 * g)) * a + w * p = w * (2 * (g * a) + p)
      BY <1>1, <1>5, <1>6
  <2>2. g * a \in Nat
      BY <1>5
  <2> DEFINE q == 2 * (g * a) + p
  <2>3. q \in Nat /\ s = w * q + e
    <3>1. s = (w * (2 * g)) * a + w * p + e
        BY <1>1, <1>2, <1>5, <1>6
    <3>2. (w * (2 * g)) * a \in Nat /\ w * p \in Nat
        BY <1>1, <1>5, <1>6
    <3> QED
        BY <1>6, <2>1, <2>2, <3>1, <3>2
  <2> HIDE DEF q
  <2>4. s \div w = q
      BY <1>1, <1>6, <2>3, QuotientIs
  <2> QED
      BY <2>4 DEF q
<1>11. (2 * g + p) % 2 = p % 2 /\ (2 * (g * a) + p) % 2 = p % 2
  <2>1. g * a \in Nat
      BY <1>5
  <2> QED
      BY <1>6, <2>1, Parity
<1> QED
    BY <1>4, <1>9, <1>10, <1>11 DEF k

\* Two clamped scalars with the same bits are the same.
LEMMA BitsDetermineScalar ==
    ASSUME NEW k \in TwoTo(FIELD_BITS - 1) .. TwoToField - 1, k % 4 = 0,
           NEW m \in TwoTo(FIELD_BITS - 1) .. TwoToField - 1, m % 4 = 0,
           \A i \in 2 .. FIELD_BITS - 2 : ScalarBit(k, i) = ScalarBit(m, i)
    PROVE  k = m
<1> DEFINE D == FIELD_BITS
           h == TwoTo(D - 1)
           S == {n \in Nat : n <= D - 3 => k \div TwoTo((D - 1) - n) = m \div TwoTo((D - 1) - n)}
<1>0. D \in Nat /\ D >= 3 /\ h \in Nat \ {0} /\ TwoToField = 2 * h
  <2>1. FIELD_BITS - 1 \in 0 .. FIELD_BITS
      BY PowersOfTwo
  <2> QED
      BY <2>1, PowersOfTwo
<1>1. k \in Nat /\ m \in Nat
    BY <1>0
<1>2. 0 \in S
  <2>1. \A x \in h .. 2 * h - 1 : x \div h = 1
    <3> SUFFICES ASSUME NEW x \in h .. 2 * h - 1 PROVE x \div h = 1
        OBVIOUS
    <3> HIDE DEF h
    <3>1. x \in Nat /\ x - h \in 0 .. h - 1 /\ x = h * 1 + (x - h)
        BY <1>0
    <3> DEFINE e == x - h
    <3> HIDE DEF e
    <3>2. x \in Nat /\ e \in 0 .. h - 1 /\ x = h * 1 + e
        BY <3>1 DEF e
    <3> QED
        BY <1>0, <3>2, QuotientIs
  <2>2. (D - 1) - 0 = D - 1
      BY <1>0
  <2>3. k \div h = 1 /\ m \div h = 1
      BY <1>0, <2>1
  <2> QED
      BY <2>2, <2>3
<1>3. ASSUME NEW n \in S PROVE n + 1 \in S
  <2>1. CASE n + 1 <= D - 3
    <3> DEFINE i == (D - 1) - (n + 1)
    <3>1. i \in 0 .. FIELD_BITS - 1 /\ i + 1 = (D - 1) - n /\ i \in 2 .. FIELD_BITS - 2
        BY <1>0, <2>1
    <3>2. k \div TwoTo((D - 1) - n) = m \div TwoTo((D - 1) - n)
        BY <1>0, <2>1
    <3> HIDE DEF i, D
    <3>3. k \div TwoTo(i + 1) = m \div TwoTo(i + 1) /\ ScalarBit(k, i) = ScalarBit(m, i)
        BY <3>1, <3>2
    <3>4. /\ k \div TwoTo(i) = 2 * (k \div TwoTo(i + 1)) + ScalarBit(k, i)
          /\ m \div TwoTo(i) = 2 * (m \div TwoTo(i + 1)) + ScalarBit(m, i)
        BY <1>1, <3>1, ScalarBits
    <3>5. k \div TwoTo(i) = m \div TwoTo(i)
        BY <3>3, <3>4, Zenon
    <3> QED
        BY <3>5 DEF i
  <2> QED
      BY <1>0, <2>1
<1>4. S = Nat
  <2>1. S \in SUBSET Nat
      OBVIOUS
  <2> HIDE DEF S
  <2> QED
      BY <1>2, <1>3, <2>1, SetInduction
<1>5. k \div TwoTo(2) = m \div TwoTo(2)
  <2>1. D - 3 \in S /\ (D - 1) - (D - 3) = 2 /\ D - 3 <= D - 3
    <3>1. D - 3 \in Nat /\ (D - 1) - (D - 3) = 2 /\ D - 3 <= D - 3
        BY <1>0
    <3> HIDE DEF S
    <3> QED
        BY <1>4, <3>1
  <2> QED
      BY <2>1
<1> QED
    BY <1>1, <1>5, PowersOfTwo

\* clamp_scalar yields a multiple of four with exactly the top field bit set.
THEOREM ClampRange ==
    ASSUME NEW s \in Nat
    PROVE  /\ ClampScalar(s) \in Nat /\ ClampScalar(s) % 4 = 0
           /\ ClampScalar(s) \in TwoTo(FIELD_BITS - 1) .. TwoToField - 1
<1>1. (2 ^ (FIELD_BITS - 1)) % 4 = 0
  <2>1. PICK g \in Nat : TwoTo(FIELD_BITS - 1) = TwoTo(1) * (2 * g)
    <3>1. 1 \in 0 .. FIELD_BITS - 2
        BY PowersOfTwo
    <3> QED
        BY <3>1, TopBitAbove
  <2>2. TwoTo(FIELD_BITS - 1) = 4 * g
      BY <2>1, PowersOfTwo
  <2>3. TwoTo(FIELD_BITS - 1) % 4 = 0
      BY <2>2
  <2> QED
      BY <2>3 DEF TwoTo
<1> QED
    BY <1>1, ClampArithmetic, ClampBelowField, RadixAssumption DEF TwoTo

\* clamp_scalar gives the scalar the encoding means.
LEMMA ClampIsMeant ==
    ASSUME private \in Nat
    PROVE  MeantScalar = ClampScalar(private)
<1> DEFINE h == TwoTo(FIELD_BITS - 1)
           Means(k) == /\ k \in h .. TwoToField - 1 /\ k % 4 = 0
                       /\ \A i \in 2 .. FIELD_BITS - 2 : ScalarBit(k, i) = ScalarBit(private, i)
<1>1. Means(ClampScalar(private))
    BY ClampRange, ClampKeepsBits
<1>2. MeantScalar = CHOOSE k \in h .. TwoToField - 1 :
        /\ k % 4 = 0
        /\ \A i \in 2 .. FIELD_BITS - 2 : ScalarBit(k, i) = ScalarBit(private, i)
    BY DEF MeantScalar, TwoTo
<1>3. Means(MeantScalar)
    BY <1>1, <1>2
<1> QED
    BY <1>1, <1>3, BitsDetermineScalar

\* Masking and one subtraction reduce an encoding.
LEMMA DecodingReduces ==
    ASSUME NEW e \in Nat
    PROVE  FromX301Bytes(e) = (e % TwoToField) % P /\ FromX301Bytes(e) \in Elements
<1> DEFINE m == e % TwoToField
<1>1. P \in Nat \ {0} /\ TwoToField \in Nat \ {0} /\ TwoToField < 2 * P
    BY FieldAssumption DEF FieldAssumption
<1>2. m \in 0 .. TwoToField - 1
    BY <1>1, Division
<1>3. FromX301Bytes(e) = IF m >= P THEN m - P ELSE m
    BY DEF FromX301Bytes
<1> HIDE DEF m
<1>4. m % P = IF m >= P THEN m - P ELSE m
    BY <1>1, <1>2
<1> QED
    BY <1>1, <1>2, <1>3, <1>4 DEF m, Elements

-----------------------------------------------------------------------------
\* The registers of the ladder.

LadderStates ==
    [x1 : Elements, x2 : Elements, z2 : Elements, x3 : Elements, z3 : Elements, swap : {0, 1}]

\* The field is closed under its operations.
LEMMA FieldCloses ==
    ASSUME NEW x \in Int, NEW y \in Int
    PROVE  FAdd(x, y) \in Elements /\ FSub(x, y) \in Elements /\ FMul(x, y) \in Elements
<1>1. P \in Nat \ {0}
    BY FieldAssumption DEF FieldAssumption
<1>2. \A v \in Int : v % P \in Elements
    BY <1>1 DEF Elements
<1>3. x + y \in Int /\ x - y \in Int /\ x * y \in Int
    OBVIOUS
<1> QED
    BY <1>2, <1>3 DEF FAdd, FSub, FMul

\* Elements of the field are integers.
LEMMA ElementsAreIntegers == Elements \subseteq Int
BY FieldAssumption DEF FieldAssumption, Elements

\* Zero and one are among them.
LEMMA OneIsElement == 0 \in Elements /\ 1 \in Elements /\ P \in Nat \ {0}
BY FieldAssumption DEF FieldAssumption, Elements

\* One does not scale.
LEMMA TimesOne ==
    ASSUME NEW x \in Elements
    PROVE  FMul(x, 1) = x
<1>1. P \in Nat \ {0} /\ x \in 0 .. P - 1 /\ x * 1 = x
    BY OneIsElement DEF Elements
<1>2. x % P = x
    BY <1>1
<1> QED
    BY <1>1, <1>2 DEF FMul

\* A doubling of two elements gives two.
LEMMA DoubleTyped ==
    ASSUME NEW x \in Elements, NEW z \in Elements
    PROVE  DoubleScaled(x, z).x \in Elements /\ DoubleScaled(x, z).z \in Elements
<1> DEFINE aa == FSquare(FAdd(x, z))
           bb == FSquare(FSub(x, z))
           e == FSub(aa, bb)
           f == FMul(aa, A24_DENOMINATOR)
           g == FAdd(f, FMul(e, A24_NUMERATOR))
<1> USE ElementsAreIntegers, FieldCloses
<1>1. A24_DENOMINATOR \in Int /\ A24_NUMERATOR \in Int
    BY Coefficients DEF A24_DENOMINATOR, A24_NUMERATOR
<1>2. FAdd(x, z) \in Elements /\ FSub(x, z) \in Elements
    OBVIOUS
<1>3. aa \in Elements /\ bb \in Elements
    BY <1>2 DEF FSquare
<1> HIDE DEF aa, bb
<1>4. e \in Elements /\ f \in Elements
    BY <1>1, <1>3
<1> HIDE DEF e, f
<1>5. FMul(e, A24_NUMERATOR) \in Elements
    BY <1>1, <1>4
<1>6. g \in Elements
    BY <1>4, <1>5
<1> HIDE DEF g
<1>7. FMul(f, bb) \in Elements /\ FMul(e, g) \in Elements
    BY <1>3, <1>4, <1>6
<1>8. DoubleScaled(x, z) = [x |-> FMul(f, bb), z |-> FMul(e, g)]
    BY Zenon DEF DoubleScaled, aa, bb, e, f, g
<1> QED
    BY <1>7, <1>8

\* A conditional swap permutes registers.
LEMMA SwapTyped ==
    ASSUME NEW s \in LadderStates, NEW b
    PROVE  ConditionalSwap(s, b) \in LadderStates
BY DEF ConditionalSwap, LadderStates

\* A doubling and a differential addition leave elements, u as it is and the swap.
LEMMA RoundedTyped ==
    ASSUME NEW s \in LadderStates, NEW bit \in {0, 1}
    PROVE  Rounded(s, bit) \in LadderStates /\ Rounded(s, bit).x1 = s.x1 /\ Rounded(s, bit).swap = bit
<1> DEFINE two == DoubleScaled(s.x2, s.z2)
           da == FMul(FSub(s.x3, s.z3), FAdd(s.x2, s.z2))
           cb == FMul(FAdd(s.x3, s.z3), FSub(s.x2, s.z2))
           plus == FSquare(FAdd(da, cb))
           minus == FMul(s.x1, FSquare(FSub(da, cb)))
<1>1. s.x1 \in Elements /\ s.x2 \in Elements /\ s.z2 \in Elements /\ s.x3 \in Elements /\ s.z3 \in Elements
    BY DEF LadderStates
<1>2. two.x \in Elements /\ two.z \in Elements
    BY <1>1, DoubleTyped
<1> USE ElementsAreIntegers, FieldCloses
<1>3. /\ FSub(s.x3, s.z3) \in Elements /\ FAdd(s.x2, s.z2) \in Elements
      /\ FAdd(s.x3, s.z3) \in Elements /\ FSub(s.x2, s.z2) \in Elements
    BY <1>1
<1>4. da \in Elements /\ cb \in Elements
    BY <1>3
<1> HIDE DEF da, cb, two
<1>5. FAdd(da, cb) \in Elements /\ FSub(da, cb) \in Elements
    BY <1>4
<1>6. plus \in Elements /\ FSquare(FSub(da, cb)) \in Elements
    BY <1>5 DEF FSquare
<1>7. minus \in Elements
    BY <1>1, <1>6
<1> HIDE DEF plus, minus
<1>8. Rounded(s, bit) =
        [x1 |-> s.x1, x2 |-> two.x, z2 |-> two.z, x3 |-> plus, z3 |-> minus, swap |-> bit]
    BY Zenon DEF Rounded, two, da, cb, plus, minus
<1> QED
    BY <1>1, <1>2, <1>6, <1>7, <1>8 DEF LadderStates

\* So does a round.
LEMMA RoundTyped ==
    ASSUME NEW s \in LadderStates, NEW bit \in {0, 1}
    PROVE  /\ LadderRound(s, bit) \in LadderStates
           /\ LadderRound(s, bit).x1 = s.x1 /\ LadderRound(s, bit).swap = bit
<1> DEFINE t == ConditionalSwap(s, (s.swap + bit) % 2)
<1>1. t \in LadderStates
    BY SwapTyped
<1>2. t.x1 = s.x1
    BY DEF ConditionalSwap, LadderStates
<1> HIDE DEF t
<1>3. LadderRound(s, bit) = Rounded(t, bit)
    BY DEF LadderRound, t
<1> QED
    BY <1>1, <1>2, <1>3, RoundedTyped

\* The start has u as its coordinate.
LEMMA StartTyped ==
    ASSUME NEW u \in Elements
    PROVE  LadderStart(u) \in LadderStates /\ LadderStart(u).x1 = u
<1> DEFINE two == DoubleScaled(u, 1)
<1>1. two.x \in Elements /\ two.z \in Elements
    BY DoubleTyped, OneIsElement
<1> HIDE DEF two
<1>2. LadderStart(u) = [x1 |-> u, x2 |-> two.x, z2 |-> two.z, x3 |-> u, z3 |-> 1, swap |-> 1]
    BY DEF LadderStart, two
<1> QED
    BY <1>1, <1>2, OneIsElement DEF LadderStates

-----------------------------------------------------------------------------
\* All the rounds of a scalar.

\* The states of the rounds for the top n bits below the highest.
Rounds(k, u, s, n) ==
    /\ s[FIELD_BITS - 1] = LadderStart(u)
    /\ \A i \in 2 .. FIELD_BITS - 2 :
         i >= (FIELD_BITS - 1) - n => s[i] = LadderRound(s[i + 1], ScalarBit(k, i))

\* Another round extends them, down to bit 2.
LEMMA RoundsExist ==
    ASSUME NEW k \in Nat, NEW u \in Elements
    PROVE  \E s \in [2 .. FIELD_BITS - 1 -> LadderStates] : Rounds(k, u, s, FIELD_BITS)
<1> DEFINE D == FIELD_BITS
           S == {n \in Nat : \E s \in [2 .. D - 1 -> LadderStates] : Rounds(k, u, s, n)}
<1>0. D \in Nat /\ D >= 3
    BY PowersOfTwo
<1>1. 0 \in S
  <2> DEFINE s == [i \in 2 .. D - 1 |-> LadderStart(u)]
  <2>1. s \in [2 .. D - 1 -> LadderStates]
      BY StartTyped
  <2>2. Rounds(k, u, s, 0)
      BY <1>0 DEF Rounds
  <2> QED
      BY <2>1, <2>2
<1>2. ASSUME NEW n \in S PROVE n + 1 \in S
  <2>1. PICK s \in [2 .. D - 1 -> LadderStates] : Rounds(k, u, s, n)
      OBVIOUS
  <2> DEFINE j == (D - 1) - (n + 1)
  <2>2. CASE j < 2
      BY <1>0, <2>1, <2>2 DEF Rounds
  <2>3. CASE j >= 2
    <3> DEFINE v == LadderRound(s[j + 1], ScalarBit(k, j))
               t == [s EXCEPT ![j] = v]
    <3>1. n \in Nat /\ j \in 2 .. D - 2 /\ j \in 0 .. FIELD_BITS - 1 /\ j + 1 \in 2 .. D - 1
        BY <1>0, <2>3
    <3>2. ScalarBit(k, j) \in {0, 1}
        BY <3>1, ScalarBits
    <3>3. v \in LadderStates
      <4>1. s[j + 1] \in LadderStates
          BY <3>1
      <4> QED
          BY <3>2, <4>1, RoundTyped
    <3> HIDE DEF v
    <3>4. t \in [2 .. D - 1 -> LadderStates]
        BY <3>3
    <3>5. \A i \in 2 .. D - 1 : t[i] = IF i = j THEN v ELSE s[i]
        BY <1>0
    <3>6. t[D - 1] = LadderStart(u)
        BY <1>0, <2>1, <3>1, <3>5 DEF Rounds
    <3>7. ASSUME NEW i \in 2 .. D - 2, i >= (D - 1) - (n + 1)
          PROVE  t[i] = LadderRound(t[i + 1], ScalarBit(k, i))
      <4>1. i \in 2 .. D - 1 /\ i + 1 \in 2 .. D - 1 /\ i + 1 # j
          BY <1>0, <3>1, <3>7
      <4>2. t[i + 1] = s[i + 1]
          BY <3>5, <4>1
      <4>3. CASE i = j
          BY <3>5, <4>1, <4>2, <4>3 DEF v
      <4>4. CASE i # j
        <5>1. i >= (D - 1) - n
            BY <1>0, <3>1, <3>7, <4>4
        <5>2. s[i] = LadderRound(s[i + 1], ScalarBit(k, i))
            BY <2>1, <3>7, <5>1 DEF Rounds
        <5> QED
            BY <3>5, <4>1, <4>2, <4>4, <5>2
      <4> QED
          BY <4>3, <4>4
    <3> HIDE DEF t
    <3>8. Rounds(k, u, t, n + 1)
        BY <3>6, <3>7 DEF Rounds
    <3> QED
        BY <3>1, <3>4, <3>8
  <2> QED
      BY <1>0, <2>2, <2>3
<1>3. S = Nat
  <2>1. S \in SUBSET Nat
      OBVIOUS
  <2> HIDE DEF S
  <2> QED
      BY <1>1, <1>2, <2>1, SetInduction
<1> QED
    BY <1>0, <1>3

\* AfterRounds gives those states.
LEMMA AfterEveryRound ==
    ASSUME NEW k \in Nat, NEW u \in Elements
    PROVE  /\ AfterRounds(k, u)[FIELD_BITS - 1] = LadderStart(u)
           /\ \A i \in 2 .. FIELD_BITS - 2 :
                AfterRounds(k, u)[i] = LadderRound(AfterRounds(k, u)[i + 1], ScalarBit(k, i))
<1> DEFINE D == FIELD_BITS
           p == AfterRounds(k, u)
           Extended(s) == [i \in 2 .. D - 1 |-> IF i = D - 1 THEN LadderStart(u)
                                                 ELSE LadderRound(s[i + 1], ScalarBit(k, i))]
<1>0. D \in Nat /\ D >= 3
    BY PowersOfTwo
<1>1. PICK s \in [2 .. D - 1 -> LadderStates] : Rounds(k, u, s, D)
    BY RoundsExist
<1>2. s = Extended(s)
  <2>1. \A i \in 2 .. D - 1 : s[i] = IF i = D - 1 THEN LadderStart(u)
                                     ELSE LadderRound(s[i + 1], ScalarBit(k, i))
      BY <1>0, <1>1 DEF Rounds
  <2> QED
      BY <2>1
<1>3. p = Extended(p)
    BY <1>2, Zenon DEF AfterRounds
<1> HIDE DEF p
<1>4. \A i \in 2 .. D - 1 : p[i] = IF i = D - 1 THEN LadderStart(u)
                                   ELSE LadderRound(p[i + 1], ScalarBit(k, i))
    BY <1>3
<1>5. D - 1 \in 2 .. D - 1 /\ \A i \in 2 .. D - 2 : i \in 2 .. D - 1 /\ i # D - 1
    BY <1>0
<1> QED
    BY <1>4, <1>5, Zenon DEF p

-----------------------------------------------------------------------------
\* What the registers stand for.

\* The first multiple of a point is the point.
LEMMA FirstMultiple ==
    ASSUME NEW u
    PROVE  Ref!Multiple(1, u).inf = FALSE /\ Ref!Multiple(1, u).u = u
<1> DEFINE line == Ref!OnLine(u)
           Extended(f) == [j \in 0 .. 1 |-> IF j = 0 THEN Ref!Infinity
                                             ELSE Ref!PointAdd(line.b, f[j - 1], line.point)]
           p == Ref!Multiples(1, u)
           f == [j \in 0 .. 1 |-> IF j = 0 THEN Ref!Infinity
                                  ELSE Ref!PointAdd(line.b, Ref!Infinity, line.point)]
<1>1. line.point.inf = FALSE /\ line.point.u = u
    BY DEF Ref!OnLine, Ref!Affine
<1> HIDE DEF line
<1>2. f = Extended(f)
  <2>1. \A j \in 0 .. 1 : f[j] = Extended(f)[j]
      OBVIOUS
  <2> QED
      BY <2>1
<1> HIDE DEF f
<1>3. p = Extended(p)
    BY <1>2, Zenon DEF Ref!Multiples, line
<1> HIDE DEF p
<1>4. p[0] = Ref!Infinity /\ p[1] = Ref!PointAdd(line.b, p[0], line.point)
    BY <1>3
<1>5. p[1] = line.point
    BY <1>4 DEF Ref!PointAdd, Ref!Infinity
<1>6. Ref!Multiple(1, u) = p[1]
    BY DEF Ref!Multiple, p
<1> QED
    BY <1>1, <1>5, <1>6

\* A pair of elements that stands for a point is the point in some scaling.
LEMMA StandsScaled ==
    ASSUME NEW x \in Elements, NEW z \in Elements, NEW q, Ref!StandsFor(x, z, q)
    PROVE  \E c \in Elements \ {0} : Scaled(q, c).x = x /\ Scaled(q, c).z = z
<1>1. CASE q.inf
    BY <1>1 DEF Ref!StandsFor, Scaled
<1>2. CASE ~q.inf
  <2>1. z # 0 /\ x = Ref!FMul(q.u, z)
      BY <1>2 DEF Ref!StandsFor
  <2>2. Ref!FMul(q.u, z) = FMul(q.u, z)
      BY DEF Ref!FMul, FMul
  <2> QED
      BY <1>2, <2>1, <2>2 DEF Scaled
<1> QED
    BY <1>1, <1>2

\* The order that a pending swap restores.
LEMMA Ordered ==
    ASSUME NEW s \in LadderStates, NEW bit \in {0, 1}
    PROVE  LET o == ConditionalSwap(s, s.swap)
               t == ConditionalSwap(s, (s.swap + bit) % 2)
           IN  /\ t.x1 = s.x1 /\ o \in LadderStates
               /\ bit = 0 => t.x2 = o.x2 /\ t.z2 = o.z2 /\ t.x3 = o.x3 /\ t.z3 = o.z3
               /\ bit = 1 => t.x2 = o.x3 /\ t.z2 = o.z3 /\ t.x3 = o.x2 /\ t.z3 = o.z2
<1>1. s.swap \in {0, 1} /\ s.swap \in Int /\ bit \in Int
    BY DEF LadderStates
<1>2. (s.swap + bit) % 2 = IF bit = 0 THEN s.swap ELSE 1 - s.swap
    BY <1>1
<1> DEFINE t == ConditionalSwap(s, (s.swap + bit) % 2)
<1>3. t = ConditionalSwap(s, IF bit = 0 THEN s.swap ELSE 1 - s.swap)
    BY <1>2
<1> HIDE DEF t
<1>4. \A b : LET v == ConditionalSwap(s, b) IN
        /\ v \in LadderStates /\ v.x1 = s.x1
        /\ b = 1 => v.x2 = s.x3 /\ v.z2 = s.z3 /\ v.x3 = s.x2 /\ v.z3 = s.z2
        /\ b # 1 => v = s
    BY DEF ConditionalSwap, LadderStates
<1>5. CASE s.swap = 0
    BY <1>3, <1>4, <1>5 DEF t
<1>6. CASE s.swap = 1
    BY <1>3, <1>4, <1>6 DEF t
<1> QED
    BY <1>1, <1>5, <1>6

\* A round on registers that hold [n]Q and [n + 1]Q.
LEMMA RoundHolds ==
    ASSUME RoundLaws(Elements \ {0}, Nat, Elements \ {0}), NEW u \in Elements \ {0},
           NEW s \in LadderStates, s.x1 = u, NEW n \in Nat, HoldsMultiples(s, n, u),
           NEW bit \in {0, 1}
    PROVE  HoldsMultiples(LadderRound(s, bit), 2 * n + bit, u)
<1> DEFINE o == ConditionalSwap(s, s.swap)
           t == ConditionalSwap(s, (s.swap + bit) % 2)
           r == LadderRound(s, bit)
           here == Ref!Multiple(n, u)
           next == Ref!Multiple(n + 1, u)
<1>1. /\ t.x1 = u /\ o \in LadderStates
      /\ bit = 0 => t.x2 = o.x2 /\ t.z2 = o.z2 /\ t.x3 = o.x3 /\ t.z3 = o.z3
      /\ bit = 1 => t.x2 = o.x3 /\ t.z2 = o.z3 /\ t.x3 = o.x2 /\ t.z3 = o.z2
    BY Ordered
<1>2. Ref!StandsFor(o.x2, o.z2, here) /\ Ref!StandsFor(o.x3, o.z3, next)
    BY DEF HoldsMultiples
<1>3. r = Rounded(t, bit)
    BY DEF LadderRound
<1>4. /\ r.x2 = DoubleScaled(t.x2, t.z2).x /\ r.z2 = DoubleScaled(t.x2, t.z2).z /\ r.swap = bit
      /\ \A p, q : p.x = t.x2 /\ p.z = t.z2 /\ q.x = t.x3 /\ q.z = t.z3 =>
            r.x3 = RoundOn(u, p, q).x3 /\ r.z3 = RoundOn(u, p, q).z3
    BY <1>1, <1>3 DEF Rounded, RoundOn
<1> HIDE DEF o, t, r
<1>5. o.x2 \in Elements /\ o.z2 \in Elements /\ o.x3 \in Elements /\ o.z3 \in Elements
    BY <1>1 DEF LadderStates
<1>6. PICK b \in Elements \ {0} : Scaled(here, b).x = o.x2 /\ Scaled(here, b).z = o.z2
    BY <1>2, <1>5, StandsScaled
<1>7. PICK c \in Elements \ {0} : Scaled(next, c).x = o.x3 /\ Scaled(next, c).z = o.z3
    BY <1>2, <1>5, StandsScaled
<1> DEFINE p == Scaled(here, b)
           q == Scaled(next, c)
<1>8. /\ Ref!StandsFor(DoubleScaled(p.x, p.z).x, DoubleScaled(p.x, p.z).z, Ref!Multiple(2 * n, u))
      /\ \A v \in {RoundOn(u, p, q), RoundOn(u, q, p)} : Ref!StandsFor(v.x3, v.z3, Ref!Multiple(2 * n + 1, u))
    BY Zenon DEF RoundLaws
<1>9. Ref!StandsFor(DoubleScaled(q.x, q.z).x, DoubleScaled(q.x, q.z).z, Ref!Multiple(2 * (n + 1), u))
  <2>1. n + 1 \in Nat
      OBVIOUS
  <2> QED
      BY <2>1, Zenon DEF RoundLaws
<1> HIDE DEF p, q, here, next
<1>10. /\ Ref!StandsFor(RoundOn(u, p, q).x3, RoundOn(u, p, q).z3, Ref!Multiple(2 * n + 1, u))
       /\ Ref!StandsFor(RoundOn(u, q, p).x3, RoundOn(u, q, p).z3, Ref!Multiple(2 * n + 1, u))
    BY <1>8, Zenon
<1>11. p.x = o.x2 /\ p.z = o.z2 /\ q.x = o.x3 /\ q.z = o.z3
    BY <1>6, <1>7 DEF p, q
<1>12. r \in LadderStates
    BY RoundTyped DEF r
<1>13. CASE bit = 0
  <2>1. /\ Ref!StandsFor(r.x2, r.z2, Ref!Multiple(2 * n, u))
        /\ Ref!StandsFor(r.x3, r.z3, Ref!Multiple(2 * n + 1, u))
      BY <1>1, <1>4, <1>8, <1>10, <1>11, <1>13
  <2>2. ConditionalSwap(r, r.swap) = r /\ 2 * n + bit = 2 * n
      BY <1>4, <1>13 DEF ConditionalSwap
  <2> QED
      BY <2>1, <2>2 DEF HoldsMultiples, r
<1>14. CASE bit = 1
  <2>1. /\ Ref!StandsFor(r.x2, r.z2, Ref!Multiple(2 * (n + 1), u))
        /\ Ref!StandsFor(r.x3, r.z3, Ref!Multiple(2 * n + 1, u))
      BY <1>1, <1>4, <1>9, <1>10, <1>11, <1>14
  <2> DEFINE w == ConditionalSwap(r, r.swap)
  <2>2. w.x2 = r.x3 /\ w.z2 = r.z3 /\ w.x3 = r.x2 /\ w.z3 = r.z2
      BY <1>4, <1>12, <1>14 DEF ConditionalSwap, LadderStates
  <2>3. 2 * n + bit = 2 * n + 1 /\ (2 * n + 1) + 1 = 2 * (n + 1)
      BY <1>14
  <2>4. /\ Ref!StandsFor(w.x2, w.z2, Ref!Multiple(2 * n + bit, u))
        /\ Ref!StandsFor(w.x3, w.z3, Ref!Multiple((2 * n + bit) + 1, u))
      BY <2>1, <2>2, <2>3
  <2> QED
      BY <2>4 DEF HoldsMultiples, r
<1> QED
    BY <1>13, <1>14

\* The fixed top bit leaves [2]Q and Q, not yet in order.
LEMMA StartHolds ==
    ASSUME RoundLaws(Elements \ {0}, Nat, Elements \ {0}), NEW u \in Elements \ {0}
    PROVE  HoldsMultiples(LadderStart(u), 1, u)
<1> DEFINE s == LadderStart(u)
           o == ConditionalSwap(s, s.swap)
           one == Ref!Multiple(1, u)
           two == DoubleScaled(u, 1)
<1>1. o.x2 = u /\ o.z2 = 1 /\ o.x3 = two.x /\ o.z3 = two.z
    BY DEF LadderStart, ConditionalSwap
<1>2. one.inf = FALSE /\ one.u = u
    BY FirstMultiple
<1>3. FMul(u, 1) = u /\ Ref!FMul(u, 1) = u
    BY TimesOne DEF FMul, Ref!FMul
<1>4. Ref!StandsFor(u, 1, one)
    BY <1>2, <1>3 DEF Ref!StandsFor
<1>5. Scaled(one, 1).x = u /\ Scaled(one, 1).z = 1
    BY <1>2, <1>3 DEF Scaled
<1>6. Ref!StandsFor(DoubleScaled(Scaled(one, 1).x, Scaled(one, 1).z).x,
                    DoubleScaled(Scaled(one, 1).x, Scaled(one, 1).z).z, Ref!Multiple(2 * 1, u))
  <2>1. 1 \in Nat /\ 1 \in Elements \ {0}
      BY OneIsElement
  <2> QED
      BY <2>1, Zenon DEF RoundLaws
<1> HIDE DEF o, one
<1>7. Ref!StandsFor(two.x, two.z, Ref!Multiple(2 * 1, u))
    BY <1>5, <1>6
<1>8. 2 * 1 = 1 + 1
    OBVIOUS
<1> HIDE DEF two
<1>9. Ref!StandsFor(o.x2, o.z2, one) /\ Ref!StandsFor(o.x3, o.z3, Ref!Multiple(1 + 1, u))
    BY <1>1, <1>4, <1>7, <1>8
<1> QED
    BY <1>9 DEF HoldsMultiples, o, one

\* A square does not see the sign.
LEMMA SquareOfNegative ==
    ASSUME NEW z \in Elements
    PROVE  FSquare(FSub(0, z)) = FSquare(FAdd(0, z)) /\ FSquare(FSub(z, 0)) = FSquare(FAdd(z, 0))
<1>1. P \in Nat \ {0} /\ z \in 0 .. P - 1
    BY OneIsElement DEF Elements
<1>2. FAdd(0, z) = z /\ FSub(z, 0) = z /\ FAdd(z, 0) = z
    BY <1>1 DEF FAdd, FSub
<1>3. CASE z = 0
    BY <1>1, <1>3 DEF FAdd, FSub
<1>4. CASE z # 0
  <2> DEFINE y == P - z
             m == z * z
             n == y * y
  <2>1. y \in 1 .. P - 1 /\ FSub(0, z) = y
      BY <1>1, <1>4 DEF FSub
  <2>2. n - m = P * (P - 2 * z)
      BY <1>1
  <2>3. m \in Nat /\ n \in Nat /\ P - 2 * z \in Int
      BY <1>1, <2>1
  <2> HIDE DEF y, m, n
  <2>4. n % P = m % P
    <3> DEFINE a == n \div P
               b == m \div P
               r == n % P
               s == m % P
               d == P - 2 * z
    <3>1. a \in Nat /\ b \in Nat /\ r \in 0 .. P - 1 /\ s \in 0 .. P - 1
        BY <1>1, <2>3, Division
    <3>2. n = P * a + r /\ m = P * b + s
        BY <1>1, <2>3, DivisionExact
    <3> HIDE DEF a, b, r, s
    <3>0. d \in Int /\ n - m = P * d
        BY <2>2, <2>3
    <3> HIDE DEF d
    <3>3. d \in Int /\ (P * a + r) - (P * b + s) = P * d
        BY <3>0, <3>2
    <3> DEFINE e == a - b - d
    <3>4. s - r = P * e /\ e \in Int
      <4>1. P * e = (P * a - P * b) - P * d /\ e \in Int
          BY <1>1, <3>1, <3>3
      <4> HIDE DEF e
      <4> QED
          BY <1>1, <3>1, <3>3, <4>1
    <3> HIDE DEF e
    <3>5. e = 0
      <4>1. CASE e >= 1
        <5>1. P * e >= P * 1
            BY <1>1, <3>4, <4>1
        <5> QED
            BY <1>1, <3>1, <3>4, <5>1
      <4>2. CASE e <= -1
        <5>1. P * e <= P * (-1)
            BY <1>1, <3>4, <4>2
        <5> QED
            BY <1>1, <3>1, <3>4, <5>1
      <4> QED
          BY <3>4, <4>1, <4>2
    <3>6. s = r
        BY <1>1, <3>1, <3>4, <3>5
    <3> QED
        BY <3>6 DEF r, s
  <2> QED
      BY <1>2, <2>1, <2>4 DEF FSquare, FMul, m, n
<1> QED
    BY <1>2, <1>3, <1>4

-----------------------------------------------------------------------------
\* The coordinate zero.

\* A product with zero, and a difference of equals.
LEMMA ZeroProducts ==
    ASSUME NEW x \in Elements
    PROVE  FMul(x, 0) = 0 /\ FMul(0, x) = 0 /\ FSub(x, x) = 0
<1>1. x * 0 = 0 /\ 0 * x = 0 /\ x - x = 0 /\ 0 % P = 0
    BY OneIsElement, ElementsAreIntegers
<1> QED
    BY <1>1 DEF FMul, FSub

\* Doubling the point above zero, or none at all, gives a zero denominator.
LEMMA DoubleAtZero ==
    ASSUME NEW x \in Elements, NEW z \in Elements, x = 0 \/ z = 0
    PROVE  DoubleScaled(x, z).z = 0 /\ DoubleScaled(x, z).x \in Elements
<1> DEFINE aa == FSquare(FAdd(x, z))
           bb == FSquare(FSub(x, z))
           f == FMul(aa, A24_DENOMINATOR)
           e == FSub(aa, bb)
           g == FAdd(f, FMul(e, A24_NUMERATOR))
<1>1. aa = bb
  <2>1. CASE x = 0
      BY <2>1, SquareOfNegative
  <2>2. CASE z = 0
      BY <2>2, SquareOfNegative
  <2> QED
      BY <2>1, <2>2
<1> USE ElementsAreIntegers, FieldCloses
<1>2. FAdd(x, z) \in Elements
    OBVIOUS
<1>3. aa \in Elements
    BY <1>2 DEF FSquare
<1>4. DoubleScaled(x, z).z = FMul(e, g)
    BY Zenon DEF DoubleScaled, aa, bb, e, f, g
<1>5. A24_DENOMINATOR \in Int /\ A24_NUMERATOR \in Int
    BY Coefficients DEF A24_DENOMINATOR, A24_NUMERATOR
<1> HIDE DEF aa, bb
<1>6. e = 0 /\ f \in Elements
    BY <1>1, <1>3, <1>5, ZeroProducts
<1> HIDE DEF e, f
<1>7. FMul(e, A24_NUMERATOR) \in Elements
    BY <1>5, <1>6, OneIsElement
<1>8. g \in Elements
    BY <1>6, <1>7
<1> HIDE DEF g
<1> QED
    BY <1>4, <1>6, <1>8, ZeroProducts, DoubleTyped

\* Registers of which neither stands for an affine point other than zero.
Degenerate(s) == s.x1 = 0 /\ (s.x2 = 0 \/ s.z2 = 0) /\ (s.x3 = 0 \/ s.z3 = 0)

\* A swap keeps registers degenerate.
LEMMA SwapDegenerate ==
    ASSUME NEW s \in LadderStates, Degenerate(s), NEW b
    PROVE  Degenerate(ConditionalSwap(s, b))
BY DEF Degenerate, ConditionalSwap, LadderStates

\* At u = 0 so does a round: both denominators become zero.
LEMMA RoundDegenerate ==
    ASSUME NEW s \in LadderStates, Degenerate(s), NEW bit \in {0, 1}
    PROVE  Degenerate(LadderRound(s, bit))
<1> DEFINE t == ConditionalSwap(s, (s.swap + bit) % 2)
           r == LadderRound(s, bit)
           da == FMul(FSub(t.x3, t.z3), FAdd(t.x2, t.z2))
           cb == FMul(FAdd(t.x3, t.z3), FSub(t.x2, t.z2))
           square == FSquare(FSub(da, cb))
<1>1. t \in LadderStates /\ Degenerate(t)
    BY SwapTyped, SwapDegenerate
<1>2. r \in LadderStates /\ r.x1 = s.x1
    BY RoundTyped
<1>3. r.z2 = DoubleScaled(t.x2, t.z2).z /\ r.z3 = FMul(t.x1, square)
    BY DEF LadderRound, Rounded
<1> HIDE DEF t, r
<1>4. /\ t.x2 \in Elements /\ t.z2 \in Elements /\ t.x3 \in Elements /\ t.z3 \in Elements
      /\ t.x1 = 0 /\ (t.x2 = 0 \/ t.z2 = 0)
    BY <1>1 DEF LadderStates, Degenerate
<1>5. r.z2 = 0
    BY <1>3, <1>4, DoubleAtZero
<1> USE ElementsAreIntegers, FieldCloses
<1>6. /\ FSub(t.x3, t.z3) \in Elements /\ FAdd(t.x2, t.z2) \in Elements
      /\ FAdd(t.x3, t.z3) \in Elements /\ FSub(t.x2, t.z2) \in Elements
    BY <1>4
<1>7. da \in Elements /\ cb \in Elements
    BY <1>6
<1> HIDE DEF da, cb
<1>8. FSub(da, cb) \in Elements
    BY <1>7
<1>9. square \in Elements
    BY <1>8 DEF FSquare
<1> HIDE DEF square
<1>10. r.z3 = 0
    BY <1>3, <1>4, <1>9, ZeroProducts
<1> QED
    BY <1>2, <1>5, <1>10 DEF Degenerate, r

\* At u = 0 the start is degenerate.
LEMMA StartDegenerate == Degenerate(LadderStart(0))
<1>1. DoubleScaled(0, 1).z = 0
    BY OneIsElement, DoubleAtZero
<1> QED
    BY <1>1 DEF LadderStart, Degenerate

-----------------------------------------------------------------------------
\* The state after each round, and the result.

\* What the invariant says of the state after the round of bit i.
Reached(s, k, i, u) ==
    /\ s \in LadderStates /\ s.x1 = u
    /\ IF u = 0 THEN Degenerate(s) ELSE HoldsMultiples(s, k \div TwoTo(i), u)

\* The start is the state after the top bit.
LEMMA ReachedAtStart ==
    ASSUME RoundLaws(Elements \ {0}, Nat, Elements \ {0}), NEW u \in Elements,
           NEW k \in TwoTo(FIELD_BITS - 1) .. TwoToField - 1
    PROVE  Reached(LadderStart(u), k, FIELD_BITS - 1, u)
<1> DEFINE h == TwoTo(FIELD_BITS - 1)
<1>1. h \in Nat \ {0} /\ TwoToField = 2 * h
  <2>1. FIELD_BITS - 1 \in 0 .. FIELD_BITS
      BY PowersOfTwo
  <2> QED
      BY <2>1, PowersOfTwo
<1>2. k \div h = 1
  <2> DEFINE e == k - h
  <2>1. k \in Nat /\ e \in 0 .. h - 1 /\ k = h * 1 + e
    <3> HIDE DEF h
    <3>1. k \in h .. 2 * h - 1
        BY <1>1 DEF h
    <3> QED
        BY <1>1, <3>1
  <2> HIDE DEF e, h
  <2> QED
      BY <1>1, <2>1, QuotientIs
<1>3. CASE u = 0
    BY <1>3, StartTyped, StartDegenerate DEF Reached
<1>4. CASE u # 0
  <2>1. HoldsMultiples(LadderStart(u), 1, u)
      BY <1>4, StartHolds
  <2> QED
      BY <1>2, <1>4, <2>1, StartTyped DEF Reached
<1> QED
    BY <1>3, <1>4

\* The round of bit i takes the state after bit i + 1 to the one after bit i.
LEMMA ReachedByRound ==
    ASSUME RoundLaws(Elements \ {0}, Nat, Elements \ {0}), NEW u \in Elements, NEW k \in Nat,
           NEW i \in 2 .. FIELD_BITS - 2, NEW s, Reached(s, k, i + 1, u)
    PROVE  Reached(LadderRound(s, ScalarBit(k, i)), k, i, u)
<1> DEFINE bit == ScalarBit(k, i)
           n == k \div TwoTo(i + 1)
<1>1. n \in Nat /\ bit \in {0, 1} /\ k \div TwoTo(i) = 2 * n + bit
  <2>1. i \in 0 .. FIELD_BITS - 1
      BY PowersOfTwo
  <2> QED
      BY <2>1, ScalarBits
<1>2. s \in LadderStates /\ s.x1 = u
    BY DEF Reached
<1> HIDE DEF bit, n
<1>3. LadderRound(s, bit) \in LadderStates /\ LadderRound(s, bit).x1 = u
    BY <1>1, <1>2, RoundTyped
<1>4. CASE u = 0
  <2>1. Degenerate(LadderRound(s, bit))
      BY <1>1, <1>2, <1>4, RoundDegenerate DEF Reached
  <2> QED
      BY <1>3, <1>4, <2>1 DEF Reached, bit
<1>5. CASE u # 0
  <2>1. HoldsMultiples(s, n, u)
      BY <1>5 DEF Reached, n
  <2>2. u \in Elements \ {0}
      BY <1>5
  <2>3. HoldsMultiples(LadderRound(s, bit), 2 * n + bit, u)
      BY <1>1, <1>2, <2>1, <2>2, RoundHolds
  <2> QED
      BY <1>1, <1>3, <1>5, <2>3 DEF Reached, bit
<1> QED
    BY <1>4, <1>5

\* invert undoes a multiplication.
LEMMA InvertUndoes ==
    ASSUME NEW x \in Elements, NEW z \in Elements \ {0}
    PROVE  FMul(FMul(x, z), FInvert(z)) = x
<1>1. FInvert(z) \in Elements /\ FMul(z, FInvert(z)) = 1 /\ 1 \in Elements
    BY InvertFinds, ResidueUnits
<1>2. FMul(FMul(x, z), FInvert(z)) = FMul(x, FMul(z, FInvert(z)))
    BY <1>1, ProductsAssociate
<1>3. FMul(x, 1) = x
    BY ResidueTyped DEF FMul, Residue, Elements
<1> QED
    BY <1>1, <1>2, <1>3

\* Doubling registers that hold [n]Q.
LEMMA DoubleHolds ==
    ASSUME RoundLaws(Elements \ {0}, Nat, Elements \ {0}), NEW u \in Elements \ {0}, NEW n \in Nat,
           NEW x \in Elements, NEW z \in Elements, Ref!StandsFor(x, z, Ref!Multiple(n, u))
    PROVE  Ref!StandsFor(DoubleScaled(x, z).x, DoubleScaled(x, z).z, Ref!Multiple(2 * n, u))
<1> DEFINE here == Ref!Multiple(n, u)
<1>1. PICK b \in Elements \ {0} : Scaled(here, b).x = x /\ Scaled(here, b).z = z
    BY StandsScaled
<1>2. Ref!StandsFor(DoubleScaled(Scaled(here, b).x, Scaled(here, b).z).x,
                    DoubleScaled(Scaled(here, b).x, Scaled(here, b).z).z, Ref!Multiple(2 * n, u))
    BY Zenon DEF RoundLaws
<1> HIDE DEF here
<1> QED
    BY <1>1, <1>2

\* The last two doublings and finalize return the coordinate of [k]Q.
LEMMA ResultReached ==
    ASSUME RoundLaws(Elements \ {0}, Nat, Elements \ {0}), CurveLaws(Nat), NEW u \in Elements,
           NEW k \in Nat, k % 4 = 0, NEW s, Reached(s, k, 2, u)
    PROVE  Finalize(LadderFinish(s)) = Coordinate(Ref!Multiple(k, u))
<1> DEFINE o == ConditionalSwap(s, s.swap)
           once == DoubleScaled(o.x2, o.z2)
           twice == DoubleScaled(once.x, once.z)
           n == k \div 4
           q == Ref!Multiple(4 * n, u)
<1>1. n \in Nat /\ k = 4 * n /\ k \div TwoTo(2) = n
    BY PowersOfTwo
<1>2. q.inf \/ (u # 0 /\ q.u \in Elements \ {0})
  <2> HIDE DEF n
  <2> QED
      BY <1>1, Zenon DEF CurveLaws
<1>3. s \in LadderStates /\ o \in LadderStates
    BY SwapTyped DEF Reached
<1>4. LadderFinish(s) = twice
    BY DEF LadderFinish
<1>5. Finalize(twice) = IF twice.z = 0 \/ FMul(twice.x, FInvert(twice.z)) = 0 THEN None
                        ELSE FMul(twice.x, FInvert(twice.z))
    BY DEF Finalize
<1> HIDE DEF o, n, q
<1>6. o.x2 \in Elements /\ o.z2 \in Elements
    BY <1>3 DEF LadderStates
<1>7. once.x \in Elements /\ once.z \in Elements
    BY <1>6, DoubleTyped
<1>8. twice.x \in Elements /\ twice.z \in Elements
    BY <1>7, DoubleTyped
<1>9. Finalize(twice) = Coordinate(q)
  <2>1. CASE u = 0
    <3>1. o.x2 = 0 \/ o.z2 = 0
      <4>1. Degenerate(o)
          BY <1>3, <2>1, SwapDegenerate DEF Reached, o
      <4> QED
          BY <4>1 DEF Degenerate
    <3>2. once.z = 0
        BY <1>6, <3>1, DoubleAtZero
    <3>3. twice.z = 0
        BY <1>7, <3>2, DoubleAtZero
    <3> HIDE DEF twice
    <3>4. Finalize(twice) = None
        BY <1>5, <3>3
    <3> QED
        BY <1>2, <2>1, <3>4 DEF Coordinate
  <2>2. CASE u # 0
    <3>1. u \in Elements \ {0} /\ HoldsMultiples(s, n, u)
        BY <1>1, <2>2 DEF Reached
    <3>2. Ref!StandsFor(o.x2, o.z2, Ref!Multiple(n, u))
        BY <3>1 DEF HoldsMultiples, o
    <3>3. Ref!StandsFor(once.x, once.z, Ref!Multiple(2 * n, u))
        BY <1>1, <1>6, <3>1, <3>2, DoubleHolds
    <3> HIDE DEF once
    <3>4. 2 * n \in Nat
        BY <1>1
    <3>5. Ref!StandsFor(twice.x, twice.z, Ref!Multiple(2 * (2 * n), u))
        BY <1>7, <3>1, <3>3, <3>4, DoubleHolds
    <3>6. Ref!StandsFor(twice.x, twice.z, q)
      <4>1. 2 * (2 * n) = 4 * n
          BY <1>1
      <4> QED
          BY <3>5, <4>1 DEF q
    <3> HIDE DEF twice
    <3>7. CASE q.inf
      <4>1. twice.z = 0
          BY <3>6, <3>7 DEF Ref!StandsFor
      <4> QED
          BY <1>5, <3>7, <4>1 DEF Coordinate
    <3>8. CASE ~q.inf
      <4>1. twice.z # 0 /\ twice.x = FMul(q.u, twice.z)
          BY <3>6, <3>8 DEF Ref!StandsFor, Ref!FMul, FMul
      <4>2. q.u \in Elements \ {0}
          BY <1>2, <3>8
      <4>3. FMul(twice.x, FInvert(twice.z)) = q.u
          BY <1>8, <4>1, <4>2, InvertUndoes
      <4> QED
          BY <1>5, <3>8, <4>1, <4>2, <4>3 DEF Coordinate
    <3> QED
        BY <3>7, <3>8
  <2> QED
      BY <2>1, <2>2
<1> HIDE DEF twice
<1> QED
    BY <1>1, <1>4, <1>9 DEF q

-----------------------------------------------------------------------------
\* The ladder as a state machine.

\* What its states satisfy: the registers are where the scalar's bits put
\* them, and a result is the coordinate of the multiple.
LadderReached ==
    /\ private \in Nat /\ encoded \in Nat
    /\ bitIndex \in 2 .. FIELD_BITS - 1
    /\ Reached(st, ClampScalar(private), bitIndex, FromX301Bytes(encoded))
    /\ result # NoResult => result = Coordinate(Ref!Multiple(ClampScalar(private), FromX301Bytes(encoded)))

\* A call starts in such a state.
LEMMA LadderStarts ==
    ASSUME RoundLaws(Elements \ {0}, Nat, Elements \ {0}), LadderInit
    PROVE  LadderReached
<1>1. private \in Nat /\ encoded \in Nat /\ result = NoResult
    BY LadderAssumption DEF LadderInit, LadderAssumption
<1>2. bitIndex = FIELD_BITS - 1 /\ bitIndex \in 2 .. FIELD_BITS - 1
    BY PowersOfTwo DEF LadderInit
<1>3. Reached(st, ClampScalar(private), bitIndex, FromX301Bytes(encoded))
    BY <1>1, <1>2, ClampRange, DecodingReduces, ReachedAtStart DEF LadderInit
<1> QED
    BY <1>1, <1>2, <1>3 DEF LadderReached

\* A round and the completion lead from such a state to such a state.
LEMMA LadderGoesOn ==
    ASSUME RoundLaws(Elements \ {0}, Nat, Elements \ {0}), CurveLaws(Nat), LadderReached,
           [LadderNext]_ladderVars
    PROVE  LadderReached'
<1> DEFINE k == ClampScalar(private)
           u == FromX301Bytes(encoded)
<1>1. /\ private \in Nat /\ encoded \in Nat /\ bitIndex \in 2 .. FIELD_BITS - 1
      /\ Reached(st, k, bitIndex, u) /\ (result # NoResult => result = Coordinate(Ref!Multiple(k, u)))
    BY DEF LadderReached
<1>2. k \in Nat /\ k % 4 = 0 /\ u \in Elements
    BY <1>1, ClampRange, DecodingReduces
<1>3. CASE Round
  <2> DEFINE i == bitIndex - 1
  <2>1. i \in 2 .. FIELD_BITS - 2 /\ i + 1 = bitIndex /\ bitIndex' = i /\ bitIndex' \in 2 .. FIELD_BITS - 1
      BY <1>1, <1>3, PowersOfTwo DEF Round
  <2>2. st' = LadderRound(st, ScalarBit(k, i)) /\ UNCHANGED <<private, encoded, result>>
      BY <1>3 DEF Round
  <2> HIDE DEF i, k, u
  <2>3. Reached(st, k, i + 1, u)
      BY <1>1, <2>1
  <2>4. Reached(LadderRound(st, ScalarBit(k, i)), k, i, u)
      BY <1>2, <2>1, <2>3, ReachedByRound
  <2>5. Reached(st', k, bitIndex', u)
      BY <2>1, <2>2, <2>4
  <2> QED
      BY <1>1, <2>1, <2>2, <2>5 DEF LadderReached, k, u
<1>4. CASE Complete
  <2>1. bitIndex = 2 /\ result' = Finalize(LadderFinish(st)) /\ UNCHANGED <<private, encoded, bitIndex, st>>
      BY <1>4 DEF Complete
  <2> HIDE DEF k, u
  <2>2. Reached(st, k, 2, u)
      BY <1>1, <2>1
  <2>3. result' = Coordinate(Ref!Multiple(k, u))
      BY <1>2, <2>1, <2>2, ResultReached
  <2> QED
      BY <1>1, <2>1, <2>3 DEF LadderReached, k, u
<1>5. CASE UNCHANGED ladderVars
    BY <1>5 DEF ladderVars, LadderReached
<1> QED
    BY <1>3, <1>4, <1>5 DEF LadderNext

\* What such a state says of the registers and of the result.
LEMMA LadderReachedSays == LadderReached => LadderInvariant /\ ResultIsTheMultiple
<1> SUFFICES ASSUME LadderReached PROVE LadderInvariant /\ ResultIsTheMultiple
    OBVIOUS
<1>1. MeantScalar = ClampScalar(private) /\ MeantU = FromX301Bytes(encoded)
    BY ClampIsMeant, DecodingReduces DEF LadderReached, MeantU
<1> QED
    BY <1>1 DEF LadderReached, Reached, LadderInvariant, ResultIsTheMultiple, TwoTo

\* Whatever the field, the scalar and the encoding: if a doubling and a
\* differential addition compute the multiples they should, then every round
\* leaves [m]Q and [m + 1]Q for the bits of the scalar done so far, with the
\* top bit folded into the start and the swap carried from round to round.
THEOREM LadderMultiplies ==
    ASSUME RoundLaws(Elements \ {0}, Nat, Elements \ {0}), CurveLaws(Nat)
    PROVE  LadderSpec => []LadderInvariant
<1>1. LadderInit => LadderReached
    BY LadderStarts
<1>2. LadderReached /\ [LadderNext]_ladderVars => LadderReached'
    BY LadderGoesOn
<1> QED
    BY <1>1, <1>2, LadderReachedSays, PTL DEF LadderSpec

\* Under the same laws x301 returns the coordinate of [k]Q for the clamped
\* scalar k and every encoding of u, or refuses the neutral point, also at
\* u = 0, where the additions degenerate.
THEOREM LadderReturnsMultiple ==
    ASSUME RoundLaws(Elements \ {0}, Nat, Elements \ {0}), CurveLaws(Nat)
    PROVE  LadderSpec => []ResultIsTheMultiple
<1>1. LadderInit => LadderReached
    BY LadderStarts
<1>2. LadderReached /\ [LadderNext]_ladderVars => LadderReached'
    BY LadderGoesOn
<1> QED
    BY <1>1, <1>2, LadderReachedSays, PTL DEF LadderSpec

-----------------------------------------------------------------------------
\* The two routes to a public key.

\* shared_secret returns the coordinate of the multiple by the clamped scalar.
LEMMA SharedSecretIsMultiple ==
    ASSUME RoundLaws(Elements \ {0}, Nat, Elements \ {0}), CurveLaws(Nat), NEW s \in Nat, NEW e \in Nat
    PROVE  SharedSecret(s, e) = Coordinate(Ref!Multiple(ClampScalar(s), FromX301Bytes(e)))
<1> DEFINE D == FIELD_BITS
           k == ClampScalar(s)
           u == FromX301Bytes(e)
           p == AfterRounds(k, u)
           S == {n \in Nat : n <= D - 3 => Reached(p[(D - 1) - n], k, (D - 1) - n, u)}
<1>0. D \in Nat /\ D >= 3
    BY PowersOfTwo
<1>1. k \in Nat /\ k % 4 = 0 /\ k \in TwoTo(D - 1) .. TwoToField - 1 /\ u \in Elements
    BY ClampRange, DecodingReduces
<1>2. SharedSecret(s, e) = Finalize(LadderFinish(p[2]))
    BY DEF SharedSecret
<1> HIDE DEF k, u
<1>3. p[D - 1] = LadderStart(u) /\ \A i \in 2 .. D - 2 : p[i] = LadderRound(p[i + 1], ScalarBit(k, i))
    BY <1>1, AfterEveryRound
<1> HIDE DEF p
<1>4. 0 \in S
  <2>1. (D - 1) - 0 = D - 1
      BY <1>0
  <2>2. Reached(p[D - 1], k, D - 1, u)
      BY <1>1, <1>3, ReachedAtStart
  <2> QED
      BY <2>1, <2>2
<1>5. ASSUME NEW n \in S PROVE n + 1 \in S
  <2>1. CASE n + 1 <= D - 3
    <3> DEFINE i == (D - 1) - (n + 1)
    <3>1. i \in 2 .. FIELD_BITS - 2 /\ i + 1 = (D - 1) - n
        BY <1>0, <2>1
    <3>2. Reached(p[(D - 1) - n], k, (D - 1) - n, u)
        BY <1>0, <2>1
    <3> HIDE DEF i
    <3>3. Reached(p[i + 1], k, i + 1, u)
        BY <3>1, <3>2
    <3>4. p[i] = LadderRound(p[i + 1], ScalarBit(k, i))
        BY <1>3, <3>1
    <3>5. Reached(p[i], k, i, u)
        BY <1>1, <3>1, <3>3, <3>4, ReachedByRound
    <3> QED
        BY <3>5 DEF i
  <2> QED
      BY <1>0, <2>1
<1>6. S = Nat
  <2>1. S \in SUBSET Nat
      OBVIOUS
  <2> HIDE DEF S
  <2> QED
      BY <1>4, <1>5, <2>1, SetInduction
<1>7. Reached(p[2], k, 2, u)
  <2>1. D - 3 \in Nat /\ (D - 1) - (D - 3) = 2 /\ D - 3 <= D - 3
      BY <1>0
  <2>2. D - 3 \in S
      BY <1>6, <2>1
  <2> QED
      BY <2>1, <2>2
<1> QED
    BY <1>1, <1>2, <1>7, ResultReached DEF k, u

\* The map to u takes a point that represents n to the coordinate of the
\* multiple of the base point's.
LEMMA MapApplies ==
    ASSUME MapLaws(Nat, Elements \ {0}), NEW n \in Nat, NEW p, Represents(p, n)
    PROVE  MontgomeryU(p) = Coordinate(Ref!Multiple(n, MontgomeryU(Basepoint)))
<1> DEFINE b == BaseMultiple(n)
<1>1. /\ p \in ExtendedPoints /\ IsValid(p)
      /\ p.x = FMul(b[1], p.z) /\ p.y = FMul(b[2], p.z)
    BY DEF Represents, StandsForMultiple
<1> HIDE DEF b
<1>2. /\ p.z \in Elements \ {0} /\ p.t \in Elements
      /\ p = [x |-> FMul(b[1], p.z), y |-> FMul(b[2], p.z), z |-> p.z, t |-> p.t]
    BY <1>1 DEF ExtendedPoints, IsValid
<1>3. \A z \in Elements \ {0}, t \in Elements :
         LET q == [x |-> FMul(b[1], z), y |-> FMul(b[2], z), z |-> z, t |-> t]
         IN  IsValid(q) => MontgomeryU(q) = Coordinate(Ref!Multiple(n, MontgomeryU(Basepoint)))
    BY Zenon DEF MapLaws, b
<1> QED
    BY <1>1, <1>2, <1>3, Zenon

\* At the end of the fixed-base route.
RouteEnds ==
    /\ AccumulationInvariant
    /\ loop = "done" => public = MontgomeryU(acc)

\* Whatever the field and the secret: if the formulas of both routes compute
\* the multiples they should and no clamped secret annihilates the base point,
\* public_from_secret returns what shared_secret returns for the base point's
\* coordinate, and never fails.
THEOREM RoutesAgree ==
    ASSUME MapLaws(Nat, Elements \ {0}),
           RoundLaws(Elements \ {0}, Nat, Elements \ {0}), CurveLaws(Nat),
           NoneAnnihilates(Secrets)
    PROVE  Spec => []AgreesWithLadder
<1>1. Init => RouteEnds
    BY SpellingInit DEF RouteEnds, AccumulationInvariant, Accumulated, Init
<1>2. RouteEnds /\ [Next]_vars => RouteEnds'
  <2> SUFFICES ASSUME RouteEnds, [Next]_vars PROVE RouteEnds'
      OBVIOUS
  <2>1. AccumulationInvariant'
      BY AccumulationStep DEF RouteEnds
  <2>2. CASE MapToU
      BY <2>1, <2>2 DEF MapToU, RouteEnds
  <2>3. CASE UNCHANGED vars
      BY <2>1, <2>3 DEF vars, RouteEnds
  <2>4. CASE Recode \/ RecodeEnds \/ AddOdd \/ Shift \/ AddEven
      BY <2>1, <2>4 DEF RouteEnds, Recode, RecodeEnds, AddOdd, Shift, AddEven
  <2> QED
      BY <2>2, <2>3, <2>4 DEF Next
<1>3. RouteEnds => AgreesWithLadder
  <2> SUFFICES ASSUME RouteEnds, loop = "done"
               PROVE  public # None /\ public = SharedSecret(secret, MontgomeryU(Basepoint))
      BY DEF AgreesWithLadder
  <2> DEFINE k == ClampScalar(secret)
             base == MontgomeryU(Basepoint)
             q == Ref!Multiple(k, base)
  <2>1. secret \in Secrets /\ secret \in Nat
      BY RadixAssumption DEF RouteEnds, AccumulationInvariant, SpellingInvariant, RadixAssumption
  <2>2. k \in Nat /\ k % 4 = 0
      BY <2>1, ClampRange
  <2>3. acc \in ExtendedPoints
    <3>1. Represents(acc, ValueOf(digits, Odd \cup EvenBelow(index)))
        BY DEF RouteEnds, AccumulationInvariant, Accumulated
    <3> QED
        BY <3>1 DEF Represents
  <2>4. Represents(acc, k)
      BY <2>3, AccumulatedIsCovered DEF RouteEnds, Represents
  <2>5. base \in Elements \ {0}
      BY DEF MapLaws
  <2>6. FromX301Bytes(base) = base /\ base \in Nat
    <3>1. base \in 0 .. P - 1
        BY <2>5 DEF Elements
    <3> HIDE DEF base
    <3>2. P \in Nat /\ TwoToField \in Nat /\ P < TwoToField
        BY FieldAssumption DEF FieldAssumption
    <3>3. base % TwoToField = base
        BY <3>1, <3>2
    <3> QED
        BY <3>1, <3>2, <3>3 DEF FromX301Bytes
  <2> HIDE DEF k
  <2>7. public = Coordinate(q)
      BY <2>2, <2>4, MapApplies DEF RouteEnds
  <2>8. SharedSecret(secret, base) = Coordinate(q)
      BY <2>1, <2>6, SharedSecretIsMultiple DEF k
  <2>9. Coordinate(q) # None
    <3>1. ~q.inf
        BY <2>1 DEF k, NoneAnnihilates
    <3> DEFINE n == k \div 4
    <3>2. n \in Nat /\ k = 4 * n
        BY <2>2
    <3>3. \A m \in Nat : Ref!Multiple(4 * m, base).inf \/ Ref!Multiple(4 * m, base).u \in Elements \ {0}
        BY <2>5, Zenon DEF CurveLaws
    <3> HIDE DEF n
    <3>4. q.u \in Elements \ {0}
        BY <3>1, <3>2, <3>3
    <3> HIDE DEF q
    <3> QED
        BY <3>1, <3>4 DEF Coordinate, None, Elements
  <2> QED
      BY <2>7, <2>8, <2>9
<1> QED
    BY <1>1, <1>2, <1>3, PTL DEF Spec
=============================================================================
