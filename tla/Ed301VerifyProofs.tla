-------------------------- MODULE Ed301VerifyProofs -------------------------
(***************************************************************************)
(* verify answers with the cofactored equation, for every field and curve  *)
(* of the assumptions, every width the assertion of vartime_wnaf admits,   *)
(* every schedule, key, commitment and pair of scalars.                    *)
(*                                                                         *)
(* The recodings come first.  What carries their induction is the rest of  *)
(* the scalar: after a nonzero digit it is a multiple of                   *)
(* 2^(WNAF_WIDTH - 1), and each halving leaves one factor of two less, so  *)
(* that the next WNAF_WIDTH - 1 digits are zero.  What is written and what *)
(* is left make the scalar at every position, and what is left fits the    *)
(* places above, so that nothing is left behind the last one.              *)
(*                                                                         *)
(* Then the points: an encoding decodes to the one point it stands for,    *)
(* the table holds its odd multiples, and the accumulator of each loop     *)
(* stands for the multiple that the digits read so far spell.              *)
(***************************************************************************)
EXTENDS Ed301Verify, CurveProofs, TLAPS

Power(n) == 2 ^ n
Scalars == {"response", "challenge"}
NoDigits == [i \in Positions |-> 0]
Rows == [Positions -> Int]

\* Nothing is written from position n on.
Blank(d, n) == \A i \in Positions : i >= n => d[i] = 0

\* While a digit is less than WNAF_WIDTH positions back, what is left has the
\* factors of two that keep the next digits zero.
Divisible(d, n, v) ==
    \A i \in Positions : i < n /\ n < i + WNAF_WIDTH /\ d[i] # 0 =>
        \E q \in Int : v = q * Power(WNAF_WIDTH - (n - i))

Recoding(s) ==
    /\ index \in Nat /\ value \in Int
    /\ Blank(digits[s], index)
    /\ Divisible(digits[s], index, value)

RecodingInvariant ==
    /\ input \in Inputs
    /\ digits \in [Scalars -> [Positions -> Int]]
    /\ RecodingIsNonAdjacent
    /\ loop \in {"key", "subgroup", "signature", "response"} => digits["challenge"] = NoDigits
    /\ loop \in {"key", "subgroup", "signature"} => digits["response"] = NoDigits
    /\ loop \in Scalars => Recoding(loop)

-----------------------------------------------------------------------------
\* Arithmetic.

\* The powers of two that positions and digits have.
LEMMA Doubling ==
    /\ FIELD_BITS \in Nat \ {0} /\ WNAF_WIDTH \in Nat /\ WNAF_WIDTH >= 2
    /\ \A n \in 0 .. FIELD_BITS + WNAF_WIDTH :
          Power(n) \in Nat \ {0} /\ (n # 0 => Power(n) = 2 * Power(n - 1))
BY WnafAssumption, RecodingAssumption DEF WnafAssumption, RecodingAssumption, Power

\* Half of the radix and the radix, with the factors the digits need.
LEMMA Widths ==
    /\ WNAF_WIDTH \in Nat /\ WNAF_WIDTH >= 2
    /\ \A n \in 0 .. WNAF_WIDTH : Power(n) \in Nat \ {0} /\ (n # 0 => Power(n) = 2 * Power(n - 1))
BY Doubling

\* The remainder of an odd number is odd.
LEMMA OddRemainder ==
    ASSUME NEW g \in Nat \ {0}, NEW k \in Int, NEW low \in Int, ((4 * g) * k + low) % 2 # 0
    PROVE  low % 2 = 1
<1>1. PICK r \in Int : r = 2 * (g * k)
    BY SMT
<1>2. (4 * g) * k + low = 2 * r + low
    BY <1>1, SMT
<1> QED
    BY <1>1, <1>2, SMT

\* The digit of a number, and what taking it away leaves.
LEMMA DigitForm ==
    ASSUME NEW n \in Int
    PROVE  /\ WnafDigit(n) \in Int
           /\ WnafDigit(n) # 0 =>
                /\ WnafDigit(n) \in TableDigits
                /\ \E q \in Int : n - WnafDigit(n) = q * (2 * Power(WNAF_WIDTH - 1))
           /\ WnafDigit(n) = 0 <=> n % 2 = 0
<1> DEFINE g == Power(WNAF_WIDTH - 2)
           h == 2 ^ (WNAF_WIDTH - 1)
           w == 2 ^ WNAF_WIDTH
           k == n \div w
           low == n % w
           digit == WnafDigit(n)
<1>1. g \in Nat \ {0} /\ h = 2 * g /\ w = 4 * g /\ w \in Nat \ {0}
  <2>1. WNAF_WIDTH - 2 \in 0 .. WNAF_WIDTH /\ WNAF_WIDTH - 1 \in 0 .. WNAF_WIDTH
        /\ WNAF_WIDTH \in 0 .. WNAF_WIDTH /\ WNAF_WIDTH - 1 # 0 /\ WNAF_WIDTH # 0
        /\ (WNAF_WIDTH - 1) - 1 = WNAF_WIDTH - 2
      BY Widths
  <2>2. g \in Nat \ {0} /\ h = 2 * g
      BY <2>1, Widths DEF Power
  <2>3. w = 2 * h /\ w \in Nat \ {0}
      BY <2>1, Widths DEF Power
  <2> HIDE DEF g, h, w
  <2> QED
      BY <2>2, <2>3
<1>2. digit = IF n % 2 = 0 THEN 0 ELSE IF low >= h THEN low - w ELSE low
    BY DEF WnafDigit
<1>3. h = Power(WNAF_WIDTH - 1)
    BY DEF Power
<1>4. k = n \div w /\ low = n % w
    OBVIOUS
<1> HIDE DEF g, h, w, k, low, digit
<1>5. k \in Int /\ low \in 0 .. w - 1 /\ n = w * k + low
  <2>1. w \in Nat \ {0}
      BY <1>1
  <2>2. k \in Int
      BY <1>4, <2>1, SMT
  <2>3. low \in 0 .. w - 1
      BY <1>4, <2>1, SMT
  <2>4. n = w * k + low
      BY <1>4, <2>1, <2>2, <2>3, SMT
  <2> QED
      BY <2>2, <2>3, <2>4
<1>6. CASE n % 2 = 0
    BY <1>2, <1>6 DEF digit
<1>7. CASE n % 2 # 0
  <2>1. low \in Int /\ n = (4 * g) * k + low
      BY <1>1, <1>5
  <2>2. low % 2 = 1
      BY <1>1, <1>5, <1>7, <2>1, OddRemainder
  <2>3. low # h
      BY <1>1, <2>1, <2>2, SMT
  <2>4. CASE low < h
    <3>1. digit = low
        BY <1>1, <1>2, <1>7, <2>1, <2>4, SMT
    <3>2. low \in 0 .. 2 * g - 1
        BY <1>1, <1>5, <2>4, SMT
    <3>3. low # 0 /\ low \in -(h - 1) .. h - 1
        BY <1>1, <2>2, <3>2, SMT
    <3>4. n - digit = k * (2 * h)
        BY <1>1, <2>1, <1>5, <3>1, SMT
    <3> QED
        BY <1>3, <1>5, <1>7, <2>1, <2>2, <3>1, <3>3, <3>4 DEF digit, h, TableDigits
  <2>5. CASE low > h
    <3>1. digit = low - 4 * g
        BY <1>1, <1>2, <1>7, <2>1, <2>5, SMT
    <3>2. low \in 2 * g .. 4 * g - 1
        BY <1>1, <1>5, <2>5, SMT
    <3>3. digit \in Int /\ digit % 2 = 1 /\ digit # 0 /\ digit \in -(h - 1) .. h - 1
        BY <1>1, <2>2, <2>3, <3>1, <3>2, SMT
    <3>4. n - digit = (k + 1) * (2 * h) /\ k + 1 \in Int
        BY <1>1, <2>1, <1>5, <3>1, SMT
    <3> QED
        BY <1>3, <1>7, <3>3, <3>4 DEF digit, h, TableDigits
  <2> QED
      BY <1>1, <2>1, <2>3, <2>4, <2>5
<1> QED
    BY <1>6, <1>7

-----------------------------------------------------------------------------
\* One iteration of vartime_wnaf, from the digits d and the rest v at position
\* n to the digits e and the rest u.

Recodes(d, n, v, e, u) ==
    /\ d \in [Positions -> Int] /\ n \in Positions /\ v \in Int
    /\ e = [d EXCEPT ![n] = WnafDigit(v)]
    /\ u = (v - WnafDigit(v)) \div 2

\* A digit close behind leaves an even rest, and so the next digit is zero.
LEMMA CloseDigit ==
    ASSUME NEW d, NEW n \in Positions, NEW v \in Int, Divisible(d, n, v),
           NEW i \in Positions, i < n, n < i + WNAF_WIDTH, d[i] # 0
    PROVE  /\ WnafDigit(v) = 0
           /\ \E q \in Int : v \div 2 = q * Power((WNAF_WIDTH - (n - i)) - 1)
<1> DEFINE m == WNAF_WIDTH - (n - i)
           h == Power(m - 1)
<1>1. PICK q \in Int : v = q * Power(m)
    BY DEF Divisible
<1>2. i \in Int /\ n \in Int
    BY RecodingAssumption DEF Positions, RecodingAssumption
<1>3. m \in 0 .. WNAF_WIDTH /\ m # 0 /\ m - 1 \in 0 .. WNAF_WIDTH
    BY <1>2, Widths, SMT
<1>4. Power(m) = 2 * h /\ h \in Nat
    BY <1>3, Widths
<1> HIDE DEF h
<1>5. v = 2 * (q * h) /\ q * h \in Int
    BY <1>1, <1>4, SMT
<1>6. v % 2 = 0 /\ v \div 2 = q * h
    BY <1>5, SMT
<1>7. WnafDigit(v) = 0
    BY <1>6, DigitForm
<1> QED
    BY <1>6, <1>7 DEF h

\* A new digit stands apart from those before it.
LEMMA DigitsStayApart ==
    ASSUME NEW d, NEW n, NEW v, NEW e, NEW u, Recodes(d, n, v, e, u),
           NonAdjacent(d), Blank(d, n), Divisible(d, n, v)
    PROVE  NonAdjacent(e)
<1> USE DEF Recodes
<1>1. e \in [Positions -> Int] /\ \A i \in Positions : e[i] = IF i = n THEN WnafDigit(v) ELSE d[i]
    BY DigitForm
<1>2. SUFFICES ASSUME NEW i \in Positions, e[i] # 0
               PROVE  /\ e[i] \in TableDigits
                      /\ \A j \in i + 1 .. i + WNAF_WIDTH - 1 : j \in Positions => e[j] = 0
    BY DEF NonAdjacent
<1>3. Positions \subseteq Int
    BY RecodingAssumption DEF Positions, RecodingAssumption
<1>4. CASE i = n
  <2>1. e[i] \in TableDigits
      BY <1>1, <1>2, <1>4, DigitForm
  <2>2. ASSUME NEW j \in i + 1 .. i + WNAF_WIDTH - 1, j \in Positions PROVE e[j] = 0
    <3>1. j > n /\ j \in Int
        BY <1>3, <1>4, <2>2, Widths
    <3> QED
        BY <1>1, <1>3, <3>1, <2>2 DEF Blank
  <2> QED
      BY <2>1, <2>2
<1>5. CASE i # n
  <2>1. e[i] = d[i]
      BY <1>1, <1>5
  <2>2. /\ d[i] # 0 /\ d[i] \in TableDigits
        /\ \A j \in i + 1 .. i + WNAF_WIDTH - 1 : j \in Positions => d[j] = 0
      BY <1>2, <2>1 DEF NonAdjacent
  <2>3. ASSUME NEW j \in i + 1 .. i + WNAF_WIDTH - 1, j \in Positions PROVE e[j] = 0
    <3>1. CASE j # n
        BY <1>1, <2>2, <2>3, <3>1
    <3>2. CASE j = n
      <4>1. i < n /\ n < i + WNAF_WIDTH
          BY <1>3, <2>3, <3>2, Widths
      <4> QED
          BY <1>1, <2>2, <3>2, <4>1, CloseDigit
    <3> QED
        BY <3>1, <3>2
  <2> QED
      BY <2>1, <2>2, <2>3
<1> QED
    BY <1>4, <1>5

\* What is left stays divisible as the position moves on.
LEMMA RestStaysDivisible ==
    ASSUME NEW d, NEW n, NEW v, NEW e, NEW u, Recodes(d, n, v, e, u),
           Divisible(d, n, v)
    PROVE  u \in Int /\ Divisible(e, n + 1, u)
<1> USE DEF Recodes
<1>1. \A i \in Positions : e[i] = IF i = n THEN WnafDigit(v) ELSE d[i]
    OBVIOUS
<1>2. Positions \subseteq Int
    BY RecodingAssumption DEF Positions, RecodingAssumption
<1>3. WnafDigit(v) \in Int
    BY DigitForm
<1>4. u \in Int
    BY <1>3, SMT
<1>5. ASSUME NEW i \in Positions, i < n + 1, n + 1 < i + WNAF_WIDTH, e[i] # 0
      PROVE  \E q \in Int : u = q * Power(WNAF_WIDTH - ((n + 1) - i))
  <2>1. CASE i = n
    <3> DEFINE h == Power(WNAF_WIDTH - 1)
    <3>1. PICK q \in Int : v - WnafDigit(v) = q * (2 * h)
        BY <1>1, <1>5, <2>1, DigitForm
    <3>2. h \in Int /\ WNAF_WIDTH - ((n + 1) - i) = WNAF_WIDTH - 1
      <4>1. WNAF_WIDTH - 1 \in 0 .. WNAF_WIDTH
          BY Widths
      <4> QED
          BY <1>2, <2>1, <4>1, Widths
    <3> HIDE DEF h
    <3>3. v - WnafDigit(v) = 2 * (q * h) /\ q * h \in Int
        BY <3>1, <3>2, SMT
    <3>4. u = q * h
        BY <3>3, SMT
    <3> QED
        BY <3>2, <3>4 DEF h
  <2>2. CASE i # n
    <3>1. d[i] # 0 /\ i < n /\ n < i + WNAF_WIDTH
        BY <1>1, <1>2, <1>5, <2>2, Widths
    <3>2. /\ WnafDigit(v) = 0
          /\ \E q \in Int : v \div 2 = q * Power((WNAF_WIDTH - (n - i)) - 1)
        BY <3>1, CloseDigit
    <3>3. u = v \div 2
        BY <3>2, SMT
    <3>4. (WNAF_WIDTH - (n - i)) - 1 = WNAF_WIDTH - ((n + 1) - i)
        BY <1>2, Widths
    <3> QED
        BY <3>2, <3>3, <3>4
  <2> QED
      BY <2>1, <2>2
<1> QED
    BY <1>4, <1>5 DEF Divisible

\* Nothing is written above the new position.
LEMMA RestStaysBlank ==
    ASSUME NEW d, NEW n, NEW v, NEW e, NEW u, Recodes(d, n, v, e, u), Blank(d, n)
    PROVE  Blank(e, n + 1)
<1>1. Positions \subseteq Int
    BY RecodingAssumption DEF Positions, RecodingAssumption
<1> QED
    BY <1>1 DEF Blank, Recodes

-----------------------------------------------------------------------------
\* The loops of verify.

\* A step that leaves the digits alone and starts no recoding.
LEMMA OtherSteps ==
    ASSUME RecodingInvariant, UNCHANGED <<input, digits>>,
           loop \in Scalars => loop' \notin Scalars,
           loop' \in {"key", "subgroup", "signature"} => loop \in {"key", "subgroup", "signature"},
           loop' \notin Scalars
    PROVE  RecodingInvariant'
BY DEF RecodingInvariant, RecodingIsNonAdjacent, NonAdjacent, Scalars

\* A recoding starts from an empty row.
LEMMA Starts ==
    ASSUME NEW s \in Scalars, digits[s] = NoDigits, index' = 0, value' \in Int,
           digits' = digits
    PROVE  Recoding(s)'
<1>1. \A i \in Positions : digits[s][i] = 0
    BY DEF NoDigits
<1> QED
    BY <1>1 DEF Recoding, Blank, Divisible

\* One iteration of vartime_wnaf keeps the recoding invariant.
LEMMA RecodeStep ==
    ASSUME RecodingInvariant, Recode
    PROVE  RecodingInvariant'
<1> DEFINE s == loop
           e == [digits[s] EXCEPT ![index] = WnafDigit(value)]
<1>1. /\ s \in Scalars /\ index \in Positions
      /\ digits' = [digits EXCEPT ![s][index] = WnafDigit(value)]
      /\ value' = (value - WnafDigit(value)) \div 2
      /\ index' = index + 1 /\ UNCHANGED <<input, loop>>
    BY DEF Recode, Scalars
<1>2. /\ Recoding(s) /\ NonAdjacent(digits[s]) /\ digits[s] \in [Positions -> Int]
    BY <1>1 DEF RecodingInvariant, RecodingIsNonAdjacent, Scalars
<1>3. Recodes(digits[s], index, value, e, value')
    BY <1>1, <1>2 DEF Recodes, Recoding
<1>4. /\ NonAdjacent(e) /\ Blank(e, index + 1) /\ Divisible(e, index + 1, value')
      /\ value' \in Int /\ e \in [Positions -> Int]
  <2>1. Blank(digits[s], index) /\ Divisible(digits[s], index, value)
      BY <1>2 DEF Recoding
  <2>2. e \in [Positions -> Int]
      BY <1>2, DigitForm DEF Recoding
  <2> HIDE DEF e
  <2>3. NonAdjacent(e)
      BY <1>2, <1>3, <2>1, DigitsStayApart
  <2>4. Blank(e, index + 1)
      BY <1>3, <2>1, RestStaysBlank
  <2>5. Divisible(e, index + 1, value') /\ value' \in Int
      BY <1>3, <2>1, RestStaysDivisible
  <2> QED
      BY <2>2, <2>3, <2>4, <2>5
<1>5. digits' = [digits EXCEPT ![s] = e]
    BY <1>1
<1> HIDE DEF e
<1>6. digits'[s] = e /\ \A t \in Scalars \ {s} : digits'[t] = digits[t]
    BY <1>1, <1>5 DEF RecodingInvariant
<1>7. Recoding(s)'
    BY <1>1, <1>2, <1>4, <1>6 DEF Recoding, Blank, Divisible
<1>8. RecodingIsNonAdjacent'
  <2>1. \A t \in Scalars : NonAdjacent(digits'[t])
      BY <1>4, <1>6 DEF RecodingInvariant, RecodingIsNonAdjacent, Scalars
  <2> QED
      BY <2>1 DEF RecodingIsNonAdjacent, NonAdjacent, Scalars
<1>9. digits' \in [Scalars -> [Positions -> Int]]
    BY <1>1, <1>4, <1>5 DEF RecodingInvariant
<1> QED
    BY <1>1, <1>6, <1>7, <1>8, <1>9 DEF RecodingInvariant, Scalars

\* The response starts from an empty row.
LEMMA ParseStep ==
    ASSUME RecodingInvariant, ParseSignature
    PROVE  RecodingInvariant'
<1>1. /\ loop = "signature" /\ loop' = "response" /\ index' = 0 /\ value' = input.response
      /\ UNCHANGED <<input, digits>>
    BY DEF ParseSignature, StartRecoding
<1>2. digits["response"] = NoDigits /\ digits["challenge"] = NoDigits /\ value' \in Int
    BY <1>1, RecodingAssumption DEF RecodingInvariant, RecodingAssumption
<1>3. Recoding("response")'
    BY <1>1, <1>2, Starts DEF Scalars
<1> QED
    BY <1>1, <1>2, <1>3 DEF RecodingInvariant, RecodingIsNonAdjacent, NonAdjacent, Scalars, NoDigits

\* So does the challenge, with the response complete.
LEMMA ResponseStep ==
    ASSUME RecodingInvariant, ResponseRecoded
    PROVE  RecodingInvariant'
<1>1. /\ loop = "response" /\ loop' = "challenge" /\ index' = 0 /\ value' = input.challenge
      /\ UNCHANGED <<input, digits>>
    BY DEF ResponseRecoded, StartRecoding
<1>2. digits["challenge"] = NoDigits /\ value' \in Int
    BY <1>1, RecodingAssumption DEF RecodingInvariant, RecodingAssumption
<1>3. Recoding("challenge")'
    BY <1>1, <1>2, Starts DEF Scalars
<1> QED
    BY <1>1, <1>3 DEF RecodingInvariant, RecodingIsNonAdjacent, NonAdjacent, Scalars

\* Every step of verify keeps the recoding invariant.
LEMMA StepKeepsDigits == RecodingInvariant /\ [Next]_vars => RecodingInvariant'
<1> SUFFICES ASSUME RecodingInvariant, [Next]_vars PROVE RecodingInvariant'
    OBVIOUS
<1>1. CASE KeyRefused
    BY <1>1, OtherSteps DEF KeyRefused, Return, Scalars
<1>2. CASE PrepareTable
    BY <1>2, OtherSteps DEF PrepareTable, Scalars
<1>3. CASE SubgroupDouble \/ SubgroupAdd
    BY <1>3, OtherSteps DEF SubgroupDouble, SubgroupAdd, Scalars
<1>4. CASE SubgroupEnds
    BY <1>4, OtherSteps DEF SubgroupEnds, Return, Scalars
<1>5. CASE SignatureRefused
    BY <1>5, OtherSteps DEF SignatureRefused, Return, Scalars
<1>6. CASE ParseSignature
    BY <1>6, ParseStep
<1>7. CASE Recode
    BY <1>7, RecodeStep
<1>8. CASE ResponseRecoded
    BY <1>8, ResponseStep
<1>9. CASE ChallengeRecoded
    BY <1>9, OtherSteps DEF ChallengeRecoded, Scalars
<1>10. CASE SkipTop \/ StartStraus
    BY <1>10, OtherSteps DEF SkipTop, StartStraus, Scalars
<1>11. CASE Straus
    BY <1>11, OtherSteps DEF Straus, Scalars
<1>12. CASE Equation
    BY <1>12, OtherSteps DEF Equation, Return, Scalars
<1>13. CASE UNCHANGED vars
    BY <1>13 DEF vars, RecodingInvariant, RecodingIsNonAdjacent, NonAdjacent, Recoding, Blank, Divisible
<1> QED
    BY <1>1, <1>2, <1>3, <1>4, <1>5, <1>6, <1>7, <1>8, <1>9, <1>10, <1>11, <1>12, <1>13 DEF Next

\* Both rows start empty.
LEMMA StartsEmpty == Init => RecodingInvariant
<1> SUFFICES ASSUME Init PROVE RecodingInvariant
    OBVIOUS
<1>1. /\ digits = [s \in Scalars |-> NoDigits] /\ loop = "key" /\ input \in Inputs
    BY DEF Init, Scalars, NoDigits
<1>2. \A s \in Scalars : digits[s] \in [Positions -> Int] /\ \A i \in Positions : digits[s][i] = 0
    BY <1>1 DEF NoDigits
<1> QED
    BY <1>1, <1>2 DEF RecodingInvariant, RecodingIsNonAdjacent, NonAdjacent, Scalars

\* Through both recodings, at every iteration and for every width, field size
\* and scalar, the digits vartime_wnaf has written are odd, fit an i8 and the
\* table of odd multiples, and stand at least WNAF_WIDTH apart; and nothing
\* that runs afterwards changes them.
THEOREM DigitsAreNonAdjacent == Spec => []RecodingIsNonAdjacent
<1>1. RecodingInvariant => RecodingIsNonAdjacent
    BY DEF RecodingInvariant
<1> QED
    BY <1>1, StartsEmpty, StepKeepsDigits, PTL DEF Spec

-----------------------------------------------------------------------------
\* What digits spell.  The sums of Spelling exist because they do up to every
\* position, each from the one before it.

Sums(d, s, n) ==
    s[0] = 0 /\ \A i \in 1 .. FIELD_BITS + 1 : i <= n => s[i] = s[i - 1] + d[i - 1] * Power(i - 1)

\* The sums exist: one more digit extends them by one more sum.
LEMMA SumsExist ==
    ASSUME NEW d \in Rows
    PROVE  \E s \in [0 .. FIELD_BITS + 1 -> Int] : Sums(d, s, FIELD_BITS + 1)
<1> DEFINE F == FIELD_BITS + 1
           S == {n \in Nat : \E s \in [0 .. F -> Int] : Sums(d, s, n)}
<1>1. F \in Nat \ {0} /\ Positions = 0 .. F - 1
    BY Doubling DEF Positions
<1>2. 0 \in S
  <2>1. [i \in 0 .. F |-> 0] \in [0 .. F -> Int] /\ Sums(d, [i \in 0 .. F |-> 0], 0)
      BY <1>1 DEF Sums
  <2> QED
      BY <2>1
<1>3. ASSUME NEW n \in S PROVE n + 1 \in S
  <2>1. PICK s \in [0 .. F -> Int] : Sums(d, s, n)
      OBVIOUS
  <2>2. CASE n + 1 > F
      BY <1>1, <2>1, <2>2 DEF Sums
  <2>3. CASE n + 1 <= F
    <3> DEFINE v == s[n] + d[n] * Power(n)
               t == [s EXCEPT ![n + 1] = v]
    <3>1. n \in Nat /\ n \in 0 .. F - 1 /\ n + 1 \in 0 .. F /\ n \in 0 .. F
        BY <1>1, <2>3
    <3>2. Power(n) \in Int
        BY <3>1, Doubling
    <3>3. v \in Int
        BY <1>1, <3>1, <3>2 DEF Rows
    <3>4. \A i \in 0 .. F : t[i] = IF i = n + 1 THEN v ELSE s[i]
        BY <1>1, <3>1
    <3>5. t[0] = 0
        BY <1>1, <2>1, <3>1, <3>4 DEF Sums
    <3>6. ASSUME NEW i \in 1 .. F, i <= n + 1 PROVE t[i] = t[i - 1] + d[i - 1] * Power(i - 1)
      <4>1. i \in 0 .. F /\ i - 1 \in 0 .. F /\ i - 1 # n + 1
          BY <1>1, <3>1, <3>6
      <4>2. t[i - 1] = s[i - 1]
          BY <3>4, <4>1
      <4>3. CASE i = n + 1
          BY <3>1, <3>4, <4>1, <4>2, <4>3
      <4>4. CASE i # n + 1
        <5>1. i <= n
            BY <3>1, <3>6, <4>4
        <5>2. s[i] = s[i - 1] + d[i - 1] * Power(i - 1)
            BY <2>1, <3>6, <5>1 DEF Sums
        <5> QED
            BY <3>4, <4>1, <4>2, <4>4, <5>2
      <4> QED
          BY <4>3, <4>4
    <3>7. t \in [0 .. F -> Int]
        BY <3>3
    <3>8. Sums(d, t, n + 1)
        BY <3>5, <3>6 DEF Sums
    <3> HIDE DEF t
    <3> QED
        BY <3>1, <3>7, <3>8
  <2> QED
      BY <1>1, <2>2, <2>3
<1>4. S = Nat
  <2>1. S \in SUBSET Nat
      OBVIOUS
  <2> HIDE DEF S
  <2> QED
      BY <1>2, <1>3, <2>1, SetInduction
<1> QED
    BY <1>1, <1>4

\* Spelling gives those sums, and they are integers.
LEMMA SpellingAddsDigits ==
    ASSUME NEW d \in Rows
    PROVE  /\ Sums(d, Spelling(d), FIELD_BITS + 1)
           /\ \A i \in 0 .. FIELD_BITS + 1 : Spelling(d)[i] \in Int
<1> DEFINE F == FIELD_BITS + 1
           Extended(s) == [i \in 0 .. F |-> IF i = 0 THEN 0 ELSE s[i - 1] + d[i - 1] * 2 ^ (i - 1)]
           p == Spelling(d)
<1>1. F \in Nat \ {0} /\ Positions = 0 .. F - 1
    BY Doubling DEF Positions
<1>2. PICK s \in [0 .. F -> Int] : Sums(d, s, F)
    BY SumsExist
<1>3. s = Extended(s)
    BY <1>1, <1>2 DEF Sums, Power
<1>4. p = Extended(p)
    BY <1>3, Zenon DEF Spelling
<1> HIDE DEF p
<1>5. p[0] = 0 /\ \A i \in 1 .. F : p[i] = p[i - 1] + d[i - 1] * Power(i - 1)
  <2>1. \A i \in 0 .. F : Extended(p)[i] = IF i = 0 THEN 0 ELSE p[i - 1] + d[i - 1] * Power(i - 1)
      BY DEF Power
  <2> HIDE DEF Extended
  <2> QED
      BY <1>1, <1>4, <2>1
<1> DEFINE S == {n \in Nat : n <= F => p[n] \in Int}
<1>6. 0 \in S
    BY <1>5
<1>7. ASSUME NEW n \in S PROVE n + 1 \in S
  <2>1. CASE n + 1 > F
      BY <2>1, <1>1
  <2>2. CASE n + 1 <= F
    <3>1. n \in 0 .. F - 1 /\ n + 1 \in 1 .. F /\ p[n] \in Int /\ (n + 1) - 1 = n
        BY <1>1, <2>2
    <3>2. d[n] \in Int /\ Power(n) \in Int
      <4>1. n \in Positions /\ n \in 0 .. FIELD_BITS + WNAF_WIDTH
          BY <1>1, <3>1, Doubling
      <4> QED
          BY <4>1, Doubling DEF Rows
    <3>3. p[n + 1] = p[n] + d[n] * Power(n)
        BY <1>5, <3>1
    <3> QED
        BY <3>1, <3>2, <3>3
  <2> QED
      BY <1>1, <2>1, <2>2
<1>8. S = Nat
  <2>1. S \in SUBSET Nat
      OBVIOUS
  <2> HIDE DEF S
  <2> QED
      BY <1>6, <1>7, <2>1, SetInduction
<1>9. \A i \in 0 .. F : p[i] \in Int
    BY <1>1, <1>8, SMTT(30)
<1>10. Sums(d, p, F)
    BY <1>5 DEF Sums
<1> QED
    BY <1>9, <1>10 DEF p

\* The empty row spells zero.
LEMMA NoDigitsSpellZero == Spelled(NoDigits) = 0
<1> DEFINE F == FIELD_BITS + 1
           p == Spelling(NoDigits)
           S == {n \in Nat : n <= F => p[n] = 0}
<1>1. F \in Nat \ {0} /\ Positions = 0 .. F - 1
    BY Doubling DEF Positions
<1>2. NoDigits \in Rows /\ \A i \in Positions : NoDigits[i] = 0
    BY DEF NoDigits, Rows
<1>3. Sums(NoDigits, p, F)
    BY <1>2, SpellingAddsDigits
<1> HIDE DEF p
<1>4. 0 \in S
    BY <1>3 DEF Sums
<1>5. ASSUME NEW n \in S PROVE n + 1 \in S
  <2>1. CASE n + 1 > F
      BY <1>1, <2>1
  <2>2. CASE n + 1 <= F
    <3>1. n \in 0 .. F - 1 /\ n + 1 \in 1 .. F /\ p[n] = 0 /\ (n + 1) - 1 = n
        BY <1>1, <2>2
    <3>2. p[n + 1] = p[n] + NoDigits[n] * Power(n)
        BY <1>3, <3>1 DEF Sums
    <3>3. NoDigits[n] = 0 /\ Power(n) \in Int
        BY <1>1, <1>2, <3>1, Doubling, SMTT(30)
    <3> QED
        BY <3>1, <3>2, <3>3
  <2> QED
      BY <1>1, <2>1, <2>2
<1>6. S = Nat
  <2>1. S \in SUBSET Nat
      OBVIOUS
  <2> HIDE DEF S
  <2> QED
      BY <1>4, <1>5, <2>1, SetInduction
<1> QED
    BY <1>1, <1>6 DEF p, Spelled

\* Writing a digit where there was none adds it at its position.
LEMMA DigitAddsItsPower ==
    ASSUME NEW d \in Rows, NEW k \in Positions, NEW v \in Int, d[k] = 0
    PROVE  /\ Spelled([d EXCEPT ![k] = v]) = Spelled(d) + v * Power(k)
           /\ Spelled(d) \in Int
<1> DEFINE F == FIELD_BITS + 1
           e == [d EXCEPT ![k] = v]
           p == Spelling(d)
           q == Spelling(e)
           a == v * Power(k)
           S == {n \in Nat : n <= F => q[n] = p[n] + (IF n > k THEN a ELSE 0)}
<1>1. F \in Nat \ {0} /\ Positions = 0 .. F - 1 /\ k \in Nat /\ k < F
    BY Doubling DEF Positions
<1>2. e \in Rows /\ e[k] = v /\ \A i \in Positions \ {k} : e[i] = d[i]
    BY DEF Rows
<1> HIDE DEF e
<1>3. /\ Sums(d, p, F) /\ Sums(e, q, F)
      /\ \A i \in 0 .. F : p[i] \in Int /\ q[i] \in Int
    BY <1>2, SpellingAddsDigits
<1>4. Power(k) \in Int /\ a \in Int
    BY <1>1, Doubling
<1> HIDE DEF p, q
<1>5. 0 \in S
    BY <1>1, <1>3 DEF Sums
<1>6. ASSUME NEW n \in S PROVE n + 1 \in S
  <2>1. CASE n + 1 > F
      BY <1>1, <2>1
  <2>2. CASE n + 1 <= F
    <3>1. /\ n \in 0 .. F - 1 /\ n + 1 \in 1 .. F /\ (n + 1) - 1 = n /\ n \in Nat /\ n \in Positions
          /\ n \in 0 .. F /\ n + 1 \in 0 .. F
          /\ q[n] = p[n] + (IF n > k THEN a ELSE 0)
        BY <1>1, <2>2
    <3>2. p[n + 1] = p[n] + d[n] * Power(n) /\ q[n + 1] = q[n] + e[n] * Power(n)
        BY <1>3, <3>1 DEF Sums
    <3>3. p[n] \in Int /\ q[n] \in Int /\ p[n + 1] \in Int
        BY <1>3, <3>1
    <3>4. CASE n = k
      <4>1. d[n] * Power(n) = 0 /\ e[n] * Power(n) = a
          BY <1>2, <1>4, <3>4
      <4>2. p[n + 1] = p[n] /\ q[n + 1] = q[n] + a
          BY <3>2, <3>3, <4>1
      <4>3. q[n] = p[n]
          BY <1>1, <3>1, <3>3, <3>4
      <4>4. q[n + 1] = p[n + 1] + a
          BY <4>2, <4>3
      <4> QED
          BY <1>1, <3>1, <3>4, <4>4
    <3>5. CASE n # k
      <4>1. e[n] = d[n]
          BY <1>2, <3>1, <3>5
      <4>2. d[n] * Power(n) \in Int
        <5>1. d[n] \in Int /\ Power(n) \in Int
            BY <1>1, <3>1, Doubling DEF Rows
        <5> QED
            BY <5>1
      <4>3. n > k <=> n + 1 > k
          BY <1>1, <3>1, <3>5
      <4> DEFINE c == d[n] * Power(n)
                 b == IF n > k THEN a ELSE 0
      <4>4. b \in Int /\ c \in Int /\ p[n + 1] = p[n] + c /\ q[n + 1] = q[n] + c /\ q[n] = p[n] + b
            /\ b = IF n + 1 > k THEN a ELSE 0
          BY <1>4, <3>1, <3>2, <4>1, <4>2, <4>3
      <4> HIDE DEF b, c
      <4>5. q[n + 1] = p[n + 1] + b
          BY <3>3, <4>4
      <4> QED
          BY <3>1, <4>4, <4>5
    <3> QED
        BY <3>4, <3>5
  <2> QED
      BY <1>1, <2>1, <2>2
<1>7. S = Nat
  <2>1. S \in SUBSET Nat
      OBVIOUS
  <2> HIDE DEF S
  <2> QED
      BY <1>5, <1>6, <2>1, SetInduction
<1>8. q[F] = p[F] + a /\ p[F] \in Int
    BY <1>1, <1>3, <1>7
<1> QED
    BY <1>8 DEF p, q, e, Spelled

-----------------------------------------------------------------------------
\* The scalar.

\* What is left at position n: a number the places above n have room for.
Room(n, v) ==
    /\ v \in Nat
    /\ n < FIELD_BITS => v <= Power((FIELD_BITS - 1) - n)
    /\ n >= FIELD_BITS => v = 0

\* A greater power of two is a multiple of a smaller one.
LEMMA PowersDivide ==
    ASSUME NEW m \in Nat, NEW n \in Nat, m <= n, n <= FIELD_BITS + WNAF_WIDTH
    PROVE  \E c \in Nat \ {0} : Power(n) = c * Power(m)
<1> DEFINE S == {j \in Nat : m + j <= FIELD_BITS + WNAF_WIDTH =>
                     \E c \in Nat \ {0} : Power(m + j) = c * Power(m)}
<1>1. FIELD_BITS + WNAF_WIDTH \in Nat
    BY Doubling
<1>2. Power(m) \in Nat \ {0}
    BY <1>1, Doubling
<1>3. 0 \in S
  <2>1. Power(m + 0) = 1 * Power(m)
      BY <1>2
  <2> QED
      BY <2>1
<1>4. ASSUME NEW j \in S PROVE j + 1 \in S
  <2>1. CASE m + (j + 1) > FIELD_BITS + WNAF_WIDTH
      BY <1>1, <2>1
  <2>2. CASE m + (j + 1) <= FIELD_BITS + WNAF_WIDTH
    <3>1. PICK c \in Nat \ {0} : Power(m + j) = c * Power(m)
        BY <1>1, <2>2
    <3>2. m + (j + 1) \in 0 .. FIELD_BITS + WNAF_WIDTH /\ m + (j + 1) # 0 /\ (m + (j + 1)) - 1 = m + j
        BY <1>1, <2>2
    <3>3. Power(m + (j + 1)) = 2 * Power(m + j)
        BY <3>2, Doubling
    <3>4. 2 * (c * Power(m)) = (2 * c) * Power(m) /\ 2 * c \in Nat \ {0}
        BY <1>2, <3>1
    <3>5. Power(m + (j + 1)) = (2 * c) * Power(m)
        BY <3>1, <3>3, <3>4
    <3> QED
        BY <3>4, <3>5
  <2> QED
      BY <1>1, <2>1, <2>2
<1>5. S = Nat
  <2>1. S \in SUBSET Nat
      OBVIOUS
  <2> HIDE DEF S
  <2> QED
      BY <1>3, <1>4, <2>1, SetInduction
<1> DEFINE j == n - m
<1>6. j \in Nat /\ m + j = n
    OBVIOUS
<1>7. j \in S
  <2> HIDE DEF S, j
  <2> QED
      BY <1>5, <1>6
<1> HIDE DEF j
<1>8. \E c \in Nat \ {0} : Power(m + j) = c * Power(m)
    BY <1>6, <1>7
<1> QED
    BY <1>6, <1>8

\* The digit of an odd rest is its residue or, past half of the radix, the
\* residue less the radix.
LEMMA OddDigit ==
    ASSUME NEW v \in Nat, v % 2 # 0
    PROVE  /\ Power(WNAF_WIDTH) = 2 * Power(WNAF_WIDTH - 1)
           /\ Power(WNAF_WIDTH - 1) \in Nat \ {0}
           /\ \E k \in Nat, low \in Nat :
                /\ v = Power(WNAF_WIDTH) * k + low /\ low # 0 /\ low < Power(WNAF_WIDTH)
                /\ WnafDigit(v) = IF low >= Power(WNAF_WIDTH - 1) THEN low - Power(WNAF_WIDTH) ELSE low
<1> DEFINE h == 2 ^ (WNAF_WIDTH - 1)
           w == 2 ^ WNAF_WIDTH
           k == v \div w
           low == v % w
<1>1. h \in Nat \ {0} /\ w = 2 * h
  <2>1. /\ WNAF_WIDTH - 1 \in 0 .. FIELD_BITS + WNAF_WIDTH /\ WNAF_WIDTH # 0
        /\ WNAF_WIDTH \in 0 .. FIELD_BITS + WNAF_WIDTH
      BY Doubling
  <2> QED
      BY <2>1, Doubling DEF Power
<1>2. WnafDigit(v) = IF low >= h THEN low - w ELSE low
    BY DEF WnafDigit
<1>3. k = v \div w /\ low = v % w
    OBVIOUS
<1>4. h = Power(WNAF_WIDTH - 1) /\ w = Power(WNAF_WIDTH)
    BY DEF Power
<1> HIDE DEF h, w, k, low
<1>5. k \in Nat /\ low \in Nat /\ low < w /\ v = w * k + low
  <2>1. w \in Nat \ {0}
      BY <1>1
  <2>2. k \in Nat
      BY <1>3, <2>1, SMT
  <2>3. low \in Nat /\ low < w
      BY <1>3, <2>1, SMT
  <2>4. v = w * k + low
      BY <1>3, <2>1, <2>2, <2>3, SMT
  <2> QED
      BY <2>2, <2>3, <2>4
<1>6. low # 0
  <2> DEFINE a == h * k
  <2>1. w * k = 2 * a /\ a \in Int
      BY <1>1, <1>5, SMT
  <2> HIDE DEF a
  <2>2. low = 0 => v = 2 * a
      BY <1>5, <2>1
  <2> QED
      BY <2>1, <2>2
<1> QED
    BY <1>1, <1>2, <1>4, <1>5, <1>6

\* One iteration halves what is left, exactly, and needs one place less.
LEMMA RestShrinks ==
    ASSUME NEW n \in Positions, NEW v, Room(n, v)
    PROVE  /\ Room(n + 1, (v - WnafDigit(v)) \div 2)
           /\ v = 2 * ((v - WnafDigit(v)) \div 2) + WnafDigit(v)
           /\ WnafDigit(v) \in Int
<1> DEFINE b == (FIELD_BITS - 1) - n
           u == (v - WnafDigit(v)) \div 2
<1>1. n \in Nat /\ FIELD_BITS \in Nat \ {0} /\ v \in Nat /\ b \in Int
    BY Doubling DEF Positions, Room
<1>2. CASE b < 0
  <2>1. v = 0
      BY <1>1, <1>2 DEF Room
  <2>2. WnafDigit(v) = 0 /\ u = 0
      BY <2>1 DEF WnafDigit
  <2> QED
      BY <1>1, <1>2, <2>1, <2>2 DEF Room
<1>3. CASE b = 0
  <2>1. Power(b) = 1
      BY <1>3, RecodingAssumption DEF Power, RecodingAssumption
  <2>2. v \in 0 .. 1 /\ n + 1 >= FIELD_BITS /\ ~(n + 1 < FIELD_BITS)
      BY <1>1, <1>3, <2>1 DEF Room
  <2>3. WnafDigit(v) = v
    <3>1. CASE v = 0
        BY <3>1 DEF WnafDigit
    <3>2. CASE v = 1
      <4> DEFINE h == Power(WNAF_WIDTH - 1)
                 w == Power(WNAF_WIDTH)
      <4>1. PICK k \in Nat, low \in Nat :
                /\ v = w * k + low /\ low # 0 /\ low < w
                /\ WnafDigit(v) = IF low >= h THEN low - w ELSE low
          BY <3>2, OddDigit
      <4>2. h \in Nat \ {0} /\ w = 2 * h
          BY <3>2, OddDigit
      <4>3. h # 1
        <5>1. WNAF_WIDTH - 2 \in 0 .. FIELD_BITS + WNAF_WIDTH /\ WNAF_WIDTH - 1 # 0
              /\ WNAF_WIDTH - 1 \in 0 .. FIELD_BITS + WNAF_WIDTH /\ (WNAF_WIDTH - 1) - 1 = WNAF_WIDTH - 2
            BY Doubling
        <5>2. h = 2 * Power(WNAF_WIDTH - 2) /\ Power(WNAF_WIDTH - 2) \in Nat
            BY <5>1, Doubling
        <5> QED
            BY <5>2
      <4> HIDE DEF h, w
      <4>4. w * k \in Nat
          BY <4>1, <4>2
      <4>5. low = 1
          BY <3>2, <4>1, <4>4
      <4> QED
          BY <3>2, <4>1, <4>2, <4>3, <4>5
    <3> QED
        BY <2>2, <3>1, <3>2
  <2>4. u = 0
      BY <2>2, <2>3
  <2> QED
      BY <1>1, <2>2, <2>3, <2>4 DEF Room
<1>4. CASE b > 0
  <2> DEFINE c == Power(b - 1)
  <2>1. Power(b) = 2 * c /\ c \in Nat \ {0}
    <3>1. b \in 0 .. FIELD_BITS + WNAF_WIDTH /\ b - 1 \in 0 .. FIELD_BITS + WNAF_WIDTH /\ b # 0
        BY <1>1, <1>4, Doubling
    <3> HIDE DEF b
    <3> QED
        BY <3>1, Doubling
  <2>2. v <= 2 * c
      BY <1>1, <1>4, <2>1 DEF Room
  <2>3. u \in Nat /\ u <= c /\ v = 2 * u + WnafDigit(v) /\ WnafDigit(v) \in Int
    <3>1. CASE v % 2 = 0
      <4>1. WnafDigit(v) = 0
          BY <3>1 DEF WnafDigit
      <4> HIDE DEF c
      <4> QED
          BY <1>1, <2>1, <2>2, <3>1, <4>1
    <3>2. CASE v % 2 # 0
      <4> DEFINE h == Power(WNAF_WIDTH - 1)
                 w == Power(WNAF_WIDTH)
      <4>1. PICK k \in Nat, low \in Nat :
                /\ v = w * k + low /\ low # 0 /\ low < w
                /\ WnafDigit(v) = IF low >= h THEN low - w ELSE low
          BY <1>1, <3>2, OddDigit
      <4>2. h \in Nat \ {0} /\ w = 2 * h
          BY <1>1, <3>2, OddDigit
      <4>3. \/ \E a \in Nat \ {0} : 2 * c = a * w
            \/ 2 * c <= h
        <5>1. b \in Nat /\ b <= FIELD_BITS + WNAF_WIDTH /\ WNAF_WIDTH \in Nat /\ WNAF_WIDTH >= 2
              /\ WNAF_WIDTH - 1 <= FIELD_BITS + WNAF_WIDTH /\ WNAF_WIDTH - 1 \in Nat
            BY <1>1, <1>4, Doubling
        <5>2. CASE WNAF_WIDTH <= b
          <6> HIDE DEF b
          <6> QED
            BY <2>1, <5>1, <5>2, PowersDivide
        <5>3. CASE b <= WNAF_WIDTH - 1
          <6> HIDE DEF b
          <6>1. PICK a \in Nat \ {0} : h = a * Power(b)
              BY <5>1, <5>3, PowersDivide
          <6>2. Power(b) \in Nat
              BY <2>1
          <6> HIDE DEF h, c
          <6>3. Power(b) <= a * Power(b)
              BY <6>2
          <6> QED
              BY <2>1, <6>1, <6>3
        <5> QED
            BY <5>1, <5>2, <5>3
      <4> HIDE DEF h, w, c
      <4>4. CASE low < h
        <5>1. WnafDigit(v) = low /\ low \in Nat
            BY <4>1, <4>4, <4>2
        <5> DEFINE a == h * k
        <5>2. w * k = 2 * a /\ a \in Nat
            BY <4>1, <4>2
        <5> HIDE DEF a
        <5>3. v = 2 * a + low
            BY <4>1, <5>2
        <5>4. u = a
            BY <5>1, <5>2, <5>3
        <5> HIDE DEF u
        <5> QED
            BY <2>1, <2>2, <5>1, <5>2, <5>3, <5>4
      <4>5. CASE low >= h
        <5>1. WnafDigit(v) = low - w /\ low - w \in Int
            BY <4>1, <4>2, <4>5
        <5> DEFINE a == h * (k + 1)
        <5>2. w * k + w = 2 * a /\ a \in Nat /\ w * k \in Nat
            BY <4>1, <4>2
        <5> HIDE DEF a
        <5>3. v = 2 * a + (low - w)
            BY <4>1, <4>2, <5>2
        <5>4. u = a
            BY <4>1, <4>2, <5>1, <5>2, <5>3
        <5> HIDE DEF u
        <5>5. a <= c
          <6>1. CASE 2 * c <= h
            <7>1. v >= low /\ v = low /\ low = h
                BY <1>1, <2>1, <2>2, <4>1, <4>2, <4>5, <5>2, <6>1
            <7>2. h % 2 = 0
              <8>1. WNAF_WIDTH - 2 \in 0 .. FIELD_BITS + WNAF_WIDTH /\ WNAF_WIDTH - 1 # 0
                    /\ WNAF_WIDTH - 1 \in 0 .. FIELD_BITS + WNAF_WIDTH /\ (WNAF_WIDTH - 1) - 1 = WNAF_WIDTH - 2
                  BY Doubling
              <8>2. h = 2 * Power(WNAF_WIDTH - 2) /\ Power(WNAF_WIDTH - 2) \in Nat
                  BY <8>1, Doubling DEF h
              <8> QED
                  BY <8>2
            <7> QED
                BY <3>2, <7>1, <7>2
          <6>2. ASSUME NEW e \in Nat \ {0}, 2 * c = e * w PROVE a <= c
            <7>1. k + 1 <= e
              <8>1. CASE e <= k
                <9>1. e * w <= w * k
                    BY <4>1, <4>2, <8>1
                <9> QED
                    BY <2>1, <2>2, <4>1, <4>2, <5>2, <6>2, <9>1
              <8> QED
                  BY <4>1, <8>1
            <7>2. w * (k + 1) <= w * e
                BY <4>1, <4>2, <7>1
            <7>3. w * (k + 1) = w * k + w /\ w * e = e * w
                BY <4>1, <4>2
            <7>4. 2 * a <= 2 * c
                BY <5>2, <6>2, <7>2, <7>3
            <7> QED
                BY <2>1, <5>2, <7>4
          <6> QED
              BY <4>3, <6>1, <6>2
        <5> QED
            BY <2>1, <5>1, <5>2, <5>3, <5>4, <5>5
      <4> QED
          BY <4>1, <4>2, <4>4, <4>5
    <3> QED
        BY <1>1, <3>1, <3>2
  <2>4. (FIELD_BITS - 1) - (n + 1) = b - 1
      BY <1>1
  <2>5. ~(n + 1 >= FIELD_BITS)
      BY <1>1, <1>4
  <2> HIDE DEF u, b
  <2>6. u \in Nat /\ (n + 1 < FIELD_BITS => u <= Power((FIELD_BITS - 1) - (n + 1)))
      BY <2>3, <2>4
  <2>7. Room(n + 1, u)
      BY <2>5, <2>6 DEF Room
  <2> QED
      BY <2>3, <2>7 DEF u
<1> QED
    BY <1>1, <1>2, <1>3, <1>4

\* The digits written and what is left spell the scalar, and the places left
\* have room for what is left.
ScalarInvariant ==
    /\ RecodingInvariant
    /\ RecodingKeepsScalar
    /\ loop \in Scalars => index \in 0 .. FIELD_BITS + 1 /\ Room(index, value)

\* Both scalars are below the order, and so have room in the row.
LEMMA ScalarsFit ==
    ASSUME NEW v \in Nat, v < ORDER
    PROVE  Room(0, v) /\ \A x \in Int : x = 0 => x + v * 2 ^ 0 = v
<1>1. ORDER \in Nat /\ ORDER < Power(FIELD_BITS - 1) /\ 2 ^ 0 = 1
    BY WnafAssumption, RecodingAssumption DEF WnafAssumption, RecodingAssumption, Power
<1>2. FIELD_BITS \in Nat \ {0} /\ Power(FIELD_BITS - 1) \in Nat
  <2>1. FIELD_BITS \in Nat \ {0} /\ FIELD_BITS - 1 \in 0 .. FIELD_BITS + WNAF_WIDTH
      BY Doubling
  <2> QED
      BY <2>1, Doubling
<1>3. (FIELD_BITS - 1) - 0 = FIELD_BITS - 1
    BY <1>2
<1> QED
    BY <1>1, <1>2, <1>3 DEF Room

\* One iteration of vartime_wnaf takes from what is left what it writes.
LEMMA RecodeKeepsScalar ==
    ASSUME ScalarInvariant, Recode
    PROVE  ScalarInvariant'
<1> DEFINE s == loop
           d == digits[s]
           g == WnafDigit(value)
           e == [d EXCEPT ![index] = g]
<1>1. /\ s \in Scalars /\ index \in Positions
      /\ digits' = [digits EXCEPT ![s][index] = g]
      /\ value' = (value - g) \div 2
      /\ index' = index + 1 /\ UNCHANGED <<input, loop>>
    BY DEF Recode, Scalars
<1>2. RecodingInvariant /\ RecodingInvariant' /\ Room(index, value)
    BY <1>1, RecodeStep DEF ScalarInvariant
<1>3. d \in Rows /\ d[index] = 0
    BY <1>1, <1>2 DEF RecodingInvariant, Recoding, Blank, Positions, Scalars, Rows
<1>4. Room(index', value') /\ value = 2 * value' + g /\ g \in Int
    BY <1>1, <1>2, RestShrinks
<1>5. index' \in 0 .. FIELD_BITS + 1
    BY <1>1, Doubling DEF Positions
<1>6. Spelled(e) = Spelled(d) + g * Power(index) /\ Spelled(d) \in Int
    BY <1>1, <1>3, <1>4, DigitAddsItsPower
<1>7. digits'[s] = e /\ \A t \in Scalars \ {s} : digits'[t] = digits[t]
    BY <1>1, <1>2 DEF RecodingInvariant
<1>8. Spelled(e) + value' * 2 ^ index' = Spelled(d) + value * 2 ^ index
  <2> DEFINE p == Power(index)
  <2>1. p \in Nat /\ 2 ^ index' = 2 * p /\ 2 ^ index = p
    <3>1. index \in 0 .. FIELD_BITS + WNAF_WIDTH /\ index + 1 \in 0 .. FIELD_BITS + WNAF_WIDTH
          /\ index + 1 # 0 /\ (index + 1) - 1 = index
        BY <1>1, Doubling DEF Positions
    <3> QED
        BY <1>1, <3>1, Doubling DEF Power
  <2>2. value' \in Int /\ value \in Int
      BY <1>2, <1>4 DEF Room
  <2> DEFINE a == value' * p
             b == g * p
  <2>3. a \in Int /\ b \in Int /\ value' * (2 * p) = 2 * a /\ value * p = 2 * a + b
    <3> HIDE DEF p, g
    <3>1. value * p = (2 * value' + g) * p
        BY <1>4
    <3> QED
        BY <1>4, <2>1, <2>2, <3>1
  <2> HIDE DEF a
  <2> QED
      BY <1>6, <2>1, <2>3
<1> HIDE DEF e, d, g
<1>9. /\ loop = "response" => Spelled(d) + value * 2 ^ index = input.response
      /\ loop = "challenge" => /\ Spelled(d) + value * 2 ^ index = input.challenge
                               /\ Spelled(digits["response"]) = input.response
    BY DEF ScalarInvariant, RecodingKeepsScalar, d
<1>10. RecodingKeepsScalar'
  <2>1. CASE loop = "response"
    <3>1. Spelled(digits'["response"]) + value' * 2 ^ index' = input.response
        BY <1>7, <1>8, <1>9, <2>1
    <3> QED
        BY <1>1, <2>1, <3>1 DEF RecodingKeepsScalar
  <2>2. CASE loop = "challenge"
    <3>1. Spelled(digits'["challenge"]) + value' * 2 ^ index' = input.challenge
        BY <1>7, <1>8, <1>9, <2>2
    <3>2. Spelled(digits'["response"]) = input.response
        BY <1>7, <1>9, <2>2 DEF Scalars
    <3> QED
        BY <1>1, <2>2, <3>1, <3>2 DEF RecodingKeepsScalar
  <2> QED
      BY <1>1, <2>1, <2>2 DEF Scalars
<1> QED
    BY <1>1, <1>2, <1>4, <1>5, <1>10 DEF ScalarInvariant, Room

\* After the last iteration nothing is left.
LEMMA RecodedRowSpellsScalar ==
    ASSUME ScalarInvariant, NEW s \in Scalars, loop = s, index \notin Positions
    PROVE  Spelled(digits[s]) = input[s]
<1>1. index = FIELD_BITS + 1 /\ FIELD_BITS \in Nat
    BY Doubling DEF ScalarInvariant, Positions
<1>2. value = 0
    BY <1>1 DEF ScalarInvariant, Room
<1>3. 2 ^ index \in Int
  <2>1. index \in 0 .. FIELD_BITS + WNAF_WIDTH
      BY <1>1, Doubling
  <2> QED
      BY <2>1, Doubling DEF Power
<1>4. digits[s] \in Rows
    BY DEF ScalarInvariant, RecodingInvariant, Rows
<1>5. Spelled(digits[s]) \in Int
  <2>1. 0 \in Positions /\ FIELD_BITS + 1 \in 0 .. FIELD_BITS + 1
      BY <1>1 DEF Positions
  <2> QED
      BY <1>4, <2>1, SpellingAddsDigits DEF Spelled
<1>6. Spelled(digits[s]) + value * 2 ^ index = input[s]
    BY DEF ScalarInvariant, RecodingKeepsScalar, Scalars
<1> HIDE DEF Scalars
<1> QED
    BY <1>2, <1>3, <1>5, <1>6

\* A step that leaves the digits alone and neither starts nor ends a recoding.
LEMMA OtherStepsKeepScalar ==
    ASSUME ScalarInvariant, [Next]_vars, UNCHANGED <<input, digits>>,
           loop' \in Scalars => UNCHANGED vars,
           loop' \in {"top", "straus", "equation"} => loop \in {"top", "straus", "equation"}
    PROVE  ScalarInvariant'
<1>1. RecodingInvariant'
    BY StepKeepsDigits DEF ScalarInvariant
<1>2. CASE UNCHANGED vars
    BY <1>1, <1>2 DEF ScalarInvariant, RecodingKeepsScalar, Room, vars
<1>3. CASE loop' \notin Scalars
    BY <1>1, <1>3 DEF ScalarInvariant, RecodingKeepsScalar, Scalars
<1> QED
    BY <1>2, <1>3

\* The response starts as the scalar ParseSignature has found below the order.
LEMMA ParseKeepsScalar ==
    ASSUME ScalarInvariant, ParseSignature
    PROVE  ScalarInvariant'
<1>1. /\ loop = "signature" /\ loop' = "response" /\ index' = 0 /\ value' = input.response
      /\ UNCHANGED <<input, digits>> /\ input.response < ORDER
    BY DEF ParseSignature, StartRecoding
<1>2. RecodingInvariant /\ RecodingInvariant'
    BY ParseStep DEF ScalarInvariant
<1>3. digits["response"] = NoDigits /\ input.response \in Nat
    BY <1>1, <1>2, RecodingAssumption DEF RecodingInvariant, RecodingAssumption
<1>4. Room(0, input.response) /\ 0 + input.response * 2 ^ 0 = input.response
    BY <1>1, <1>3, ScalarsFit
<1>5. 0 \in 0 .. FIELD_BITS + 1
    BY Doubling
<1>6. RecodingKeepsScalar'
    BY <1>1, <1>3, <1>4, NoDigitsSpellZero DEF RecodingKeepsScalar
<1> QED
    BY <1>1, <1>2, <1>4, <1>5, <1>6 DEF ScalarInvariant, Room

\* The challenge starts as the scalar the hash was reduced to.
LEMMA ResponseKeepsScalar ==
    ASSUME ScalarInvariant, ResponseRecoded
    PROVE  ScalarInvariant'
<1>1. /\ loop = "response" /\ loop' = "challenge" /\ index' = 0 /\ value' = input.challenge
      /\ UNCHANGED <<input, digits>> /\ index \notin Positions
    BY DEF ResponseRecoded, StartRecoding
<1>2. RecodingInvariant /\ RecodingInvariant'
    BY ResponseStep DEF ScalarInvariant
<1>3. digits["challenge"] = NoDigits /\ input.challenge \in Nat /\ input.challenge < ORDER
    BY <1>1, <1>2, RecodingAssumption DEF RecodingInvariant, RecodingAssumption
<1>4. Room(0, input.challenge) /\ 0 + input.challenge * 2 ^ 0 = input.challenge
    BY <1>3, ScalarsFit
<1>5. 0 \in 0 .. FIELD_BITS + 1
    BY Doubling
<1>6. Spelled(digits["response"]) = input.response
    BY <1>1, RecodedRowSpellsScalar DEF Scalars
<1>7. RecodingKeepsScalar'
    BY <1>1, <1>3, <1>4, <1>6, NoDigitsSpellZero DEF RecodingKeepsScalar
<1> QED
    BY <1>1, <1>2, <1>4, <1>5, <1>7 DEF ScalarInvariant, Room

\* The joint loop starts with both rows complete.
LEMMA ChallengeKeepsScalar ==
    ASSUME ScalarInvariant, ChallengeRecoded
    PROVE  ScalarInvariant'
<1>1. /\ loop = "challenge" /\ loop' = "top" /\ UNCHANGED <<input, digits>> /\ index \notin Positions
    BY DEF ChallengeRecoded
<1>2. RecodingInvariant'
    BY StepKeepsDigits DEF ScalarInvariant, Next
<1>3. Spelled(digits["challenge"]) = input.challenge
    BY <1>1, RecodedRowSpellsScalar DEF Scalars
<1>4. Spelled(digits["response"]) = input.response
    BY <1>1 DEF ScalarInvariant, RecodingKeepsScalar
<1>5. RecodingKeepsScalar'
    BY <1>1, <1>3, <1>4 DEF RecodingKeepsScalar
<1> QED
    BY <1>1, <1>2, <1>5 DEF ScalarInvariant, Scalars

\* Every step of verify.
LEMMA StepKeepsScalar == ScalarInvariant /\ [Next]_vars => ScalarInvariant'
<1> SUFFICES ASSUME ScalarInvariant, [Next]_vars PROVE ScalarInvariant'
    OBVIOUS
<1>1. CASE KeyRefused \/ SubgroupEnds \/ SignatureRefused \/ Equation
    BY <1>1, OtherStepsKeepScalar DEF KeyRefused, SubgroupEnds, SignatureRefused, Equation, Return, Scalars
<1>2. CASE PrepareTable \/ SubgroupDouble \/ SubgroupAdd
    BY <1>2, OtherStepsKeepScalar DEF PrepareTable, SubgroupDouble, SubgroupAdd, Scalars
<1>3. CASE ParseSignature
    BY <1>3, ParseKeepsScalar
<1>4. CASE Recode
    BY <1>4, RecodeKeepsScalar
<1>5. CASE ResponseRecoded
    BY <1>5, ResponseKeepsScalar
<1>6. CASE ChallengeRecoded
    BY <1>6, ChallengeKeepsScalar
<1>7. CASE SkipTop \/ StartStraus \/ Straus
    BY <1>7, OtherStepsKeepScalar DEF SkipTop, StartStraus, Straus, Scalars
<1>8. CASE UNCHANGED vars
    BY <1>8, OtherStepsKeepScalar DEF vars
<1> QED
    BY <1>1, <1>2, <1>3, <1>4, <1>5, <1>6, <1>7, <1>8 DEF Next

\* vartime_wnaf never loses the scalar: at every iteration, for every width,
\* field size and scalar below the order, the digits written and what is left
\* spell it, and FIELD_BITS + 1 digits are enough for nothing to be left; the
\* joint loop that follows finds digits that spell S and k.
THEOREM DigitsSpellScalar == Spec => []RecodingKeepsScalar
<1>1. Init => ScalarInvariant
    BY StartsEmpty DEF ScalarInvariant, RecodingKeepsScalar, Init, Scalars
<1>2. ScalarInvariant => RecodingKeepsScalar
    BY DEF ScalarInvariant
<1> QED
    BY <1>1, <1>2, StepKeepsScalar, PTL DEF Spec

-----------------------------------------------------------------------------
\* Decoding.

\* The roots of an encoding below the modulus are the first coordinates of the
\* points with its y.
LEMMA RootsArePoints ==
    ASSUME NEW e, e.y \in Elements, NEW x \in Elements
    PROVE  x \in Roots(e) <=> <<x, e.y>> \in Points
<1> DEFINE y == e.y
           xx == x * x
           yy == y * y
           den == EDWARDS_A - yy * EDWARDS_D
           l == den * xx
           r == 1 - yy
           left == FMul(FSub(EDWARDS_A, FMul(FSquare(y), EDWARDS_D)), FSquare(x))
           right == FSub(1, FSquare(y))
<1>1. x \in Roots(e) <=> left = right
    BY Zenon DEF Roots
<1>2. /\ Names(x, x) /\ Names(y, y) /\ Names(EDWARDS_A, EDWARDS_A) /\ Names(EDWARDS_D, EDWARDS_D)
      /\ Names(1, 1) /\ EDWARDS_A \in Int /\ EDWARDS_D \in Int /\ x \in Int /\ y \in Int
    BY Coefficients, NamesOfElements, ResidueUnits DEF Names
<1> HIDE DEF y
<1>3. Names(FSquare(x), xx) /\ Names(FSquare(y), yy)
    BY <1>2, NamesCompute DEF FSquare
<1>4. Names(right, r) /\ Names(FMul(FSquare(y), EDWARDS_D), yy * EDWARDS_D)
  <2> HIDE DEF yy
  <2> QED
      BY <1>2, <1>3, NamesCompute
<1>5. Names(FSub(EDWARDS_A, FMul(FSquare(y), EDWARDS_D)), den)
  <2> DEFINE k == yy * EDWARDS_D
  <2> HIDE DEF k
  <2>1. Names(FMul(FSquare(y), EDWARDS_D), k)
      BY <1>4 DEF k
  <2>2. Names(FSub(EDWARDS_A, FMul(FSquare(y), EDWARDS_D)), EDWARDS_A - k)
      BY <1>2, <2>1, NamesCompute
  <2> QED
      BY <2>2 DEF k
<1>6. Names(left, l)
  <2> HIDE DEF den, xx
  <2> QED
      BY <1>3, <1>5, NamesCompute
<1> HIDE DEF left, right
<1>7. l - r = Curve(x, y)
    BY <1>2, SMTT(30) DEF Curve
<1> HIDE DEF l, r
<1>8. left = right <=> Zero(l - r)
    BY <1>4, <1>6, ZeroDifference DEF Names
<1>9. <<x, y>> \in Points <=> OnCurve(x, y)
    BY PointsOnCurve DEF y
<1> QED
    BY <1>1, <1>7, <1>8, <1>9 DEF OnCurve, y

\* The coefficient of x^2 in the equation of a point is not zero.
LEMMA RootsHaveRatio ==
    ASSUME NEW x \in Int, NEW y \in Int, OnCurve(x, y)
    PROVE  ~Zero(EDWARDS_A - EDWARDS_D * (y * y))
<1> DEFINE m == EDWARDS_A - EDWARDS_D * (y * y)
           c == Curve(x, y)
           n == EDWARDS_A - EDWARDS_D
           f == -EDWARDS_D
           xx == x * x
           ff == EDWARDS_D * xx
           yy == y * y - 1
           one == 1
<1> SUFFICES ASSUME Zero(m) PROVE FALSE
    OBVIOUS
<1>1. EDWARDS_A \in Int /\ EDWARDS_D \in Int
    BY Coefficients
<1>2. Zero(c) /\ c \in Int /\ m \in Int /\ n \in Int /\ f \in Int /\ xx \in Int /\ yy \in Int /\ one \in Int
      /\ -xx \in Int
    BY <1>1 DEF OnCurve, Curve
<1>3. Sum2(yy, one, c, -xx, m)
    BY <1>1, SMTT(30) DEF Sum2, Curve
<1>4. Zero(yy)
  <2> DEFINE g == -xx
  <2>1. Sum2(yy, one, c, g, m) /\ g \in Int
      BY <1>2, <1>3
  <2> HIDE DEF yy, one, c, m, g, xx
  <2> QED
      BY <1>2, <2>1, Vanishes
<1>5. Sum2(n, one, m, EDWARDS_D, yy)
    BY <1>1, SMTT(30) DEF Sum2
<1>6. Zero(n)
  <2> HIDE DEF yy, one, m, n
  <2> QED
      BY <1>1, <1>2, <1>4, <1>5, Vanishes
<1>7. EDWARDS_A = EDWARDS_D
    BY <1>6, Coefficients, ElementsEqual
<1> QED
    BY <1>7, Coefficients

\* The points with one y are a point and its opposite.
LEMMA PointsWithOneY ==
    ASSUME NEW x \in Elements, NEW w \in Elements, NEW y \in Elements,
           <<x, y>> \in Points, <<w, y>> \in Points
    PROVE  w = x \/ w = FNeg(x)
<1> DEFINE m == EDWARDS_A - EDWARDS_D * (y * y)
           a == x - w
           b == x + w
           c == Curve(x, y)
           d == Curve(w, y)
           one == 1
           minus == -1
           ab == a * b
           n == m * ab
<1>1. /\ EDWARDS_A \in Int /\ EDWARDS_D \in Int /\ x \in Int /\ w \in Int /\ y \in Int
      /\ OnCurve(x, y) /\ OnCurve(w, y)
    BY Coefficients, NamesOfElements, PointsOnCurve
<1>2. ~Zero(m)
    BY <1>1, RootsHaveRatio
<1>3. Sum2(n, one, c, minus, d)
    BY <1>1, SMTT(30) DEF Sum2, Curve
<1>4. /\ c \in Int /\ d \in Int /\ one \in Int /\ minus \in Int /\ Zero(c) /\ Zero(d)
      /\ m \in Int /\ a \in Int /\ b \in Int
    BY <1>1 DEF OnCurve, Curve
<1>5. ab \in Int /\ n \in Int
  <2> HIDE DEF m, a, b
  <2>1. ab \in Int
      BY <1>4
  <2> HIDE DEF ab
  <2> QED
      BY <1>4, <2>1
<1>6. Zero(n)
  <2> HIDE DEF n, c, d, one, minus
  <2> QED
      BY <1>3, <1>4, <1>5, Vanishes
<1>7. Zero(ab)
  <2> HIDE DEF m, ab
  <2> QED
      BY <1>2, <1>4, <1>5, <1>6, ZeroFactor
<1>8. Zero(a) \/ Zero(b)
  <2> HIDE DEF a, b
  <2> QED
      BY <1>4, <1>7, ZeroFactor
<1>9. CASE Zero(a)
    BY <1>9, ElementsEqual
<1>10. CASE Zero(b)
  <2>1. FNeg(x) \in Elements /\ Names(FNeg(x), 0 - x)
    <3>1. Names(x, x) /\ Names(0, 0)
        BY NamesOfElements, ResidueUnits DEF Names
    <3>2. Names(FSub(0, x), 0 - x)
        BY <3>1, NamesCompute
    <3> QED
        BY <3>2, ResidueTyped DEF FNeg, Names
  <2>2. Names(w, w)
      BY NamesOfElements
  <2>3. Zero(w - (0 - x))
    <3>1. w - (0 - x) = b
        BY <1>1
    <3> QED
        BY <1>10, <3>1
  <2> DEFINE k == 0 - x
  <2>4. k \in Int
      BY <1>1
  <2> HIDE DEF k
  <2>5. Names(w, k)
      BY <2>2, <2>3, <2>4, NamesAgree DEF k
  <2> QED
      BY <2>1, <2>5 DEF Names, k
<1> QED
    BY <1>8, <1>9, <1>10

\* The modulus is odd, and so an element and its opposite are not both even or
\* both odd, unless they are zero.
LEMMA OppositeParity ==
    ASSUME NEW x \in Elements
    PROVE  /\ x \in Nat /\ x % 2 \in {0, 1}
           /\ x = 0 => FNeg(x) = 0
           /\ x # 0 => FNeg(x) \in Elements /\ FNeg(x) % 2 # x % 2
<1>1. P \in Nat /\ P > 4 /\ P % 2 # 0
  <2>1. P \in Nat /\ 4 < P
      BY FieldAssumption DEF FieldAssumption
  <2>2. 2 \in 2 .. P - 1
      BY <2>1
  <2> QED
      BY <2>1, <2>2, PrimeAssumption DEF PrimeAssumption
<1>2. x \in Nat /\ x < P
    BY <1>1 DEF Elements
<1>3. CASE x = 0
  <2>1. FNeg(x) = 0 % P /\ 0 % P = 0
      BY <1>1, <1>3 DEF FNeg, FSub
  <2> QED
      BY <1>3, <2>1
<1>4. CASE x # 0
  <2>1. FNeg(x) = (0 - x) % P
      BY DEF FNeg, FSub
  <2>2. 0 - x = P * (-1) + (P - x) /\ P - x \in 0 .. P - 1
      BY <1>1, <1>2, <1>4
  <2>3. (0 - x) % P = P - x
    <3> DEFINE n == P - x
               k == -1
    <3>1. n \in Int /\ k \in Int /\ 0 - x = n + P * k
        BY <1>1, <1>2
    <3>2. n \in Elements
        BY <2>2 DEF Elements
    <3> HIDE DEF n, k
    <3>3. Residue(n + P * k) = Residue(n) /\ Residue(n) = n
        BY <3>1, <3>2, ResidueShift, ResidueTyped
    <3> QED
        BY <3>1, <3>3 DEF Residue, n
  <2>4. (P - x) % 2 # x % 2
      BY <1>1, <1>2
  <2> QED
      BY <1>1, <1>2, <1>4, <2>1, <2>2, <2>3, <2>4 DEF Elements
<1> QED
    BY <1>2, <1>3, <1>4

\* An encoding is decoded exactly when it stands for a point, which is then
\* the only one, and decode returns its coordinates.
LEMMA DecodeFindsThePoint ==
    ASSUME NEW e \in EncodedPoints
    PROVE  /\ Decodes(e) <=> EncodedBy(e) # {}
           /\ \A q \in EncodedBy(e) : /\ q \in Points /\ Decode(e) = FromAffine(q[1], q[2])
                                      /\ EncodedBy(e) = {q}
<1>1. e.y \in Nat /\ e.sign \in {0, 1} /\ P \in Nat
    BY FieldAssumption DEF EncodedPoints, FieldAssumption
<1>2. e.y \in Elements <=> e.y < P
    BY <1>1 DEF Elements
<1>3. \A q : q \in EncodedBy(e) <=>
          \E x \in Elements : /\ q = <<x, e.y>> /\ <<x, e.y>> \in Points
                              /\ x % 2 = e.sign /\ e.spare = 0
  <2> TAKE q
  <2>1. q \in EncodedBy(e) <=> /\ \E x \in Elements : q = <<x, e.y>>
                               /\ q \in Points /\ q[1] % 2 = e.sign /\ e.spare = 0
      BY Zenon DEF EncodedBy
  <2>2. \A x : <<x, e.y>>[1] = x
      OBVIOUS
  <2> QED
      BY <2>1, <2>2
<1>4. \A x \in Elements : <<x, e.y>> \in Points => e.y \in Elements
    BY DEF Points
<1>5. \A x \in Elements : e.y \in Elements => (x \in Roots(e) <=> <<x, e.y>> \in Points)
    BY RootsArePoints
<1>6. Roots(e) \subseteq Elements
    BY DEF Roots
<1>7. ASSUME NEW x \in Elements, <<x, e.y>> \in Points
      PROVE  FNeg(x) \in Elements /\ <<FNeg(x), e.y>> \in Points
  <2>1. Opposite(<<x, e.y>>) = <<FNeg(x), e.y>>
      BY DEF Opposite
  <2>2. Opposite(<<x, e.y>>) \in Points
      BY <1>7, PointsAreAGroup
  <2> QED
      BY <2>1, <2>2 DEF Points
<1>8. ASSUME Decodes(e) PROVE EncodedBy(e) # {}
  <2>1. e.y \in Elements /\ e.spare = 0 /\ Roots(e) # {} /\ (e.sign = 1 => 0 \notin Roots(e))
      BY <1>2, <1>8 DEF Decodes
  <2>2. PICK x \in Elements : x \in Roots(e) /\ <<x, e.y>> \in Points
      BY <1>5, <1>6, <2>1
  <2>3. x % 2 \in {0, 1} /\ (x # 0 => FNeg(x) \in Elements /\ FNeg(x) % 2 # x % 2 /\ FNeg(x) % 2 \in {0, 1})
      BY OppositeParity
  <2>4. CASE x % 2 = e.sign
      BY <1>3, <2>1, <2>2, <2>4
  <2>5. CASE x % 2 # e.sign /\ x # 0
    <3>1. FNeg(x) \in Elements /\ FNeg(x) % 2 = e.sign /\ <<FNeg(x), e.y>> \in Points
        BY <1>1, <1>7, <2>2, <2>3, <2>5
    <3> QED
        BY <1>3, <2>1, <3>1
  <2>6. CASE x % 2 # e.sign /\ x = 0
    <3>1. 0 % 2 = 0
        OBVIOUS
    <3> QED
        BY <1>1, <2>1, <2>2, <2>6, <3>1
  <2> QED
      BY <2>4, <2>5, <2>6
<1>9. ASSUME NEW q \in EncodedBy(e)
      PROVE  Decodes(e) /\ q \in Points /\ Decode(e) = FromAffine(q[1], q[2]) /\ EncodedBy(e) = {q}
  <2>1. PICK x \in Elements : /\ q = <<x, e.y>> /\ <<x, e.y>> \in Points
                              /\ x % 2 = e.sign /\ e.spare = 0
      BY <1>3
  <2>2. e.y \in Elements /\ x \in Roots(e) /\ q[1] = x /\ q[2] = e.y
      BY <1>4, <1>5, <2>1
  <2>3. ASSUME NEW w \in Elements, <<w, e.y>> \in Points, w % 2 = e.sign PROVE w = x
    <3>1. w = x \/ w = FNeg(x)
        BY <2>1, <2>2, <2>3, PointsWithOneY
    <3>2. CASE x = 0
        BY <3>1, <3>2, OppositeParity
    <3>3. CASE x # 0
        BY <2>1, <2>3, <3>1, <3>3, OppositeParity
    <3> QED
        BY <3>2, <3>3
  <2>4. EncodedBy(e) = {q}
    <3>1. \A r \in EncodedBy(e) : r = q
      <4> TAKE r \in EncodedBy(e)
      <4>1. PICK w \in Elements : r = <<w, e.y>> /\ <<w, e.y>> \in Points /\ w % 2 = e.sign
          BY <1>3
      <4>2. w = x
          BY <2>3, <4>1
      <4> QED
          BY <2>1, <4>1, <4>2
    <3> QED
        BY <3>1
  <2>5. (CHOOSE w \in Roots(e) : w % 2 = e.sign) = x
    <3> DEFINE c == CHOOSE w \in Roots(e) : w % 2 = e.sign
    <3>1. c \in Roots(e) /\ c % 2 = e.sign
        BY <2>1, <2>2
    <3> HIDE DEF c
    <3>2. c \in Elements /\ <<c, e.y>> \in Points
        BY <1>5, <1>6, <2>2, <3>1
    <3>3. c = x
        BY <2>3, <3>1, <3>2
    <3> QED
        BY <3>3 DEF c
  <2>6. Decode(e) = FromAffine(x, e.y)
      BY <2>5 DEF Decode
  <2>7. e.sign = 1 => 0 \notin Roots(e)
    <3> SUFFICES ASSUME e.sign = 1, 0 \in Roots(e) PROVE FALSE
        OBVIOUS
    <3>1. 0 \in Elements /\ <<0, e.y>> \in Points
        BY <1>5, <1>6, <2>2
    <3>2. x = 0 \/ x = FNeg(0)
        BY <2>1, <2>2, <3>1, PointsWithOneY
    <3>3. x = 0
        BY <3>1, <3>2, OppositeParity
    <3> QED
        BY <2>1, <3>3
  <2>8. Decodes(e)
      BY <1>2, <2>1, <2>2, <2>7 DEF Decodes
  <2> QED
      BY <2>1, <2>2, <2>4, <2>6, <2>8
<1> QED
    BY <1>8, <1>9

-----------------------------------------------------------------------------
\* Tables of odd multiples.

\* The table of a point: 1, 3, 5, ... times it.
OddEntries == 2 ^ (WNAF_WIDTH - 2)
OddNiels(q) == [i \in 1 .. OddEntries |-> Niels(PointMultiple(2 * i - 1, q))]

\* The number of entries, and the digits that have one.
LEMMA EntriesOfDigits ==
    /\ OddEntries \in Nat \ {0}
    /\ \A d \in TableDigits : d \in Int /\ d # 0
    /\ \A d \in TableDigits :
          LET m == IF d < 0 THEN -d ELSE d
          IN  m \div 2 + 1 \in 1 .. OddEntries /\ 2 * (m \div 2 + 1) - 1 = m
<1> DEFINE h == 2 ^ (WNAF_WIDTH - 1)
           n == OddEntries
<1>1. n \in Nat \ {0} /\ h = 2 * n
  <2>1. /\ WNAF_WIDTH - 2 \in 0 .. WNAF_WIDTH /\ WNAF_WIDTH - 1 \in 0 .. WNAF_WIDTH
        /\ WNAF_WIDTH - 1 # 0 /\ (WNAF_WIDTH - 1) - 1 = WNAF_WIDTH - 2
      BY Widths
  <2> QED
      BY <2>1, Widths DEF Power, OddEntries
<1>2. \A d \in TableDigits : d \in Int /\ d % 2 = 1 /\ d <= h - 1 /\ d >= -(h - 1)
  <2>1. \A d \in TableDigits : d \in -(h - 1) .. h - 1 /\ d % 2 = 1
      BY DEF TableDigits
  <2> HIDE DEF h
  <2> QED
      BY <1>1, <2>1
<1> HIDE DEF h, n
<1>3. ASSUME NEW d \in TableDigits
      PROVE  LET m == IF d < 0 THEN -d ELSE d
             IN  m \div 2 + 1 \in 1 .. n /\ 2 * (m \div 2 + 1) - 1 = m
  <2> DEFINE m == IF d < 0 THEN -d ELSE d
             k == m \div 2
  <2>1. m \in Nat /\ m % 2 = 1 /\ m <= h - 1
      BY <1>1, <1>2
  <2>2. k \in Nat /\ m = 2 * k + 1
    <3> HIDE DEF m
    <3> QED
        BY <2>1
  <2> HIDE DEF m
  <2>3. k + 1 \in 1 .. n
      BY <1>1, <2>1, <2>2
  <2> QED
      BY <2>2, <2>3 DEF m
<1>4. \A d \in TableDigits : d \in Int /\ d # 0
    BY <1>2
<1> QED
    BY <1>1, <1>3, <1>4 DEF n

\* What the construction of a table gives: the odd multiples, normalised.
LEMMA OddTableHolds ==
    ASSUME NEW q \in Points, NEW v, Holds(v, q)
    PROVE  OddTable(v) = OddNiels(q)
<1> DEFINE n == OddEntries
           step == Double(v)
           Entries(f) == [i \in 1 .. n |-> IF i = 1 THEN v ELSE Add(f[i - 1], step)]
           d == CHOOSE f : f = Entries(f)
           points == [i \in 1 .. n |-> d[i]]
           g == [i \in 1 .. n - 1 |-> [w \in ExtendedPoints |-> Add(w, step)]]
           r == AffineSum(q, q)
<1>1. OddTable(v) = BatchNormalize(points)
    BY Zenon DEF OddTable, OddEntries
<1>2. n \in Nat \ {0} /\ n - 1 \in Nat
    BY EntriesOfDigits
<1>3. v \in ExtendedPoints /\ step \in ExtendedPoints
    BY FormulasTyped DEF Holds
<1>4. Holds(v, q) /\ Holds(step, r) /\ r \in Points /\ r = PointMultiple(2, q)
  <2>1. PointMultiple(1, q) = q /\ 2 * 1 = 2
      BY MultipleOfOne
  <2>2. AffineSum(PointMultiple(1, q), PointMultiple(1, q)) = PointMultiple(2 * 1, q)
      BY MultiplesDouble
  <2> QED
      BY <2>1, <2>2, DoublesHold, PointsAreAGroup
<1> HIDE DEF step, r, n
<1>5. \A i \in 1 .. n - 1 : g[i] \in [ExtendedPoints -> ExtendedPoints]
    BY <1>3, FormulasTyped
<1>6. \A i \in 1 .. n - 1 : \A w \in ExtendedPoints : g[i][w] = Add(w, step)
    OBVIOUS
<1> HIDE DEF g
<1>7. PICK f : Iterated(f, ExtendedPoints, v, n - 1, g)
    BY <1>2, <1>3, <1>5, Iterates
<1> DEFINE e == [i \in 1 .. n |-> f[i - 1]]
<1>8. e = Entries(e)
  <2>1. \A i \in 1 .. n : e[i] = IF i = 1 THEN v ELSE Add(e[i - 1], step)
    <3> TAKE i \in 1 .. n
    <3>1. CASE i = 1
      <4>1. f[0] = v /\ e[i] = f[i - 1] /\ i - 1 = 0
          BY <1>7, <3>1 DEF Iterated
      <4> QED
          BY <3>1, <4>1
    <3>2. CASE i # 1
      <4> DEFINE j == i - 1
      <4>1. j \in 1 .. n - 1 /\ j \in 1 .. n /\ j - 1 \in 0 .. n - 1
          BY <1>2, <3>2
      <4>2. f[j] = g[j][f[j - 1]] /\ f[j - 1] \in ExtendedPoints
          BY <1>7, <4>1 DEF Iterated
      <4>3. e[i] = f[j] /\ e[j] = f[j - 1]
          BY <4>1
      <4> HIDE DEF e
      <4>4. e[i] = Add(e[j], step)
          BY <1>6, <4>1, <4>2, <4>3
      <4> QED
          BY <3>2, <4>4
    <3> QED
        BY <3>1, <3>2
  <2> QED
      BY <2>1
<1>9. d = Entries(d)
    BY <1>8, Zenon
<1> HIDE DEF d
<1>10. d[1] = v /\ \A i \in 1 .. n : i # 1 => d[i] = Add(d[i - 1], step)
    BY <1>2, <1>9
<1> DEFINE S == {i \in Nat : i + 1 \in 1 .. n => Holds(d[i + 1], PointMultiple(2 * (i + 1) - 1, q))}
<1>11. 0 \in S
  <2>1. 0 + 1 = 1 /\ 2 * (0 + 1) - 1 = 1
      OBVIOUS
  <2> QED
      BY <1>4, <1>10, <2>1, MultipleOfOne
<1>12. ASSUME NEW i \in S PROVE i + 1 \in S
  <2> SUFFICES ASSUME (i + 1) + 1 \in 1 .. n
               PROVE  Holds(d[(i + 1) + 1], PointMultiple(2 * ((i + 1) + 1) - 1, q))
      OBVIOUS
  <2> DEFINE j == i + 1
             a == 2 * j - 1
  <2>1. i \in Nat /\ j \in 1 .. n /\ j + 1 \in 1 .. n /\ j + 1 # 1 /\ (j + 1) - 1 = j
        /\ a \in Int /\ 2 * (j + 1) - 1 = a + 2
      BY <1>2
  <2>2. Holds(d[j], PointMultiple(a, q))
      BY <2>1
  <2> HIDE DEF a, j
  <2>3. PointMultiple(a, q) \in Points /\ PointMultiple(a + 2, q) = AffineSum(PointMultiple(a, q), r)
    <3>1. PointMultiple(a, q) \in Points
        BY <2>1, MultipleSteps, Zenon
    <3>2. 2 \in Int
        OBVIOUS
    <3>3. PointMultiple(a + 2, q) = AffineSum(PointMultiple(a, q), PointMultiple(2, q))
        BY <2>1, <3>2, MultiplesAdd, Zenon
    <3> QED
        BY <1>4, <3>1, <3>3
  <2>4. Holds(Add(d[j], step), AffineSum(PointMultiple(a, q), r))
      BY <1>4, <2>2, <2>3, SumsHold
  <2>5. d[j + 1] = Add(d[j], step)
      BY <1>10, <2>1
  <2>6. Holds(d[j + 1], PointMultiple(2 * (j + 1) - 1, q))
      BY <2>1, <2>3, <2>4, <2>5
  <2> QED
      BY <2>6 DEF j
<1>13. S = Nat
  <2>1. S \in SUBSET Nat
      OBVIOUS
  <2> HIDE DEF S
  <2> QED
      BY <1>11, <1>12, <2>1, SetInduction
<1> DEFINE multiple == [i \in 1 .. n |-> PointMultiple(2 * i - 1, q)]
<1>14. ASSUME NEW i \in 1 .. n PROVE multiple[i] \in Points /\ Holds(points[i], multiple[i])
  <2> DEFINE j == i - 1
  <2>1. j \in Nat /\ j + 1 = i /\ 2 * i - 1 \in Int
      BY <1>2
  <2> HIDE DEF j
  <2>4. j \in S
    <3> HIDE DEF S
    <3> QED
        BY <1>13, <2>1
  <2>2. Holds(d[i], PointMultiple(2 * i - 1, q))
      BY <2>1, <2>4
  <2>3. PointMultiple(2 * i - 1, q) \in Points
      BY <2>1, MultipleSteps
  <2> QED
      BY <2>2, <2>3
<1>15. Len(points) = n
    BY <1>2
<1> HIDE DEF points
<1>16. BatchNormalize(points) = [i \in 1 .. n |-> Niels(multiple[i])]
  <2> HIDE DEF multiple
  <2> QED
      BY <1>2, <1>14, <1>15, BatchNormalizes
<1>17. [i \in 1 .. n |-> Niels(multiple[i])] = OddNiels(q)
    BY DEF OddNiels, n
<1> QED
    BY <1>1, <1>16, <1>17

\* vartime_add_signed adds the multiple by the digit, or its opposite.
LEMMA SignedAdditionHolds ==
    ASSUME NEW q \in Points, NEW p \in Points, NEW v, Holds(v, p),
           NEW digit \in TableDigits \cup {0}, NEW negate \in BOOLEAN
    PROVE  LET k == IF negate THEN -digit ELSE digit
           IN  Holds(vartime_add_signed(v, digit, OddNiels(q), negate), AffineSum(p, PointMultiple(k, q)))
<1> DEFINE k == IF negate THEN -digit ELSE digit
           m == IF digit < 0 THEN -digit ELSE digit
           e == m \div 2 + 1
           addend == OddNiels(q)[e]
           signed == IF (digit < 0) # negate THEN NegateNiels(addend) ELSE addend
<1>1. vartime_add_signed(v, digit, OddNiels(q), negate) = IF digit = 0 THEN v ELSE AddAffine(v, signed)
    BY Zenon DEF vartime_add_signed
<1>2. digit \in Int /\ m \in Int /\ k \in Int
    BY EntriesOfDigits
<1>3. CASE digit = 0
  <2>1. k = 0
    <3>1. -digit = 0
      <4> DEFINE y == -digit
      <4>1. y \in Int /\ digit + y = 0
          BY <1>2
      <4> HIDE DEF y
      <4>2. y = 0
          BY <1>3, <4>1
      <4> QED
          BY <4>2, Zenon DEF y
    <3> QED
        BY <1>3, <3>1, Zenon
  <2>2. 0 \in Int
      OBVIOUS
  <2>3. PointMultiple(0, q) = Neutral /\ AffineSum(p, Neutral) = p
      BY <2>2, MultipleSteps, PointsAreAGroup, Zenon
  <2>4. vartime_add_signed(v, digit, OddNiels(q), negate) = v
      BY <1>1, <1>3
  <2> HIDE DEF k
  <2> QED
      BY <2>1, <2>3, <2>4 DEF k
<1>4. CASE digit # 0
  <2>1. e \in 1 .. OddEntries /\ 2 * e - 1 = m
      BY <1>4, EntriesOfDigits
  <2>2. addend = Niels(PointMultiple(m, q))
    <3> HIDE DEF e, m
    <3> QED
        BY <2>1 DEF OddNiels
  <2>3. PointMultiple(m, q) \in Points /\ Opposite(PointMultiple(m, q)) = PointMultiple(-m, q)
        /\ PointMultiple(k, q) \in Points
    <3>1. -m \in Int
        BY <1>2
    <3> HIDE DEF m, k
    <3>2. PointMultiple(m, q) \in Points /\ PointMultiple(k, q) \in Points
        BY <1>2, MultipleSteps, Zenon
    <3>3. Opposite(PointMultiple(m, q)) = PointMultiple(-m, q)
        BY <1>2, MultiplesNegate, Zenon
    <3> QED
        BY <3>2, <3>3
  <2>4. NegateNiels(addend) = Niels(PointMultiple(-m, q))
      BY <2>2, <2>3, NielsOfOpposite
  <2>5. signed = Niels(PointMultiple(k, q))
    <3>1. CASE (digit < 0) # negate
      <4>1. k = -m
          BY <1>2, <3>1
      <4> HIDE DEF addend, m, k
      <4> QED
          BY <2>4, <3>1, <4>1
    <3>2. CASE ~((digit < 0) # negate)
      <4>1. k = m
          BY <1>2, <3>2
      <4> HIDE DEF addend, m, k
      <4> QED
          BY <2>2, <3>2, <4>1
    <3> QED
        BY <3>1, <3>2
  <2> HIDE DEF signed, k
  <2>6. Holds(AddAffine(v, signed), AffineSum(p, PointMultiple(k, q)))
      BY <2>3, <2>5, MixedSumsHold
  <2> QED
      BY <1>1, <1>4, <2>6 DEF k
<1> QED
    BY <1>3, <1>4

-----------------------------------------------------------------------------
\* The schedule of the subgroup test.

Entry(i) == PRIME_ORDER_WNAF_DESC[i]
ScheduleLength == Len(PRIME_ORDER_WNAF_DESC)

\* The schedule has entries, all at positions with a power.
LEMMA ScheduleTyped ==
    /\ ScheduleLength \in Nat \ {0} /\ ORDER \in Nat
    /\ Entry(1)[2] = 1 /\ Entry(ScheduleLength)[1] = 0
    /\ \A i \in 1 .. ScheduleLength : Entry(i)[1] \in 0 .. FIELD_BITS /\ Entry(i)[2] \in Int
    /\ \A i \in 2 .. ScheduleLength : Entry(i)[1] < Entry(i - 1)[1] /\ Entry(i)[2] \in TableDigits
    /\ Scheduled[ScheduleLength] = ORDER
<1> DEFINE d == PRIME_ORDER_WNAF_DESC
<1>1. /\ d \in Seq((0 .. FIELD_BITS) \X Int)
      /\ Len(d) # 0 /\ d[1][2] = 1 /\ d[Len(d)][1] = 0
      /\ \A i \in 2 .. Len(d) : d[i][1] < d[i - 1][1] /\ d[i][2] \in TableDigits
      /\ Scheduled[Len(d)] = ORDER
    BY WnafAssumption, Zenon DEF WnafAssumption
<1>2. ORDER \in Nat
    BY RecodingAssumption DEF RecodingAssumption
<1> HIDE DEF d
<1>3. Len(d) \in Nat /\ \A i \in 1 .. Len(d) : d[i] \in (0 .. FIELD_BITS) \X Int
    BY <1>1
<1>4. \A i \in 1 .. Len(d) : d[i][1] \in 0 .. FIELD_BITS /\ d[i][2] \in Int
    BY <1>3
<1> QED
    BY <1>1, <1>2, <1>3, <1>4 DEF d, Entry, ScheduleLength

\* What the schedule spells, entry by entry.
LEMMA ScheduleAddsDigits ==
    /\ Scheduled[0] = 0
    /\ \A i \in 0 .. ScheduleLength : Scheduled[i] \in Int
    /\ \A i \in 1 .. ScheduleLength : Scheduled[i] = Scheduled[i - 1] + Entry(i)[2] * Power(Entry(i)[1])
<1> DEFINE n == ScheduleLength
           term == [i \in 1 .. n |-> Entry(i)[2] * Power(Entry(i)[1])]
           g == [i \in 1 .. n |-> [w \in Int |-> w + term[i]]]
           Sum(f) == [i \in 0 .. n |-> IF i = 0 THEN 0 ELSE f[i - 1] + PRIME_ORDER_WNAF_DESC[i][2] * 2 ^ PRIME_ORDER_WNAF_DESC[i][1]]
<1>1. n \in Nat
    BY ScheduleTyped
<1>2. ASSUME NEW i \in 1 .. n PROVE term[i] \in Int
  <2>1. Entry(i)[1] \in 0 .. FIELD_BITS + WNAF_WIDTH /\ Entry(i)[2] \in Int
      BY ScheduleTyped, Doubling
  <2>2. Power(Entry(i)[1]) \in Int
      BY <2>1, Doubling
  <2> QED
      BY <2>1, <2>2
<1>3. \A i \in 1 .. n : term[i] = Entry(i)[2] * Power(Entry(i)[1])
    OBVIOUS
<1>4. \A i \in 1 .. n : term[i] = PRIME_ORDER_WNAF_DESC[i][2] * 2 ^ PRIME_ORDER_WNAF_DESC[i][1]
    BY DEF Entry, Power
<1> HIDE DEF term, n
<1>5. \A i \in 1 .. n : g[i] \in [Int -> Int] /\ \A w \in Int : g[i][w] = w + term[i]
    BY <1>2
<1> HIDE DEF g
<1>6. PICK f : Iterated(f, Int, 0, n, g)
  <2>1. 0 \in Int
      OBVIOUS
  <2> QED
      BY <1>1, <1>5, <2>1, Iterates
<1> DEFINE e == [i \in 0 .. n |-> f[i]]
<1>7. e = Sum(e)
  <2>1. ASSUME NEW i \in 0 .. n
        PROVE  e[i] = IF i = 0 THEN 0 ELSE e[i - 1] + PRIME_ORDER_WNAF_DESC[i][2] * 2 ^ PRIME_ORDER_WNAF_DESC[i][1]
    <3>1. CASE i = 0
        BY <1>6, <3>1 DEF Iterated
    <3>2. CASE i # 0
      <4>1. i \in 1 .. n /\ i - 1 \in 0 .. n
          BY <1>1, <3>2
      <4>2. f[i] = g[i][f[i - 1]] /\ f[i - 1] \in Int
          BY <1>6, <4>1 DEF Iterated
      <4>3. e[i] = e[i - 1] + term[i]
          BY <1>5, <4>1, <4>2
      <4> HIDE DEF e
      <4> QED
          BY <1>4, <3>2, <4>1, <4>3
    <3> QED
        BY <3>1, <3>2
  <2> QED
      BY <2>1
<1>8. Scheduled = Sum(Scheduled)
    BY <1>7, Zenon DEF Scheduled, n, ScheduleLength
<1>9. /\ Scheduled[0] = 0
      /\ \A i \in 1 .. n : Scheduled[i] = Scheduled[i - 1] + term[i]
  <2>1. \A i \in 0 .. n : Scheduled[i] = IF i = 0 THEN 0
           ELSE Scheduled[i - 1] + PRIME_ORDER_WNAF_DESC[i][2] * 2 ^ PRIME_ORDER_WNAF_DESC[i][1]
      BY <1>8
  <2> QED
      BY <1>1, <1>4, <2>1
<1> DEFINE S == {i \in Nat : i \in 0 .. n => Scheduled[i] \in Int}
<1>10. 0 \in S
    BY <1>9
<1>11. ASSUME NEW i \in S PROVE i + 1 \in S
  <2> SUFFICES ASSUME i + 1 \in 0 .. n PROVE Scheduled[i + 1] \in Int
      OBVIOUS
  <2>1. i \in 0 .. n /\ i + 1 \in 1 .. n /\ (i + 1) - 1 = i
      BY <1>1
  <2>2. Scheduled[i] \in Int /\ term[i + 1] \in Int
      BY <1>2, <2>1
  <2>3. Scheduled[i + 1] = Scheduled[i] + term[i + 1]
      BY <1>9, <2>1
  <2> QED
      BY <2>2, <2>3
<1>12. S = Nat
  <2>1. S \in SUBSET Nat
      OBVIOUS
  <2> HIDE DEF S
  <2> QED
      BY <1>10, <1>11, <2>1, SetInduction
<1>13. \A i \in 0 .. n : Scheduled[i] \in Int
  <2> TAKE i \in 0 .. n
  <2>1. i \in Nat
      BY <1>1
  <2>2. i \in S
    <3> HIDE DEF S
    <3> QED
        BY <1>12, <2>1
  <2> QED
      BY <2>2
<1> QED
    BY <1>3, <1>9, <1>13 DEF n

-----------------------------------------------------------------------------
\* The joint loop.

\* n is what the digits of d from position i on spell, counted from there.
High(d, n, i) == n * Power(i) = Spelled(d) - Spelling(d)[i]

\* Nothing above the digits: n is zero.
LEMMA HighAtTop ==
    ASSUME NEW d \in Rows, NEW i \in 0 .. FIELD_BITS + 1, Spelling(d)[i] = Spelled(d)
    PROVE  High(d, 0, i)
<1>1. i \in 0 .. FIELD_BITS + WNAF_WIDTH
    BY Doubling
<1>2. Power(i) \in Int /\ Spelling(d)[i] \in Int
    BY <1>1, Doubling, SpellingAddsDigits
<1> QED
    BY <1>2 DEF High

\* A digit above which only zeros are skipped spells the same number.
LEMMA ZeroDigitSkipped ==
    ASSUME NEW d \in Rows, NEW i \in Positions, d[i] = 0, Spelling(d)[i + 1] = Spelled(d)
    PROVE  Spelling(d)[i] = Spelled(d)
<1>1. i + 1 \in 1 .. FIELD_BITS + 1 /\ i \in 0 .. FIELD_BITS + 1 /\ (i + 1) - 1 = i
      /\ i + 1 <= FIELD_BITS + 1 /\ i \in 0 .. FIELD_BITS + WNAF_WIDTH
    BY Doubling DEF Positions
<1>2. Spelling(d)[i + 1] = Spelling(d)[i] + d[i] * Power(i)
    BY <1>1, SpellingAddsDigits DEF Sums
<1>3. Power(i) \in Int /\ Spelling(d)[i] \in Int
    BY <1>1, Doubling, SpellingAddsDigits
<1>4. d[i] * Power(i) = 0
    BY <1>3
<1> QED
    BY <1>2, <1>3, <1>4

\* One position down, the number doubles and gains the digit.
LEMMA HighTakesDigit ==
    ASSUME NEW d \in Rows, NEW i \in Positions, NEW n \in Int, High(d, n, i + 1)
    PROVE  High(d, 2 * n + d[i], i)
<1>1. i + 1 \in 1 .. FIELD_BITS + 1 /\ i \in 0 .. FIELD_BITS + 1 /\ (i + 1) - 1 = i /\ i + 1 # 0
      /\ i + 1 <= FIELD_BITS + 1
      /\ i \in 0 .. FIELD_BITS + WNAF_WIDTH /\ i + 1 \in 0 .. FIELD_BITS + WNAF_WIDTH
      /\ FIELD_BITS + 1 \in 0 .. FIELD_BITS + 1
    BY Doubling DEF Positions
<1> DEFINE p == Power(i)
           a == Spelling(d)[i]
           b == Spelling(d)[i + 1]
           s == Spelled(d)
           c == d[i]
<1>2. b = a + c * p
    BY <1>1, SpellingAddsDigits DEF Sums
<1>3. p \in Int /\ Power(i + 1) = 2 * p
    BY <1>1, Doubling
<1>4. a \in Int /\ b \in Int /\ s \in Int
    BY <1>1, SpellingAddsDigits DEF Spelled
<1>5. c \in Int
    BY DEF Rows
<1>6. n * (2 * p) = s - b
    BY <1>3 DEF High
<1> HIDE DEF p, a, b, s, c
<1>7. (2 * n + c) * p = n * (2 * p) + c * p
    BY <1>3, <1>5
<1>8. c * p \in Int
    BY <1>3, <1>5
<1>9. (2 * n + c) * p = s - a
    BY <1>2, <1>4, <1>6, <1>7, <1>8
<1> QED
    BY <1>9 DEF High, p, a, s, c

\* At the bottom the number is what the digits spell.
LEMMA HighAtBottom ==
    ASSUME NEW d \in Rows, NEW n \in Int, High(d, n, 0)
    PROVE  n = Spelled(d)
<1>1. Power(0) = 1
    BY RecodingAssumption DEF RecodingAssumption, Power
<1>2. FIELD_BITS + 1 \in 0 .. FIELD_BITS + 1
    BY Doubling
<1>3. Spelling(d)[0] = 0 /\ Spelled(d) \in Int
    BY <1>2, SpellingAddsDigits DEF Sums, Spelled
<1> QED
    BY <1>1, <1>3 DEF High

\* A sum in another order.
LEMMA SumsReorder ==
    ASSUME NEW x \in Points, NEW y \in Points, NEW z \in Points
    PROVE  AffineSum(AffineSum(x, y), z) = AffineSum(AffineSum(x, z), y)
<1>1. AffineSum(AffineSum(x, y), z) = AffineSum(x, AffineSum(y, z))
    BY PointsAssociate, Zenon
<1>2. AffineSum(AffineSum(x, z), y) = AffineSum(x, AffineSum(z, y))
    BY PointsAssociate, Zenon
<1>3. AffineSum(y, z) = AffineSum(z, y)
    BY PointsCommute, Zenon
<1> QED
    BY <1>1, <1>2, <1>3, Zenon

\* Twice a sum is the sum of the doubles.
LEMMA SumsDouble ==
    ASSUME NEW x \in Points, NEW y \in Points
    PROVE  AffineSum(AffineSum(x, y), AffineSum(x, y)) = AffineSum(AffineSum(x, x), AffineSum(y, y))
<1> DEFINE s == AffineSum(x, y)
           t == AffineSum(x, x)
<1>1. s \in Points /\ t \in Points
    BY PointsAreAGroup, Zenon
<1>2. AffineSum(s, s) = AffineSum(AffineSum(s, x), y)
  <2>1. AffineSum(AffineSum(s, x), y) = AffineSum(s, AffineSum(x, y))
      BY <1>1, PointsAssociate, Zenon
  <2> QED
      BY <2>1, Zenon
<1>3. AffineSum(s, x) = AffineSum(t, y)
    BY SumsReorder, Zenon
<1>4. AffineSum(AffineSum(t, y), y) = AffineSum(t, AffineSum(y, y))
    BY <1>1, PointsAssociate, Zenon
<1> QED
    BY <1>2, <1>3, <1>4, Zenon

\* The point of the joint loop: m times the base point less n times the key.
Combined(m, n, q) == AffineSum(BaseMultiple(m), PointMultiple(-n, q))

\* Multiples and their combination are points.
LEMMA MultiplesTyped ==
    ASSUME NEW q \in Points, NEW m \in Int, NEW n \in Int
    PROVE  BaseMultiple(m) \in Points /\ PointMultiple(-n, q) \in Points /\ Combined(m, n, q) \in Points
<1>1. BasePoint \in Points /\ -n \in Int
    BY ConstantsHold
<1>2. BaseMultiple(m) \in Points
    BY <1>1, MultipleSteps, Zenon DEF BaseMultiple
<1>3. PointMultiple(-n, q) \in Points
    BY <1>1, MultipleSteps, Zenon
<1>4. Combined(m, n, q) \in Points
    BY <1>2, <1>3, PointsAreAGroup, Zenon DEF Combined
<1> QED
    BY <1>2, <1>3, <1>4

\* No multiple of either is the identity.
LEMMA NothingCombined ==
    ASSUME NEW q \in Points
    PROVE  Combined(0, 0, q) = Neutral
<1> DEFINE z == -0
<1>1. BasePoint \in Points /\ 0 \in Int /\ z \in Int /\ 0 + z = 0
    BY ConstantsHold
<1> HIDE DEF z
<1>2. z = 0
    BY <1>1
<1>3. PointMultiple(0, BasePoint) = Neutral /\ PointMultiple(z, q) = Neutral
    BY <1>1, <1>2, MultipleSteps, Zenon
<1>4. AffineSum(Neutral, Neutral) = Neutral
    BY PointsAreAGroup, Zenon
<1> QED
    BY <1>3, <1>4, Zenon DEF Combined, BaseMultiple, z

-----------------------------------------------------------------------------
\* The iterations.

\* The table of the base point.
LEMMA BasepointTableHolds == BASEPOINT_ODD_TABLE = OddNiels(BasePoint)
BY ConstantsHold, OddTableHolds DEF BASEPOINT_ODD_TABLE

\* One iteration doubles both numbers and adds the digits.
LEMMA CombinedStep ==
    ASSUME NEW q \in Points, NEW m \in Int, NEW n \in Int, NEW v, Holds(v, Combined(m, n, q)),
           NEW a \in TableDigits \cup {0}, NEW b \in TableDigits \cup {0}
    PROVE  LET first == vartime_add_signed(Double(v), a, BASEPOINT_ODD_TABLE, FALSE)
           IN  Holds(vartime_add_signed(first, b, OddNiels(q), TRUE), Combined(2 * m + a, 2 * n + b, q))
<1> DEFINE x == BaseMultiple(m)
           y == PointMultiple(-n, q)
           X == BaseMultiple(2 * m)
           Y == PointMultiple(-(2 * n), q)
           A == PointMultiple(a, BasePoint)
           k == -b
           B == PointMultiple(k, q)
           first == vartime_add_signed(Double(v), a, BASEPOINT_ODD_TABLE, FALSE)
           second == vartime_add_signed(first, b, OddNiels(q), TRUE)
<1>1. a \in Int /\ b \in Int /\ k \in Int /\ BasePoint \in Points /\ 2 * m \in Int /\ 2 * n \in Int
      /\ 2 * m + a \in Int
    BY EntriesOfDigits, ConstantsHold
<1> HIDE DEF k
<1>2. x \in Points /\ y \in Points /\ X \in Points /\ Y \in Points
    BY <1>1, MultiplesTyped, Zenon
<1>3. A \in Points /\ B \in Points
    BY <1>1, MultipleSteps, Zenon
<1>4. AffineSum(x, x) = X
    BY <1>1, MultiplesDouble, Zenon DEF BaseMultiple
<1>5. AffineSum(y, y) = Y
  <2> DEFINE j == -n
  <2>1. j \in Int /\ 2 * j = -(2 * n)
      OBVIOUS
  <2> HIDE DEF j
  <2>2. AffineSum(PointMultiple(j, q), PointMultiple(j, q)) = PointMultiple(2 * j, q)
      BY <2>1, MultiplesDouble, Zenon
  <2> QED
      BY <2>1, <2>2 DEF j
<1>6. AffineSum(X, A) = BaseMultiple(2 * m + a)
    BY <1>1, MultiplesAdd, Zenon DEF BaseMultiple
<1>7. AffineSum(Y, B) = PointMultiple(-(2 * n + b), q)
  <2> DEFINE j == -(2 * n)
  <2>1. j \in Int /\ j + k = -(2 * n + b)
      BY <1>1 DEF k
  <2> HIDE DEF j
  <2>2. PointMultiple(j + k, q) = AffineSum(PointMultiple(j, q), PointMultiple(k, q))
      BY <1>1, <2>1, MultiplesAdd, Zenon
  <2> QED
      BY <2>1, <2>2 DEF j
<1> HIDE DEF x, y, X, Y, A, B
<1>8. Holds(v, AffineSum(x, y)) /\ AffineSum(x, y) \in Points
    BY <1>2, PointsAreAGroup DEF Combined, x, y
<1>9. Holds(Double(v), AffineSum(X, Y)) /\ AffineSum(X, Y) \in Points
  <2>1. Holds(Double(v), AffineSum(AffineSum(x, y), AffineSum(x, y)))
      BY <1>8, DoublesHold, Zenon
  <2>2. AffineSum(AffineSum(x, y), AffineSum(x, y)) = AffineSum(X, Y)
      BY <1>2, <1>4, <1>5, SumsDouble, Zenon
  <2> QED
      BY <1>2, <2>1, <2>2, PointsAreAGroup
<1>10. Holds(first, AffineSum(AffineSum(X, A), Y)) /\ AffineSum(AffineSum(X, A), Y) \in Points
  <2>1. Holds(first, AffineSum(AffineSum(X, Y), A))
    <3> DEFINE w == Double(v)
               p == AffineSum(X, Y)
    <3>4. Holds(w, p) /\ p \in Points
        BY <1>9
    <3> HIDE DEF w, p
    <3>1. LET j == IF FALSE THEN -a ELSE a
          IN  Holds(vartime_add_signed(w, a, OddNiels(BasePoint), FALSE),
                    AffineSum(p, PointMultiple(j, BasePoint)))
        BY <1>1, <3>4, SignedAdditionHolds, Zenon
    <3>2. Holds(vartime_add_signed(w, a, OddNiels(BasePoint), FALSE), AffineSum(p, A))
        BY <3>1 DEF A
    <3> QED
        BY <3>2, BasepointTableHolds, Zenon DEF w, p, first
  <2>2. AffineSum(AffineSum(X, Y), A) = AffineSum(AffineSum(X, A), Y)
      BY <1>2, <1>3, SumsReorder, Zenon
  <2>3. AffineSum(AffineSum(X, Y), A) \in Points
      BY <1>3, <1>9, PointsAreAGroup
  <2> QED
      BY <2>1, <2>2, <2>3
<1> HIDE DEF first
<1>11. Holds(second, AffineSum(AffineSum(AffineSum(X, A), Y), B))
  <2>1. LET j == IF TRUE THEN -b ELSE b
        IN  Holds(vartime_add_signed(first, b, OddNiels(q), TRUE),
                  AffineSum(AffineSum(AffineSum(X, A), Y), PointMultiple(j, q)))
      BY <1>10, SignedAdditionHolds, Zenon
  <2> QED
      BY <2>1 DEF B, k
<1>12. AffineSum(AffineSum(AffineSum(X, A), Y), B) = AffineSum(AffineSum(X, A), AffineSum(Y, B))
  <2>1. AffineSum(X, A) \in Points
      BY <1>2, <1>3, PointsAreAGroup
  <2> QED
      BY <1>2, <1>3, <2>1, PointsAssociate, Zenon
<1>13. AffineSum(AffineSum(X, A), AffineSum(Y, B)) = Combined(2 * m + a, 2 * n + b, q)
    BY <1>6, <1>7 DEF Combined
<1> QED
    BY <1>11, <1>12, <1>13 DEF first

\* One addition of the subgroup test.
LEMMA SubgroupStep ==
    ASSUME NEW q \in Points, NEW n \in Int, NEW v, Holds(v, PointMultiple(n, q)), NEW a \in TableDigits
    PROVE  /\ Holds(Double(v), PointMultiple(2 * n, q))
           /\ Holds(vartime_add_signed(v, a, OddNiels(q), FALSE), PointMultiple(n + a, q))
<1>1. a \in Int /\ a \in TableDigits \cup {0}
    BY EntriesOfDigits
<1>2. PointMultiple(n, q) \in Points
    BY MultipleSteps
<1>3. Holds(Double(v), PointMultiple(2 * n, q))
    BY <1>2, DoublesHold, MultiplesDouble
<1>4. PointMultiple(n + a, q) = AffineSum(PointMultiple(n, q), PointMultiple(a, q))
    BY <1>1, MultiplesAdd, Zenon
<1>5. LET j == IF FALSE THEN -a ELSE a
      IN  Holds(vartime_add_signed(v, a, OddNiels(q), FALSE), AffineSum(PointMultiple(n, q), PointMultiple(j, q)))
    BY <1>1, <1>2, SignedAdditionHolds, Zenon
<1> QED
    BY <1>3, <1>4, <1>5

\* The test of the equation, and of the identity.
LEMMA EquationHolds ==
    ASSUME NEW p \in Points, NEW r \in Points, NEW v, NEW w, Holds(v, p), Holds(w, r)
    PROVE  IsIdentity(MultiplyByCofactor(Add(v, Negate(w))))
             <=> PointMultiple(4, AffineSum(p, Opposite(r))) = Neutral
<1> DEFINE o == Opposite(r)
           d == AffineSum(p, o)
           e == AffineSum(d, d)
           u == Add(v, Negate(w))
<1>1. o \in Points /\ d \in Points /\ e \in Points
    BY PointsAreAGroup
<1>2. Holds(Negate(w), o)
    BY NegativesHold, Zenon DEF Negate
<1> HIDE DEF o
<1>3. Holds(u, d)
    BY <1>1, <1>2, SumsHold
<1> HIDE DEF u
<1>4. Holds(Double(u), e)
    BY <1>1, <1>3, DoublesHold
<1>5. Holds(MultiplyByCofactor(u), AffineSum(e, e))
    BY <1>1, <1>4, DoublesHold DEF MultiplyByCofactor
<1> HIDE DEF d
<1>6. AffineSum(e, e) = PointMultiple(4, d)
  <2>1. 1 \in Int /\ 2 \in Int /\ 2 * 1 = 2 /\ 2 * 2 = 4
      OBVIOUS
  <2>2. PointMultiple(1, d) = d
      BY <1>1, MultipleOfOne
  <2>3. AffineSum(PointMultiple(1, d), PointMultiple(1, d)) = PointMultiple(2 * 1, d)
      BY <1>1, <2>1, MultiplesDouble, Zenon
  <2>4. AffineSum(PointMultiple(2, d), PointMultiple(2, d)) = PointMultiple(2 * 2, d)
      BY <1>1, <2>1, MultiplesDouble, Zenon
  <2> QED
      BY <2>1, <2>2, <2>3, <2>4
<1>7. AffineSum(e, e) \in Points
    BY <1>1, PointsAreAGroup
<1> HIDE DEF e
<1>8. IsIdentity(MultiplyByCofactor(u)) <=> AffineSum(e, e) = Neutral
    BY <1>5, <1>7, IdentityIsTested, Zenon DEF IsIdentity
<1> QED
    BY <1>6, <1>8 DEF u, d, o

-----------------------------------------------------------------------------
\* The verdict, at every loop.

\* The table belongs to the point of the key, which is not the identity.
ForKey(q) == q # Neutral /\ table = OddNiels(q)

\* The subgroup test has spelt the order down to the current position.
Scheduling(q) ==
    /\ index \in 2 .. ScheduleLength + 1 /\ bit \in 0 .. FIELD_BITS
    /\ IF index <= ScheduleLength THEN bit >= Entry(index)[1] ELSE bit = 0
    /\ \E n \in Int : Holds(acc, PointMultiple(n, q)) /\ n * Power(bit) = Scheduled[index - 1]

\* Nothing but zeros has been skipped.
Skipping == index \in Positions /\ \A s \in Scalars : Spelling(digits[s])[index + 1] = Spelled(digits[s])

\* The joint loop has combined what both rows spell above the current position.
Summing(q) ==
    /\ index \in Positions
    /\ \E m \in Int : \E n \in Int :
          /\ High(digits["response"], m, index + 1) /\ High(digits["challenge"], n, index + 1)
          /\ Holds(acc, Combined(m, n, q))

Progress(q) ==
    /\ loop = "subgroup" => Scheduling(q)
    /\ loop # "subgroup" => PointMultiple(ORDER, q) = Neutral
    /\ loop \notin {"subgroup", "signature"} => Decodes(input.commitment) /\ input.response < ORDER
    /\ loop = "top" => Skipping
    /\ loop = "straus" => Summing(q)
    /\ loop = "equation" => Holds(acc, Combined(input.response, input.challenge, q))

PointInvariant ==
    /\ ScalarInvariant
    /\ VerdictIsTheEquation
    /\ loop \notin {"key", "done"} => \E q \in EncodedBy(input.key) : ForKey(q) /\ Progress(q)

\* The arguments of a call.
LEMMA InputTyped ==
    ASSUME ScalarInvariant
    PROVE  /\ input.key \in EncodedPoints /\ input.commitment \in EncodedPoints
           /\ input.response \in Nat /\ input.challenge \in Nat /\ input.challenge < ORDER /\ ORDER \in Nat
<1>1. input \in Inputs
    BY DEF ScalarInvariant, RecodingInvariant
<1>2. ORDER \in Nat /\ input.response \in Nat /\ input.challenge \in 0 .. ORDER - 1
      /\ input.key \in EncodedPoints /\ input.commitment \in EncodedPoints
    BY <1>1, RecodingAssumption, Zenon DEF RecodingAssumption
<1>3. input.challenge \in Nat /\ input.challenge < ORDER
    BY <1>2
<1> QED
    BY <1>2, <1>3

\* The digits that the joint loop reads.
LEMMA DigitsTyped ==
    ASSUME ScalarInvariant, NEW s \in Scalars
    PROVE  digits[s] \in Rows /\ \A i \in Positions : digits[s][i] \in TableDigits \cup {0}
<1>1. digits[s] \in Rows /\ NonAdjacent(digits[s])
    BY DEF ScalarInvariant, RecodingInvariant, RecodingIsNonAdjacent, Rows, Scalars
<1>2. ASSUME NEW i \in Positions PROVE digits[s][i] \in TableDigits \cup {0}
    BY <1>1 DEF NonAdjacent
<1> QED
    BY <1>1, <1>2

\* The verdict that a key and a commitment decide.
LEMMA PointsDecide ==
    ASSUME NEW call, call.key \in EncodedPoints, call.commitment \in EncodedPoints,
           NEW a \in EncodedBy(call.key), NEW r \in EncodedBy(call.commitment)
    PROVE  Accepts(call) <=> /\ a # Neutral /\ PointMultiple(ORDER, a) = Neutral
                             /\ call.response < ORDER
                             /\ PointMultiple(4, Residual(call, a, r)) = Neutral
<1>1. EncodedBy(call.key) = {a} /\ EncodedBy(call.commitment) = {r}
    BY DecodeFindsThePoint, Zenon
<1> QED
    BY <1>1, Zenon DEF Accepts

\* What is refused before the equation.
LEMMA RefusalsAreRight ==
    ASSUME NEW call, call.key \in EncodedPoints, call.commitment \in EncodedPoints,
           \/ EncodedBy(call.key) = {} \/ EncodedBy(call.commitment) = {}
           \/ ~(call.response < ORDER)
           \/ \E a \in EncodedBy(call.key) : a = Neutral \/ PointMultiple(ORDER, a) # Neutral
    PROVE  ~Accepts(call)
<1> SUFFICES ASSUME NEW a \in EncodedBy(call.key), NEW r \in EncodedBy(call.commitment),
                    a # Neutral, PointMultiple(ORDER, a) = Neutral, call.response < ORDER
             PROVE  FALSE
    BY Zenon DEF Accepts
<1>1. EncodedBy(call.key) = {a}
    BY DecodeFindsThePoint, Zenon
<1> QED
    BY <1>1, Zenon

\* A step that returns the right answer.
LEMMA ReturnKeepsPoints ==
    ASSUME PointInvariant, [Next]_vars, NEW answer \in BOOLEAN, Return(answer), answer <=> Accepts(input)
    PROVE  PointInvariant'
<1>1. ScalarInvariant'
    BY StepKeepsScalar DEF PointInvariant
<1>2. loop' = "done" /\ verdict' = answer /\ input' = input
    BY DEF Return
<1>3. Accepts(input) \in BOOLEAN
    BY DEF Accepts
<1>4. answer = Accepts(input)
  <2>1. answer \in BOOLEAN
      OBVIOUS
  <2> QED
      BY <1>3, <2>1
<1>5. VerdictIsTheEquation'
    BY <1>2, <1>4, Zenon DEF VerdictIsTheEquation
<1> QED
    BY <1>1, <1>2, <1>5 DEF PointInvariant

\* A step that goes on with the key.
LEMMA ProgressKeepsPoints ==
    ASSUME PointInvariant, [Next]_vars, NEW q \in EncodedBy(input.key), input' = input,
           loop' # "done", ForKey(q)', Progress(q)'
    PROVE  PointInvariant'
<1>1. ScalarInvariant'
    BY StepKeepsScalar DEF PointInvariant
<1>2. VerdictIsTheEquation'
    BY DEF VerdictIsTheEquation
<1>3. EncodedBy(input'.key) = EncodedBy(input.key)
    BY Zenon
<1>4. (\E p \in EncodedBy(input.key) : ForKey(p) /\ Progress(p))'
    BY <1>3, Zenon
<1> QED
    BY <1>1, <1>2, <1>4 DEF PointInvariant

\* A key is refused if it does not decode or decodes to the identity.
LEMMA KeyRefusedKeepsPoints == ASSUME PointInvariant, KeyRefused PROVE PointInvariant'
<1>1. input.key \in EncodedPoints /\ input.commitment \in EncodedPoints
    BY InputTyped DEF PointInvariant
<1>2. [Next]_vars /\ Return(FALSE) /\ (Decodes(input.key) => IsIdentity(Decode(input.key)))
    BY DEF KeyRefused, Next
<1>3. CASE EncodedBy(input.key) = {}
    BY <1>1, <1>2, <1>3, RefusalsAreRight, ReturnKeepsPoints
<1>4. CASE EncodedBy(input.key) # {}
  <2>1. PICK q \in EncodedBy(input.key) : TRUE
      BY <1>4
  <2>2. Decodes(input.key) /\ q \in Points /\ Decode(input.key) = FromAffine(q[1], q[2])
      BY <1>1, <1>4, DecodeFindsThePoint
  <2>3. Holds(Decode(input.key), q)
      BY <2>2, AffineHolds, Zenon DEF FromAffine
  <2>4. q = Neutral
      BY <1>2, <2>2, <2>3, IdentityIsTested, Zenon DEF IsIdentity
  <2>5. ~Accepts(input)
      BY <1>1, <2>1, <2>4, RefusalsAreRight
  <2> QED
      BY <1>2, <2>5, ReturnKeepsPoints
<1> QED
    BY <1>3, <1>4

\* The point in play between the key and the verdict.
LEMMA PointInPlay ==
    ASSUME PointInvariant, loop \notin {"key", "done"}
    PROVE  \E q \in EncodedBy(input.key) : q \in Points /\ ForKey(q) /\ Progress(q)
<1>1. input.key \in EncodedPoints
    BY InputTyped DEF PointInvariant
<1>2. PICK q \in EncodedBy(input.key) : ForKey(q) /\ Progress(q)
    BY DEF PointInvariant
<1>3. q \in Points
    BY <1>1, DecodeFindsThePoint
<1> QED
    BY <1>2, <1>3

\* The test starts at the leading digit, which is one.
LEMMA PrepareKeepsPoints == ASSUME PointInvariant, PrepareTable PROVE PointInvariant'
<1> DEFINE point == Decode(input.key)
<1>1. input.key \in EncodedPoints
    BY InputTyped DEF PointInvariant
<1>2. /\ [Next]_vars /\ Decodes(input.key) /\ ~IsIdentity(point)
      /\ table' = OddTable(point) /\ acc' = point
      /\ loop' = "subgroup" /\ index' = 2 /\ bit' = Entry(1)[1] /\ input' = input
    BY DEF PrepareTable, Next, Entry
<1>3. PICK q \in EncodedBy(input.key) : TRUE
    BY <1>1, <1>2, DecodeFindsThePoint
<1>4. q \in Points /\ point = FromAffine(q[1], q[2])
    BY <1>1, DecodeFindsThePoint
<1>5. Holds(point, q)
    BY <1>4, AffineHolds, Zenon DEF FromAffine
<1> HIDE DEF point
<1>6. ForKey(q)'
  <2>1. q # Neutral
      BY <1>2, <1>4, <1>5, IdentityIsTested, Zenon DEF IsIdentity
  <2>2. table' = OddNiels(q)
      BY <1>2, <1>4, <1>5, OddTableHolds, Zenon
  <2> QED
      BY <2>1, <2>2 DEF ForKey
<1>7. Scheduling(q)'
  <2>1. ScheduleLength \in Nat \ {0} /\ Entry(1)[1] \in 0 .. FIELD_BITS /\ 2 - 1 = 1 /\ 1 - 1 = 0
        /\ 1 \in 1 .. ScheduleLength /\ Entry(1)[2] = 1 /\ Entry(ScheduleLength)[1] = 0
      BY ScheduleTyped
  <2>2. IF 2 <= ScheduleLength THEN Entry(1)[1] >= Entry(2)[1] ELSE Entry(1)[1] = 0
    <3>1. CASE 2 <= ScheduleLength
      <4>1. 2 \in 2 .. ScheduleLength /\ 2 \in 1 .. ScheduleLength
          BY <2>1, <3>1
      <4>2. Entry(2)[1] < Entry(2 - 1)[1] /\ Entry(2)[1] \in 0 .. FIELD_BITS
          BY <4>1, ScheduleTyped
      <4> QED
          BY <2>1, <3>1, <4>2
    <3>2. CASE ~(2 <= ScheduleLength)
      <4>1. ScheduleLength = 1
          BY <2>1, <3>2
      <4> QED
          BY <2>1, <3>2, <4>1
    <3> QED
        BY <3>1, <3>2
  <2>3. Holds(point, PointMultiple(1, q))
      BY <1>4, <1>5, MultipleOfOne
  <2>4. 1 * Power(Entry(1)[1]) = Scheduled[1]
    <3>1. Scheduled[0] = 0 /\ Scheduled[1] = Scheduled[1 - 1] + Entry(1)[2] * Power(Entry(1)[1])
        BY <2>1, ScheduleAddsDigits
    <3>2. Power(Entry(1)[1]) \in Int
      <4>1. Entry(1)[1] \in 0 .. FIELD_BITS + WNAF_WIDTH
          BY <2>1, Doubling
      <4> QED
          BY <4>1, Doubling
    <3> QED
        BY <2>1, <3>1, <3>2
  <2>5. 2 \in 2 .. ScheduleLength + 1
      BY <2>1
  <2>6. \E n \in Int : Holds(acc', PointMultiple(n, q)) /\ n * Power(bit') = Scheduled[index' - 1]
    <3>1. 1 \in Int
        OBVIOUS
    <3> QED
        BY <1>2, <2>1, <2>3, <2>4, <3>1
  <2> QED
      BY <1>2, <2>1, <2>2, <2>5, <2>6 DEF Scheduling
<1>8. Progress(q)'
    BY <1>2, <1>7 DEF Progress
<1> QED
    BY <1>2, <1>6, <1>8, ProgressKeepsPoints

\* One position down, the number doubles and its power halves.
LEMMA SubgroupDoubleKeepsPoints == ASSUME PointInvariant, SubgroupDouble PROVE PointInvariant'
<1>1. /\ [Next]_vars /\ loop = "subgroup" /\ index <= ScheduleLength /\ bit > Entry(index)[1]
      /\ acc' = Double(acc) /\ bit' = bit - 1
      /\ UNCHANGED <<input, loop, index, table>>
    BY DEF SubgroupDouble, Next, Entry, ScheduleLength
<1>2. PICK q \in EncodedBy(input.key) : q \in Points /\ ForKey(q) /\ Progress(q)
    BY <1>1, PointInPlay
<1>3. Scheduling(q)
    BY <1>1, <1>2 DEF Progress
<1>4. PICK n \in Int : Holds(acc, PointMultiple(n, q)) /\ n * Power(bit) = Scheduled[index - 1]
    BY <1>3 DEF Scheduling
<1>5. index \in 2 .. ScheduleLength + 1 /\ bit \in 0 .. FIELD_BITS
    BY <1>3 DEF Scheduling
<1>6. Entry(index)[1] \in 0 .. FIELD_BITS
  <2>1. index \in 1 .. ScheduleLength
      BY <1>1, <1>5, ScheduleTyped
  <2> QED
      BY <2>1, ScheduleTyped
<1>7. bit - 1 \in 0 .. FIELD_BITS /\ bit - 1 >= Entry(index)[1] /\ bit # 0
    BY <1>1, <1>5, <1>6, Doubling
<1>8. Power(bit) = 2 * Power(bit - 1) /\ Power(bit - 1) \in Int
  <2>1. bit \in 0 .. FIELD_BITS + WNAF_WIDTH /\ bit - 1 \in 0 .. FIELD_BITS + WNAF_WIDTH
      BY <1>5, <1>7, Doubling
  <2> QED
      BY <1>7, <2>1, Doubling
<1>9. Holds(Double(acc), PointMultiple(2 * n, q))
  <2>1. PointMultiple(n, q) \in Points
      BY <1>2, MultipleSteps
  <2> QED
      BY <1>2, <1>4, <2>1, DoublesHold, MultiplesDouble
<1>10. (2 * n) * Power(bit - 1) = Scheduled[index - 1] /\ 2 * n \in Int
  <2> DEFINE p == Power(bit - 1)
  <2>1. (2 * n) * p = n * (2 * p)
    <3> HIDE DEF p
    <3>1. p \in Int
        BY <1>8 DEF p
    <3> QED
        BY <3>1
  <2> QED
      BY <1>4, <1>8, <2>1
<1>11. Scheduling(q)'
  <2>1. \E k \in Int : Holds(acc', PointMultiple(k, q)) /\ k * Power(bit') = Scheduled[index' - 1]
    <3>1. Holds(acc', PointMultiple(2 * n, q)) /\ (2 * n) * Power(bit') = Scheduled[index' - 1]
        BY <1>1, <1>9, <1>10
    <3> QED
        BY <1>10, <3>1, Zenon
  <2> QED
      BY <1>1, <1>5, <1>7, <2>1 DEF Scheduling
<1>12. ForKey(q)' /\ Progress(q)'
    BY <1>1, <1>2, <1>11 DEF ForKey, Progress
<1> QED
    BY <1>1, <1>12, ProgressKeepsPoints

\* At the position of a digit, the number gains it.
LEMMA SubgroupAddKeepsPoints == ASSUME PointInvariant, SubgroupAdd PROVE PointInvariant'
<1> DEFINE a == Entry(index)[2]
           p == Power(bit)
<1>1. /\ [Next]_vars /\ loop = "subgroup" /\ index <= ScheduleLength /\ bit = Entry(index)[1]
      /\ acc' = vartime_add_signed(acc, a, table, FALSE) /\ index' = index + 1
      /\ UNCHANGED <<input, loop, bit, table>>
    BY DEF SubgroupAdd, Next, Entry, ScheduleLength
<1>2. PICK q \in EncodedBy(input.key) : q \in Points /\ ForKey(q) /\ Progress(q)
    BY <1>1, PointInPlay
<1>3. Scheduling(q)
    BY <1>1, <1>2 DEF Progress
<1>4. PICK n \in Int : Holds(acc, PointMultiple(n, q)) /\ n * p = Scheduled[index - 1]
    BY <1>3 DEF Scheduling
<1>5. /\ index \in 2 .. ScheduleLength /\ index \in 1 .. ScheduleLength /\ bit \in 0 .. FIELD_BITS
      /\ ScheduleLength \in Nat /\ Entry(ScheduleLength)[1] = 0
    BY <1>1, <1>3, ScheduleTyped DEF Scheduling
<1>6. a \in TableDigits /\ a \in Int
    BY <1>5, ScheduleTyped
<1>7. p \in Int
  <2>1. bit \in 0 .. FIELD_BITS + WNAF_WIDTH
      BY <1>5, Doubling
  <2> QED
      BY <2>1, Doubling
<1>8. Scheduled[index] = Scheduled[index - 1] + a * p
    BY <1>1, <1>5, ScheduleAddsDigits
<1> HIDE DEF a, p
<1>9. Holds(acc', PointMultiple(n + a, q)) /\ n + a \in Int
  <2>1. Holds(vartime_add_signed(acc, a, OddNiels(q), FALSE), PointMultiple(n + a, q))
      BY <1>2, <1>4, <1>6, SubgroupStep, Zenon
  <2>2. table = OddNiels(q)
      BY <1>2 DEF ForKey
  <2>3. n + a \in Int
      BY <1>6
  <2> QED
      BY <1>1, <2>1, <2>2, <2>3
<1>10. (n + a) * p = Scheduled[index]
  <2>1. (n + a) * p = n * p + a * p
      BY <1>6, <1>7
  <2> QED
      BY <1>4, <1>8, <2>1
<1>11. Scheduling(q)'
  <2>1. index' \in 2 .. ScheduleLength + 1 /\ index' - 1 = index
      BY <1>1, <1>5
  <2>2. \E k \in Int : Holds(acc', PointMultiple(k, q)) /\ k * Power(bit') = Scheduled[index' - 1]
    <3>1. (n + a) * Power(bit') = Scheduled[index' - 1]
        BY <1>1, <1>10, <2>1 DEF p
    <3> QED
        BY <1>9, <3>1, Zenon
  <2>3. IF index' <= ScheduleLength THEN bit' >= Entry(index')[1] ELSE bit' = 0
    <3>1. CASE index' <= ScheduleLength
      <4>1. index' \in 2 .. ScheduleLength /\ index' \in 1 .. ScheduleLength
          BY <2>1, <3>1
      <4>2. Entry(index')[1] < Entry(index' - 1)[1] /\ Entry(index')[1] \in 0 .. FIELD_BITS
          BY <4>1, ScheduleTyped
      <4> QED
          BY <1>1, <1>5, <2>1, <3>1, <4>2
    <3>2. CASE ~(index' <= ScheduleLength)
      <4>1. index = ScheduleLength
          BY <1>1, <1>5, <3>2
      <4> QED
          BY <1>1, <1>5, <3>2, <4>1
    <3> QED
        BY <3>1, <3>2
  <2> QED
      BY <1>1, <1>5, <2>1, <2>2, <2>3 DEF Scheduling
<1>12. ForKey(q)' /\ Progress(q)'
    BY <1>1, <1>2, <1>11 DEF ForKey, Progress
<1> QED
    BY <1>1, <1>12, ProgressKeepsPoints

\* At the end of the schedule the number is the order.
LEMMA SubgroupEndsKeepsPoints == ASSUME PointInvariant, SubgroupEnds PROVE PointInvariant'
<1>1. /\ [Next]_vars /\ loop = "subgroup" /\ index > ScheduleLength
      /\ IF IsIdentity(acc) THEN loop' = "signature" /\ UNCHANGED <<input, table>> ELSE Return(FALSE)
    BY DEF SubgroupEnds, Next, ScheduleLength
<1>2. PICK q \in EncodedBy(input.key) : q \in Points /\ ForKey(q) /\ Progress(q)
    BY <1>1, PointInPlay
<1>3. Scheduling(q)
    BY <1>1, <1>2 DEF Progress
<1>4. PICK n \in Int : Holds(acc, PointMultiple(n, q)) /\ n * Power(bit) = Scheduled[index - 1]
    BY <1>3 DEF Scheduling
<1>5. n = ORDER
  <2>1. index - 1 = ScheduleLength /\ bit = 0
      BY <1>1, <1>3, ScheduleTyped DEF Scheduling
  <2>2. Scheduled[ScheduleLength] = ORDER
      BY ScheduleTyped
  <2>3. Power(0) = 1
      BY RecodingAssumption DEF RecodingAssumption, Power
  <2> QED
      BY <1>4, <2>1, <2>2, <2>3
<1>6. IsIdentity(acc) <=> PointMultiple(ORDER, q) = Neutral
  <2>1. PointMultiple(n, q) \in Points
      BY <1>2, MultipleSteps
  <2> QED
      BY <1>4, <1>5, <2>1, IdentityIsTested, Zenon DEF IsIdentity
<1>7. CASE IsIdentity(acc)
  <2>1. ForKey(q)' /\ Progress(q)'
      BY <1>1, <1>2, <1>6, <1>7 DEF ForKey, Progress
  <2> QED
      BY <1>1, <1>7, <2>1, ProgressKeepsPoints
<1>8. CASE ~IsIdentity(acc)
  <2>1. input.key \in EncodedPoints /\ input.commitment \in EncodedPoints
      BY InputTyped DEF PointInvariant
  <2>2. ~Accepts(input)
      BY <1>6, <1>8, <2>1, RefusalsAreRight
  <2> QED
      BY <1>1, <1>8, <2>2, ReturnKeepsPoints
<1> QED
    BY <1>7, <1>8

\* A malformed signature is refused.
LEMMA SignatureRefusedKeepsPoints == ASSUME PointInvariant, SignatureRefused PROVE PointInvariant'
<1>1. [Next]_vars /\ Return(FALSE) /\ (~Decodes(input.commitment) \/ input.response >= ORDER)
    BY DEF SignatureRefused, Next
<1>2. input.key \in EncodedPoints /\ input.commitment \in EncodedPoints /\ input.response \in Nat /\ ORDER \in Nat
    BY InputTyped DEF PointInvariant
<1>3. EncodedBy(input.commitment) = {} \/ ~(input.response < ORDER)
    BY <1>1, <1>2, DecodeFindsThePoint
<1>4. ~Accepts(input)
    BY <1>2, <1>3, RefusalsAreRight
<1> QED
    BY <1>1, <1>4, ReturnKeepsPoints

\* The recodings leave the key and its table alone.
LEMMA RecodingsKeepPoints ==
    ASSUME PointInvariant, ParseSignature \/ Recode \/ ResponseRecoded
    PROVE  PointInvariant'
<1>1. /\ [Next]_vars /\ UNCHANGED <<input, table>>
      /\ loop \in {"signature", "response", "challenge"} /\ loop' \in {"response", "challenge"}
      /\ loop = "signature" => Decodes(input.commitment) /\ input.response < ORDER
    BY DEF ParseSignature, Recode, ResponseRecoded, StartRecoding, Next
<1>2. PICK q \in EncodedBy(input.key) : q \in Points /\ ForKey(q) /\ Progress(q)
    BY <1>1, PointInPlay
<1>3. PointMultiple(ORDER, q) = Neutral /\ Decodes(input.commitment) /\ input.response < ORDER
    BY <1>1, <1>2 DEF Progress
<1>4. ForKey(q)' /\ Progress(q)'
    BY <1>1, <1>2, <1>3 DEF ForKey, Progress
<1> QED
    BY <1>1, <1>4, ProgressKeepsPoints

\* What the loops after the recodings start from.
LEMMA AfterRecoding ==
    ASSUME PointInvariant, loop \in {"challenge", "top", "straus", "equation"}
    PROVE  \E q \in EncodedBy(input.key) :
              /\ q \in Points /\ ForKey(q) /\ Progress(q)
              /\ PointMultiple(ORDER, q) = Neutral /\ Decodes(input.commitment) /\ input.response < ORDER
<1>1. PICK q \in EncodedBy(input.key) : q \in Points /\ ForKey(q) /\ Progress(q)
    BY PointInPlay
<1> QED
    BY <1>1 DEF Progress

\* A row of digits is skipped or summed from the top of the array.
LEMMA ChallengeRecodedKeepsPoints == ASSUME PointInvariant, ChallengeRecoded PROVE PointInvariant'
<1>1. /\ [Next]_vars /\ loop = "challenge" /\ loop' = "top" /\ index' = FIELD_BITS
      /\ UNCHANGED <<input, table, digits>>
    BY DEF ChallengeRecoded, Next
<1>2. PICK q \in EncodedBy(input.key) :
              /\ q \in Points /\ ForKey(q) /\ Progress(q)
              /\ PointMultiple(ORDER, q) = Neutral /\ Decodes(input.commitment) /\ input.response < ORDER
    BY <1>1, AfterRecoding
<1>3. FIELD_BITS \in Positions
    BY Doubling DEF Positions
<1>4. Skipping'
    BY <1>1, <1>3 DEF Skipping, Spelled
<1>5. ForKey(q)' /\ Progress(q)'
    BY <1>1, <1>2, <1>4 DEF ForKey, Progress
<1> QED
    BY <1>1, <1>5, ProgressKeepsPoints

\* Skipping a position where both digits are zero changes no sum.
LEMMA SkipTopKeepsPoints == ASSUME PointInvariant, SkipTop PROVE PointInvariant'
<1>1. /\ [Next]_vars /\ loop = "top" /\ index # 0 /\ AllZero(index) /\ index' = index - 1
      /\ UNCHANGED <<input, loop, table, digits>>
    BY DEF SkipTop, Next
<1>2. PICK q \in EncodedBy(input.key) :
              /\ q \in Points /\ ForKey(q) /\ Progress(q)
              /\ PointMultiple(ORDER, q) = Neutral /\ Decodes(input.commitment) /\ input.response < ORDER
    BY <1>1, AfterRecoding
<1>3. Skipping
    BY <1>1, <1>2 DEF Progress
<1>4. index \in Positions /\ index - 1 \in Positions /\ (index - 1) + 1 = index
    BY <1>1, <1>3, Doubling DEF Skipping, Positions
<1>5. ASSUME NEW s \in Scalars PROVE Spelling(digits[s])[index] = Spelled(digits[s])
  <2>1. digits[s] \in Rows
      BY DigitsTyped DEF PointInvariant
  <2>2. digits[s][index] = 0
      BY <1>1 DEF AllZero, Scalars
  <2>3. Spelling(digits[s])[index + 1] = Spelled(digits[s])
      BY <1>3 DEF Skipping
  <2> QED
      BY <1>4, <2>1, <2>2, <2>3, ZeroDigitSkipped
<1>6. Skipping'
    BY <1>1, <1>4, <1>5 DEF Skipping
<1>7. ForKey(q)' /\ Progress(q)'
    BY <1>1, <1>2, <1>6 DEF ForKey, Progress
<1> QED
    BY <1>1, <1>7, ProgressKeepsPoints

\* The joint loop starts from the identity, with nothing summed.
LEMMA StartStrausKeepsPoints == ASSUME PointInvariant, StartStraus PROVE PointInvariant'
<1>1. /\ [Next]_vars /\ loop = "top" /\ loop' = "straus" /\ acc' = Identity
      /\ UNCHANGED <<input, index, table, digits>>
    BY DEF StartStraus, Next
<1>2. PICK q \in EncodedBy(input.key) :
              /\ q \in Points /\ ForKey(q) /\ Progress(q)
              /\ PointMultiple(ORDER, q) = Neutral /\ Decodes(input.commitment) /\ input.response < ORDER
    BY <1>1, AfterRecoding
<1>3. Skipping
    BY <1>1, <1>2 DEF Progress
<1>4. index \in Positions /\ index + 1 \in 0 .. FIELD_BITS + 1
    BY <1>3, Doubling DEF Skipping, Positions
<1>5. ASSUME NEW s \in Scalars PROVE High(digits[s], 0, index + 1)
  <2>1. digits[s] \in Rows
      BY DigitsTyped DEF PointInvariant
  <2>2. Spelling(digits[s])[index + 1] = Spelled(digits[s])
      BY <1>3 DEF Skipping
  <2> QED
      BY <1>4, <2>1, <2>2, HighAtTop
<1>6. Holds(Identity, Combined(0, 0, q))
    BY <1>2, NothingCombined, ConstantsHold
<1>7. Summing(q)'
  <2>1. 0 \in Int /\ "response" \in Scalars /\ "challenge" \in Scalars
      BY DEF Scalars
  <2>2. High(digits'["response"], 0, index' + 1) /\ High(digits'["challenge"], 0, index' + 1)
        /\ Holds(acc', Combined(0, 0, q))
      BY <1>1, <1>5, <1>6, <2>1
  <2>3. \E m \in Int : \E n \in Int :
          /\ High(digits'["response"], m, index' + 1) /\ High(digits'["challenge"], n, index' + 1)
          /\ Holds(acc', Combined(m, n, q))
      BY <2>1, <2>2, Zenon
  <2> QED
      BY <1>1, <1>4, <2>3 DEF Summing
<1>8. ForKey(q)' /\ Progress(q)'
    BY <1>1, <1>2, <1>7 DEF ForKey, Progress
<1> QED
    BY <1>1, <1>8, ProgressKeepsPoints

\* One iteration of the joint loop.
LEMMA StrausKeepsPoints == ASSUME PointInvariant, Straus PROVE PointInvariant'
<1> DEFINE a == digits["response"][index]
           b == digits["challenge"][index]
<1>1. /\ [Next]_vars /\ loop = "straus" /\ acc' = StrausStep(acc, index)
      /\ IF index = 0 THEN loop' = "equation" ELSE index' = index - 1 /\ loop' = loop
      /\ UNCHANGED <<input, table, digits>>
    BY DEF Straus, Next
<1>2. PICK q \in EncodedBy(input.key) :
              /\ q \in Points /\ ForKey(q) /\ Progress(q)
              /\ PointMultiple(ORDER, q) = Neutral /\ Decodes(input.commitment) /\ input.response < ORDER
    BY <1>1, AfterRecoding
<1>3. Summing(q)
    BY <1>1, <1>2 DEF Progress
<1>4. PICK m \in Int : \E n \in Int :
          /\ High(digits["response"], m, index + 1) /\ High(digits["challenge"], n, index + 1)
          /\ Holds(acc, Combined(m, n, q))
    BY <1>3 DEF Summing
<1>5. PICK n \in Int :
          /\ High(digits["response"], m, index + 1) /\ High(digits["challenge"], n, index + 1)
          /\ Holds(acc, Combined(m, n, q))
    BY <1>4
<1>6. index \in Positions /\ "response" \in Scalars /\ "challenge" \in Scalars
    BY <1>3 DEF Summing, Scalars
<1>7. digits["response"] \in Rows /\ digits["challenge"] \in Rows
      /\ a \in TableDigits \cup {0} /\ b \in TableDigits \cup {0}
    BY <1>6, DigitsTyped DEF PointInvariant
<1>8. a \in Int /\ b \in Int
    BY <1>6, <1>7 DEF Rows
<1>9. High(digits["response"], 2 * m + a, index) /\ High(digits["challenge"], 2 * n + b, index)
    BY <1>5, <1>6, <1>7, HighTakesDigit
<1>10. Holds(acc', Combined(2 * m + a, 2 * n + b, q))
  <2>1. LET first == vartime_add_signed(Double(acc), a, BASEPOINT_ODD_TABLE, FALSE)
        IN  Holds(vartime_add_signed(first, b, OddNiels(q), TRUE), Combined(2 * m + a, 2 * n + b, q))
    <3> HIDE DEF a, b
    <3> QED
        BY <1>2, <1>5, <1>7, CombinedStep, Zenon
  <2>2. acc' = vartime_add_signed(vartime_add_signed(Double(acc), a, BASEPOINT_ODD_TABLE, FALSE), b, OddNiels(q), TRUE)
      BY <1>1, <1>2, Zenon DEF StrausStep, ForKey
  <2> QED
      BY <2>1, <2>2, Zenon
<1> DEFINE M == 2 * m + a
           N == 2 * n + b
<1>11. M \in Int /\ N \in Int
    BY <1>8
<1>12. High(digits["response"], M, index) /\ High(digits["challenge"], N, index) /\ Holds(acc', Combined(M, N, q))
    BY <1>9, <1>10
<1> HIDE DEF M, N, a, b
<1>13. CASE index = 0
  <2>1. M = Spelled(digits["response"]) /\ N = Spelled(digits["challenge"])
      BY <1>7, <1>11, <1>12, <1>13, HighAtBottom
  <2>2. M = input.response /\ N = input.challenge
      BY <1>1, <2>1 DEF PointInvariant, ScalarInvariant, RecodingKeepsScalar
  <2>3. Holds(acc', Combined(input'.response, input'.challenge, q))
      BY <1>1, <1>12, <2>2
  <2>4. ForKey(q)' /\ Progress(q)'
      BY <1>1, <1>2, <1>13, <2>3 DEF ForKey, Progress
  <2> QED
      BY <1>1, <1>13, <2>4, ProgressKeepsPoints
<1>14. CASE index # 0
  <2>1. index - 1 \in Positions /\ (index - 1) + 1 = index
      BY <1>6, <1>14, Doubling DEF Positions
  <2>2. \E k \in Int : \E j \in Int :
          /\ High(digits'["response"], k, index' + 1) /\ High(digits'["challenge"], j, index' + 1)
          /\ Holds(acc', Combined(k, j, q))
    <3>1. High(digits'["response"], M, index' + 1) /\ High(digits'["challenge"], N, index' + 1)
        BY <1>1, <1>12, <1>14, <2>1
    <3> QED
        BY <1>11, <1>12, <3>1, Zenon
  <2>3. Summing(q)'
      BY <1>1, <1>14, <2>1, <2>2 DEF Summing
  <2>4. ForKey(q)' /\ Progress(q)'
      BY <1>1, <1>2, <1>14, <2>3 DEF ForKey, Progress
  <2> QED
      BY <1>1, <1>14, <2>4, ProgressKeepsPoints
<1> QED
    BY <1>13, <1>14

\* The last test is that of the equation.
LEMMA EquationKeepsPoints == ASSUME PointInvariant, Equation PROVE PointInvariant'
<1> DEFINE answer == IsIdentity(MultiplyByCofactor(Add(acc, Negate(Decode(input.commitment)))))
<1>1. [Next]_vars /\ loop = "equation" /\ Return(answer)
    BY DEF Equation, Next
<1>2. PICK q \in EncodedBy(input.key) :
              /\ q \in Points /\ ForKey(q) /\ Progress(q)
              /\ PointMultiple(ORDER, q) = Neutral /\ Decodes(input.commitment) /\ input.response < ORDER
    BY <1>1, AfterRecoding
<1>3. Holds(acc, Combined(input.response, input.challenge, q))
    BY <1>1, <1>2 DEF Progress
<1>4. /\ input.key \in EncodedPoints /\ input.commitment \in EncodedPoints
      /\ input.response \in Int /\ input.challenge \in Int
    BY InputTyped DEF PointInvariant
<1>5. PICK r \in EncodedBy(input.commitment) : TRUE
    BY <1>2, <1>4, DecodeFindsThePoint
<1>6. r \in Points /\ Decode(input.commitment) = FromAffine(r[1], r[2])
    BY <1>4, DecodeFindsThePoint
<1>7. Holds(Decode(input.commitment), r)
    BY <1>6, AffineHolds, Zenon DEF FromAffine
<1>8. Combined(input.response, input.challenge, q) \in Points
    BY <1>2, <1>4, MultiplesTyped, Zenon
<1>9. answer <=> PointMultiple(4, AffineSum(Combined(input.response, input.challenge, q), Opposite(r))) = Neutral
    BY <1>3, <1>6, <1>7, <1>8, EquationHolds, Zenon
<1>10. AffineSum(Combined(input.response, input.challenge, q), Opposite(r)) = Residual(input, q, r)
    BY Zenon DEF Residual, Combined
<1>11. Accepts(input) <=> /\ q # Neutral /\ PointMultiple(ORDER, q) = Neutral
                          /\ input.response < ORDER
                          /\ PointMultiple(4, Residual(input, q, r)) = Neutral
    BY <1>4, PointsDecide, Zenon
<1>12. q # Neutral
    BY <1>2 DEF ForKey
<1>13. answer \in BOOLEAN
    BY DEF IsIdentity
<1> HIDE DEF answer
<1>14. answer <=> Accepts(input)
    BY <1>2, <1>9, <1>10, <1>11, <1>12, Zenon
<1> QED
    BY <1>1, <1>13, <1>14, ReturnKeepsPoints

\* Every step of verify keeps the invariant.
LEMMA StepKeepsPoints == PointInvariant /\ [Next]_vars => PointInvariant'
<1> SUFFICES ASSUME PointInvariant, [Next]_vars PROVE PointInvariant'
    OBVIOUS
<1>1. CASE UNCHANGED vars
  <2>1. ScalarInvariant'
      BY StepKeepsScalar DEF PointInvariant
  <2>2. /\ input' = input /\ loop' = loop /\ index' = index /\ bit' = bit /\ digits' = digits
        /\ table' = table /\ acc' = acc /\ verdict' = verdict
      BY <1>1 DEF vars
  <2> QED
      BY <2>1, <2>2 DEF PointInvariant, VerdictIsTheEquation, ForKey, Progress, Scheduling, Skipping, Summing
<1> QED
    BY <1>1, KeyRefusedKeepsPoints, PrepareKeepsPoints, SubgroupDoubleKeepsPoints, SubgroupAddKeepsPoints,
       SubgroupEndsKeepsPoints, SignatureRefusedKeepsPoints, RecodingsKeepPoints,
       ChallengeRecodedKeepsPoints, SkipTopKeepsPoints, StartStrausKeepsPoints, StrausKeepsPoints,
       EquationKeepsPoints DEF Next

\* verify decides the cofactored equation: for every field and curve of the
\* assumptions, every width, schedule, key, commitment and pair of scalars, it
\* answers TRUE exactly when the key is the one encoding of a point of prime
\* order, the commitment of a point, S < L, and 4([S]B - [k]A - R) = 0.
THEOREM VerifyDecidesTheEquation == Spec => []VerdictIsTheEquation
<1>1. Init => PointInvariant
  <2> SUFFICES ASSUME Init PROVE PointInvariant
      OBVIOUS
  <2>1. ScalarInvariant
      BY StartsEmpty DEF ScalarInvariant, RecodingKeepsScalar, Init, Scalars
  <2> QED
      BY <2>1 DEF Init, PointInvariant, VerdictIsTheEquation
<1>2. PointInvariant => VerdictIsTheEquation
    BY DEF PointInvariant
<1> QED
    BY <1>1, <1>2, StepKeepsPoints, PTL DEF Spec
=============================================================================
