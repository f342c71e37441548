-------------------------- MODULE FieldLimbsProofs --------------------------
(***************************************************************************)
(* The limb arithmetic of field_5x64.rs is exact, for every word width and *)
(* modulus that leave the room its comments claim, for every program over  *)
(* the three types.  Number: Sum(w, n) is what the first n words of w      *)
(* spell.  Every loop of the code is a carry chain (CarryChain, ExactSum), *)
(* so a product spells the product (WideProduct, WideSquare, SmallProduct) *)
(* and a fold keeps a number modulo p (Fold, WideReduction,                *)
(* SmallReduction).  Each operation then maps registers that represent     *)
(* elements to one that represents their result, which is the invariant.   *)
(***************************************************************************)
EXTENDS FieldLimbs, TLAPS

-----------------------------------------------------------------------------
(* The parameters. *)

\* The parameters are positive numbers and leave the claimed room.
LEMMA Radix ==
    /\ RADIX \in Nat /\ RADIX >= 16 /\ WideRadix \in Nat /\ WideRadix = RADIX * RADIX
    /\ TOP_RADIX \in Nat /\ TOP_RADIX >= 1 /\ 16 * TOP_RADIX <= RADIX
    /\ FOLD_RADIX \in Nat /\ FOLD_RADIX >= 1 /\ 16 * FOLD_RADIX <= RADIX
    /\ FOLD_SUBTRAHEND \in Nat /\ 1 <= FOLD_SUBTRAHEND /\ FOLD_SUBTRAHEND < RADIX
    /\ STEP_RADIX \in Nat /\ STEP_RADIX >= 1
<1>1. /\ RADIX \in Nat \ {0} /\ TOP_RADIX \in Nat \ {0} /\ FOLD_RADIX \in Nat \ {0}
      /\ FOLD_SUBTRAHEND \in Nat \ {0} /\ STEP_RADIX \in Nat \ {0}
    BY RadixAssumption DEF RadixAssumption
<1>2. /\ 16 * TOP_RADIX <= RADIX /\ 16 * FOLD_RADIX <= RADIX
      /\ FOLD_SUBTRAHEND < RADIX
    BY LimbAssumption DEF LimbAssumption
<1>3. RADIX * RADIX \in Nat
    BY <1>1, SMT
<1> QED
    BY <1>1, <1>2, <1>3, SMT DEF WideRadix

\* Induction as far as the longest number goes.
LEMMA TenSteps ==
    ASSUME NEW S, 0 \in S, \A i \in Nat : i < 10 /\ i \in S => i + 1 \in S
    PROVE  \A i \in Nat : i <= 10 => i \in S
<1>1. 1 \in S /\ 2 \in S /\ 3 \in S
    OBVIOUS
<1>2. 4 \in S /\ 5 \in S /\ 6 \in S
    BY <1>1
<1>3. 7 \in S /\ 8 \in S /\ 9 \in S /\ 10 \in S
    BY <1>2
<1> QED
    BY <1>1, <1>2, <1>3

-----------------------------------------------------------------------------
(* Words as numbers. *)

Digit == 0 .. RADIX - 1

R2 == RADIX * RADIX
R3 == RADIX * R2
R4 == RADIX * R3
R5 == RADIX * R4
R6 == RADIX * R5
R7 == RADIX * R6
R8 == RADIX * R7
R9 == RADIX * R8
R10 == RADIX * R9

\* RADIX^i.
Power(i) ==
    IF i = 0 THEN 1 ELSE IF i = 1 THEN RADIX ELSE IF i = 2 THEN R2
    ELSE IF i = 3 THEN R3 ELSE IF i = 4 THEN R4 ELSE IF i = 5 THEN R5
    ELSE IF i = 6 THEN R6 ELSE IF i = 7 THEN R7 ELSE IF i = 8 THEN R8
    ELSE IF i = 9 THEN R9 ELSE R10

\* The number spelt by the first n words of w.
Term(w, n, k) == IF k < n THEN Power(k) * w[k] ELSE 0
Sum(w, n) ==
    Term(w, n, 0) + Term(w, n, 1) + Term(w, n, 2) + Term(w, n, 3) + Term(w, n, 4)
    + Term(w, n, 5) + Term(w, n, 6) + Term(w, n, 7) + Term(w, n, 8) + Term(w, n, 9)

\* A product of two positive numbers is positive.
LEMMA ProductIsPositive ==
    ASSUME NEW x \in Nat, x >= 1, NEW y \in Nat, y >= 1
    PROVE  x * y \in Nat /\ x * y >= 1
OBVIOUS

\* The indexes below eleven, one by one.
LEMMA Eleven ==
    \A i \in Nat : i <= 10 => \/ i = 0 \/ i = 1 \/ i = 2 \/ i = 3 \/ i = 4 \/ i = 5
                             \/ i = 6 \/ i = 7 \/ i = 8 \/ i = 9 \/ i = 10
OBVIOUS

\* Each power of RADIX is RADIX times the one before.
LEMMA Powers ==
    /\ \A i \in Nat : i <= 10 => Power(i) \in Nat /\ Power(i) >= 1
    /\ \A i \in Nat : i < 10 => Power(i + 1) = RADIX * Power(i)
    /\ Power(0) = 1 /\ Power(1) = RADIX
<1>1. RADIX \in Nat /\ RADIX >= 1
    BY Radix
<1>2. R2 \in Nat /\ R2 >= 1
    BY <1>1, ProductIsPositive DEF R2
<1>3. R3 \in Nat /\ R3 >= 1
    BY <1>1, <1>2, ProductIsPositive DEF R3
<1>4. R4 \in Nat /\ R4 >= 1
    BY <1>1, <1>3, ProductIsPositive DEF R4
<1>5. R5 \in Nat /\ R5 >= 1
    BY <1>1, <1>4, ProductIsPositive DEF R5
<1>6. R6 \in Nat /\ R6 >= 1
    BY <1>1, <1>5, ProductIsPositive DEF R6
<1>7. R7 \in Nat /\ R7 >= 1
    BY <1>1, <1>6, ProductIsPositive DEF R7
<1>8. R8 \in Nat /\ R8 >= 1
    BY <1>1, <1>7, ProductIsPositive DEF R8
<1>9. R9 \in Nat /\ R9 >= 1
    BY <1>1, <1>8, ProductIsPositive DEF R9
<1>10. R10 \in Nat /\ R10 >= 1
    BY <1>1, <1>9, ProductIsPositive DEF R10
<1>11. \A i \in Nat : i <= 10 => Power(i) \in Nat /\ Power(i) >= 1
  <2>1. /\ Power(0) = 1 /\ Power(1) = RADIX /\ Power(2) = R2 /\ Power(3) = R3
        /\ Power(4) = R4 /\ Power(5) = R5 /\ Power(6) = R6 /\ Power(7) = R7
        /\ Power(8) = R8 /\ Power(9) = R9 /\ Power(10) = R10
      BY DEF Power
  <2>2. 1 \in Nat /\ 1 >= 1
      OBVIOUS
  <2> QED
      BY <1>1, <1>2, <1>3, <1>4, <1>5, <1>6, <1>7, <1>8, <1>9, <1>10, <2>1, <2>2, Eleven, Zenon
<1>12. \A i \in Nat : i < 10 => Power(i + 1) = RADIX * Power(i)
  <2>1. /\ Power(0) = 1 /\ Power(1) = RADIX /\ Power(2) = RADIX * RADIX /\ Power(3) = RADIX * R2
        /\ Power(4) = RADIX * R3 /\ Power(5) = RADIX * R4 /\ Power(6) = RADIX * R5
        /\ Power(7) = RADIX * R6 /\ Power(8) = RADIX * R7 /\ Power(9) = RADIX * R8
        /\ Power(10) = RADIX * R9
      BY DEF Power, R2, R3, R4, R5, R6, R7, R8, R9, R10
  <2>2. /\ Power(2) = R2 /\ Power(3) = R3 /\ Power(4) = R4 /\ Power(5) = R5 /\ Power(6) = R6
        /\ Power(7) = R7 /\ Power(8) = R8 /\ Power(9) = R9
      BY DEF Power
  <2>3. RADIX * 1 = RADIX
      BY <1>1
  <2>4. ASSUME NEW i \in Nat, i < 10
        PROVE  \/ i = 0 \/ i = 1 \/ i = 2 \/ i = 3 \/ i = 4 \/ i = 5 \/ i = 6 \/ i = 7 \/ i = 8 \/ i = 9
      BY <2>4, Eleven
  <2>5. 0 + 1 = 1 /\ 1 + 1 = 2 /\ 2 + 1 = 3 /\ 3 + 1 = 4 /\ 4 + 1 = 5 /\ 5 + 1 = 6
        /\ 6 + 1 = 7 /\ 7 + 1 = 8 /\ 8 + 1 = 9 /\ 9 + 1 = 10
      OBVIOUS
  <2>6. ASSUME NEW i \in Nat, i < 10
        PROVE  Power(i + 1) = RADIX * Power(i)
      BY <2>1, <2>2, <2>3, <2>4, <2>5, <2>6, Zenon
  <2> QED
      BY <2>6
<1>13. Power(0) = 1 /\ Power(1) = RADIX
    BY DEF Power
<1> QED
    BY <1>11, <1>12, <1>13

\* One more word counts with the next power of RADIX.
LEMMA SumStep ==
    ASSUME NEW n \in Nat, n < 10, NEW w, \A k \in 0 .. n : w[k] \in Int
    PROVE  /\ Sum(w, n) \in Int
           /\ Power(n) * w[n] \in Int
           /\ Sum(w, n + 1) = Sum(w, n) + Power(n) * w[n]
<1>1. \A k \in 0 .. n : Power(k) * w[k] \in Int
    BY Powers
<1>2. \A k \in 0 .. 9 : Term(w, n, k) \in Int
    BY <1>1 DEF Term
<1>3. \A k \in 0 .. 9 : k # n => Term(w, n + 1, k) = Term(w, n, k)
    BY DEF Term
<1>4. Term(w, n, n) = 0 /\ Term(w, n + 1, n) = Power(n) * w[n]
    BY DEF Term
<1> QED
    BY <1>1, <1>2, <1>3, <1>4 DEF Sum

\* No words spell zero.
LEMMA SumZero == ASSUME NEW w PROVE Sum(w, 0) = 0
BY DEF Sum, Term

-----------------------------------------------------------------------------
(* Carry chains. *)

\* The recursion of Accumulators, as an equation.
Chain(column, n, f) ==
    f = [i \in 0 .. n - 1 |-> (column[i] + (IF i = 0 THEN 0 ELSE f[i - 1] \div RADIX)) % WideRadix]

\* One more column.
LEMMA LongerChain ==
    ASSUME NEW column, NEW n \in Nat, \E f : Chain(column, n, f)
    PROVE  \E f : Chain(column, n + 1, f)
<1>1. PICK f : Chain(column, n, f)
    OBVIOUS
<1> DEFINE last == (column[n] + (IF n = 0 THEN 0 ELSE f[n - 1] \div RADIX)) % WideRadix
           g == [i \in 0 .. n |-> IF i = n THEN last ELSE f[i]]
<1>2. g = [i \in 0 .. n |-> (column[i] + (IF i = 0 THEN 0 ELSE g[i - 1] \div RADIX)) % WideRadix]
  <2>1. ASSUME NEW i \in 0 .. n
        PROVE  g[i] = (column[i] + (IF i = 0 THEN 0 ELSE g[i - 1] \div RADIX)) % WideRadix
    <3>1. i # 0 => g[i - 1] = f[i - 1]
        OBVIOUS
    <3>2. CASE i = n
        BY <3>1, <3>2
    <3>3. CASE i # n
      <4>1. i \in 0 .. n - 1 /\ g[i] = f[i]
          BY <3>3
      <4>2. f[i] = (column[i] + (IF i = 0 THEN 0 ELSE f[i - 1] \div RADIX)) % WideRadix
          BY <1>1, <4>1 DEF Chain
      <4> QED
          BY <3>1, <4>1, <4>2
    <3> QED
        BY <3>2, <3>3
  <2> QED
      BY <2>1
<1> HIDE DEF g
<1>3. (n + 1) - 1 = n
    OBVIOUS
<1> QED
    BY <1>2, <1>3 DEF Chain

\* Accumulators satisfies its own recursion once a function does.
LEMMA AccumulatorsChain ==
    ASSUME NEW column, NEW n, \E f : Chain(column, n, f)
    PROVE  Chain(column, n, Accumulators(column, n))
<1> DEFINE acc == CHOOSE f : Chain(column, n, f)
<1>1. Chain(column, n, acc)
    OBVIOUS
<1>2. Accumulators(column, n) = [i \in 0 .. n - 1 |-> acc[i]]
    BY DEF Accumulators, Chain
<1> HIDE DEF acc
<1>3. Accumulators(column, n) = acc
    BY <1>1, <1>2 DEF Chain
<1> QED
    BY <1>1, <1>3

\* A chain of any length exists.
LEMMA Chains ==
    ASSUME NEW n \in Nat, n <= 10, NEW column PROVE \E f : Chain(column, n, f)
<1> DEFINE S == {m \in Nat : \E f : Chain(column, m, f)}
<1>1. 0 \in S
  <2>1. \E f : Chain(column, 0, f)
      BY DEF Chain
  <2> QED
      BY <2>1
<1>2. ASSUME NEW m \in Nat, m < 10, m \in S
      PROVE  m + 1 \in S
    BY <1>2, LongerChain
<1> HIDE DEF S
<1>3. n \in S
    BY <1>1, <1>2, TenSteps
<1> QED
    BY <1>3 DEF S

\* What a column may be, so that it and a carry fit a u128.
Column == 0 .. WideRadix - RADIX

\* A number is its low word and the rest.
LEMMA Division ==
    ASSUME NEW n \in Nat, NEW w \in Nat \ {0}
    PROVE  n \div w \in Nat /\ n % w \in 0 .. w - 1 /\ (n % w) + w * (n \div w) = n
<1> DEFINE q == n \div w
           r == n % w
<1>1. q \in Nat /\ r \in 0 .. w - 1
    BY SMT
<1>2. q = n \div w /\ r = n % w
    OBVIOUS
<1> HIDE DEF q, r
<1>3. n = w * q + r
    BY <1>1, <1>2, SMT
<1> QED
    BY <1>1, <1>3, SMT DEF q, r

\* One accumulator: nothing is lost, and the carry is a word.
LEMMA OneColumn ==
    ASSUME NEW c \in Column, NEW carry \in Digit, NEW a, a = (c + carry) % WideRadix
    PROVE  /\ a % RADIX \in Digit /\ a \div RADIX \in Digit
           /\ c + carry = (a % RADIX) + RADIX * (a \div RADIX)
<1> DEFINE R == RADIX
           W == WideRadix
           q == a \div R
           r == a % R
<1>1. R \in Nat /\ R >= 16 /\ W = R * R /\ W \in Nat
    BY Radix
<1>2. c \in 0 .. W - R /\ carry \in 0 .. R - 1 /\ a = (c + carry) % W
    BY DEF Column, Digit
<1> HIDE DEF R, W
<1>3. a = c + carry /\ a \in Nat /\ a < R * R
  <2>1. c + carry \in 0 .. W - 1
      BY <1>1, <1>2, SMT
  <2> QED
      BY <1>1, <1>2, <2>1, SMT
<1>4. R \in Nat \ {0}
    BY <1>1
<1>5. q \in Nat /\ r \in 0 .. R - 1 /\ r + R * q = a
    BY <1>3, <1>4, Division
<1> HIDE DEF q, r
<1>6. q < R
    BY <1>1, <1>3, <1>5, SMT
<1>7. r \in 0 .. R - 1 /\ q \in 0 .. R - 1 /\ c + carry = r + R * q
    BY <1>1, <1>3, <1>5, <1>6
<1> QED
    BY <1>7, Zenon DEF q, r, R, Digit

\* carry[k] enters column k and carry[k + 1] leaves it; low is what stays.
Carries(column, low, n, carry) ==
    /\ carry \in [0 .. n -> Digit] /\ carry[0] = 0
    /\ low \in [0 .. n - 1 -> Digit]
    /\ \A k \in 0 .. n - 1 : column[k] + carry[k] = low[k] + RADIX * carry[k + 1]

\* Low and the shifted accumulators are the words and carries of a column sum:
\* no u128 wraps while every column is below WideRadix - RADIX.
LEMMA CarryChain ==
    ASSUME NEW n \in Nat, 1 <= n, n <= 10, NEW column, \A k \in 0 .. n - 1 : column[k] \in Column
    PROVE  \E carry : /\ Carries(column, Low(Accumulators(column, n)), n, carry)
                      /\ carry[n] = Accumulators(column, n)[n - 1] \div RADIX
<1> DEFINE acc == Accumulators(column, n)
           low == Low(acc)
           carry == [k \in 0 .. n |-> IF k = 0 THEN 0 ELSE acc[k - 1] \div RADIX]
           S == {k \in Nat : k <= n => carry[k] \in Digit}
<1>1. Chain(column, n, acc)
    BY Chains, AccumulatorsChain
<1>2. acc = [i \in 0 .. n - 1 |-> (column[i] + (IF i = 0 THEN 0 ELSE acc[i - 1] \div RADIX)) % WideRadix]
    BY <1>1 DEF Chain
<1> HIDE DEF acc
<1>3. low = [i \in 0 .. n - 1 |-> acc[i] % RADIX]
    BY <1>2 DEF Low
<1>4. \A k \in 0 .. n - 1 : /\ acc[k] = (column[k] + carry[k]) % WideRadix
                            /\ carry[k + 1] = acc[k] \div RADIX
                            /\ low[k] = acc[k] % RADIX
  <2>1. ASSUME NEW k \in 0 .. n - 1
        PROVE  carry[k] = (IF k = 0 THEN 0 ELSE acc[k - 1] \div RADIX)
      OBVIOUS
  <2>2. ASSUME NEW k \in 0 .. n - 1
        PROVE  carry[k + 1] = acc[k] \div RADIX
      OBVIOUS
  <2> HIDE DEF carry
  <2> QED
      BY <1>2, <1>3, <2>1, <2>2
<1>5. carry[0] = 0 /\ 0 \in Digit
    BY Radix DEF Digit
<1>6. carry = [k \in 0 .. n |-> carry[k]]
    OBVIOUS
<1>7. carry[n] = acc[n - 1] \div RADIX
  <2>1. n - 1 \in 0 .. n - 1 /\ (n - 1) + 1 = n
      OBVIOUS
  <2> QED
      BY <1>4, <2>1
<1> HIDE DEF low, carry
<1>8. ASSUME NEW k \in 0 .. n - 1, carry[k] \in Digit
      PROVE  /\ low[k] \in Digit /\ carry[k + 1] \in Digit
             /\ column[k] + carry[k] = low[k] + RADIX * carry[k + 1]
  <2>1. /\ acc[k] % RADIX \in Digit /\ acc[k] \div RADIX \in Digit
        /\ column[k] + carry[k] = (acc[k] % RADIX) + RADIX * (acc[k] \div RADIX)
      BY <1>4, <1>8, OneColumn
  <2> QED
      BY <1>4, <2>1
<1>9. \A k \in 0 .. n : carry[k] \in Digit
  <2>1. 0 \in S
      BY <1>5
  <2>2. ASSUME NEW k \in Nat, k < 10, k \in S PROVE k + 1 \in S
    <3>1. CASE k + 1 <= n
      <4>1. k \in 0 .. n - 1 /\ carry[k] \in Digit
          BY <2>2, <3>1
      <4> QED
          BY <1>8, <4>1
    <3>2. CASE ~ (k + 1 <= n)
        BY <3>2
    <3> QED
        BY <3>1, <3>2
  <2> HIDE DEF S
  <2>3. \A k \in Nat : k <= 10 => k \in S
      BY <2>1, <2>2, TenSteps
  <2> QED
      BY <2>3 DEF S
<1>10. Carries(column, low, n, carry)
  <2>1. carry \in [0 .. n -> Digit]
      BY <1>6, <1>9
  <2>2. low \in [0 .. n - 1 -> Digit]
    <3>1. \A k \in 0 .. n - 1 : low[k] \in Digit
        BY <1>8, <1>9
    <3> QED
        BY <3>1, <1>3
  <2> QED
      BY <1>5, <1>8, <1>9, <2>1, <2>2 DEF Carries
<1> QED
    BY <1>7, <1>10 DEF low, acc

-----------------------------------------------------------------------------
(* Sums of columns and of words. *)

\* A column, moved up to its place.
LEMMA Place ==
    ASSUME NEW power \in Nat, NEW c \in Int, NEW k \in Int, NEW d \in Int, NEW next \in Int,
           c + k = d + RADIX * next
    PROVE  power * c + power * k = power * d + (RADIX * power) * next
<1>1. RADIX \in Int
    BY Radix
<1>2. power * (c + k) = power * (d + RADIX * next)
    OBVIOUS
<1>3. power * (c + k) = power * c + power * k
    OBVIOUS
<1>4. power * (d + RADIX * next) = power * d + (RADIX * power) * next
    BY <1>1, SMT
<1> QED
    BY <1>2, <1>3, <1>4

\* One word split from a number, at its place.
LEMMA PlaceOfOne ==
    ASSUME NEW power \in Nat, NEW n \in Int, NEW d \in Int, NEW next \in Int,
           n = d + RADIX * next
    PROVE  power * n = power * d + (RADIX * power) * next
<1>1. RADIX \in Int
    BY Radix
<1>2. power * (d + RADIX * next) = power * d + (RADIX * power) * next
    BY <1>1, SMT
<1> QED
    BY <1>2

\* The words and the last carry of a chain spell the sum of its columns.
LEMMA ExactSum ==
    ASSUME NEW n \in Nat, 1 <= n, n <= 10, NEW column, NEW low, NEW carry,
           \A k \in 0 .. n - 1 : column[k] \in Int, Carries(column, low, n, carry)
    PROVE  Sum(column, n) = Sum(low, n) + Power(n) * carry[n]
<1> DEFINE S == {k \in Nat : k <= n => /\ Sum(column, k) \in Int /\ Sum(low, k) \in Int
                                           /\ Sum(column, k) = Sum(low, k) + Power(k) * carry[k]}
<1>1. 0 \in S
  <2>1. Sum(column, 0) = 0 /\ Sum(low, 0) = 0 /\ Power(0) = 1 /\ carry[0] = 0
      BY SumZero, Powers DEF Carries
  <2> QED
      BY <2>1
<1>2. ASSUME NEW k \in Nat, k < 10, k \in S PROVE k + 1 \in S
  <2> SUFFICES ASSUME k + 1 <= n
               PROVE  /\ Sum(column, k + 1) \in Int /\ Sum(low, k + 1) \in Int
                      /\ Sum(column, k + 1) = Sum(low, k + 1) + Power(k + 1) * carry[k + 1]
      OBVIOUS
  <2>1. /\ Sum(column, k) \in Int /\ Sum(low, k) \in Int
        /\ Sum(column, k) = Sum(low, k) + Power(k) * carry[k]
      BY <1>2
  <2>2. Digit \subseteq Int /\ k \in 0 .. n - 1 /\ \A j \in 0 .. k : j \in 0 .. n - 1
      BY Radix DEF Digit
  <2>3. \A j \in 0 .. k : column[j] \in Int /\ low[j] \in Int
    <3>1. \A j \in 0 .. n - 1 : low[j] \in Digit
        BY DEF Carries
    <3> QED
        BY <2>2, <3>1
  <2>4. /\ Power(k) * column[k] \in Int /\ Power(k) * low[k] \in Int
        /\ Sum(column, k + 1) = Sum(column, k) + Power(k) * column[k]
        /\ Sum(low, k + 1) = Sum(low, k) + Power(k) * low[k]
    <3>1. k < 10 /\ \A j \in 0 .. k : column[j] \in Int
        BY <2>3
    <3>2. \A j \in 0 .. k : low[j] \in Int
        BY <2>3
    <3>3. Power(k) * column[k] \in Int /\ Sum(column, k + 1) = Sum(column, k) + Power(k) * column[k]
        BY <3>1, SumStep
    <3>4. Power(k) * low[k] \in Int /\ Sum(low, k + 1) = Sum(low, k) + Power(k) * low[k]
        BY <3>2, SumStep
    <3> QED
        BY <3>3, <3>4
  <2>5. /\ column[k] \in Int /\ low[k] \in Int /\ carry[k] \in Int /\ carry[k + 1] \in Int
        /\ column[k] + carry[k] = low[k] + RADIX * carry[k + 1]
    <3>1. k \in 0 .. n /\ k + 1 \in 0 .. n /\ k \in 0 .. k
        BY <2>2
    <3> QED
        BY <2>2, <2>3, <3>1 DEF Carries
  <2>6. Power(k) \in Nat /\ Power(k + 1) = RADIX * Power(k) /\ Power(k + 1) \in Nat
      BY Powers
  <2>7. Power(k) * column[k] + Power(k) * carry[k] = Power(k) * low[k] + Power(k + 1) * carry[k + 1]
      BY <2>5, <2>6, Place
  <2>8. Power(k) * carry[k] \in Int /\ Power(k + 1) * carry[k + 1] \in Int
      BY <2>5, <2>6
  <2> QED
      BY <2>1, <2>4, <2>7, <2>8
<1> HIDE DEF S
<1>3. n \in S
    BY <1>1, <1>2, TenSteps
<1> QED
    BY <1>3 DEF S

\* Words that are digits spell a number below the next power of RADIX.
LEMMA SumBound ==
    ASSUME NEW n \in Nat, n <= 10, NEW w, \A k \in 0 .. n - 1 : w[k] \in Digit
    PROVE  Sum(w, n) \in 0 .. Power(n) - 1
<1> DEFINE S == {k \in Nat : k <= n => Sum(w, k) \in 0 .. Power(k) - 1}
<1>1. 0 \in S
    BY SumZero, Powers
<1>2. ASSUME NEW k \in Nat, k < 10, k \in S PROVE k + 1 \in S
  <2> SUFFICES ASSUME k + 1 <= n PROVE Sum(w, k + 1) \in 0 .. Power(k + 1) - 1
      OBVIOUS
  <2>1. Sum(w, k) \in 0 .. Power(k) - 1
      BY <1>2
  <2>2. w[k] \in 0 .. RADIX - 1 /\ RADIX \in Nat
      BY Radix DEF Digit
  <2>3. \A j \in 0 .. k : w[j] \in Int
      BY Radix DEF Digit
  <2>4. Power(k) * w[k] \in Int /\ Sum(w, k + 1) = Sum(w, k) + Power(k) * w[k]
      BY <2>3, SumStep
  <2>5. Power(k) \in Nat /\ Power(k + 1) = RADIX * Power(k)
      BY Powers
  <2> DEFINE p == Power(k)
             d == w[k]
             s == Sum(w, k)
  <2>6. p \in Nat /\ d \in 0 .. RADIX - 1 /\ s \in 0 .. p - 1
      BY <2>1, <2>2, <2>5
  <2>7. Sum(w, k + 1) = s + p * d /\ Power(k + 1) = RADIX * p
      BY <2>4, <2>5
  <2> HIDE DEF p, d, s
  <2>8. p * d <= p * (RADIX - 1) /\ p * d >= 0
      BY <2>2, <2>6, SMT
  <2>9. p * (RADIX - 1) = RADIX * p - p
      BY <2>2, <2>6, SMT
  <2>10. p * d \in Int /\ RADIX * p \in Int /\ p * (RADIX - 1) \in Int
      BY <2>2, <2>6, SMT
  <2> QED
      BY <2>6, <2>7, <2>8, <2>9, <2>10
<1> HIDE DEF S
<1>3. n \in S
    BY <1>1, <1>2, TenSteps
<1> QED
    BY <1>3 DEF S

\* Equal words spell equal numbers.
LEMMA SameSum ==
    ASSUME NEW n \in Nat, n <= 10, NEW v, NEW w, \A k \in 0 .. n - 1 : v[k] = w[k]
    PROVE  Sum(v, n) = Sum(w, n)
<1>1. \A k \in 0 .. 9 : Term(v, n, k) = Term(w, n, k)
    BY DEF Term
<1> QED
    BY <1>1 DEF Sum

\* w is u plus c times v, place by place.
Linear(u, v, w, c, n) ==
    \A k \in 0 .. n - 1 : u[k] \in Int /\ v[k] \in Int /\ w[k] = u[k] + c * v[k]

\* The number spelt is linear in the words.
LEMMA SumLinear ==
    ASSUME NEW n \in Nat, n <= 10, NEW c \in Int, NEW u, NEW v, NEW w, Linear(u, v, w, c, n)
    PROVE  Sum(u, n) \in Int /\ Sum(v, n) \in Int /\ Sum(w, n) = Sum(u, n) + c * Sum(v, n)
<1> DEFINE S == {k \in Nat : k <= n => /\ Sum(u, k) \in Int /\ Sum(v, k) \in Int
                                           /\ Sum(w, k) = Sum(u, k) + c * Sum(v, k)}
<1> USE DEF Linear
<1>1. 0 \in S
  <2>1. Sum(u, 0) = 0 /\ Sum(v, 0) = 0 /\ Sum(w, 0) = 0
      BY SumZero
  <2> QED
      BY <2>1
<1>2. ASSUME NEW k \in Nat, k < 10, k \in S PROVE k + 1 \in S
  <2> SUFFICES ASSUME k + 1 <= n
               PROVE  /\ Sum(u, k + 1) \in Int /\ Sum(v, k + 1) \in Int
                      /\ Sum(w, k + 1) = Sum(u, k + 1) + c * Sum(v, k + 1)
      OBVIOUS
  <2> DEFINE p == Power(k)
             x == u[k]
             y == v[k]
             su == Sum(u, k)
             sv == Sum(v, k)
  <2>1. su \in Int /\ sv \in Int /\ Sum(w, k) = su + c * sv
      BY <1>2
  <2>2. \A j \in 0 .. k : j \in 0 .. n - 1
      OBVIOUS
  <2>3. \A j \in 0 .. k : u[j] \in Int
      BY <2>2
  <2>4. \A j \in 0 .. k : v[j] \in Int
      BY <2>2
  <2>5. \A j \in 0 .. k : w[j] \in Int
      BY <2>2
  <2>6. Sum(u, k + 1) = su + p * x
      BY <2>3, SumStep
  <2>7. Sum(v, k + 1) = sv + p * y
      BY <2>4, SumStep
  <2>8. Sum(w, k + 1) = Sum(w, k) + p * (x + c * y)
    <3>1. k \in 0 .. n - 1
        BY <2>2
    <3> QED
        BY <2>5, <3>1, SumStep
  <2>9. p \in Int /\ x \in Int /\ y \in Int
      BY <2>3, <2>4, Powers
  <2> HIDE DEF p, x, y, su, sv
  <2>10. p * x \in Int /\ p * y \in Int
      BY <2>9
  <2>11. p * (x + c * y) = p * x + c * (p * y)
      BY <2>9, SMT
  <2>12. c * (sv + p * y) = c * sv + c * (p * y)
      BY <2>1, <2>10, SMT
  <2>13. c * sv \in Int /\ c * (p * y) \in Int
      BY <2>1, <2>10
  <2> QED
      BY <2>1, <2>6, <2>7, <2>8, <2>10, <2>11, <2>12, <2>13
<1> HIDE DEF S
<1>3. n \in S
    BY <1>1, <1>2, TenSteps
<1> QED
    BY <1>3 DEF S

\* The sum of two sequences of columns.
LEMMA SumPlus ==
    ASSUME NEW n \in Nat, n <= 10, NEW u, NEW v, NEW w,
           \A k \in 0 .. n - 1 : u[k] \in Int /\ v[k] \in Int /\ w[k] = u[k] + v[k]
    PROVE  Sum(u, n) \in Int /\ Sum(v, n) \in Int /\ Sum(w, n) = Sum(u, n) + Sum(v, n)
<1>1. PICK one \in Int : one = 1
    OBVIOUS
<1>2. Linear(u, v, w, one, n)
    BY <1>1 DEF Linear
<1>3. Sum(u, n) \in Int /\ Sum(v, n) \in Int /\ Sum(w, n) = Sum(u, n) + one * Sum(v, n)
    BY <1>2, SumLinear
<1> QED
    BY <1>1, <1>3

\* One word higher is RADIX times as much.
LEMMA SumShifted ==
    ASSUME NEW n \in Nat, n < 10, NEW u, NEW v, v[0] = 0,
           \A k \in 0 .. n - 1 : u[k] \in Int /\ v[k + 1] = u[k]
    PROVE  Sum(u, n) \in Int /\ Sum(v, n + 1) = RADIX * Sum(u, n)
<1> DEFINE S == {k \in Nat : k <= n => Sum(u, k) \in Int /\ Sum(v, k + 1) = RADIX * Sum(u, k)}
<1>1. \A k \in 0 .. n : v[k] \in Int
  <2> SUFFICES ASSUME NEW k \in 0 .. n, k # 0 PROVE v[k] \in Int
      OBVIOUS
  <2>1. k - 1 \in 0 .. n - 1 /\ (k - 1) + 1 = k
      OBVIOUS
  <2> QED
      BY <2>1
<1>2. RADIX \in Int
    BY Radix
<1>3. 0 \in S
  <2>1. Sum(v, 0 + 1) = Sum(v, 0) + Power(0) * v[0]
      BY <1>1, SumStep
  <2>2. Sum(u, 0) = 0 /\ Sum(v, 0) = 0 /\ Power(0) = 1
      BY SumZero, Powers
  <2> QED
      BY <1>2, <2>1, <2>2
<1>4. ASSUME NEW k \in Nat, k < 10, k \in S PROVE k + 1 \in S
  <2> SUFFICES ASSUME k + 1 <= n
               PROVE  Sum(u, k + 1) \in Int /\ Sum(v, (k + 1) + 1) = RADIX * Sum(u, k + 1)
      OBVIOUS
  <2> DEFINE p == Power(k)
             x == u[k]
             su == Sum(u, k)
  <2>1. su \in Int /\ Sum(v, k + 1) = RADIX * su
      BY <1>4
  <2>2. /\ \A j \in 0 .. k : j \in 0 .. n - 1
        /\ \A j \in 0 .. k + 1 : j \in 0 .. n
        /\ k < 10 /\ k + 1 < 10
      OBVIOUS
  <2>3. \A j \in 0 .. k : u[j] \in Int
      BY <2>2
  <2>4. \A j \in 0 .. k + 1 : v[j] \in Int
      BY <1>1, <2>2
  <2>5. Sum(u, k + 1) = su + p * x
      BY <2>2, <2>3, SumStep
  <2>6. Sum(v, (k + 1) + 1) = Sum(v, k + 1) + Power(k + 1) * v[k + 1]
      BY <2>2, <2>4, SumStep
  <2>7. v[k + 1] = x /\ x \in Int /\ p \in Int /\ Power(k + 1) = RADIX * p
      BY <2>2, Powers
  <2> HIDE DEF p, x, su
  <2>8. RADIX * (su + p * x) = RADIX * su + (RADIX * p) * x
      BY <1>2, <2>1, <2>7, SMT
  <2>9. su + p * x \in Int
      BY <2>1, <2>7
  <2> QED
      BY <2>1, <2>5, <2>6, <2>7, <2>8, <2>9
<1> HIDE DEF S
<1>5. n \in S
    BY <1>3, <1>4, TenSteps
<1> QED
    BY <1>5 DEF S

\* A positive multiple is not smaller.
LEMMA AtLeastOnce ==
    ASSUME NEW x \in Nat, NEW y \in Nat, y # 0
    PROVE  x * y >= x
<1>1. x * y - x = x * (y - 1)
    BY SMT
<1>2. x * (y - 1) >= 0 /\ x * y \in Int
    BY SMT
<1> QED
    BY <1>1, <1>2

\* A chain whose sum has room loses nothing.
LEMMA ExactChain ==
    ASSUME NEW n \in Nat, 1 <= n, n <= 10, NEW column, \A k \in 0 .. n - 1 : column[k] \in Column,
           Sum(column, n) < Power(n)
    PROVE  /\ Low(Accumulators(column, n)) \in [0 .. n - 1 -> Digit]
           /\ Sum(Low(Accumulators(column, n)), n) = Sum(column, n)
<1> DEFINE low == Low(Accumulators(column, n))
<1>1. PICK carry : Carries(column, low, n, carry)
    BY CarryChain
<1> HIDE DEF low
<1>2. \A k \in 0 .. n - 1 : column[k] \in Int
    BY Radix DEF Column
<1>3. Sum(column, n) = Sum(low, n) + Power(n) * carry[n]
    BY <1>1, <1>2, ExactSum
<1>4. low \in [0 .. n - 1 -> Digit] /\ carry[n] \in Digit
    BY <1>1 DEF Carries
<1>5. Sum(low, n) \in 0 .. Power(n) - 1
  <2>1. \A k \in 0 .. n - 1 : low[k] \in Digit
      BY <1>4
  <2> QED
      BY <2>1, SumBound
<1>6. Power(n) \in Nat /\ carry[n] \in Nat
  <2>1. Digit \subseteq Nat
      BY Radix DEF Digit
  <2> QED
      BY <1>4, <2>1, Powers
<1>7. carry[n] = 0
  <2> SUFFICES ASSUME carry[n] # 0 PROVE FALSE
      OBVIOUS
  <2>1. Power(n) * carry[n] >= Power(n) /\ Power(n) * carry[n] \in Int
      BY <1>6, AtLeastOnce
  <2> QED
      BY <1>3, <1>5, <1>6, <2>1
<1>8. Sum(column, n) = Sum(low, n)
  <2>1. Power(n) * 0 = 0
      BY <1>6
  <2> QED
      BY <1>3, <1>5, <1>7, <2>1
<1> QED
    BY <1>4, <1>8 DEF low

-----------------------------------------------------------------------------
(* Addition and subtraction of five words. *)

\* Five words of a register.
Limbs == [0 .. LIMBS - 1 -> Digit]

\* There are five limbs.
LEMMA Five == LIMBS = 5
BY DEF LIMBS

\* Five limbs and the ten of a product are within Power.
LEMMA Width == LIMBS \in Nat /\ 1 <= LIMBS /\ LIMBS < 10 /\ LIMBS <= 10
BY DEF LIMBS

\* A limb is a natural number below RADIX.
LEMMA LimbIsInt ==
    ASSUME NEW w \in Limbs, NEW k \in 0 .. LIMBS - 1
    PROVE  w[k] \in Digit /\ w[k] \in Nat /\ w[k] < RADIX
BY Radix DEF Limbs, Digit

\* Value is the number the five words spell, with the top word apart.
LEMMA ValueIsSum ==
    ASSUME NEW w \in Limbs
    PROVE  /\ Value(w) = Sum(w, LIMBS) /\ Value(w) \in Nat /\ Value(w) < Power(LIMBS)
           /\ Value(w) = Sum(w, LIMBS - 1) + Power(LIMBS - 1) * w[LIMBS - 1]
           /\ Sum(w, LIMBS - 1) \in Nat /\ Sum(w, LIMBS - 1) < Power(LIMBS - 1)
<1>1. \A k \in 0 .. LIMBS - 1 : w[k] \in Digit
    BY LimbIsInt
<1>2. \A k \in 0 .. LIMBS - 1 : w[k] \in Int
    BY LimbIsInt
<1>3. Sum(w, LIMBS) \in 0 .. Power(LIMBS) - 1 /\ Power(LIMBS) \in Nat
    BY <1>1, Width, SumBound, Powers
<1> DEFINE four == LIMBS - 1
<1>4. four \in Nat /\ four < 10 /\ four + 1 = LIMBS
    BY Width
<1>5. \A k \in 0 .. four - 1 : w[k] \in Digit
    BY <1>1, <1>4
<1>6. \A k \in 0 .. four : w[k] \in Int
    BY <1>2
<1> HIDE DEF four
<1>7. Sum(w, four) \in 0 .. Power(four) - 1 /\ Power(four) \in Nat
    BY <1>4, <1>5, SumBound, Powers
<1>8. Sum(w, LIMBS) = Sum(w, four) + Power(four) * w[four]
    BY <1>4, <1>6, SumStep
<1> DEFINE r == RADIX
           a == w[0]
           b == w[1]
           c == w[2]
           d == w[3]
           e == w[4]
<1>9. Value(w) = a + r * (b + r * (c + r * (d + r * e)))
    BY DEF Value
<1>10. Sum(w, 5) = a + r * b + (r * r) * c + (r * (r * r)) * d + (r * (r * (r * r))) * e
  <2>1. /\ Term(w, 5, 0) = 1 * a /\ Term(w, 5, 1) = r * b /\ Term(w, 5, 2) = (r * r) * c
        /\ Term(w, 5, 3) = (r * (r * r)) * d /\ Term(w, 5, 4) = (r * (r * (r * r))) * e
        /\ Term(w, 5, 5) = 0 /\ Term(w, 5, 6) = 0 /\ Term(w, 5, 7) = 0
        /\ Term(w, 5, 8) = 0 /\ Term(w, 5, 9) = 0
      BY DEF Term, Power, R2, R3, R4
  <2>2. r \in Int /\ a \in Int /\ b \in Int /\ c \in Int /\ d \in Int /\ e \in Int
      BY <1>2, Five, Radix
  <2> HIDE DEF r, a, b, c, d, e
  <2> QED
      BY <2>1, <2>2 DEF Sum
<1>11. r \in Int /\ a \in Int /\ b \in Int /\ c \in Int /\ d \in Int /\ e \in Int
    BY <1>2, Five, Radix
<1>12. Value(w) = Sum(w, LIMBS)
  <2> HIDE DEF r, a, b, c, d, e
  <2>1. d + r * e \in Int /\ r * (d + r * e) = r * d + (r * r) * e
      BY <1>11, SMT
  <2>2. r * (c + r * (d + r * e)) = r * c + (r * r) * d + (r * (r * r)) * e
      BY <1>11, SMT
  <2>3. r * (b + r * (c + r * (d + r * e)))
            = r * b + (r * r) * c + (r * (r * r)) * d + (r * (r * (r * r))) * e
      BY <1>11, SMT
  <2>4. r * b + (r * r) * c + (r * (r * r)) * d + (r * (r * (r * r))) * e \in Int
      BY <1>11, SMT
  <2> QED
      BY <1>9, <1>10, <1>11, <2>3, <2>4, Five
<1> QED
    BY <1>3, <1>7, <1>8, <1>12, Width DEF four

\* add_limbs drops its carry, which stands for RADIX^LIMBS.
LEMMA WrappingAddition ==
    ASSUME NEW left \in Limbs, NEW right \in Limbs
    PROVE  /\ add_limbs(left, right) \in Limbs
           /\ \E top \in Nat : Value(left) + Value(right)
                                 = Value(add_limbs(left, right)) + Power(LIMBS) * top
<1> DEFINE column == [i \in 0 .. LIMBS - 1 |-> left[i] + right[i]]
           low == Low(Accumulators(column, LIMBS))
<1>1. add_limbs(left, right) = low
    BY DEF add_limbs
<1>2. \A k \in 0 .. LIMBS - 1 : left[k] \in Int /\ right[k] \in Int /\ column[k] = left[k] + right[k]
    BY LimbIsInt
<1>3. \A k \in 0 .. LIMBS - 1 : column[k] \in Column /\ column[k] \in Int
  <2> SUFFICES ASSUME NEW k \in 0 .. LIMBS - 1 PROVE left[k] + right[k] \in Column /\ left[k] + right[k] \in Int
      OBVIOUS
  <2>1. left[k] \in Nat /\ left[k] < RADIX /\ right[k] \in Nat /\ right[k] < RADIX
      BY LimbIsInt
  <2>2. 3 * RADIX <= RADIX * RADIX /\ RADIX * RADIX \in Int
      BY Radix, SMT
  <2> QED
      BY <2>1, <2>2, Radix, SMT DEF Column
<1> HIDE DEF column
<1>4. Sum(column, LIMBS) = Sum(left, LIMBS) + Sum(right, LIMBS)
    BY <1>2, Width, SumPlus
<1>5. Sum(left, LIMBS) = Value(left) /\ Sum(right, LIMBS) = Value(right)
    BY ValueIsSum
<1>6. PICK carry : Carries(column, low, LIMBS, carry)
    BY <1>3, Width, CarryChain
<1> HIDE DEF low
<1>7. low \in Limbs /\ carry[LIMBS] \in Nat
  <2>1. LIMBS \in 0 .. LIMBS /\ Digit \subseteq Nat
      BY Width, Radix DEF Digit
  <2> QED
      BY <1>6, <2>1 DEF Limbs, Carries
<1>8. Sum(column, LIMBS) = Sum(low, LIMBS) + Power(LIMBS) * carry[LIMBS]
    BY <1>3, <1>6, Width, ExactSum
<1>9. Value(low) = Sum(low, LIMBS)
    BY <1>7, ValueIsSum
<1> QED
    BY <1>1, <1>4, <1>5, <1>7, <1>8, <1>9

\* It loses nothing when the sum has room.
LEMMA Addition ==
    ASSUME NEW left \in Limbs, NEW right \in Limbs, Value(left) + Value(right) < Power(LIMBS)
    PROVE  /\ add_limbs(left, right) \in Limbs
           /\ Value(add_limbs(left, right)) = Value(left) + Value(right)
<1> DEFINE sum == add_limbs(left, right)
<1>1. sum \in Limbs
    BY WrappingAddition
<1>2. PICK top \in Nat : Value(left) + Value(right) = Value(sum) + Power(LIMBS) * top
    BY WrappingAddition
<1> HIDE DEF sum
<1>3. Value(sum) \in Nat
    BY <1>1, ValueIsSum
<1>4. Power(LIMBS) \in Nat
    BY Width, Powers
<1>5. top = 0
  <2> SUFFICES ASSUME top # 0 PROVE FALSE
      OBVIOUS
  <2>1. Power(LIMBS) * top >= Power(LIMBS) /\ Power(LIMBS) * top \in Int
      BY <1>4, AtLeastOnce
  <2> QED
      BY <1>2, <1>3, <1>4, <2>1
<1>6. Power(LIMBS) * 0 = 0
    BY <1>4
<1> QED
    BY <1>1, <1>2, <1>3, <1>5, <1>6 DEF sum

\* The borrows of a subtraction, written out.
Borrows(left, right, n, f) ==
    f = [i \in 0 .. n |->
            IF i = 0 THEN 0 ELSE IF left[i - 1] < right[i - 1] + f[i - 1] THEN 1 ELSE 0]

\* One more borrow.
LEMMA LongerBorrow ==
    ASSUME NEW left, NEW right, NEW n \in Nat, \E f : Borrows(left, right, n, f)
    PROVE  \E f : Borrows(left, right, n + 1, f)
<1>1. PICK f : Borrows(left, right, n, f)
    OBVIOUS
<1> DEFINE last == IF left[n] < right[n] + f[n] THEN 1 ELSE 0
           g == [i \in 0 .. n + 1 |-> IF i = n + 1 THEN last ELSE f[i]]
<1>2. g = [i \in 0 .. n + 1 |->
              IF i = 0 THEN 0 ELSE IF left[i - 1] < right[i - 1] + g[i - 1] THEN 1 ELSE 0]
  <2>1. ASSUME NEW i \in 0 .. n + 1
        PROVE  g[i] = (IF i = 0 THEN 0 ELSE IF left[i - 1] < right[i - 1] + g[i - 1] THEN 1 ELSE 0)
    <3>1. i # 0 => g[i - 1] = f[i - 1]
        OBVIOUS
    <3>2. CASE i = n + 1
        BY <3>1, <3>2
    <3>3. CASE i # n + 1
      <4>1. i \in 0 .. n /\ g[i] = f[i]
          BY <3>3
      <4>2. f[i] = (IF i = 0 THEN 0 ELSE IF left[i - 1] < right[i - 1] + f[i - 1] THEN 1 ELSE 0)
          BY <1>1, <4>1 DEF Borrows
      <4> QED
          BY <3>1, <4>1, <4>2
    <3> QED
        BY <3>2, <3>3
  <2> QED
      BY <2>1
<1> HIDE DEF g
<1> QED
    BY <1>2 DEF Borrows

\* The borrows of a subtraction of any length exist.
LEMMA BorrowsExist ==
    ASSUME NEW n \in Nat, n <= 10, NEW left, NEW right PROVE \E f : Borrows(left, right, n, f)
<1> DEFINE S == {m \in Nat : \E f : Borrows(left, right, m, f)}
<1>1. 0 \in S
  <2> DEFINE f == [i \in 0 .. 0 |-> 0]
  <2>1. f = [i \in 0 .. 0 |->
                IF i = 0 THEN 0 ELSE IF left[i - 1] < right[i - 1] + f[i - 1] THEN 1 ELSE 0]
      OBVIOUS
  <2> HIDE DEF f
  <2>2. Borrows(left, right, 0, f)
      BY <2>1 DEF Borrows
  <2> QED
      BY <2>2
<1>2. ASSUME NEW m \in Nat, m < 10, m \in S
      PROVE  m + 1 \in S
    BY <1>2, LongerBorrow
<1> HIDE DEF S
<1>3. n \in S
    BY <1>1, <1>2, TenSteps
<1> QED
    BY <1>3 DEF S

\* The borrow of one word.
Bit == {0, 1}

\* One word of a difference.
LEMMA OneBorrow ==
    ASSUME NEW x \in Digit, NEW y \in Digit, NEW b \in Bit,
           NEW d, d = (x - y - b) % RADIX,
           NEW next, next = (IF x < y + b THEN 1 ELSE 0)
    PROVE  d \in Digit /\ (y + d) + b = x + RADIX * next
<1> DEFINE R == RADIX
<1>1. R \in Nat /\ R >= 16 /\ x \in 0 .. R - 1 /\ y \in 0 .. R - 1
      /\ d = (x - y - b) % R /\ (b = 0 \/ b = 1)
    BY Radix DEF Digit, Bit
<1> HIDE DEF R
<1>2. CASE x < y + b
  <2>1. x - y - b + R \in 0 .. R - 1
      BY <1>1, <1>2
  <2>2. d = x - y - b + R
      BY <1>1, <2>1
  <2>3. d \in 0 .. R - 1 /\ (y + d) + b = x + R * 1
      BY <1>1, <2>1, <2>2
  <2> QED
      BY <1>2, <2>3 DEF R, Digit
<1>3. CASE ~ (x < y + b)
  <2>1. x - y - b \in 0 .. R - 1
      BY <1>1, <1>3
  <2>2. d = x - y - b
      BY <1>1, <2>1
  <2>3. d \in 0 .. R - 1 /\ (y + d) + b = x + R * 0
      BY <1>1, <2>1, <2>2
  <2> QED
      BY <1>3, <2>3 DEF R, Digit
<1> QED
    BY <1>2, <1>3

\* subtract_limbs_runtime, its borrow standing for RADIX^LIMBS.
LEMMA Subtraction ==
    ASSUME NEW left \in Limbs, NEW right \in Limbs
    PROVE  LET s == subtract_limbs_runtime(left, right)
           IN  /\ s.words \in Limbs /\ s.borrow \in Bit
               /\ Value(right) + Value(s.words) = Value(left) + Power(LIMBS) * s.borrow
<1> DEFINE borrow == CHOOSE f : Borrows(left, right, LIMBS, f)
           words == [i \in 0 .. LIMBS - 1 |-> (left[i] - right[i] - borrow[i]) % RADIX]
           column == [i \in 0 .. LIMBS - 1 |-> right[i] + words[i]]
           S == {k \in Nat : k <= LIMBS => borrow[k] \in Bit}
<1>1. Borrows(left, right, LIMBS, borrow)
    BY Width, BorrowsExist
<1>2. subtract_limbs_runtime(left, right) = [words |-> words, borrow |-> borrow[LIMBS]]
    BY DEF subtract_limbs_runtime, Borrows
<1> HIDE DEF borrow
<1>3. /\ borrow = [i \in 0 .. LIMBS |-> borrow[i]] /\ borrow[0] = 0
      /\ \A k \in 0 .. LIMBS - 1 :
             borrow[k + 1] = (IF left[k] < right[k] + borrow[k] THEN 1 ELSE 0)
  <2>1. borrow = [i \in 0 .. LIMBS |->
                     IF i = 0 THEN 0
                     ELSE IF left[i - 1] < right[i - 1] + borrow[i - 1] THEN 1 ELSE 0]
      BY <1>1 DEF Borrows
  <2>2. ASSUME NEW k \in 0 .. LIMBS - 1
        PROVE  borrow[k + 1] = (IF left[k] < right[k] + borrow[k] THEN 1 ELSE 0)
    <3>1. k + 1 \in 0 .. LIMBS /\ k + 1 # 0 /\ (k + 1) - 1 = k
        BY Width
    <3> QED
        BY <2>1, <3>1
  <2> QED
      BY <2>1, <2>2, Width
<1>4. \A k \in 0 .. LIMBS : borrow[k] \in Bit
  <2>1. 0 \in S
      BY <1>3 DEF Bit
  <2>2. ASSUME NEW k \in Nat, k < 10, k \in S PROVE k + 1 \in S
    <3> SUFFICES ASSUME k + 1 <= LIMBS PROVE borrow[k + 1] \in Bit
        OBVIOUS
    <3>1. k \in 0 .. LIMBS - 1
        BY Width
    <3>2. borrow[k + 1] = (IF left[k] < right[k] + borrow[k] THEN 1 ELSE 0)
        BY <1>3, <3>1
    <3> QED
        BY <3>2, Zenon DEF Bit
  <2> HIDE DEF S
  <2>3. \A k \in Nat : k <= 10 => k \in S
      BY <2>1, <2>2, TenSteps
  <2> QED
      BY <2>3, Width DEF S
<1>5. \A k \in 0 .. LIMBS - 1 : /\ words[k] \in Digit
                                /\ (right[k] + words[k]) + borrow[k] = left[k] + RADIX * borrow[k + 1]
  <2> SUFFICES ASSUME NEW k \in 0 .. LIMBS - 1
               PROVE  /\ words[k] \in Digit
                      /\ (right[k] + words[k]) + borrow[k] = left[k] + RADIX * borrow[k + 1]
      OBVIOUS
  <2>1. left[k] \in Digit /\ right[k] \in Digit /\ borrow[k] \in Bit
    <3>1. k \in 0 .. LIMBS
        BY Width
    <3> QED
        BY <1>4, <3>1, LimbIsInt
  <2>2. words[k] = (left[k] - right[k] - borrow[k]) % RADIX
      OBVIOUS
  <2> HIDE DEF words
  <2>3. borrow[k + 1] = (IF left[k] < right[k] + borrow[k] THEN 1 ELSE 0)
      BY <1>3
  <2> QED
      BY <2>1, <2>2, <2>3, OneBorrow
<1>6. words \in Limbs
    BY <1>5 DEF Limbs
<1> HIDE DEF words
<1>7. \A k \in 0 .. LIMBS - 1 : /\ right[k] \in Int /\ words[k] \in Int
                                /\ column[k] = right[k] + words[k] /\ column[k] \in Int
    BY <1>6, LimbIsInt
<1>8. Carries(column, left, LIMBS, borrow)
  <2>1. \A k \in 0 .. LIMBS - 1 : column[k] + borrow[k] = left[k] + RADIX * borrow[k + 1]
      BY <1>5
  <2>2. borrow \in [0 .. LIMBS -> Digit]
    <3>1. \A k \in 0 .. LIMBS : borrow[k] \in Digit
        BY <1>4, Radix DEF Digit, Bit
    <3> QED
        BY <1>3, <3>1
  <2> QED
      BY <1>3, <2>1, <2>2 DEF Carries, Limbs
<1> HIDE DEF column
<1>9. Sum(column, LIMBS) = Sum(left, LIMBS) + Power(LIMBS) * borrow[LIMBS]
    BY <1>7, <1>8, Width, ExactSum
<1>10. Sum(column, LIMBS) = Sum(right, LIMBS) + Sum(words, LIMBS)
    BY <1>7, Width, SumPlus
<1>11. /\ Value(left) = Sum(left, LIMBS) /\ Value(right) = Sum(right, LIMBS)
       /\ Value(words) = Sum(words, LIMBS)
    BY <1>6, ValueIsSum
<1>12. borrow[LIMBS] \in Bit
    BY <1>4, Width
<1> QED
    BY <1>2, <1>6, <1>9, <1>10, <1>11, <1>12

-----------------------------------------------------------------------------
(* The words of a number. *)

Quotients(n, m, f) == f = [i \in 0 .. m |-> IF i = 0 THEN n ELSE f[i - 1] \div RADIX]

\* One more quotient.
LEMMA LongerQuotient ==
    ASSUME NEW n, NEW m \in Nat, \E f : Quotients(n, m, f)
    PROVE  \E f : Quotients(n, m + 1, f)
<1>1. PICK f : Quotients(n, m, f)
    OBVIOUS
<1> DEFINE g == [i \in 0 .. m + 1 |-> IF i = m + 1 THEN f[m] \div RADIX ELSE f[i]]
<1>2. g = [i \in 0 .. m + 1 |-> IF i = 0 THEN n ELSE g[i - 1] \div RADIX]
  <2>1. ASSUME NEW i \in 0 .. m + 1
        PROVE  g[i] = (IF i = 0 THEN n ELSE g[i - 1] \div RADIX)
    <3>1. i # 0 => g[i - 1] = f[i - 1]
        OBVIOUS
    <3>2. CASE i = m + 1
        BY <3>1, <3>2
    <3>3. CASE i # m + 1
      <4>1. i \in 0 .. m /\ g[i] = f[i]
          BY <3>3
      <4>2. f[i] = (IF i = 0 THEN n ELSE f[i - 1] \div RADIX)
          BY <1>1, <4>1 DEF Quotients
      <4> QED
          BY <3>1, <4>1, <4>2
    <3> QED
        BY <3>2, <3>3
  <2> QED
      BY <2>1
<1> HIDE DEF g
<1> QED
    BY <1>2 DEF Quotients

\* The quotients of a number by RADIX, as many as wanted, exist.
LEMMA QuotientsExist ==
    ASSUME NEW m \in Nat, m <= 10, NEW n PROVE \E f : Quotients(n, m, f)
<1> DEFINE S == {k \in Nat : \E f : Quotients(n, k, f)}
<1>1. 0 \in S
  <2> DEFINE f == [i \in 0 .. 0 |-> n]
  <2>1. f = [i \in 0 .. 0 |-> IF i = 0 THEN n ELSE f[i - 1] \div RADIX]
      OBVIOUS
  <2> HIDE DEF f
  <2>2. Quotients(n, 0, f)
      BY <2>1 DEF Quotients
  <2> QED
      BY <2>2
<1>2. ASSUME NEW k \in Nat, k < 10, k \in S
      PROVE  k + 1 \in S
    BY <1>2, LongerQuotient
<1> HIDE DEF S
<1>3. m \in S
    BY <1>1, <1>2, TenSteps
<1> QED
    BY <1>3 DEF S

\* Words spells the number it is given, when five words can.
LEMMA WordsValue ==
    ASSUME NEW n \in Nat
    PROVE  Words(n) \in Limbs /\ (n < Power(LIMBS) => Value(Words(n)) = n)
<1> DEFINE four == LIMBS - 1
           q == CHOOSE f : Quotients(n, four, f)
           words == Words(n)
           S == {k \in Nat : k <= four => /\ q[k] \in Nat /\ Sum(words, k) \in Int
                                          /\ Sum(words, k) + Power(k) * q[k] = n}
<1>1. four \in Nat /\ four < 10 /\ four <= 10 /\ four + 1 = LIMBS
    BY Width
<1>2. words = [i \in 0 .. four |-> q[i] % RADIX]
    BY DEF Words, Quotients
<1> HIDE DEF four
<1>3. Quotients(n, four, q)
    BY <1>1, QuotientsExist
<1> HIDE DEF q, words
<1>4. q[0] = n /\ \A k \in Nat : k < four => q[k + 1] = q[k] \div RADIX
  <2>1. q = [i \in 0 .. four |-> IF i = 0 THEN n ELSE q[i - 1] \div RADIX]
      BY <1>3 DEF Quotients
  <2>2. ASSUME NEW k \in Nat, k < four
        PROVE  q[k + 1] = q[k] \div RADIX
    <3>1. k + 1 \in 0 .. four /\ k + 1 # 0 /\ (k + 1) - 1 = k
        BY <1>1, <2>2
    <3> QED
        BY <2>1, <3>1
  <2>3. 0 \in 0 .. four
      BY <1>1
  <2> QED
      BY <2>1, <2>2, <2>3
<1>5. ASSUME NEW k \in Nat, q[k] \in Nat
      PROVE  /\ q[k] \div RADIX \in Nat /\ q[k] % RADIX \in Digit
             /\ q[k] = (q[k] % RADIX) + RADIX * (q[k] \div RADIX)
  <2>1. RADIX \in Nat \ {0}
      BY Radix
  <2> QED
      BY <1>5, <2>1, Division DEF Digit
<1>6. ASSUME NEW k \in Nat, k < 10, k \in S PROVE k + 1 \in S
  <2> SUFFICES ASSUME k + 1 <= four
               PROVE  /\ q[k + 1] \in Nat /\ Sum(words, k + 1) \in Int
                      /\ Sum(words, k + 1) + Power(k + 1) * q[k + 1] = n
      OBVIOUS
  <2>1. \A j \in Nat : j <= k => q[j] \in Nat
    <3> DEFINE T == {j \in Nat : j <= k => q[j] \in Nat}
    <3>1. 0 \in T
        BY <1>4
    <3>2. ASSUME NEW j \in Nat, j < 10, j \in T PROVE j + 1 \in T
      <4> SUFFICES ASSUME j + 1 <= k PROVE q[j + 1] \in Nat
          OBVIOUS
      <4>1. j < four /\ q[j] \in Nat
          BY <1>1, <3>2
      <4> QED
          BY <1>4, <1>5, <4>1
    <3> HIDE DEF T
    <3>3. \A j \in Nat : j <= 10 => j \in T
        BY <3>1, <3>2, TenSteps
    <3> QED
        BY <1>1, <3>3 DEF T
  <2>2. \A j \in 0 .. k : words[j] = q[j] % RADIX /\ words[j] \in Digit
    <3> SUFFICES ASSUME NEW j \in 0 .. k PROVE words[j] = q[j] % RADIX /\ words[j] \in Digit
        OBVIOUS
    <3>1. j \in Nat /\ j \in 0 .. four /\ q[j] \in Nat
        BY <1>1, <2>1
    <3> QED
        BY <1>2, <1>5, <3>1
  <2>3. \A j \in 0 .. k : words[j] \in Int
      BY <2>2, Radix DEF Digit
  <2>4. Sum(words, k + 1) = Sum(words, k) + Power(k) * words[k]
      BY <1>6, <2>3, SumStep
  <2>5. /\ q[k] \in Nat /\ q[k + 1] \in Nat /\ words[k] \in Int
        /\ q[k] = words[k] + RADIX * q[k + 1]
    <3>1. k < four /\ k \in 0 .. k /\ q[k] \in Nat
        BY <1>1, <1>6
    <3>2. q[k + 1] = q[k] \div RADIX /\ words[k] = q[k] % RADIX
        BY <1>4, <2>2, <3>1
    <3>3. /\ q[k + 1] \in Nat /\ words[k] \in Digit
          /\ q[k] = words[k] + RADIX * q[k + 1]
        BY <1>5, <3>1, <3>2
    <3>4. Digit \subseteq Int
        BY Radix DEF Digit
    <3> QED
        BY <3>1, <3>3, <3>4
  <2>6. /\ Sum(words, k) \in Int /\ Sum(words, k) + Power(k) * q[k] = n
        /\ Power(k) \in Nat /\ Power(k + 1) = RADIX * Power(k) /\ Power(k + 1) \in Nat
      BY <1>1, <1>6, Powers
  <2>7. Power(k) * q[k] = Power(k) * words[k] + Power(k + 1) * q[k + 1]
      BY <2>5, <2>6, PlaceOfOne
  <2>8. /\ Power(k) * q[k] \in Int
        /\ Power(k) * words[k] \in Int /\ Power(k + 1) * q[k + 1] \in Int
      BY <2>5, <2>6
  <2> QED
      BY <2>4, <2>5, <2>6, <2>7, <2>8
<1>7. \A k \in Nat : k <= four => /\ q[k] \in Nat /\ Sum(words, k) \in Int
                                  /\ Sum(words, k) + Power(k) * q[k] = n
  <2>1. 0 \in S
    <3>1. Sum(words, 0) = 0 /\ Power(0) = 1
        BY SumZero, Powers
    <3> QED
        BY <1>4, <3>1
  <2> HIDE DEF S
  <2>2. \A k \in Nat : k <= 10 => k \in S
      BY <1>6, <2>1, TenSteps
  <2> QED
      BY <1>1, <2>2 DEF S
<1>8. words \in Limbs
  <2>1. \A k \in 0 .. four : q[k] % RADIX \in Digit
      BY <1>5, <1>7
  <2> QED
      BY <1>1, <1>2, <2>1 DEF Limbs, four
<1>9. ASSUME n < Power(LIMBS) PROVE Value(words) = n
  <2>1. /\ Value(words) \in Nat
        /\ Value(words) = Sum(words, four) + Power(four) * words[four]
      BY <1>8, ValueIsSum DEF four
  <2> DEFINE top == q[four] \div RADIX
  <2>2. /\ top \in Nat /\ words[four] \in Nat /\ q[four] \in Nat
        /\ q[four] = words[four] + RADIX * top
    <3>1. q[four] \in Nat /\ words[four] = q[four] % RADIX
      <4>1. four \in 0 .. four /\ four <= four
          BY <1>1
      <4> QED
          BY <1>1, <1>2, <1>7, <4>1
    <3>2. top \in Nat /\ words[four] \in Digit /\ q[four] = words[four] + RADIX * top
        BY <1>1, <1>5, <3>1
    <3> QED
        BY <3>1, <3>2, Radix DEF Digit
  <2> HIDE DEF top
  <2>3. /\ Power(four) \in Nat /\ Power(LIMBS) = RADIX * Power(four) /\ Power(LIMBS) \in Nat
      BY <1>1, Width, Powers
  <2>4. Power(four) * q[four] = Power(four) * words[four] + Power(LIMBS) * top
      BY <2>2, <2>3, PlaceOfOne
  <2>5. Sum(words, four) + Power(four) * q[four] = n /\ Sum(words, four) \in Int
      BY <1>1, <1>7
  <2>6. /\ Power(four) * q[four] \in Int
        /\ Power(four) * words[four] \in Int /\ Power(LIMBS) * top \in Int
      BY <2>2, <2>3
  <2>7. n = Value(words) + Power(LIMBS) * top
      BY <2>1, <2>4, <2>5, <2>6
  <2>8. top = 0
    <3> SUFFICES ASSUME top # 0 PROVE FALSE
        OBVIOUS
    <3>1. Power(LIMBS) * top >= Power(LIMBS)
        BY <2>2, <2>3, AtLeastOnce
    <3> QED
        BY <1>9, <2>1, <2>3, <2>6, <2>7, <3>1
  <2>9. Power(LIMBS) * 0 = 0
      BY <2>3
  <2> QED
      BY <2>1, <2>7, <2>8, <2>9
<1> QED
    BY <1>8, <1>9 DEF words

-----------------------------------------------------------------------------
(* The modulus. *)

FieldRadix == TOP_RADIX * Power(LIMBS - 1)              \* 2^301
FoldConstant == FOLD_RADIX * RADIX - FOLD_SUBTRAHEND    \* 2^99 - 947

\* 2^301 is at least RADIX^4 and leaves four bits of the top limb.
LEMMA FieldSize ==
    /\ FieldRadix \in Nat /\ Power(LIMBS) \in Nat
    /\ FieldRadix >= Power(LIMBS - 1) /\ 16 * FieldRadix <= Power(LIMBS)
    /\ Power(LIMBS - 1) \in Nat /\ Power(LIMBS) = RADIX * Power(LIMBS - 1)
<1> DEFINE four == LIMBS - 1
           p == Power(four)
<1>1. four \in Nat /\ four < 10 /\ four <= 10 /\ four + 1 = LIMBS
    BY Width
<1> HIDE DEF four
<1>2. p \in Nat /\ p >= 1 /\ Power(LIMBS) = RADIX * p /\ Power(LIMBS) \in Nat
    BY <1>1, Width, Powers
<1>3. FieldRadix = TOP_RADIX * p
    BY DEF FieldRadix, four
<1> HIDE DEF p
<1>4. TOP_RADIX \in Nat /\ TOP_RADIX # 0 /\ RADIX \in Nat /\ 16 * TOP_RADIX <= RADIX
    BY Radix
<1>5. TOP_RADIX * p \in Nat /\ TOP_RADIX * p >= p
  <2>1. p * TOP_RADIX >= p /\ p * TOP_RADIX = TOP_RADIX * p
      BY <1>2, <1>4, AtLeastOnce
  <2> QED
      BY <1>2, <1>4, <2>1
<1>6. 16 * (TOP_RADIX * p) <= RADIX * p
  <2>1. (RADIX - 16 * TOP_RADIX) * p >= 0
      BY <1>2, <1>4, SMT
  <2>2. (RADIX - 16 * TOP_RADIX) * p = RADIX * p - 16 * (TOP_RADIX * p)
      BY <1>2, <1>4, SMT
  <2>3. RADIX * p \in Int
      BY <1>2, <1>4
  <2> QED
      BY <1>5, <2>1, <2>2, <2>3
<1> QED
    BY <1>2, <1>3, <1>5, <1>6 DEF p, four

\* The fold constant is small: folding twice brings anything below 2p.
LEMMA FoldSize ==
    /\ FoldConstant \in Nat /\ FoldConstant >= 1
    /\ 16 * FoldConstant < RADIX * RADIX
    /\ 16 * (FoldConstant * FoldConstant) + 3 * FoldConstant < FieldRadix
    /\ (RADIX + 3) * FoldConstant < FieldRadix
<1> DEFINE r == RADIX
           k == FoldConstant
           f == FOLD_RADIX
           s == FOLD_SUBTRAHEND
<1>1. /\ r \in Nat /\ r >= 16 /\ f \in Nat /\ f >= 1 /\ 16 * f <= r
      /\ s \in Nat /\ 1 <= s /\ s < r /\ k = f * r - s
    BY Radix DEF FoldConstant
<1>2. FieldRadix \in Int /\ FieldRadix >= r * (r * (r * r))
  <2>1. Power(LIMBS - 1) = R4 /\ R4 = r * (r * (r * r))
    <3>1. LIMBS - 1 = 4
        BY Five
    <3> QED
        BY <3>1 DEF Power, R4, R3, R2
  <2>2. r * (r * (r * r)) \in Int
      BY <1>1, SMT
  <2> QED
      BY <2>1, <2>2, FieldSize
<1> HIDE DEF r, k, f, s
<1>3. f * r \in Int /\ f * r >= r /\ 16 * (f * r) <= r * r /\ r * r \in Int
  <2>1. f * r - r = (f - 1) * r /\ (f - 1) * r >= 0
      BY <1>1, SMT
  <2>2. r * r - 16 * (f * r) = (r - 16 * f) * r /\ (r - 16 * f) * r >= 0
      BY <1>1, SMT
  <2>3. f * r \in Int /\ r * r \in Int
      BY <1>1
  <2> QED
      BY <1>1, <2>1, <2>2, <2>3
<1>4. k \in Nat /\ k >= 1 /\ 16 * k < r * r
    BY <1>1, <1>3
<1> DEFINE w == r * r
<1>5. w \in Nat /\ w >= 256 /\ r * (r * (r * r)) = w * w /\ r + 3 <= w
  <2>1. r * r >= 16 * r
      BY <1>1, SMT
  <2>2. r * (r * (r * r)) = (r * r) * (r * r)
      BY <1>1, SMT
  <2> QED
      BY <1>1, <1>3, <2>1, <2>2
<1>6. 16 * k < w
    BY <1>4
<1> HIDE DEF w
<1>7. 16 * (k * k) <= w * k /\ k * k \in Int /\ w * k \in Int
  <2>1. (w - 16 * k) * k >= 0
      BY <1>4, <1>5, <1>6, SMT
  <2>2. (w - 16 * k) * k = w * k - 16 * (k * k)
      BY <1>4, <1>5, SMT
  <2>3. k * k \in Int /\ w * k \in Int
      BY <1>4, <1>5
  <2> QED
      BY <2>1, <2>2, <2>3
<1>8. 16 * (w * k) < w * w /\ w * w \in Int
  <2>1. (w - 16 * k) * w >= w
    <3>1. w - 16 * k \in Nat /\ w - 16 * k # 0 /\ w \in Nat
        BY <1>4, <1>5, <1>6
    <3> DEFINE d == w - 16 * k
    <3> HIDE DEF d
    <3>2. w * d >= w /\ w * d = d * w
        BY <3>1, AtLeastOnce DEF d
    <3> QED
        BY <3>2 DEF d
  <2>2. (w - 16 * k) * w = w * w - 16 * (w * k)
      BY <1>4, <1>5, SMT
  <2>3. w * w \in Int
      BY <1>5
  <2> QED
      BY <1>5, <1>7, <2>1, <2>2, <2>3
<1>9. 3 * k <= w * k
  <2>1. (w - 3) * k >= 0 /\ (w - 3) * k = w * k - 3 * k
      BY <1>4, <1>5, SMT
  <2> QED
      BY <1>4, <1>7, <2>1
<1>10. (r + 3) * k <= w * k /\ (r + 3) * k \in Int
  <2>1. (w - (r + 3)) * k >= 0 /\ (w - (r + 3)) * k = w * k - (r + 3) * k
      BY <1>1, <1>4, <1>5, SMT
  <2>2. (r + 3) * k \in Int
      BY <1>1, <1>4
  <2> QED
      BY <1>7, <2>1, <2>2
<1>11. 16 * (k * k) + 3 * k < w * w
    BY <1>4, <1>5, <1>7, <1>8, <1>9
<1>12. (r + 3) * k < w * w
    BY <1>4, <1>5, <1>7, <1>8, <1>10
<1> QED
    BY <1>2, <1>4, <1>5, <1>7, <1>8, <1>10, <1>11, <1>12 DEF r, k

\* p is 2^301 less the fold constant, and 16p fits the limbs.
LEMMA Modulus ==
    /\ P \in Nat /\ P >= 1 /\ P = FieldRadix - FoldConstant /\ 16 * P < Power(LIMBS)
<1> DEFINE r == RADIX
<1>1. P = TOP_RADIX * r * r * r * r - FOLD_RADIX * r + FOLD_SUBTRAHEND
    BY DEF P
<1>2. FieldRadix = TOP_RADIX * (r * (r * (r * r)))
  <2>1. LIMBS - 1 = 4
      BY Five
  <2> QED
      BY <2>1 DEF FieldRadix, Power, R4, R3, R2
<1>3. FoldConstant = FOLD_RADIX * r - FOLD_SUBTRAHEND
    BY DEF FoldConstant
<1>4. r \in Int /\ TOP_RADIX \in Int /\ FOLD_RADIX \in Int /\ FOLD_SUBTRAHEND \in Int
    BY Radix
<1> HIDE DEF r
<1>5. TOP_RADIX * r * r * r * r = TOP_RADIX * (r * (r * (r * r)))
    BY <1>4, SMT
<1>6. TOP_RADIX * (r * (r * (r * r))) \in Int /\ FOLD_RADIX * r \in Int
    BY <1>4, SMT
<1>7. P = FieldRadix - FoldConstant
    BY <1>1, <1>2, <1>3, <1>4, <1>5, <1>6
<1>8. FoldConstant * FoldConstant \in Nat
    BY FoldSize
<1> QED
    BY <1>7, <1>8, FieldSize, FoldSize

-----------------------------------------------------------------------------
(* Rows of a product. *)

\* Exponents add.
LEMMA PowerPlus ==
    ASSUME NEW i \in Nat, NEW j \in Nat, i + j <= 10
    PROVE  Power(i + j) = Power(i) * Power(j)
<1> DEFINE S == {k \in Nat : i + k <= 10 => Power(i + k) = Power(i) * Power(k)}
<1>1. 0 \in S
  <2>1. i <= 10 => Power(i) \in Nat /\ Power(0) = 1
      BY Powers
  <2> QED
      BY <2>1
<1>2. ASSUME NEW k \in Nat, k < 10, k \in S PROVE k + 1 \in S
  <2> SUFFICES ASSUME i + (k + 1) <= 10 PROVE Power(i + (k + 1)) = Power(i) * Power(k + 1)
      OBVIOUS
  <2> DEFINE a == Power(i)
             b == Power(k)
             m == i + k
  <2>1. m \in Nat /\ m < 10 /\ m + 1 = i + (k + 1) /\ i <= 10 /\ k < 10 /\ k <= 10
      OBVIOUS
  <2>2. Power(m) = a * b
      BY <1>2
  <2> HIDE DEF m
  <2>3. Power(m + 1) = RADIX * Power(m)
      BY <2>1, Powers
  <2>4. a \in Int /\ b \in Int /\ Power(k + 1) = RADIX * b /\ RADIX \in Int
      BY <2>1, Powers, Radix
  <2> HIDE DEF a, b
  <2>5. RADIX * (a * b) = a * (RADIX * b)
      BY <2>4, SMT
  <2> QED
      BY <2>1, <2>2, <2>3, <2>4, <2>5 DEF a
<1> HIDE DEF S
<1>3. j \in S
  <2>1. j <= 10
      OBVIOUS
  <2> QED
      BY <1>1, <1>2, <2>1, TenSteps
<1> QED
    BY <1>3 DEF S

\* The words of w from first on, offset places up.
Window(w, first, offset, width) ==
    [k \in 0 .. width - 1 |->
        IF k - offset >= first /\ k - offset < LIMBS THEN w[k - offset] ELSE 0]

\* A window spells the words it shows, offset places up.
LEMMA WindowSum ==
    ASSUME NEW width \in Nat, width <= 10, NEW first \in Nat, first <= LIMBS,
           NEW offset \in Nat, offset + LIMBS <= width, NEW w \in Limbs
    PROVE  /\ \A k \in 0 .. width - 1 : Window(w, first, offset, width)[k] \in Nat
           /\ Sum(w, LIMBS) \in Int /\ Sum(w, first) \in Int
           /\ Sum(Window(w, first, offset, width), width)
                  = Power(offset) * (Sum(w, LIMBS) - Sum(w, first))
<1> DEFINE v == Window(w, first, offset, width)
           part(k) == IF k - offset <= first THEN first
                      ELSE IF k - offset >= LIMBS THEN LIMBS ELSE k - offset
           S == {k \in Nat : k <= width =>
                     Sum(v, k) = Power(offset) * (Sum(w, part(k)) - Sum(w, first))}
<1>1. \A k \in 0 .. width - 1 :
          v[k] = IF k - offset >= first /\ k - offset < LIMBS THEN w[k - offset] ELSE 0
    BY DEF Window
<1> HIDE DEF v
<1>2. \A k \in 0 .. LIMBS - 1 : w[k] \in Nat
    BY LimbIsInt
<1>3. \A k \in 0 .. width - 1 : v[k] \in Nat
    BY <1>1, <1>2, Width
<1>4. \A k \in Nat : k <= LIMBS => Sum(w, k) \in Int
  <2> SUFFICES ASSUME NEW k \in Nat, k <= LIMBS PROVE Sum(w, k) \in Int
      OBVIOUS
  <2>1. k <= 10 /\ \A j \in 0 .. k - 1 : w[j] \in Digit
      BY Width, LimbIsInt
  <2>2. Sum(w, k) \in 0 .. Power(k) - 1 /\ Power(k) \in Nat
      BY <2>1, SumBound, Powers
  <2> QED
      BY <2>2
<1>5. Power(offset) \in Nat
    BY Width, Powers
<1>6. part(0) = first /\ part(width) = LIMBS
    BY Width
<1>7. \A k \in Nat : part(k) \in Nat /\ part(k) <= LIMBS
    BY Width
<1>8. ASSUME NEW k \in Nat, k < 10, k \in S PROVE k + 1 \in S
  <2> SUFFICES ASSUME k + 1 <= width
               PROVE  Sum(v, k + 1) = Power(offset) * (Sum(w, part(k + 1)) - Sum(w, first))
      OBVIOUS
  <2>1. Sum(v, k + 1) = Sum(v, k) + Power(k) * v[k]
    <3>1. \A j \in 0 .. k : v[j] \in Int
        BY <1>3
    <3> QED
        BY <1>8, <3>1, SumStep
  <2>2. Sum(v, k) = Power(offset) * (Sum(w, part(k)) - Sum(w, first))
      BY <1>8
  <2> DEFINE j == k - offset
  <2>3. CASE j >= first /\ j < LIMBS
    <3>1. j \in Nat /\ j < 10 /\ j <= 10 /\ offset + j = k /\ offset + j <= 10
          /\ part(k) = j /\ part(k + 1) = j + 1 /\ k \in 0 .. width - 1
        BY <2>3, Width
    <3>2. v[k] = w[j]
        BY <1>1, <2>3, <3>1
    <3> HIDE DEF j, part
    <3>3. Power(k) = Power(offset) * Power(j)
        BY <3>1, PowerPlus
    <3>4. Sum(w, j + 1) = Sum(w, j) + Power(j) * w[j]
      <4>1. \A i \in 0 .. j : w[i] \in Int
          BY <1>2, <2>3, <3>1, Width
      <4> QED
          BY <3>1, <4>1, SumStep
    <3> DEFINE a == Power(offset)
               b == Power(j)
               x == w[j]
               s == Sum(w, j)
               t == Sum(w, first)
    <3>5. a \in Int /\ b \in Int /\ x \in Int /\ s \in Int /\ t \in Int
      <4>1. j \in 0 .. LIMBS - 1 /\ j <= LIMBS
          BY <2>3, <3>1, Width
      <4>2. b \in Nat
          BY <3>1, Powers
      <4> QED
          BY <1>2, <1>4, <1>5, <3>1, <4>1, <4>2
    <3>6. Sum(v, k + 1) = a * (s - t) + (a * b) * x
        BY <2>1, <2>2, <3>1, <3>2, <3>3
    <3>7. Sum(w, part(k + 1)) = s + b * x
        BY <3>1, <3>4
    <3> HIDE DEF a, b, x, s, t
    <3>8. a * (s - t) + (a * b) * x = a * ((s + b * x) - t)
        BY <3>5, SMT
    <3> QED
        BY <3>6, <3>7, <3>8 DEF a, t
  <2>4. CASE ~ (j >= first /\ j < LIMBS)
    <3>1. part(k + 1) = part(k) /\ k \in 0 .. width - 1
        BY <2>4, Width
    <3>2. v[k] = 0
        BY <1>1, <2>4, <3>1
    <3> HIDE DEF part
    <3>3. Power(k) \in Nat
        BY <1>8, Powers
    <3>4. Sum(w, part(k)) \in Int /\ Sum(w, first) \in Int
        BY <1>4, <1>7
    <3>5. Power(offset) * (Sum(w, part(k)) - Sum(w, first)) \in Int
        BY <1>5, <3>4
    <3> QED
        BY <2>1, <2>2, <3>1, <3>2, <3>3, <3>5
  <2> QED
      BY <2>3, <2>4
<1>9. width \in S
  <2>1. 0 \in S
    <3>1. Sum(v, 0) = 0
        BY SumZero
    <3>2. Sum(w, first) \in Int
        BY <1>4
    <3> QED
        BY <1>5, <1>6, <3>1, <3>2
  <2> HIDE DEF S
  <2> QED
      BY <1>8, <2>1, TenSteps
<1>10. Sum(v, width) = Power(offset) * (Sum(w, LIMBS) - Sum(w, first))
    BY <1>6, <1>9
<1> QED
    BY <1>3, <1>4, <1>10, Width DEF v

\* A product of two words, a word and a carry fit a u128.
LEMMA ProductColumn ==
    ASSUME NEW x \in Digit, NEW y \in Digit, NEW z \in Digit
    PROVE  x * y + z \in Column /\ x * y \in Nat
<1> DEFINE R == RADIX
<1>1. R \in Nat /\ x \in Nat /\ x <= R - 1 /\ y \in Nat /\ y <= R - 1 /\ z \in Nat /\ z <= R - 1
    BY Radix DEF Digit
<1>2. Column = 0 .. R * R - R
    BY Radix DEF Column
<1> HIDE DEF R
<1>3. x * y <= (R - 1) * (R - 1)
  <2>1. x * y <= x * (R - 1)
    <3>1. x * (R - 1) - x * y = x * ((R - 1) - y) /\ x * ((R - 1) - y) >= 0
        BY <1>1, SMT
    <3>2. x * y \in Int /\ x * (R - 1) \in Int
        BY <1>1
    <3> QED
        BY <3>1, <3>2
  <2>2. x * (R - 1) <= (R - 1) * (R - 1)
    <3>1. (R - 1) * (R - 1) - x * (R - 1) = ((R - 1) - x) * (R - 1) /\ ((R - 1) - x) * (R - 1) >= 0
        BY <1>1, SMT
    <3>2. (R - 1) * (R - 1) \in Int /\ x * (R - 1) \in Int
        BY <1>1
    <3> QED
        BY <3>1, <3>2
  <2>3. x * y \in Int /\ x * (R - 1) \in Int /\ (R - 1) * (R - 1) \in Int
      BY <1>1
  <2> QED
      BY <2>1, <2>2, <2>3
<1>4. (R - 1) * (R - 1) + (R - 1) = R * R - R
    BY <1>1, SMT
<1>5. x * y \in Nat /\ (R - 1) * (R - 1) \in Int /\ R * R \in Int
    BY <1>1
<1> QED
    BY <1>1, <1>2, <1>3, <1>4, <1>5

\* One row adds factor times the window of right under it.
LEMMA Row ==
    ASSUME NEW width \in Nat, width <= 10, NEW first \in Nat, first < LIMBS,
           NEW offset \in Nat, offset + LIMBS < width,
           NEW right \in Limbs, NEW factor \in Digit, NEW output \in [0 .. width - 1 -> Digit],
           output[offset + LIMBS] = 0
    PROVE  LET o == AddRow(output, factor, right, first, offset)
           IN  /\ o \in [0 .. width - 1 -> Digit]
               /\ \A k \in 0 .. width - 1 : k > offset + LIMBS => o[k] = output[k]
               /\ Sum(output, width) \in Int
               /\ Sum(o, width) = Sum(output, width)
                      + factor * (Power(offset) * (Sum(right, LIMBS) - Sum(right, first)))
<1> DEFINE n == LIMBS - first
           column == [j \in 0 .. n - 1 |-> factor * right[first + j] + output[offset + first + j]]
           acc == Accumulators(column, n)
           low == Low(acc)
           base == offset + first
           top == offset + LIMBS
           o == AddRow(output, factor, right, first, offset)
           window == Window(right, first, offset, width)
           full == [k \in 0 .. width - 1 |-> output[k] + factor * window[k]]
<1>1. n \in Nat /\ 1 <= n /\ n <= 10
    BY Width
<1>2. \A k \in 0 .. width - 1 : output[k] \in Digit /\ output[k] \in Nat
    BY Radix DEF Digit
<1>3. \A k \in 0 .. LIMBS - 1 : right[k] \in Digit /\ right[k] \in Nat
    BY LimbIsInt
<1>4. \A j \in 0 .. n - 1 : column[j] \in Column
  <2> SUFFICES ASSUME NEW j \in 0 .. n - 1
               PROVE  factor * right[first + j] + output[offset + first + j] \in Column
      OBVIOUS
  <2>1. first + j \in 0 .. LIMBS - 1 /\ offset + first + j \in 0 .. width - 1
      BY Width
  <2> QED
      BY <1>2, <1>3, <2>1, ProductColumn
<1>5. o = [k \in 0 .. width - 1 |->
              CASE k - offset \in first .. LIMBS - 1 -> acc[k - offset - first] % RADIX
                [] k = top -> acc[n - 1] \div RADIX
                [] OTHER -> output[k]]
    BY DEF AddRow
<1>6. \A j \in 0 .. n - 1 : column[j] = factor * right[first + j] + output[offset + first + j]
    OBVIOUS
<1> HIDE DEF column, o
<1>7. PICK carry : Carries(column, low, n, carry) /\ carry[n] = acc[n - 1] \div RADIX
    BY <1>1, <1>4, CarryChain
<1>8. /\ \A j \in 0 .. n : carry[j] \in Digit
      /\ carry[0] = 0
      /\ \A j \in 0 .. n - 1 : /\ low[j] \in Digit
                               /\ column[j] + carry[j] = low[j] + RADIX * carry[j + 1]
    BY <1>7 DEF Carries
<1>9. \A j \in 0 .. n - 1 : low[j] = acc[j] % RADIX
  <2>1. DOMAIN low = 0 .. n - 1 /\ DOMAIN low = DOMAIN acc
      BY <1>7 DEF Carries, Low
  <2> QED
      BY <2>1 DEF Low
<1> HIDE DEF acc, low
<1> DEFINE c == [k \in 0 .. width |-> IF base <= k /\ k <= top THEN carry[k - base] ELSE 0]
<1>10. \A k \in 0 .. width : c[k] = IF base <= k /\ k <= top THEN carry[k - base] ELSE 0
    OBVIOUS
<1>11. c = [k \in 0 .. width |-> c[k]]
    OBVIOUS
<1> HIDE DEF c
<1>12. \A k \in 0 .. width : c[k] \in Digit
  <2> SUFFICES ASSUME NEW k \in 0 .. width PROVE c[k] \in Digit
      OBVIOUS
  <2>1. 0 \in Digit
      BY Radix DEF Digit
  <2>2. CASE base <= k /\ k <= top
    <3>1. k - base \in 0 .. n
        BY <2>2, Width
    <3> QED
        BY <1>8, <1>10, <2>2, <3>1
  <2> QED
      BY <1>10, <2>1, <2>2
<1>13. c[0] = 0 /\ c[width] = 0
  <2>1. base = 0 \/ ~ (base <= 0)
      BY Width
  <2>2. base = 0 => 0 - base = 0
      OBVIOUS
  <2>3. 0 \in 0 .. width /\ width \in 0 .. width /\ ~ (width <= top)
      BY Width
  <2> QED
      BY <1>8, <1>10, <2>1, <2>2, <2>3
<1>14. /\ \A k \in 0 .. width - 1 :
              window[k] = IF k - offset >= first /\ k - offset < LIMBS THEN right[k - offset] ELSE 0
       /\ \A k \in 0 .. width - 1 : window[k] \in Nat
       /\ Sum(window, width) = Power(offset) * (Sum(right, LIMBS) - Sum(right, first))
  <2>1. first <= LIMBS /\ offset + LIMBS <= width
      BY Width
  <2>2. /\ \A k \in 0 .. width - 1 : window[k] \in Nat
        /\ Sum(window, width) = Power(offset) * (Sum(right, LIMBS) - Sum(right, first))
      BY <2>1, WindowSum
  <2> QED
      BY <2>2 DEF Window
<1> HIDE DEF window
<1>15. \A k \in 0 .. width - 1 : full[k] = output[k] + factor * window[k] /\ full[k] \in Int
    BY <1>2, <1>14, Radix DEF Digit
<1> HIDE DEF full
<1>16. ASSUME NEW k \in 0 .. width - 1
       PROVE  /\ o[k] \in Digit /\ (k > top => o[k] = output[k])
              /\ full[k] + c[k] = o[k] + RADIX * c[k + 1]
  <2>1. RADIX * 0 = 0 /\ factor * 0 = 0
      BY Radix DEF Digit
  <2>2. k \in 0 .. width /\ k + 1 \in 0 .. width
      OBVIOUS
  <2>3. CASE k < base
    <3>1. ~ (k - offset >= first) /\ k # top /\ ~ (base <= k) /\ ~ (k > top)
        BY <2>3, Width
    <3>2. o[k] = output[k]
        BY <1>5, <3>1
    <3>3. window[k] = 0 /\ c[k] = 0
        BY <1>10, <1>14, <2>2, <3>1
    <3>4. c[k + 1] = 0
      <4>1. CASE k + 1 = base
        <5>1. base <= k + 1 /\ k + 1 <= top /\ (k + 1) - base = 0
            BY <4>1, Width
        <5> QED
            BY <1>8, <1>10, <2>2, <5>1
      <4>2. CASE k + 1 # base
        <5>1. ~ (base <= k + 1)
            BY <2>3, <4>2, Width
        <5> QED
            BY <1>10, <2>2, <5>1
      <4> QED
          BY <4>1, <4>2
    <3> QED
        BY <1>2, <1>15, <2>1, <3>1, <3>2, <3>3, <3>4
  <2>4. CASE base <= k /\ k < top
    <3> DEFINE j == k - base
    <3>1. /\ j \in 0 .. n - 1 /\ first + j = k - offset /\ offset + first + j = k
          /\ k - offset \in first .. LIMBS - 1 /\ k - offset - first = j
          /\ k - offset >= first /\ k - offset < LIMBS
          /\ base <= k /\ k <= top /\ base <= k + 1 /\ k + 1 <= top /\ (k + 1) - base = j + 1
          /\ ~ (k > top)
        BY <2>4, Width
    <3>2. o[k] = low[j]
        BY <1>5, <1>9, <3>1
    <3>3. c[k] = carry[j] /\ c[k + 1] = carry[j + 1]
        BY <1>10, <2>2, <3>1
    <3>4. window[k] = right[first + j]
        BY <1>14, <3>1
    <3>5. full[k] = column[j]
      <4>1. factor * right[first + j] \in Int /\ output[k] \in Int
          BY <1>2, <1>14, <3>4, Radix DEF Digit
      <4> QED
          BY <1>6, <1>15, <3>1, <3>4, <4>1
    <3> QED
        BY <1>8, <3>1, <3>2, <3>3, <3>5
  <2>5. CASE k = top
    <3>1. /\ ~ (k - offset \in first .. LIMBS - 1) /\ ~ (k - offset < LIMBS)
          /\ base <= k /\ k <= top /\ k - base = n /\ ~ (k + 1 <= top) /\ ~ (k > top)
          /\ n \in 0 .. n
        BY <2>5, <1>1, Width
    <3>2. o[k] = carry[n]
        BY <1>5, <1>7, <2>5, <3>1
    <3>3. c[k] = carry[n] /\ c[k + 1] = 0 /\ window[k] = 0 /\ output[k] = 0
        BY <1>10, <1>14, <2>2, <2>5, <3>1
    <3>4. carry[n] \in Digit /\ carry[n] \in Int
        BY <1>8, <3>1, Radix DEF Digit
    <3>5. full[k] = output[k] + factor * window[k]
        BY <1>15
    <3>6. full[k] = 0
        BY <2>1, <3>3, <3>5
    <3> QED
        BY <2>1, <3>1, <3>2, <3>3, <3>4, <3>6
  <2>6. CASE k > top
    <3>1. /\ ~ (k - offset \in first .. LIMBS - 1) /\ ~ (k - offset < LIMBS) /\ k # top
          /\ ~ (k <= top) /\ ~ (k + 1 <= top)
        BY <2>6, Width
    <3>2. o[k] = output[k]
        BY <1>5, <3>1
    <3>3. c[k] = 0 /\ c[k + 1] = 0 /\ window[k] = 0
        BY <1>10, <1>14, <2>2, <3>1
    <3> QED
        BY <1>2, <1>15, <2>1, <3>2, <3>3
  <2> QED
      BY <2>3, <2>4, <2>5, <2>6, Width
<1>17. o \in [0 .. width - 1 -> Digit]
    BY <1>5, <1>16
<1>18. Carries(full, o, width, c)
  <2>1. c \in [0 .. width -> Digit]
      BY <1>11, <1>12
  <2> QED
      BY <1>13, <1>16, <1>17, <2>1 DEF Carries
<1>19. Sum(full, width) = Sum(o, width) + Power(width) * c[width]
  <2>1. 1 <= width
      BY Width
  <2> QED
      BY <1>15, <1>18, <2>1, ExactSum
<1>20. Sum(output, width) \in Int /\ Sum(full, width) = Sum(output, width) + factor * Sum(window, width)
  <2>1. factor \in Int
      BY Radix DEF Digit
  <2>2. Linear(output, window, full, factor, width)
      BY <1>2, <1>14, <1>15 DEF Linear
  <2> QED
      BY <2>1, <2>2, SumLinear
<1>21. Sum(o, width) \in Int
    BY <1>17, SumBound, Powers
<1>22. Power(width) * 0 = 0
    BY Powers
<1>23. \A k \in 0 .. width - 1 : k > top => o[k] = output[k]
    BY <1>16
<1> QED
    BY <1>13, <1>14, <1>17, <1>19, <1>20, <1>21, <1>22, <1>23 DEF o

-----------------------------------------------------------------------------
(* Products. *)

Wide == [0 .. 2 * LIMBS - 1 -> Digit]

\* Two operands fill a wide product.
LEMMA WideWidth ==
    2 * LIMBS \in Nat /\ 2 * LIMBS <= 10 /\ 1 <= 2 * LIMBS
BY DEF LIMBS

\* Zeros spell zero.
LEMMA ZerosSum ==
    ASSUME NEW n \in Nat, n <= 10
    PROVE  /\ Zeros(n) \in [0 .. n - 1 -> Digit] /\ Sum(Zeros(n), n) = 0
           /\ \A k \in 0 .. n - 1 : Zeros(n)[k] = 0
<1> DEFINE z == Zeros(n)
           S == {k \in Nat : k <= n => Sum(z, k) = 0}
<1>1. z = [k \in 0 .. n - 1 |-> 0]
    BY DEF Zeros
<1>2. 0 \in Digit
    BY Radix DEF Digit
<1> HIDE DEF z
<1>3. 0 \in S
    BY SumZero
<1>4. ASSUME NEW k \in Nat, k < 10, k \in S PROVE k + 1 \in S
  <2> SUFFICES ASSUME k + 1 <= n PROVE Sum(z, k + 1) = 0
      OBVIOUS
  <2>1. \A j \in 0 .. k : z[j] \in Int
      BY <1>1
  <2>2. Sum(z, k + 1) = Sum(z, k) + Power(k) * z[k]
      BY <1>4, <2>1, SumStep
  <2>3. z[k] = 0 /\ Sum(z, k) = 0 /\ Power(k) \in Nat
      BY <1>1, <1>4, Powers
  <2>4. Power(k) * 0 = 0
      BY <2>3
  <2> QED
      BY <2>2, <2>3, <2>4
<1> HIDE DEF S
<1>5. n \in S
    BY <1>3, <1>4, TenSteps
<1> QED
    BY <1>1, <1>2, <1>5 DEF S, z

\* One more word of the left operand.
LEMMA MultiplyRow ==
    ASSUME NEW left \in Limbs, NEW right \in Limbs, NEW i \in Nat, i < LIMBS,
           NEW output \in Wide, \A k \in 0 .. 2 * LIMBS - 1 : k >= i + LIMBS => output[k] = 0,
           Sum(output, 2 * LIMBS) = Sum(left, i) * Value(right),
           NEW o, o = AddRow(output, left[i], right, 0, i)
    PROVE  /\ o \in Wide /\ \A k \in 0 .. 2 * LIMBS - 1 : k >= i + 1 + LIMBS => o[k] = 0
           /\ Sum(o, 2 * LIMBS) = Sum(left, i + 1) * Value(right)
<1>1. left[i] \in Digit /\ left[i] \in Nat
    BY LimbIsInt, Width
<1>2. i + LIMBS < 2 * LIMBS /\ 0 < LIMBS /\ i + LIMBS \in 0 .. 2 * LIMBS - 1
    BY Width
<1>3. output[i + LIMBS] = 0
    BY <1>2
<1> DEFINE wide == 2 * LIMBS
           zero == 0
<1>4. zero \in Nat /\ zero < LIMBS /\ i + LIMBS < wide /\ wide \in Nat /\ wide <= 10
      /\ output \in [0 .. wide - 1 -> Digit] /\ o = AddRow(output, left[i], right, zero, i)
    BY <1>2, WideWidth DEF Wide
<1>5. Sum(right, zero) = 0
    BY SumZero
<1> HIDE DEF wide, zero
<1>6. /\ o \in [0 .. wide - 1 -> Digit]
      /\ \A k \in 0 .. wide - 1 : k > i + LIMBS => o[k] = output[k]
      /\ Sum(o, wide) = Sum(output, wide)
             + left[i] * (Power(i) * (Sum(right, LIMBS) - Sum(right, zero)))
    BY <1>1, <1>3, <1>4, Row
<1>7. Sum(right, LIMBS) = Value(right) /\ Value(right) \in Nat
    BY ValueIsSum
<1>8. /\ Sum(left, i) \in Int /\ Sum(left, i + 1) = Sum(left, i) + Power(i) * left[i]
  <2>1. i < 10 /\ \A k \in 0 .. i : left[k] \in Int
      BY LimbIsInt, Width
  <2> QED
      BY <2>1, SumStep
<1> DEFINE p == Power(i)
           x == left[i]
           v == Value(right)
           s == Sum(left, i)
<1>9. p \in Int /\ x \in Int /\ v \in Int /\ s \in Int
    BY <1>1, <1>7, <1>8, Powers, Width
<1>10. Sum(o, wide) = s * v + x * (p * (v - 0)) /\ Sum(left, i + 1) = s + p * x
    BY <1>5, <1>6, <1>7, <1>8 DEF wide
<1> HIDE DEF p, x, v, s
<1>11. s * v + x * (p * (v - 0)) = (s + p * x) * v
    BY <1>9, SMT
<1>12. Sum(o, 2 * LIMBS) = Sum(left, i + 1) * Value(right)
    BY <1>10, <1>11 DEF wide, v
<1>13. \A k \in 0 .. 2 * LIMBS - 1 : k >= i + 1 + LIMBS => o[k] = 0
    BY <1>6, Width DEF wide
<1> QED
    BY <1>6, <1>12, <1>13 DEF Wide, wide

\* multiply_wide loses no bit of the product.
LEMMA WideProduct ==
    ASSUME NEW left \in Limbs, NEW right \in Limbs
    PROVE  /\ multiply_wide(left, right) \in Wide
           /\ Sum(multiply_wide(left, right), 2 * LIMBS) = Value(left) * Value(right)
<1> DEFINE a0 == Zeros(2 * LIMBS)
           a1 == AddRow(a0, left[0], right, 0, 0)
           a2 == AddRow(a1, left[1], right, 0, 1)
           a3 == AddRow(a2, left[2], right, 0, 2)
           a4 == AddRow(a3, left[3], right, 0, 3)
           a5 == AddRow(a4, left[4], right, 0, 4)
           Inv(o, i) == /\ o \in Wide
                        /\ \A k \in 0 .. 2 * LIMBS - 1 : k >= i + LIMBS => o[k] = 0
                        /\ Sum(o, 2 * LIMBS) = Sum(left, i) * Value(right)
<1>1. multiply_wide(left, right) = a5
    BY DEF multiply_wide
<1>2. Inv(a0, 0)
  <2>1. Value(right) \in Nat
      BY ValueIsSum
  <2>2. 0 * Value(right) = 0
      BY <2>1
  <2>3. Sum(left, 0) = 0
      BY SumZero
  <2>4. /\ a0 \in Wide /\ Sum(a0, 2 * LIMBS) = 0
        /\ \A k \in 0 .. 2 * LIMBS - 1 : a0[k] = 0
      BY WideWidth, ZerosSum DEF Wide
  <2> QED
      BY <2>2, <2>3, <2>4
<1>3. ASSUME NEW i \in Nat, i < LIMBS, NEW o, Inv(o, i), NEW n, n = AddRow(o, left[i], right, 0, i)
      PROVE  Inv(n, i + 1)
    BY <1>3, MultiplyRow
<1>4. 0 < LIMBS /\ 1 < LIMBS /\ 2 < LIMBS /\ 3 < LIMBS /\ 4 < LIMBS
    BY Five
<1> HIDE DEF a0, Inv
<1>5. Inv(a1, 0 + 1)
    BY <1>2, <1>3, <1>4
<1> HIDE DEF a1
<1>6. Inv(a2, 1 + 1)
    BY <1>3, <1>4, <1>5
<1> HIDE DEF a2
<1>7. Inv(a3, 2 + 1)
    BY <1>3, <1>4, <1>6
<1> HIDE DEF a3
<1>8. Inv(a4, 3 + 1)
    BY <1>3, <1>4, <1>7
<1> HIDE DEF a4
<1>9. Inv(a5, 4 + 1)
    BY <1>3, <1>4, <1>8
<1> HIDE DEF a5
<1>10. 4 + 1 = LIMBS
    BY Five
<1>11. Inv(a5, LIMBS)
    BY <1>9, <1>10
<1>12. Value(left) = Sum(left, LIMBS)
    BY ValueIsSum
<1> QED
    BY <1>1, <1>11, <1>12 DEF Inv

\* multiply_five_by_u32 loses no bit of the product.
LEMMA SmallProduct ==
    ASSUME NEW value \in Limbs, NEW multiplier \in Digit
    PROVE  /\ multiply_five_by_u32(value, multiplier) \in [0 .. LIMBS -> Digit]
           /\ Sum(multiply_five_by_u32(value, multiplier), LIMBS + 1) = multiplier * Value(value)
<1> DEFINE width == LIMBS + 1
           zero == 0
           z == Zeros(width)
           o == AddRow(z, multiplier, value, zero, zero)
<1>1. width \in Nat /\ width <= 10 /\ zero \in Nat /\ zero < LIMBS /\ zero + LIMBS < width
      /\ width - 1 = LIMBS /\ LIMBS \in 0 .. width - 1 /\ zero + LIMBS = LIMBS
    BY Width
<1>2. multiply_five_by_u32(value, multiplier) = o
    BY DEF multiply_five_by_u32
<1>3. Sum(value, zero) = 0 /\ Power(zero) = 1
    BY SumZero, Powers
<1> HIDE DEF width, zero, z
<1>4. z \in [0 .. width - 1 -> Digit] /\ Sum(z, width) = 0 /\ z[zero + LIMBS] = 0
    BY <1>1, ZerosSum DEF z
<1>5. /\ o \in [0 .. width - 1 -> Digit]
      /\ Sum(o, width) = Sum(z, width)
             + multiplier * (Power(zero) * (Sum(value, LIMBS) - Sum(value, zero)))
    BY <1>1, <1>4, Row
<1>6. Sum(value, LIMBS) = Value(value) /\ Value(value) \in Nat /\ multiplier \in Nat
    BY ValueIsSum, Radix DEF Digit
<1> HIDE DEF o
<1>7. multiplier * Value(value) \in Int /\ 1 * (Value(value) - 0) = Value(value)
    BY <1>6
<1>8. Sum(o, width) = 0 + multiplier * (1 * (Value(value) - 0))
    BY <1>3, <1>4, <1>5, <1>6
<1> QED
    BY <1>1, <1>2, <1>5, <1>7, <1>8 DEF width

-----------------------------------------------------------------------------
(* Squares. *)

\* Quotient and remainder are unique.
LEMMA Uniqueness ==
    ASSUME NEW w \in Nat \ {0}, NEW n \in Int, NEW a \in 0 .. w - 1, NEW q \in Int, n = a + w * q
    PROVE  n % w = a /\ n \div w = q
<1> DEFINE b == n % w
           p == n \div w
<1>1. p \in Int /\ b \in 0 .. w - 1
    BY SMT
<1>2. p = n \div w /\ b = n % w
    OBVIOUS
<1> HIDE DEF p, b
<1>3. n = w * p + b
    BY <1>1, <1>2, SMT
<1>4. w * (p - q) = a - b /\ w * (q - p) = b - a
  <2>1. w * (p - q) = w * p - w * q /\ w * (q - p) = w * q - w * p
      BY <1>1, SMT
  <2>2. w * p \in Int /\ w * q \in Int
      BY <1>1
  <2> QED
      BY <1>1, <1>3, <2>1, <2>2
<1>5. p = q
  <2>1. ASSUME NEW x \in Int, x > 0, w * x < w PROVE FALSE
    <3>1. x \in Nat /\ x # 0 /\ w \in Nat
        BY <2>1
    <3>2. w * x >= w /\ w * x \in Int
        BY <3>1, AtLeastOnce
    <3> QED
        BY <2>1, <3>2
  <2>2. ~ (p - q > 0)
      BY <1>1, <1>4, <2>1
  <2>3. ~ (q - p > 0)
      BY <1>1, <1>4, <2>1
  <2> QED
      BY <1>1, <2>2, <2>3
<1>6. w * q \in Int
    OBVIOUS
<1> QED
    BY <1>1, <1>3, <1>5, <1>6 DEF p, b

\* A column is two words.
LEMMA TwoWords ==
    ASSUME NEW c \in Column
    PROVE  c % RADIX \in Digit /\ c \div RADIX \in Digit /\ c = (c % RADIX) + RADIX * (c \div RADIX)
<1> DEFINE R == RADIX
           q == c \div R
           r == c % R
<1>1. R \in Nat \ {0} /\ R >= 16 /\ c \in Nat /\ c <= R * R - R /\ R * R \in Nat
    BY Radix DEF Column
<1>2. q \in Nat /\ r \in 0 .. R - 1 /\ r + R * q = c
    BY <1>1, Division
<1>3. 0 .. R - 1 = Digit
    BY DEF Digit
<1> HIDE DEF R, q, r
<1>4. q < R
  <2> SUFFICES ASSUME q >= R PROVE FALSE
      BY <1>1, <1>2
  <2>1. (q - R) * R >= 0 /\ (q - R) * R = R * q - R * R
      BY <1>1, <1>2, SMT
  <2>2. R * q \in Int
      BY <1>1, <1>2
  <2> QED
      BY <1>1, <1>2, <2>1, <2>2
<1>5. q \in 0 .. R - 1 /\ r \in 0 .. R - 1 /\ c = r + R * q
  <2>1. R * q \in Int
      BY <1>1, <1>2
  <2> QED
      BY <1>1, <1>2, <1>4, <2>1
<1>6. q \in Digit /\ r \in Digit
    BY <1>3, <1>5
<1> QED
    BY <1>5, <1>6 DEF q, r, R

\* The square of a word is two words.
LEMMA SquareOfWord ==
    ASSUME NEW y \in Digit
    PROVE  /\ (y * y) % RADIX \in Digit /\ (y * y) \div RADIX \in Digit
           /\ y * y = ((y * y) % RADIX) + RADIX * ((y * y) \div RADIX)
<1> DEFINE p == y * y
<1>1. p + 0 \in Column /\ p \in Nat
  <2>1. 0 \in Digit
      BY Radix DEF Digit
  <2> QED
      BY <2>1, ProductColumn
<1> HIDE DEF p
<1>2. p \in Column
    BY <1>1
<1>3. p % RADIX \in Digit /\ p \div RADIX \in Digit /\ p = (p % RADIX) + RADIX * (p \div RADIX)
    BY <1>2, TwoWords
<1> QED
    BY <1>3 DEF p

\* The squares of the words, as square_wide adds them.
Diagonals(value) ==
    [k \in 0 .. 2 * LIMBS - 1 |->
        IF k % 2 = 0 THEN (value[k \div 2] * value[k \div 2]) % RADIX
        ELSE (value[k \div 2] * value[k \div 2]) \div RADIX]

\* Each takes two words and stands at the square of its place.
LEMMA DiagonalStep ==
    ASSUME NEW value \in Limbs, NEW i \in Nat, i < LIMBS
    PROVE  /\ \A k \in 0 .. 2 * LIMBS - 1 : Diagonals(value)[k] \in Digit
           /\ Sum(Diagonals(value), 2 * i) \in Int
           /\ Sum(Diagonals(value), 2 * (i + 1))
                  = Sum(Diagonals(value), 2 * i) + (Power(i) * value[i]) * (Power(i) * value[i])
<1> DEFINE d == Diagonals(value)
           x == value[i]
           e == 2 * i
           W == 2 * LIMBS
<1>1. \A k \in 0 .. W - 1 :
          d[k] = IF k % 2 = 0 THEN (value[k \div 2] * value[k \div 2]) % RADIX
                 ELSE (value[k \div 2] * value[k \div 2]) \div RADIX
    BY DEF Diagonals
<1>2. ASSUME NEW j \in 0 .. LIMBS - 1
      PROVE  (value[j] * value[j]) % RADIX \in Digit /\ (value[j] * value[j]) \div RADIX \in Digit
  <2>1. value[j] \in Digit
      BY LimbIsInt
  <2> QED
      BY <2>1, SquareOfWord
<1> HIDE DEF d
<1>3. \A k \in 0 .. W - 1 : d[k] \in Digit
  <2> SUFFICES ASSUME NEW k \in 0 .. W - 1 PROVE d[k] \in Digit
      OBVIOUS
  <2>1. k \div 2 \in 0 .. LIMBS - 1
      BY Width
  <2>2. /\ (value[k \div 2] * value[k \div 2]) % RADIX \in Digit
        /\ (value[k \div 2] * value[k \div 2]) \div RADIX \in Digit
      BY <1>2, <2>1
  <2> QED
      BY <1>1, <2>2
<1>4. /\ e \in Nat /\ e < 10 /\ e + 1 < 10 /\ e \in 0 .. W - 1 /\ e + 1 \in 0 .. W - 1
      /\ e % 2 = 0 /\ (e + 1) % 2 # 0 /\ e \div 2 = i /\ (e + 1) \div 2 = i
      /\ (e + 1) + 1 = 2 * (i + 1) /\ i \in 0 .. LIMBS - 1 /\ i + i = e /\ i + i <= 10
      /\ W \in Nat
    BY WideWidth, Width
<1> DEFINE lo == (x * x) % RADIX
           hi == (x * x) \div RADIX
<1>5. d[e] = lo /\ d[e + 1] = hi
    BY <1>1, <1>4
<1>6. x * x = lo + RADIX * hi /\ lo \in Digit /\ hi \in Digit
  <2>1. x \in Digit
      BY <1>4, LimbIsInt
  <2> HIDE DEF x
  <2> QED
      BY <2>1, SquareOfWord
<1> HIDE DEF lo, hi, e, W
<1>7. \A k \in 0 .. e + 1 : d[k] \in Int
  <2>1. \A k \in 0 .. e + 1 : k \in 0 .. W - 1
      BY <1>4
  <2> QED
      BY <1>3, <2>1, Radix DEF Digit
<1>8. Sum(d, e + 1) = Sum(d, e) + Power(e) * lo /\ Sum(d, e) \in Int
  <2>1. \A k \in 0 .. e : d[k] \in Int
      BY <1>4, <1>7
  <2> QED
      BY <1>4, <1>5, <2>1, SumStep
<1>9. Sum(d, (e + 1) + 1) = Sum(d, e + 1) + Power(e + 1) * hi
    BY <1>4, <1>5, <1>7, SumStep
<1>10. Power(e) = Power(i) * Power(i) /\ Power(e + 1) = RADIX * Power(e)
    BY <1>4, PowerPlus, Powers
<1> DEFINE p == Power(i)
<1>11. p \in Int /\ x \in Int /\ lo \in Int /\ hi \in Int /\ RADIX \in Int
  <2>1. p \in Nat
      BY <1>4, Width, Powers
  <2> QED
      BY <1>4, <1>6, <2>1, LimbIsInt, Radix DEF Digit
<1> HIDE DEF p, x
<1>12. (p * p) * lo + (RADIX * (p * p)) * hi = (p * p) * (lo + RADIX * hi)
    BY <1>11, SMT
<1>13. (p * p) * (x * x) = (p * x) * (p * x)
    BY <1>11, SMT
<1>14. (p * p) * lo \in Int /\ (RADIX * (p * p)) * hi \in Int
    BY <1>11, SMT
<1>15. Power(e) = p * p /\ Power(e + 1) = RADIX * (p * p)
    BY <1>10 DEF p
<1>16. Sum(d, (e + 1) + 1) = Sum(d, e) + (p * x) * (p * x)
    BY <1>6, <1>8, <1>9, <1>12, <1>13, <1>14, <1>15
<1> QED
    BY <1>3, <1>4, <1>8, <1>16 DEF d, e, W, p, x

\* After i rows, output holds the cross products that have a factor among
\* the words below i: with the squares of those, all but a smaller square.
HalfSquared(output, value, i) ==
    /\ output \in Wide
    /\ \A k \in 0 .. 2 * LIMBS - 1 : k >= i + LIMBS => output[k] = 0
    /\ 2 * Sum(output, 2 * LIMBS) + Sum(Diagonals(value), 2 * i)
           = Value(value) * Value(value)
             - (Value(value) - Sum(value, i)) * (Value(value) - Sum(value, i))

\* One row of cross products.
LEMMA CrossRow ==
    ASSUME NEW value \in Limbs, NEW i \in Nat, i + 1 < LIMBS,
           NEW output, HalfSquared(output, value, i),
           NEW o, o = AddRow(output, value[i], value, i + 1, i)
    PROVE  HalfSquared(o, value, i + 1)
<1> DEFINE V == Value(value)
           wide == 2 * LIMBS
           next == i + 1
<1>1. /\ i < LIMBS /\ i + LIMBS < wide /\ next \in Nat /\ next < LIMBS
      /\ i + LIMBS \in 0 .. wide - 1 /\ wide \in Nat /\ wide <= 10
    BY Width, WideWidth
<1>2. /\ value[i] \in Digit /\ output[i + LIMBS] = 0 /\ output \in [0 .. wide - 1 -> Digit]
      /\ o = AddRow(output, value[i], value, next, i)
  <2>1. i \in 0 .. LIMBS - 1 /\ i + LIMBS >= i + LIMBS
      BY <1>1, Width
  <2> QED
      BY <1>1, <2>1, LimbIsInt DEF Wide, HalfSquared
<1> HIDE DEF wide, next
<1>3. /\ o \in [0 .. wide - 1 -> Digit]
      /\ \A k \in 0 .. wide - 1 : k > i + LIMBS => o[k] = output[k]
      /\ Sum(output, wide) \in Int
      /\ Sum(o, wide) = Sum(output, wide)
             + value[i] * (Power(i) * (Sum(value, LIMBS) - Sum(value, next)))
  <2>1. /\ wide \in Nat /\ wide <= 10 /\ next \in Nat /\ next < LIMBS /\ i \in Nat
        /\ i + LIMBS < wide /\ value \in Limbs /\ value[i] \in Digit
        /\ output \in [0 .. wide - 1 -> Digit] /\ output[i + LIMBS] = 0
      BY <1>1, <1>2
  <2> QED
      BY <1>2, <2>1, Row
<1>4. Sum(value, LIMBS) = V /\ V \in Int
    BY ValueIsSum
<1>5. Sum(value, i) \in Int /\ Sum(value, next) = Sum(value, i) + Power(i) * value[i]
  <2>1. i < 10 /\ \A k \in 0 .. i : value[k] \in Int
      BY <1>1, LimbIsInt, Width
  <2> QED
      BY <2>1, SumStep DEF next
<1>6. /\ Sum(Diagonals(value), 2 * i) \in Int
      /\ Sum(Diagonals(value), 2 * next)
             = Sum(Diagonals(value), 2 * i) + (Power(i) * value[i]) * (Power(i) * value[i])
    BY <1>1, DiagonalStep DEF next
<1> DEFINE p == Power(i)
           x == value[i]
           s == Sum(value, i)
           t == p * x
           r == V - (s + t)
           so == Sum(output, wide)
           d == Sum(Diagonals(value), 2 * i)
<1>7. p \in Int /\ x \in Int /\ s \in Int /\ so \in Int /\ d \in Int
  <2>1. p \in Nat
      BY <1>1, Width, Powers
  <2>2. x \in Nat
      BY <1>2, Radix DEF Digit
  <2> QED
      BY <1>3, <1>5, <1>6, <2>1, <2>2
<1>8. /\ Sum(o, wide) = so + x * (p * (V - (s + t)))
      /\ Sum(Diagonals(value), 2 * next) = d + t * t
      /\ Sum(value, next) = s + t
      /\ 2 * so + d = V * V - (V - s) * (V - s)
    BY <1>3, <1>4, <1>5, <1>6 DEF wide, HalfSquared
<1> HIDE DEF p, x, s, so, d, V
<1>9. t \in Int /\ r \in Int
    BY <1>4, <1>7
<1>10. x * (p * r) = t * r
    BY <1>7, <1>9, SMT
<1>11. Sum(o, wide) = so + t * r
    BY <1>8, <1>10
<1>12. V - s = r + t /\ V - Sum(value, next) = r
    BY <1>4, <1>7, <1>8, <1>9
<1> HIDE DEF t, r
<1>13. 2 * so + d = V * V - (r + t) * (r + t)
    BY <1>8, <1>12
<1>14. (r + t) * (r + t) = r * r + 2 * (t * r) + t * t
    BY <1>9, SMT
<1>15. t * r \in Int /\ t * t \in Int /\ r * r \in Int /\ V * V \in Int
    BY <1>4, <1>9
<1>16. 2 * Sum(o, wide) + Sum(Diagonals(value), 2 * next) = V * V - r * r
  <2> DEFINE tr == t * r
             tt == t * t
             rr == r * r
             vv == V * V
  <2>1. /\ Sum(o, wide) = so + tr /\ Sum(Diagonals(value), 2 * next) = d + tt
        /\ 2 * so + d = vv - (rr + 2 * tr + tt)
      BY <1>8, <1>11, <1>13, <1>14
  <2>2. tr \in Int /\ tt \in Int /\ rr \in Int /\ vv \in Int
      BY <1>15
  <2> HIDE DEF tr, tt, rr, vv
  <2>3. 2 * Sum(o, wide) + Sum(Diagonals(value), 2 * next) = vv - rr
      BY <1>7, <2>1, <2>2
  <2> QED
      BY <2>3 DEF vv, rr
<1>17. 2 * Sum(o, wide) + Sum(Diagonals(value), 2 * next)
           = V * V - (V - Sum(value, next)) * (V - Sum(value, next))
    BY <1>12, <1>16
<1>18. \A k \in 0 .. wide - 1 : k >= i + 1 + LIMBS => o[k] = 0
  <2>1. \A k \in 0 .. wide - 1 : k >= i + LIMBS => output[k] = 0
      BY DEF HalfSquared, wide
  <2>2. \A k \in 0 .. wide - 1 : k >= i + 1 + LIMBS => k > i + LIMBS /\ k >= i + LIMBS
      BY <1>1, Width
  <2> QED
      BY <1>3, <2>1, <2>2
<1> QED
    BY <1>3, <1>17, <1>18 DEF Wide, HalfSquared, wide, next, V

\* Doubling a word by a shift: the bit pushed out is the carry.
LEMMA OneDouble ==
    ASSUME NEW x \in Digit, NEW b \in Bit
    PROVE  /\ x \div (RADIX \div 2) \in Bit /\ ((2 * x) % RADIX) + b \in Digit
           /\ (x + x) + b = (((2 * x) % RADIX) + b) + RADIX * (x \div (RADIX \div 2))
<1> DEFINE R == RADIX
           H == R \div 2
           q == x \div H
           r == x % H
           n == 2 * x
           a == 2 * r
<1>1. R \in Nat \ {0} /\ x \in 0 .. R - 1 /\ R >= 16 /\ R % 2 = 0
    BY Radix, RadixAssumption DEF RadixAssumption, Digit
<1>2. b \in Int /\ 0 <= b /\ b <= 1
    BY DEF Bit
<1>3. Digit = 0 .. R - 1
    BY DEF Digit
<1> HIDE DEF R
<1>4. H \in Nat \ {0} /\ R = 2 * H
  <2>1. H \in Nat /\ (R % 2) + 2 * H = R
    <3>1. R \in Nat /\ 2 \in Nat \ {0}
        BY <1>1
    <3> QED
        BY <3>1, Division
  <2> HIDE DEF H
  <2> QED
      BY <1>1, <2>1
<1> HIDE DEF H
<1>5. x \in Nat /\ q \in Nat /\ r \in 0 .. H - 1 /\ r + H * q = x
  <2>1. x \in Nat
      BY <1>1
  <2> QED
      BY <1>4, <2>1, Division
<1> HIDE DEF q, r
<1>6. q < 2
  <2> SUFFICES ASSUME q >= 2 PROVE FALSE
      BY <1>5
  <2>1. (q - 2) * H >= 0 /\ (q - 2) * H = H * q - 2 * H
      BY <1>4, <1>5, SMT
  <2>2. H * q \in Int
      BY <1>4, <1>5
  <2> QED
      BY <1>1, <1>4, <1>5, <2>1, <2>2
<1>7. n \in Int /\ a \in 0 .. R - 1 /\ a + b \in 0 .. R - 1 /\ n = a + R * q
  <2>1. R * q = 2 * (H * q) /\ H * q \in Int
      BY <1>4, <1>5, SMT
  <2> QED
      BY <1>2, <1>4, <1>5, <2>1
<1> HIDE DEF n, a
<1>8. n % R = a
  <2>1. R \in Nat \ {0} /\ n \in Int /\ a \in 0 .. R - 1 /\ q \in Int /\ n = a + R * q
      BY <1>1, <1>5, <1>7
  <2> QED
      BY <2>1, Uniqueness, Zenon
<1>9. (x + x) + b = (a + b) + R * q
  <2>1. R * q \in Int /\ n = x + x
      BY <1>1, <1>5 DEF n
  <2> QED
      BY <1>1, <1>2, <1>7, <2>1
<1>10. q \in Bit
    BY <1>5, <1>6 DEF Bit
<1> QED
    BY <1>3, <1>7, <1>8, <1>9, <1>10 DEF n, q, H, R

Doubled(cross) ==
    [k \in 0 .. 2 * LIMBS - 1 |->
        ((2 * cross[k]) % RADIX) + (IF k = 0 THEN 0 ELSE cross[k - 1] \div (RADIX \div 2))]

\* The doubled cross products, and the top bit that is never there.
LEMMA Doubling ==
    ASSUME NEW cross \in Wide, cross[2 * LIMBS - 1] = 0
    PROVE  /\ \A k \in 0 .. 2 * LIMBS - 1 : Doubled(cross)[k] \in Digit
           /\ Sum(cross, 2 * LIMBS) \in Int
           /\ Sum(Doubled(cross), 2 * LIMBS) = 2 * Sum(cross, 2 * LIMBS)
<1> DEFINE doubled == Doubled(cross)
           W == 2 * LIMBS
           H == RADIX \div 2
           column == [k \in 0 .. W - 1 |-> cross[k] + cross[k]]
           carry == [k \in 0 .. W |-> IF k = 0 THEN 0 ELSE cross[k - 1] \div H]
<1>1. W \in Nat /\ 1 <= W /\ W <= 10
    BY WideWidth
<1>2. \A k \in 0 .. W - 1 : doubled[k] = ((2 * cross[k]) % RADIX)
                                + (IF k = 0 THEN 0 ELSE cross[k - 1] \div H)
    BY DEF Doubled
<1>3. doubled = [k \in 0 .. W - 1 |-> doubled[k]]
    BY DEF Doubled
<1>4. \A k \in 0 .. W - 1 : cross[k] \in Digit /\ cross[k] \in Int
    BY Radix DEF Digit, Wide
<1>5. cross[W - 1] = 0
    OBVIOUS
<1> HIDE DEF W, doubled
<1>6. ASSUME NEW x \in Digit, NEW b \in Bit
      PROVE  /\ x \div H \in Bit /\ ((2 * x) % RADIX) + b \in Digit
             /\ (x + x) + b = (((2 * x) % RADIX) + b) + RADIX * (x \div H)
    BY OneDouble
<1> HIDE DEF H
<1>7. /\ carry[0] = 0 /\ carry = [k \in 0 .. W |-> carry[k]]
      /\ \A k \in 0 .. W - 1 : carry[k + 1] = cross[k] \div H
  <2>1. ASSUME NEW k \in 0 .. W - 1 PROVE carry[k + 1] = cross[k] \div H
    <3>1. k + 1 \in 0 .. W /\ k + 1 # 0 /\ (k + 1) - 1 = k
        BY <1>1
    <3> QED
        BY <3>1
  <2> QED
      BY <1>1, <2>1
<1>8. \A k \in 0 .. W - 1 : doubled[k] = ((2 * cross[k]) % RADIX) + carry[k]
  <2> SUFFICES ASSUME NEW k \in 0 .. W - 1 PROVE doubled[k] = ((2 * cross[k]) % RADIX) + carry[k]
      OBVIOUS
  <2>1. carry[k] = IF k = 0 THEN 0 ELSE cross[k - 1] \div H
      BY <1>1
  <2> QED
      BY <1>2, <2>1
<1> HIDE DEF carry
<1>9. \A k \in 0 .. W : carry[k] \in Bit
  <2> SUFFICES ASSUME NEW k \in 0 .. W PROVE carry[k] \in Bit
      OBVIOUS
  <2>1. CASE k = 0
      BY <1>7, <2>1 DEF Bit
  <2>2. CASE k # 0
    <3>1. k - 1 \in 0 .. W - 1 /\ (k - 1) + 1 = k
        BY <1>1, <2>2
    <3>2. 0 \in Bit
        BY DEF Bit
    <3> QED
        BY <1>4, <1>6, <1>7, <3>1, <3>2
  <2> QED
      BY <2>1, <2>2
<1>10. \A k \in 0 .. W - 1 : /\ doubled[k] \in Digit
                             /\ (cross[k] + cross[k]) + carry[k] = doubled[k] + RADIX * carry[k + 1]
  <2> SUFFICES ASSUME NEW k \in 0 .. W - 1
               PROVE  /\ doubled[k] \in Digit
                      /\ (cross[k] + cross[k]) + carry[k] = doubled[k] + RADIX * carry[k + 1]
      OBVIOUS
  <2>1. k \in 0 .. W
      BY <1>1
  <2>2. cross[k] \in Digit /\ carry[k] \in Bit
      BY <1>4, <1>9, <2>1
  <2> QED
      BY <1>6, <1>7, <1>8, <2>2
<1>11. \A k \in 0 .. W - 1 : column[k] = cross[k] + cross[k] /\ column[k] \in Int
    BY <1>4
<1> HIDE DEF column
<1>12. Carries(column, doubled, W, carry)
  <2>1. \A k \in 0 .. W : carry[k] \in Digit
      BY <1>9, Radix DEF Bit, Digit
  <2>2. carry \in [0 .. W -> Digit]
      BY <1>7, <2>1
  <2>3. doubled \in [0 .. W - 1 -> Digit]
      BY <1>3, <1>10
  <2> QED
      BY <1>7, <1>10, <1>11, <2>2, <2>3 DEF Carries
<1>13. Sum(column, W) = Sum(doubled, W) + Power(W) * carry[W]
    BY <1>1, <1>11, <1>12, ExactSum
<1>14. carry[W] = 0
  <2>1. W - 1 \in 0 .. W - 1 /\ (W - 1) + 1 = W
      BY <1>1
  <2>2. carry[W] = 0 \div H
      BY <1>5, <1>7, <2>1
  <2>3. H \in Nat \ {0}
      BY Radix DEF H
  <2>4. 0 \div H = 0
      BY <2>3, SMT
  <2> QED
      BY <2>2, <2>4
<1>15. Sum(cross, W) \in Int /\ Sum(column, W) = Sum(cross, W) + Sum(cross, W)
  <2>1. \A k \in 0 .. W - 1 : cross[k] \in Int /\ cross[k] \in Int /\ column[k] = cross[k] + cross[k]
      BY <1>4, <1>11
  <2> QED
      BY <1>1, <2>1, SumPlus
<1>16. Sum(doubled, W) \in Int /\ Power(W) * 0 = 0
    BY <1>1, <1>10, SumBound, Powers
<1>17. Sum(doubled, W) = 2 * Sum(cross, W)
    BY <1>13, <1>14, <1>15, <1>16
<1> QED
    BY <1>10, <1>15, <1>17 DEF W, doubled

\* square_wide loses no bit of the square.
LEMMA WideSquare ==
    ASSUME NEW value \in Limbs
    PROVE  /\ square_wide(value) \in Wide
           /\ Sum(square_wide(value), 2 * LIMBS) = Value(value) * Value(value)
<1> DEFINE c0 == Zeros(2 * LIMBS)
           c1 == AddRow(c0, value[0], value, 0 + 1, 0)
           c2 == AddRow(c1, value[1], value, 1 + 1, 1)
           c3 == AddRow(c2, value[2], value, 2 + 1, 2)
           c4 == AddRow(c3, value[3], value, 3 + 1, 3)
           W == 2 * LIMBS
           V == Value(value)
           column == [k \in 0 .. W - 1 |-> Doubled(c4)[k] + Diagonals(value)[k]]
<1>1. square_wide(value) = Low(Accumulators(column, W))
  <2>1. \A k \in 0 .. W - 1 : /\ Doubled(c4)[k] = ((2 * c4[k]) % RADIX)
                                   + (IF k = 0 THEN 0 ELSE c4[k - 1] \div (RADIX \div 2))
                              /\ Diagonals(value)[k]
                                   = IF k % 2 = 0 THEN (value[k \div 2] * value[k \div 2]) % RADIX
                                     ELSE (value[k \div 2] * value[k \div 2]) \div RADIX
      BY DEF Doubled, Diagonals
  <2> QED
      BY <2>1 DEF square_wide, Doubled
<1>2. V \in Nat /\ V = Sum(value, LIMBS) /\ V < Power(LIMBS)
      /\ V = Sum(value, LIMBS - 1) + Power(LIMBS - 1) * value[LIMBS - 1]
      /\ Sum(value, LIMBS - 1) \in Nat
    BY ValueIsSum
<1>3. HalfSquared(c0, value, 0)
  <2>1. /\ c0 \in Wide /\ Sum(c0, 2 * LIMBS) = 0 /\ \A k \in 0 .. 2 * LIMBS - 1 : c0[k] = 0
      BY WideWidth, ZerosSum DEF Wide
  <2>2. Sum(Diagonals(value), 2 * 0) = 0 /\ Sum(value, 0) = 0
    <3>1. 2 * 0 = 0
        OBVIOUS
    <3> QED
        BY <3>1, SumZero
  <2>3. V * V - (V - 0) * (V - 0) = 0
    <3>1. V - 0 = V /\ V * V \in Int
        BY <1>2
    <3> HIDE DEF V
    <3> QED
        BY <3>1
  <2> QED
      BY <2>1, <2>2, <2>3 DEF HalfSquared
<1>4. 0 + 1 < LIMBS /\ 1 + 1 < LIMBS /\ 2 + 1 < LIMBS /\ 3 + 1 < LIMBS
    BY Five
<1> HIDE DEF c0, V, column, W
<1>5. HalfSquared(c1, value, 0 + 1)
    BY <1>3, <1>4, CrossRow
<1> HIDE DEF c1
<1>6. HalfSquared(c2, value, 1 + 1)
  <2>1. HalfSquared(c1, value, 1)
      BY <1>5
  <2> QED
      BY <1>4, <2>1, CrossRow
<1> HIDE DEF c2
<1>7. HalfSquared(c3, value, 2 + 1)
  <2>1. HalfSquared(c2, value, 2)
      BY <1>6
  <2> QED
      BY <1>4, <2>1, CrossRow
<1> HIDE DEF c3
<1>8. HalfSquared(c4, value, 3 + 1)
  <2>1. HalfSquared(c3, value, 3)
      BY <1>7
  <2> QED
      BY <1>4, <2>1, CrossRow
<1> HIDE DEF c4
<1> DEFINE four == LIMBS - 1
           t == Power(four) * value[four]
           d == Sum(Diagonals(value), 2 * four)
           s == Sum(c4, W)
<1>9. four \in Nat /\ four < LIMBS /\ four + 1 = LIMBS /\ four \in 0 .. LIMBS - 1
    BY Width
<1>10. /\ c4 \in Wide /\ c4[W - 1] = 0 /\ 2 * s + d = V * V - t * t
  <2>1. HalfSquared(c4, value, four)
    <3>1. four = 3 + 1
        BY Five
    <3> QED
        BY <1>8, <3>1
  <2>2. V - Sum(value, four) = t
    <3>1. value[four] \in Int /\ Power(four) \in Nat
        BY <1>9, LimbIsInt, Powers, Width
    <3>2. t \in Int
        BY <3>1
    <3> HIDE DEF t
    <3>3. V = Sum(value, four) + t
        BY <1>2 DEF t
    <3> QED
        BY <1>2, <3>2, <3>3
  <2>3. 2 * s + d = V * V - (V - Sum(value, four)) * (V - Sum(value, four))
      BY <2>1 DEF HalfSquared, V, W
  <2>4. W - 1 \in 0 .. W - 1 /\ W - 1 >= four + LIMBS
      BY Width, WideWidth DEF W
  <2>5. c4[W - 1] = 0 /\ c4 \in Wide
      BY <2>1, <2>4 DEF HalfSquared, W
  <2> HIDE DEF t, s, d
  <2> QED
      BY <2>2, <2>3, <2>5
<1>11. /\ \A k \in 0 .. W - 1 : Diagonals(value)[k] \in Digit
       /\ d \in Int /\ Sum(Diagonals(value), 2 * (four + 1)) = d + t * t
    BY <1>9, DiagonalStep DEF W
<1>12. /\ \A k \in 0 .. W - 1 : Doubled(c4)[k] \in Digit
       /\ s \in Int /\ Sum(Doubled(c4), W) = 2 * s
    BY <1>10, Doubling DEF W
<1>13. W \in Nat /\ 1 <= W /\ W <= 10 /\ W = 2 * (four + 1)
    BY <1>9, WideWidth DEF W
<1>14. \A k \in 0 .. W - 1 : /\ column[k] \in Column
                             /\ Doubled(c4)[k] \in Int /\ Diagonals(value)[k] \in Int
                             /\ column[k] = Doubled(c4)[k] + Diagonals(value)[k]
  <2>1. ASSUME NEW x \in Digit, NEW y \in Digit PROVE x + y \in Column /\ x \in Int /\ y \in Int
    <3>1. 3 * RADIX <= RADIX * RADIX /\ RADIX * RADIX \in Int
        BY Radix, SMT
    <3>2. RADIX \in Nat /\ x \in 0 .. RADIX - 1 /\ y \in 0 .. RADIX - 1 /\ WideRadix = RADIX * RADIX
        BY Radix DEF Digit
    <3> QED
        BY <3>1, <3>2 DEF Column
  <2>2. ASSUME NEW k \in 0 .. W - 1 PROVE column[k] = Doubled(c4)[k] + Diagonals(value)[k]
      BY DEF column
  <2> QED
      BY <1>11, <1>12, <2>1, <2>2
<1>15. Sum(column, W) = Sum(Doubled(c4), W) + Sum(Diagonals(value), W)
    BY <1>13, <1>14, SumPlus
<1>16. Sum(column, W) = V * V
  <2> DEFINE tt == t * t
             vv == V * V
  <2>1. /\ Sum(Doubled(c4), W) = 2 * s /\ Sum(Diagonals(value), W) = d + tt /\ 2 * s + d = vv - tt
      BY <1>10, <1>11, <1>12, <1>13
  <2>2. tt \in Int /\ vv \in Int /\ s \in Int /\ d \in Int
    <3>1. value[four] \in Int /\ Power(four) \in Nat
        BY <1>9, LimbIsInt, Powers, Width
    <3>2. t \in Int
        BY <3>1
    <3> HIDE DEF t
    <3> QED
        BY <1>2, <1>11, <1>12, <3>2
  <2> HIDE DEF tt, s, d, vv
  <2>3. Sum(column, W) = vv
      BY <1>15, <2>1, <2>2
  <2> QED
      BY <2>3 DEF vv
<1>17. V * V < Power(W)
  <2>1. Power(W) = Power(LIMBS) * Power(LIMBS)
    <3>1. LIMBS + LIMBS = W /\ LIMBS + LIMBS <= 10
        BY Width, WideWidth DEF W
    <3> QED
        BY <3>1, Width, PowerPlus
  <2> DEFINE p == Power(LIMBS)
  <2>2. p \in Nat
      BY Width, Powers
  <2>3. V < p
      BY <1>2
  <2> HIDE DEF p
  <2>4. p * p - V * V = (p - V) * (p + V) /\ (p - V) * (p + V) > 0
    <3>1. p * p - V * V = (p - V) * (p + V)
        BY <1>2, <2>2, SMT
    <3> DEFINE x == p - V
               y == p + V
    <3>2. x \in Nat /\ x >= 1 /\ y \in Nat /\ y >= 1
        BY <1>2, <2>2, <2>3
    <3> HIDE DEF x, y
    <3>3. x * y \in Nat /\ x * y >= 1
        BY <3>2, ProductIsPositive
    <3>4. (p - V) * (p + V) > 0
        BY <3>3 DEF x, y
    <3> QED
        BY <3>1, <3>4
  <2>5. p * p \in Int /\ V * V \in Int
      BY <1>2, <2>2
  <2> QED
      BY <2>1, <2>4, <2>5 DEF p
<1> DEFINE low == Low(Accumulators(column, W))
<1>18. low \in [0 .. W - 1 -> Digit] /\ Sum(low, W) = Sum(column, W)
  <2>1. Sum(column, W) < Power(W)
      BY <1>16, <1>17
  <2> QED
      BY <1>13, <1>14, <2>1, ExactChain
<1> QED
    BY <1>1, <1>16, <1>18 DEF Wide, W, V

-----------------------------------------------------------------------------
(* Reduction. *)

\* A word of the high part: the bits of x above TOP_RADIX, and below them
\* the bits of the next word, y, that its own place leaves out.
LEMMA OneSplit ==
    ASSUME NEW x \in Digit, NEW y \in Digit,
           NEW h, h = (x \div TOP_RADIX) + ((y * (RADIX \div TOP_RADIX)) % RADIX)
    PROVE  /\ h \in Digit /\ x % TOP_RADIX \in 0 .. TOP_RADIX - 1 /\ y % TOP_RADIX \in Nat
           /\ TOP_RADIX * h + (x % TOP_RADIX) = x + RADIX * (y % TOP_RADIX)
<1> DEFINE R == RADIX
           T == TOP_RADIX
           G == R \div T
           d == x \div T
           m == x % T
           e == y \div T
           u == y % T
           Gu == G * u
           yG == y * G
<1>1. R \in Nat \ {0} /\ T \in Nat \ {0} /\ R % T = 0 /\ x \in 0 .. R - 1 /\ y \in 0 .. R - 1
    BY Radix, RadixAssumption DEF RadixAssumption, Digit
<1>2. Digit = 0 .. R - 1 /\ h = d + (yG % R)
    BY DEF Digit
<1> HIDE DEF R, T
<1>3. G \in Nat /\ R = T * G
  <2>1. R \in Nat
      BY <1>1
  <2>2. G \in Nat /\ (R % T) + T * G = R
      BY <1>1, <2>1, Division
  <2> HIDE DEF G
  <2>3. T * G \in Int
      BY <1>1, <2>2
  <2> QED
      BY <1>1, <2>2, <2>3
<1> HIDE DEF G
<1>4. d \in Nat /\ m \in 0 .. T - 1 /\ m + T * d = x
  <2>1. x \in Nat
      BY <1>1
  <2> QED
      BY <1>1, <2>1, Division
<1>5. e \in Nat /\ u \in 0 .. T - 1 /\ u + T * e = y
  <2>1. y \in Nat
      BY <1>1
  <2> QED
      BY <1>1, <2>1, Division
<1> HIDE DEF d, m, e, u
<1>6. T \in Nat /\ T >= 1 /\ u \in Nat /\ u <= T - 1
    BY <1>1, <1>5
<1>7. Gu \in Nat /\ Gu <= R - G
  <2>1. G * ((T - 1) - u) >= 0 /\ G * ((T - 1) - u) = (T * G - G) - G * u
      BY <1>3, <1>6, SMT
  <2>2. G * u \in Nat
      BY <1>3, <1>6
  <2> QED
      BY <1>1, <1>3, <2>1, <2>2
<1>8. d <= G - 1
  <2> SUFFICES ASSUME d >= G PROVE FALSE
      BY <1>3, <1>4
  <2>1. (d - G) * T >= 0 /\ (d - G) * T = T * d - T * G
      BY <1>3, <1>4, <1>6, SMT
  <2>2. T * d \in Int /\ T * G \in Int
      BY <1>3, <1>4, <1>6
  <2> QED
      BY <1>1, <1>3, <1>4, <2>1, <2>2
<1>9. yG = Gu + R * e /\ yG \in Int
  <2>1. y * G = (u + T * e) * G
      BY <1>5
  <2>2. (u + T * e) * G = G * u + (T * G) * e
      BY <1>3, <1>5, <1>6, SMT
  <2>3. y * G \in Int
      BY <1>1, <1>3
  <2> QED
      BY <1>3, <2>1, <2>2, <2>3
<1>10. G >= 1
  <2> SUFFICES ASSUME G = 0 PROVE FALSE
      BY <1>3
  <2>1. T * 0 = 0
      BY <1>6
  <2> QED
      BY <1>1, <1>3, <2>1
<1>11. T * Gu = R * u
  <2>1. T * (G * u) = (T * G) * u
      BY <1>3, <1>6, SMT
  <2> QED
      BY <1>3, <2>1
<1> HIDE DEF yG, Gu
<1>12. yG % R = Gu
  <2>1. R \in Nat \ {0} /\ yG \in Int /\ Gu \in 0 .. R - 1 /\ e \in Int /\ yG = Gu + R * e
      BY <1>1, <1>3, <1>5, <1>7, <1>9, <1>10
  <2> QED
      BY <2>1, Uniqueness, Zenon
<1>13. h = d + Gu /\ h \in 0 .. R - 1
    BY <1>1, <1>2, <1>3, <1>4, <1>7, <1>8, <1>12
<1>14. T * h + m = x + R * u
  <2>1. T * (d + Gu) = T * d + T * Gu
      BY <1>4, <1>6, <1>7, SMT
  <2>2. T * d \in Int /\ R * u \in Int
      BY <1>1, <1>4, <1>6
  <2> QED
      BY <1>1, <1>4, <1>11, <1>13, <2>1, <2>2
<1>15. h \in Digit /\ m \in 0 .. T - 1 /\ u \in Nat
    BY <1>2, <1>4, <1>6, <1>13
<1> QED
    BY <1>14, <1>15, Zenon DEF R, T, m, u

\* A product is its low and its high part: the bits dropped above the n
\* high words are zero when the product is below FieldRadix * RADIX^n.
LEMMA Split ==
    ASSUME NEW n \in Nat, 1 <= n, n <= LIMBS, NEW w \in [0 .. n + LIMBS - 1 -> Digit],
           Sum(w, n + LIMBS) < FieldRadix * Power(n)
    PROVE  /\ LowWords(w) \in Limbs /\ HighWords(w, n) \in [0 .. n - 1 -> Digit]
           /\ Value(LowWords(w)) < FieldRadix
           /\ Value(LowWords(w)) + FieldRadix * Sum(HighWords(w, n), n) = Sum(w, n + LIMBS)
<1> DEFINE four == LIMBS - 1
           T == TOP_RADIX
           low == LowWords(w)
           high == HighWords(w, n)
           m(j) == w[j] % T
           L == Value(low)
           S == {k \in Nat : k <= n =>
                     /\ Sum(w, four + k) \in Int /\ Sum(high, k) \in Int
                     /\ L + FieldRadix * Sum(high, k) = Sum(w, four + k) + Power(four + k) * m(four + k)}
<1>1. four \in Nat /\ four < 10 /\ four <= 10 /\ four + 1 = LIMBS /\ n + LIMBS - 1 = four + n
      /\ four + n < 10 /\ (four + n) + 1 = n + LIMBS
  <2>1. LIMBS + LIMBS <= 10
      BY Width, WideWidth
  <2> QED
      BY <2>1, Width
<1>2. /\ low = [k \in 0 .. four |-> IF k = four THEN m(four) ELSE w[k]]
      /\ high = [k \in 0 .. n - 1 |-> (w[four + k] \div T)
                                     + ((w[four + k + 1] * (RADIX \div T)) % RADIX)]
  <2>1. \A k \in 0 .. n - 1 : LIMBS + k = four + k + 1
      BY <1>1
  <2> QED
      BY <2>1 DEF LowWords, HighWords
<1>3. \A j \in 0 .. four + n : w[j] \in Digit
    BY <1>1
<1>4. T \in Nat /\ T >= 1 /\ \A j \in 0 .. four + n : m(j) \in 0 .. T - 1 /\ m(j) \in Digit
  <2> SUFFICES ASSUME NEW j \in 0 .. four + n PROVE m(j) \in 0 .. T - 1 /\ m(j) \in Digit
      BY Radix
  <2>1. T \in Nat /\ T >= 1 /\ 16 * T <= RADIX
      BY Radix
  <2>2. w[j] \in Digit
      BY <1>3
  <2> DEFINE h == (w[j] \div TOP_RADIX) + ((w[j] * (RADIX \div TOP_RADIX)) % RADIX)
  <2>3. h = (w[j] \div TOP_RADIX) + ((w[j] * (RADIX \div TOP_RADIX)) % RADIX)
      OBVIOUS
  <2> HIDE DEF h
  <2>4. m(j) \in 0 .. T - 1
      BY <2>2, <2>3, OneSplit
  <2> HIDE DEF m
  <2> QED
      BY <2>1, <2>4, Radix DEF Digit
<1>5. ASSUME NEW k \in 0 .. n - 1
      PROVE  /\ high[k] \in Digit
             /\ T * high[k] + m(four + k) = w[four + k] + RADIX * m(four + k + 1)
  <2>1. w[four + k] \in Digit /\ w[four + k + 1] \in Digit
    <3>1. four + k \in 0 .. four + n /\ four + k + 1 \in 0 .. four + n
        BY <1>1
    <3> QED
        BY <1>3, <3>1
  <2>2. high[k] = (w[four + k] \div T) + ((w[four + k + 1] * (RADIX \div T)) % RADIX)
      BY <1>2
  <2> DEFINE x == w[four + k]
             y == w[four + k + 1]
             h == high[k]
  <2>3. x \in Digit /\ y \in Digit /\ h = (x \div T) + ((y * (RADIX \div T)) % RADIX)
      BY <2>1, <2>2
  <2> HIDE DEF x, y, h
  <2>4. h \in Digit /\ T * h + (x % T) = x + RADIX * (y % T)
      BY <2>3, OneSplit
  <2> QED
      BY <2>4, Zenon DEF x, y, h
<1> HIDE DEF m, high, low
<1>6. low \in Limbs
  <2>1. \A k \in 0 .. four : k # four => w[k] \in Digit
      BY <1>1, <1>3
  <2>2. m(four) \in Digit
    <3>1. four \in 0 .. four + n
        BY <1>1
    <3> QED
        BY <1>4, <3>1
  <2> HIDE DEF four
  <2>3. low \in [0 .. four -> Digit]
      BY <1>2, <2>1, <2>2
  <2> QED
      BY <2>3 DEF Limbs, four
<1>7. high \in [0 .. n - 1 -> Digit]
  <2>1. \A k \in 0 .. n - 1 : high[k] \in Digit
      BY <1>5
  <2>2. high = [k \in 0 .. n - 1 |-> high[k]]
      BY <1>2
  <2> HIDE DEF four
  <2> QED
      BY <2>1, <2>2
<1>8. L = Sum(w, four) + Power(four) * m(four) /\ Sum(w, four) \in 0 .. Power(four) - 1
  <2>1. L = Sum(low, four) + Power(four) * low[four]
      BY <1>6, ValueIsSum
  <2>2. low[four] = m(four) /\ \A k \in 0 .. four - 1 : low[k] = w[k] /\ w[k] \in Digit
      BY <1>1, <1>2, <1>3
  <2>3. Sum(low, four) = Sum(w, four)
      BY <1>1, <2>2, SameSum
  <2>4. Sum(w, four) \in 0 .. Power(four) - 1
      BY <1>1, <2>2, SumBound
  <2> QED
      BY <2>1, <2>2, <2>3, <2>4
<1> HIDE DEF L
<1>9. FieldRadix = T * Power(four) /\ FieldRadix \in Nat
    BY FieldSize DEF FieldRadix
<1>10. \A k \in Nat : k <= n => Power(four + k) \in Nat /\ Power(k) \in Nat
                             /\ Power(four + k) = Power(four) * Power(k)
  <2> SUFFICES ASSUME NEW k \in Nat, k <= n
               PROVE  /\ Power(four + k) \in Nat /\ Power(k) \in Nat
                      /\ Power(four + k) = Power(four) * Power(k)
      OBVIOUS
  <2>1. four + k \in Nat /\ four + k <= 10 /\ k <= 10
      BY <1>1
  <2> QED
      BY <1>1, <2>1, Powers, PowerPlus
<1> HIDE DEF four, T
<1>11. ASSUME NEW k \in Nat, k < 10, k \in S PROVE k + 1 \in S
  <2> SUFFICES ASSUME k + 1 <= n
               PROVE  /\ Sum(w, four + (k + 1)) \in Int /\ Sum(high, k + 1) \in Int
                      /\ L + FieldRadix * Sum(high, k + 1)
                             = Sum(w, four + (k + 1)) + Power(four + (k + 1)) * m(four + (k + 1))
      OBVIOUS
  <2> DEFINE j == four + k
             p == Power(j)
             h == high[k]
             x == w[j]
             a == m(j)
             b == m(j + 1)
             sh == Sum(high, k)
             sw == Sum(w, j)
             q == Power(k)
             pf == Power(four)
  <2>1. /\ k \in 0 .. n - 1 /\ k <= n /\ j \in Nat /\ j < 10 /\ four + (k + 1) = j + 1
        /\ j \in 0 .. four + n /\ j + 1 \in 0 .. four + n
      BY <1>1
  <2>2. sw \in Int /\ sh \in Int /\ L + FieldRadix * sh = sw + p * a
      BY <1>11, <2>1
  <2>3. h \in Int /\ x \in Int /\ a \in Int /\ b \in Int
    <3>1. h \in Digit /\ x \in Digit /\ a \in Digit /\ b \in Digit
        BY <1>3, <1>4, <1>5, <2>1
    <3>2. Digit \subseteq Int
        BY Radix DEF Digit
    <3> QED
        BY <3>1, <3>2
  <2>4. T * h + a = x + RADIX * b
      BY <1>5, <2>1
  <2>5. Sum(w, j + 1) = sw + p * x
    <3>1. \A i \in 0 .. j : w[i] \in Int
      <4>1. \A i \in 0 .. j : i \in 0 .. four + n
          BY <1>1, <2>1
      <4> HIDE DEF j
      <4> QED
          BY <1>3, <4>1, Radix DEF Digit
    <3> HIDE DEF j
    <3> QED
        BY <2>1, <3>1, SumStep
  <2>6. Sum(high, k + 1) = sh + q * h
    <3>1. \A i \in 0 .. k : high[i] \in Int
        BY <1>7, Radix DEF Digit
    <3> QED
        BY <1>11, <3>1, SumStep
  <2>7. p \in Nat /\ q \in Nat /\ p = pf * q /\ pf \in Nat /\ FieldRadix = T * pf
    <3>1. pf \in Nat
        BY <1>1, Powers
    <3> QED
        BY <1>9, <1>10, <2>1, <3>1
  <2>8. Power(j + 1) = RADIX * p
    <3> HIDE DEF j
    <3> QED
        BY <2>1, Powers
  <2> HIDE DEF p, h, x, a, b, sh, sw, q, pf, j
  <2>9. T \in Int /\ RADIX \in Int
      BY <1>4, Radix
  <2>10. FieldRadix * (sh + q * h) = FieldRadix * sh + p * (T * h)
    <3>1. (T * pf) * (sh + q * h) = (T * pf) * sh + (pf * q) * (T * h)
        BY <2>2, <2>3, <2>7, <2>9, SMT
    <3> QED
        BY <2>7, <3>1
  <2>11. p * (T * h) + p * a = p * x + (RADIX * p) * b
    <3>1. p * (T * h + a) = p * (T * h) + p * a
        BY <2>3, <2>7, <2>9, SMT
    <3>2. p * (x + RADIX * b) = p * x + (RADIX * p) * b
        BY <2>3, <2>7, <2>9, SMT
    <3> QED
        BY <2>4, <3>1, <3>2
  <2>12. /\ p * (T * h) \in Int /\ p * a \in Int /\ p * x \in Int /\ (RADIX * p) * b \in Int
         /\ FieldRadix * sh \in Int /\ L \in Int /\ q * h \in Int
    <3>1. L \in Int
        BY <1>6, ValueIsSum DEF L
    <3>2. T * h \in Int /\ RADIX * p \in Int
        BY <2>3, <2>7, <2>9
    <3> QED
        BY <1>9, <2>2, <2>3, <2>7, <3>1, <3>2
  <2>13. L + FieldRadix * (sh + q * h) = (sw + p * x) + (RADIX * p) * b
    <3> DEFINE f1 == FieldRadix * (sh + q * h)
               f2 == FieldRadix * sh
               f3 == p * (T * h)
               f4 == p * a
               f5 == p * x
               f6 == (RADIX * p) * b
    <3>1. f1 = f2 + f3 /\ f3 + f4 = f5 + f6 /\ L + f2 = sw + f4
        BY <2>2, <2>10, <2>11
    <3>2. f2 \in Int /\ f3 \in Int /\ f4 \in Int /\ f5 \in Int /\ f6 \in Int /\ L \in Int /\ sw \in Int
        BY <2>2, <2>12
    <3> HIDE DEF f1, f2, f3, f4, f5, f6
    <3>3. L + f1 = (sw + f5) + f6
        BY <3>1, <3>2
    <3> QED
        BY <3>3 DEF f1, f5, f6
  <2>14. /\ Sum(w, j + 1) \in Int /\ Sum(high, k + 1) \in Int
         /\ L + FieldRadix * Sum(high, k + 1) = Sum(w, j + 1) + Power(j + 1) * m(j + 1)
    <3>1. sw + p * x \in Int /\ sh + q * h \in Int
        BY <2>2, <2>12
    <3>2. L + FieldRadix * Sum(high, k + 1) = Sum(w, j + 1) + Power(j + 1) * b
        BY <2>5, <2>6, <2>8, <2>13
    <3> QED
        BY <2>5, <2>6, <3>1, <3>2 DEF b
  <2> QED
      BY <2>1, <2>14
<1>12. 0 \in S
  <2>1. Sum(high, 0) = 0 /\ four + 0 = four
      BY <1>1, SumZero
  <2>2. FieldRadix * 0 = 0 /\ Sum(w, four) \in Int /\ L \in Int
    <3>1. L \in Int
        BY <1>6, ValueIsSum DEF L
    <3>2. Power(four) \in Nat
        BY <1>1, Powers
    <3> QED
        BY <1>8, <1>9, <3>1, <3>2
  <2> QED
      BY <1>8, <2>1, <2>2
<1>13. n \in S
  <2>1. n <= 10
      BY Width
  <2> HIDE DEF S
  <2> QED
      BY <1>11, <1>12, <2>1, TenSteps
<1> DEFINE top == four + n
           t == w[top]
           a == m(top)
           d == t \div T
           p == Power(top)
           sw == Sum(w, top)
<1>14. sw \in Int /\ L + FieldRadix * Sum(high, n) = sw + p * a
    BY <1>13
<1>15. Sum(w, n + LIMBS) = sw + p * t
  <2>1. \A i \in 0 .. top : w[i] \in Int
      BY <1>3, Radix DEF Digit
  <2>2. top \in Nat /\ top < 10 /\ top + 1 = n + LIMBS
      BY <1>1
  <2> HIDE DEF top
  <2> QED
      BY <2>1, <2>2, SumStep
<1>16. t \in Nat /\ d \in Nat /\ a + T * d = t /\ a \in Nat
  <2>1. t \in Nat
    <3>1. top \in 0 .. four + n
        BY <1>1
    <3> QED
        BY <1>3, <3>1, Radix DEF Digit
  <2>2. T \in Nat \ {0}
      BY <1>4
  <2>3. a = t % T
      BY DEF m
  <2> HIDE DEF t, a
  <2> QED
      BY <2>1, <2>2, <2>3, Division
<1>17. p \in Nat /\ FieldRadix * Power(n) = T * p /\ T * p \in Int
  <2>1. p \in Nat /\ Power(n) \in Nat /\ p = Power(four) * Power(n)
      BY <1>10
  <2>2. Power(four) \in Nat /\ T \in Nat
      BY <1>1, <1>4, Powers
  <2> DEFINE x == Power(four)
             y == Power(n)
  <2>3. x \in Nat /\ y \in Nat /\ T \in Nat /\ FieldRadix = T * x /\ p = x * y
      BY <1>9, <2>1, <2>2
  <2> HIDE DEF x, y
  <2>4. (T * x) * y = T * (x * y) /\ T * (x * y) \in Int
      BY <2>3, SMT
  <2> QED
      BY <2>1, <2>3, <2>4 DEF y
<1>18. sw \in Nat
  <2>1. \A i \in 0 .. top - 1 : w[i] \in Digit
      BY <1>1, <1>3
  <2>2. top \in Nat /\ top <= 10
      BY <1>1
  <2> HIDE DEF top
  <2>3. sw \in 0 .. Power(top) - 1
      BY <2>1, <2>2, SumBound
  <2> QED
      BY <1>17, <2>3
<1> HIDE DEF t, a, d, p, sw
<1>19. d = 0
  <2> SUFFICES ASSUME d # 0 PROVE FALSE
      OBVIOUS
  <2>1. p * t = p * a + (T * p) * d
    <3>1. p * (a + T * d) = p * a + (T * p) * d
        BY <1>4, <1>16, <1>17, SMT
    <3> QED
        BY <1>16, <3>1
  <2>2. (T * p) * d >= T * p /\ (T * p) * d \in Int
    <3>1. T * p \in Nat
        BY <1>4, <1>17
    <3> QED
        BY <1>16, <3>1, AtLeastOnce
  <2>3. p * a \in Nat
      BY <1>16, <1>17
  <2> QED
      BY <1>15, <1>17, <1>18, <2>1, <2>2, <2>3
<1>20. t = a
  <2>1. T * 0 = 0
      BY <1>4
  <2> QED
      BY <1>16, <1>19, <2>1
<1>21. L < FieldRadix
  <2> DEFINE x == Power(four)
             y == m(four)
             s == Sum(w, four)
  <2>1. x \in Nat /\ s \in 0 .. x - 1 /\ L = s + x * y /\ FieldRadix = T * x
      BY <1>1, <1>8, <1>9, Powers
  <2>2. T \in Nat /\ y \in 0 .. T - 1
    <3>1. four \in 0 .. four + n
        BY <1>1
    <3> QED
        BY <1>4, <3>1
  <2> HIDE DEF x, y, s
  <2>3. x * ((T - 1) - y) >= 0 /\ x * ((T - 1) - y) = (T * x - x) - x * y
      BY <2>1, <2>2, SMT
  <2>4. x * y \in Int /\ T * x \in Int
      BY <2>1, <2>2
  <2> QED
      BY <2>1, <2>3, <2>4
<1>22. L + FieldRadix * Sum(high, n) = Sum(w, n + LIMBS)
    BY <1>14, <1>15, <1>20
<1> QED
    BY <1>6, <1>7, <1>21, <1>22 DEF L, low, high

\* Zeros above the words of a number add nothing.
LEMMA Padded ==
    ASSUME NEW n \in Nat, NEW width \in Nat, n <= width, width <= 10,
           NEW w, \A k \in 0 .. n - 1 : w[k] \in Digit,
           NEW v, \A k \in 0 .. width - 1 : v[k] = IF k < n THEN w[k] ELSE 0
    PROVE  Sum(v, width) = Sum(w, n)
<1> DEFINE part(k) == IF k < n THEN k ELSE n
           S == {k \in Nat : k <= width => Sum(v, k) = Sum(w, part(k))}
<1>1. \A k \in 0 .. n - 1 : w[k] \in Int
  <2>1. Digit \subseteq Int
      BY Radix DEF Digit
  <2> QED
      BY <2>1
<1>2. 0 \in S
  <2>1. part(0) = 0
      OBVIOUS
  <2> QED
      BY <2>1, SumZero
<1>3. ASSUME NEW k \in Nat, k < 10, k \in S PROVE k + 1 \in S
  <2> SUFFICES ASSUME k + 1 <= width PROVE Sum(v, k + 1) = Sum(w, part(k + 1))
      OBVIOUS
  <2>1. \A j \in 0 .. k : v[j] \in Int
    <3> SUFFICES ASSUME NEW j \in 0 .. k PROVE v[j] \in Int
        OBVIOUS
    <3>1. v[j] = IF j < n THEN w[j] ELSE 0
        OBVIOUS
    <3>2. CASE j < n
      <4>1. j \in 0 .. n - 1
          BY <3>2
      <4> QED
          BY <1>1, <3>1, <3>2, <4>1
    <3>3. CASE ~ (j < n)
        BY <3>1, <3>3
    <3> QED
        BY <3>2, <3>3
  <2>2. Sum(v, k + 1) = Sum(v, k) + Power(k) * v[k] /\ Sum(v, k) \in Int
      BY <1>3, <2>1, SumStep
  <2>3. Sum(v, k) = Sum(w, part(k))
      BY <1>3
  <2>4. CASE k < n
    <3>1. part(k) = k /\ part(k + 1) = k + 1 /\ v[k] = w[k]
        BY <2>4
    <3>2. \A j \in 0 .. k : w[j] \in Int
      <4>1. \A j \in 0 .. k : j \in 0 .. n - 1
          BY <2>4
      <4> QED
          BY <1>1, <4>1
    <3>3. Sum(w, k + 1) = Sum(w, k) + Power(k) * w[k]
        BY <1>3, <3>2, SumStep
    <3> QED
        BY <2>2, <2>3, <3>1, <3>3
  <2>5. CASE ~ (k < n)
    <3>1. part(k) = n /\ part(k + 1) = n /\ v[k] = 0
        BY <2>5
    <3>2. Power(k) \in Nat
        BY <1>3, Powers
    <3>3. Power(k) * 0 = 0
        BY <3>2
    <3> QED
        BY <2>2, <2>3, <3>1, <3>3
  <2> QED
      BY <2>4, <2>5
<1>4. width \in S
  <2> HIDE DEF S
  <2> QED
      BY <1>2, <1>3, TenSteps
<1>5. part(width) = n
    OBVIOUS
<1> QED
    BY <1>4, <1>5

\* The two words of the fold constant.
LEMMA FoldWords ==
    /\ FOLD_CONSTANT_LOW \in Digit /\ FOLD_CONSTANT_HIGH \in Digit
    /\ FOLD_CONSTANT_LOW \in Nat /\ FOLD_CONSTANT_HIGH \in Nat
    /\ FoldConstant = FOLD_CONSTANT_LOW + FOLD_CONSTANT_HIGH * RADIX
<1> DEFINE r == RADIX
           f == FOLD_RADIX
           s == FOLD_SUBTRAHEND
<1>1. /\ r \in Nat /\ r >= 16 /\ f \in Nat /\ f >= 1 /\ 16 * f <= r
      /\ s \in Nat /\ 1 <= s /\ s < r
    BY Radix
<1>2. /\ Digit = 0 .. r - 1 /\ FOLD_CONSTANT_LOW = r - s /\ FOLD_CONSTANT_HIGH = f - 1
      /\ FoldConstant = f * r - s
    BY DEF Digit, FOLD_CONSTANT_LOW, FOLD_CONSTANT_HIGH, FoldConstant
<1> HIDE DEF r, f, s
<1>3. (f - 1) * r = f * r - r /\ f * r \in Int
    BY <1>1, SMT
<1> QED
    BY <1>1, <1>2, <1>3 DEF r

\* accumulate_fold loses nothing when its width has room.
LEMMA Fold ==
    ASSUME NEW n \in Nat, n <= LIMBS, NEW width \in Nat, n < width, LIMBS <= width, width <= 10,
           NEW low \in Limbs, NEW high \in [0 .. n - 1 -> Digit],
           Value(low) + FoldConstant * Sum(high, n) < Power(width)
    PROVE  /\ accumulate_fold(low, high, width) \in [0 .. width - 1 -> Digit]
           /\ Sum(accumulate_fold(low, high, width), width)
                  = Value(low) + FoldConstant * Sum(high, n)
<1> DEFINE At(words, k) == IF k \in DOMAIN words THEN words[k] ELSE 0
           W == 0 .. width - 1
           a == FOLD_CONSTANT_LOW
           b == FOLD_CONSTANT_HIGH
           lowAt == [k \in W |-> At(low, k)]
           highAt == [k \in W |-> At(high, k)]
           below == [k \in W |-> At(high, k - 1)]
           column == [k \in W |-> At(low, k) + At(high, k) * FOLD_CONSTANT_LOW]
           first == Low(Accumulators(column, width))
           next == [k \in W |-> first[k] + At(high, k - 1) * FOLD_CONSTANT_HIGH]
           last == Low(Accumulators(next, width))
           V == Value(low)
           H == Sum(high, n)
<1>1. accumulate_fold(low, high, width) = last
    BY DEF accumulate_fold
<1>2. /\ \A k \in W : lowAt[k] = IF k < LIMBS THEN low[k] ELSE 0
      /\ \A k \in W : highAt[k] = IF k < n THEN high[k] ELSE 0
      /\ \A k \in W : below[k] = IF k # 0 /\ k <= n THEN high[k - 1] ELSE 0
      /\ \A k \in W : column[k] = lowAt[k] + highAt[k] * a
      /\ \A k \in W : next[k] = first[k] + below[k] * b
  <2>1. DOMAIN high = 0 .. n - 1 /\ DOMAIN low = 0 .. LIMBS - 1
      BY DEF Limbs
  <2>2. ASSUME NEW k \in W
        PROVE  /\ k \in DOMAIN low <=> k < LIMBS
               /\ k \in DOMAIN high <=> k < n
               /\ k - 1 \in DOMAIN high <=> k # 0 /\ k <= n
      BY <2>1, Width
  <2> HIDE DEF first
  <2> QED
      BY <2>2
<1>3. /\ \A k \in 0 .. LIMBS - 1 : low[k] \in Digit
      /\ \A k \in 0 .. n - 1 : high[k] \in Digit
      /\ 0 \in Digit
    BY LimbIsInt, Radix DEF Digit
<1>4. \A k \in W : lowAt[k] \in Digit /\ highAt[k] \in Digit /\ below[k] \in Digit
  <2> SUFFICES ASSUME NEW k \in W PROVE lowAt[k] \in Digit /\ highAt[k] \in Digit /\ below[k] \in Digit
      OBVIOUS
  <2>1. /\ lowAt[k] = IF k < LIMBS THEN low[k] ELSE 0
        /\ highAt[k] = IF k < n THEN high[k] ELSE 0
        /\ below[k] = IF k # 0 /\ k <= n THEN high[k - 1] ELSE 0
      BY <1>2
  <2>2. /\ k < LIMBS => k \in 0 .. LIMBS - 1
        /\ k < n => k \in 0 .. n - 1
        /\ k # 0 /\ k <= n => k - 1 \in 0 .. n - 1
      BY Width
  <2> HIDE DEF lowAt, highAt, below
  <2> QED
      BY <1>3, <2>1, <2>2
<1> HIDE DEF lowAt, highAt, below, column, first, next, last
<1>5. a \in Digit /\ b \in Digit /\ a \in Nat /\ b \in Nat /\ FoldConstant = a + b * RADIX
    BY FoldWords
<1> HIDE DEF a, b
<1>6. V = Sum(low, LIMBS) /\ V \in Nat
    BY ValueIsSum
<1>7. H \in Nat
  <2>1. n <= 10
      BY Width
  <2>2. H \in 0 .. Power(n) - 1 /\ Power(n) \in Nat
      BY <1>3, <2>1, SumBound, Powers
  <2> QED
      BY <2>2
<1>8. Sum(lowAt, width) = V /\ Sum(highAt, width) = H
    BY <1>2, <1>3, <1>6, Padded, Width
<1>9. Sum(below, width) = RADIX * H
  <2> DEFINE m == width - 1
  <2>1. m \in Nat /\ m < 10 /\ m <= 10 /\ n <= m /\ m + 1 = width
      BY Width
  <2>2. \A k \in 0 .. m - 1 : highAt[k] = IF k < n THEN high[k] ELSE 0
      BY <1>2, <2>1
  <2>3. below[0] = 0 /\ \A k \in 0 .. m - 1 : highAt[k] \in Int /\ below[k + 1] = highAt[k]
    <3>1. below[0] = 0
        BY <1>2, <2>1
    <3>2. ASSUME NEW k \in 0 .. m - 1 PROVE highAt[k] \in Int /\ below[k + 1] = highAt[k]
      <4>1. k \in W /\ k + 1 \in W /\ (k + 1 <= n <=> k < n) /\ (k + 1) - 1 = k /\ k + 1 # 0
          BY <2>1
      <4>2. below[k + 1] = highAt[k]
          BY <1>2, <4>1
      <4>3. highAt[k] \in Digit
          BY <1>4, <4>1
      <4> QED
          BY <4>2, <4>3, Radix DEF Digit
    <3> QED
        BY <3>1, <3>2
  <2> HIDE DEF m
  <2>4. Sum(highAt, m) = H
      BY <1>3, <2>1, <2>2, Padded
  <2>5. Sum(below, m + 1) = RADIX * Sum(highAt, m)
      BY <2>1, <2>3, SumShifted
  <2> QED
      BY <2>1, <2>4, <2>5
<1>10. \A k \in W : /\ lowAt[k] \in Int /\ highAt[k] \in Int /\ below[k] \in Int
                    /\ column[k] = lowAt[k] + a * highAt[k] /\ column[k] \in Column
  <2> SUFFICES ASSUME NEW k \in W
               PROVE  /\ lowAt[k] \in Int /\ highAt[k] \in Int /\ below[k] \in Int
                      /\ column[k] = lowAt[k] + a * highAt[k] /\ column[k] \in Column
      OBVIOUS
  <2> DEFINE x == lowAt[k]
             y == highAt[k]
  <2>1. x \in Digit /\ y \in Digit /\ below[k] \in Digit /\ column[k] = x + y * a
      BY <1>2, <1>4
  <2>2. Digit \subseteq Int
      BY Radix DEF Digit
  <2> HIDE DEF x, y
  <2>3. a * y + x \in Column /\ a * y \in Nat
      BY <1>5, <2>1, ProductColumn
  <2>4. y * a = a * y
      BY <1>5, <2>1, <2>2
  <2>5. column[k] = x + a * y /\ column[k] = a * y + x
      BY <2>1, <2>2, <2>3, <2>4
  <2> QED
      BY <2>1, <2>2, <2>3, <2>5 DEF x, y
<1> DEFINE aH == a * H
           bRH == b * (RADIX * H)
<1>11. aH \in Nat /\ bRH \in Nat /\ FoldConstant * H = aH + bRH
  <2>1. RADIX \in Nat
      BY Radix
  <2> HIDE DEF H
  <2>2. a * H \in Nat /\ RADIX * H \in Nat /\ b * (RADIX * H) \in Nat
      BY <1>5, <1>7, <2>1, SMT
  <2>3. (a + b * RADIX) * H = a * H + b * (RADIX * H)
      BY <1>5, <1>7, <2>1, SMT
  <2> QED
      BY <1>5, <2>2, <2>3
<1>12. Power(width) \in Nat /\ V + (aH + bRH) < Power(width)
    BY <1>11, Powers
<1>13. Sum(column, width) = V + aH
  <2>1. a \in Int
      BY <1>5
  <2>2. Linear(lowAt, highAt, column, a, width)
      BY <1>10 DEF Linear
  <2>3. Sum(column, width) = Sum(lowAt, width) + a * Sum(highAt, width)
      BY <2>1, <2>2, SumLinear
  <2> QED
      BY <1>8, <2>3
<1> HIDE DEF H, V, aH, bRH
<1>14. first \in [W -> Digit] /\ Sum(first, width) = V + aH
  <2>1. Sum(column, width) < Power(width) /\ 1 <= width
      BY <1>6, <1>11, <1>12, <1>13
  <2>2. \A k \in W : column[k] \in Column
      BY <1>10
  <2> QED
      BY <1>13, <2>1, <2>2, ExactChain DEF first
<1>15. \A k \in W : /\ first[k] \in Int /\ below[k] \in Int
                    /\ next[k] = first[k] + b * below[k] /\ next[k] \in Column
  <2> SUFFICES ASSUME NEW k \in W
               PROVE  /\ first[k] \in Int /\ below[k] \in Int
                      /\ next[k] = first[k] + b * below[k] /\ next[k] \in Column
      OBVIOUS
  <2> DEFINE x == first[k]
             y == below[k]
  <2>1. x \in Digit /\ y \in Digit /\ next[k] = x + y * b
      BY <1>2, <1>4, <1>14
  <2>2. Digit \subseteq Int
      BY Radix DEF Digit
  <2> HIDE DEF x, y
  <2>3. b * y + x \in Column /\ b * y \in Nat
      BY <1>5, <2>1, ProductColumn
  <2>4. y * b = b * y
      BY <1>5, <2>1, <2>2
  <2>5. next[k] = x + b * y /\ next[k] = b * y + x
      BY <2>1, <2>2, <2>3, <2>4
  <2> QED
      BY <2>1, <2>2, <2>3, <2>5 DEF x, y
<1>16. Sum(next, width) = V + (aH + bRH)
  <2>1. b \in Int
      BY <1>5
  <2>2. Linear(first, below, next, b, width)
      BY <1>15 DEF Linear
  <2>3. Sum(next, width) = Sum(first, width) + b * Sum(below, width)
      BY <2>1, <2>2, SumLinear
  <2>4. b * Sum(below, width) = bRH
      BY <1>9 DEF bRH, H
  <2> QED
      BY <1>6, <1>11, <1>14, <2>3, <2>4
<1>17. last \in [W -> Digit] /\ Sum(last, width) = V + (aH + bRH)
  <2>1. Sum(next, width) < Power(width) /\ 1 <= width
      BY <1>12, <1>16
  <2>2. \A k \in W : next[k] \in Column
      BY <1>15
  <2> QED
      BY <1>16, <2>1, <2>2, ExactChain DEF last
<1> QED
    BY <1>1, <1>11, <1>17 DEF V, H

\* A multiple of f below a multiple of f.
LEMMA Quotient ==
    ASSUME NEW f \in Nat, f >= 1, NEW h \in Int, NEW c \in Int, f * h < f * c
    PROVE  h < c
<1> SUFFICES ASSUME h >= c PROVE FALSE
    OBVIOUS
<1>1. f * (h - c) >= 0 /\ f * (h - c) = f * h - f * c
    BY SMT
<1>2. f * h \in Int /\ f * c \in Int
    OBVIOUS
<1> QED
    BY <1>1, <1>2

\* One fold, as numbers: high * FieldRadix becomes high * FoldConstant.
LEMMA FoldedValue ==
    ASSUME NEW total \in Nat, NEW low \in Nat, NEW high \in Nat, low + FieldRadix * high = total
    PROVE  /\ low + FoldConstant * high \in Nat /\ FoldConstant * high \in Nat
           /\ P * high \in Int /\ FieldRadix * high \in Int
           /\ total = (low + FoldConstant * high) + P * high
<1> DEFINE F == FieldRadix
           K == FoldConstant
<1>1. F \in Nat /\ K \in Nat /\ P = F - K
    BY FieldSize, FoldSize, Modulus
<1>2. low + F * high = total
    OBVIOUS
<1> HIDE DEF F, K
<1>3. (F - K) * high = F * high - K * high
    BY <1>1, SMT
<1>4. F * high \in Nat /\ K * high \in Nat /\ (F - K) * high \in Int
    BY <1>1
<1>5. low + K * high \in Nat /\ total = (low + K * high) + (F - K) * high
    BY <1>2, <1>3, <1>4
<1> QED
    BY <1>1, <1>4, <1>5 DEF F, K

\* Two folds leave a number below 2p that is congruent to the product of
\* any two operands below 4p.
LEMMA WideReduction ==
    ASSUME NEW product \in Wide, Sum(product, 2 * LIMBS) <= 16 * (P * P)
    PROVE  /\ reduce_wide_unreduced(product) \in Limbs
           /\ Value(reduce_wide_unreduced(product)) < 2 * P
           /\ \E q \in Nat : Sum(product, 2 * LIMBS)
                                 = Value(reduce_wide_unreduced(product)) + P * q
<1> DEFINE F == FieldRadix
           K == FoldConstant
           N == Sum(product, 2 * LIMBS)
           L1 == LowWords(product)
           H1 == HighWords(product, LIMBS)
           first == accumulate_fold(L1, H1, 7)
           L2 == LowWords(first)
           H2 == HighWords(first, 2)
           last == accumulate_fold(L2, H2, LIMBS)
           l1 == Value(L1)
           h1 == Sum(H1, LIMBS)
           n1 == Sum(first, 7)
           l2 == Value(L2)
           h2 == Sum(H2, 2)
           n2 == Value(last)
           p5 == Power(LIMBS)
           p2 == Power(2)
<1>1. reduce_wide_unreduced(product) = last
    BY DEF reduce_wide_unreduced
<1>2. /\ F \in Nat /\ F >= 1 /\ K \in Nat /\ K >= 1 /\ P \in Nat /\ P >= 1 /\ P = F - K
      /\ p5 \in Nat /\ 16 * F <= p5 /\ 16 * P < p5
      /\ 16 * (K * K) + 3 * K < F /\ K * K \in Nat
  <2>1. /\ F \in Nat /\ K \in Nat /\ K >= 1 /\ P \in Nat /\ P >= 1 /\ P = F - K
        /\ p5 \in Nat /\ 16 * F <= p5 /\ 16 * P < p5 /\ 16 * (K * K) + 3 * K < F
      BY FieldSize, FoldSize, Modulus
  <2> HIDE DEF F, K, p5
  <2>2. K * K \in Nat
      BY <2>1
  <2> QED
      BY <2>1, <2>2
<1>3. p2 \in Nat /\ 16 * K < p2 /\ Power(7) = p5 * p2
  <2>1. p2 = RADIX * RADIX /\ p2 \in Nat
    <3>1. 2 \in Nat /\ 2 <= 10
        OBVIOUS
    <3>2. p2 \in Nat
        BY <3>1, Powers
    <3> QED
        BY <3>2 DEF Power, R2
  <2>2. Power(7) = p5 * p2
    <3>1. LIMBS \in Nat /\ 2 \in Nat /\ LIMBS + 2 <= 10 /\ LIMBS + 2 = 7
        BY Five
    <3>2. Power(LIMBS + 2) = p5 * p2
        BY <3>1, PowerPlus
    <3> QED
        BY <3>1, <3>2
  <2> QED
      BY <2>1, <2>2, FoldSize
<1>4. N \in Nat /\ N <= 16 * (P * P)
  <2>1. \A k \in 0 .. 2 * LIMBS - 1 : product[k] \in Digit
      BY DEF Wide
  <2>2. N \in 0 .. Power(2 * LIMBS) - 1 /\ Power(2 * LIMBS) \in Nat
      BY <2>1, WideWidth, SumBound, Powers
  <2> QED
      BY <2>2
<1> DEFINE PP == P * P
           PF == P * F
<1>5. PP \in Nat /\ PF \in Nat /\ PP <= PF /\ 16 * PP < F * p5 /\ F * p5 \in Int
  <2> HIDE DEF F, K, p5
  <2>1. P * (F - P) >= 0 /\ P * (F - P) = P * F - P * P
      BY <1>2, SMT
  <2>2. P * P \in Nat /\ P * F \in Nat /\ F * p5 \in Nat
      BY <1>2
  <2>3. F * (p5 - 16 * P) = F * p5 - 16 * (P * F) /\ F * (p5 - 16 * P) >= 1
    <3>1. F * (p5 - 16 * P) = F * p5 - 16 * (P * F)
        BY <1>2, SMT
    <3> DEFINE x == p5 - 16 * P
    <3>2. x \in Nat /\ x >= 1
        BY <1>2
    <3> HIDE DEF x
    <3>3. F * x >= 1
        BY <1>2, <3>2, ProductIsPositive
    <3> QED
        BY <3>1, <3>3 DEF x
  <2> QED
      BY <2>1, <2>2, <2>3
<1>6. /\ L1 \in Limbs /\ H1 \in [0 .. LIMBS - 1 -> Digit] /\ l1 < F /\ l1 + F * h1 = N
  <2>1. LIMBS \in Nat /\ 1 <= LIMBS /\ LIMBS <= LIMBS /\ LIMBS + LIMBS = 2 * LIMBS
      BY Width
  <2>2. product \in [0 .. LIMBS + LIMBS - 1 -> Digit] /\ Sum(product, LIMBS + LIMBS) = N
      BY <2>1 DEF Wide
  <2>3. N < F * p5
    <3> HIDE DEF F, p5, N
    <3> QED
        BY <1>4, <1>5
  <2> HIDE DEF N
  <2>4. Sum(product, LIMBS + LIMBS) < FieldRadix * Power(LIMBS)
      BY <2>2, <2>3
  <2> QED
      BY <2>1, <2>2, <2>4, Split
<1>7. l1 \in Nat /\ h1 \in Nat
  <2>1. l1 \in Nat
      BY <1>6, ValueIsSum
  <2>2. \A k \in 0 .. LIMBS - 1 : H1[k] \in Digit
      BY <1>6
  <2> HIDE DEF H1
  <2>3. h1 \in 0 .. Power(LIMBS) - 1 /\ Power(LIMBS) \in Nat
      BY <2>2, Width, SumBound, Powers
  <2> QED
      BY <2>1, <2>3
<1> HIDE DEF F, K, N, L1, H1, first, L2, H2, last, l1, h1, n1, l2, h2, n2, p5, p2
<1>8. /\ l1 + K * h1 \in Nat /\ K * h1 \in Nat /\ P * h1 \in Int /\ F * h1 \in Int
      /\ N = (l1 + K * h1) + P * h1
    BY <1>4, <1>6, <1>7, FoldedValue DEF F, K
<1>9. h1 < 16 * P
  <2>1. F * h1 < F * (16 * P)
    <3>1. F * (16 * P) = 16 * (P * F) /\ F * (16 * P) \in Int
        BY <1>2, SMT
    <3>2. 16 * PP < 16 * PF
      <4>1. P * F - P * P = P * K /\ P * K >= 1
        <5>1. P * F - P * P = P * (F - P) /\ F - P = K
            BY <1>2, SMT
        <5> QED
            BY <1>2, <5>1, ProductIsPositive
      <4>2. P * F \in Int /\ P * P \in Int
          BY <1>2
      <4> QED
          BY <4>1, <4>2
    <3> HIDE DEF PP
    <3>3. F * h1 <= N
        BY <1>4, <1>6, <1>7, <1>8
    <3>4. N <= 16 * PP
        BY <1>4 DEF PP
    <3> QED
        BY <1>4, <1>5, <1>8, <3>1, <3>2, <3>3, <3>4
  <2> QED
      BY <1>2, <1>7, <2>1, Quotient
<1> DEFINE c == 1 + 16 * K
<1>10. l1 + K * h1 < F * c /\ F * c \in Int /\ c <= p2 /\ c \in Nat
  <2>1. K * (16 * P - h1) >= 0 /\ K * (16 * P - h1) = 16 * (K * P) - K * h1
      BY <1>2, <1>7, <1>9, SMT
  <2>2. K * (F - P) >= 0 /\ K * (F - P) = K * F - K * P
      BY <1>2, SMT
  <2>3. K * P \in Int /\ K * F \in Int
      BY <1>2
  <2>4. F * (1 + 16 * K) = F + 16 * (K * F)
      BY <1>2, SMT
  <2>5. F * (1 + 16 * K) \in Int
      BY <2>3, <2>4, <1>2
  <2> QED
      BY <1>2, <1>3, <1>6, <1>7, <1>8, <2>1, <2>2, <2>3, <2>4, <2>5
<1> HIDE DEF c
<1>11. F * c <= F * p2 /\ F * p2 \in Int /\ F * p2 <= p5 * p2 /\ p5 * p2 \in Int
  <2>1. F * (p2 - c) >= 0 /\ F * (p2 - c) = F * p2 - F * c
      BY <1>2, <1>3, <1>10, SMT
  <2>2. (p5 - F) * p2 >= 0 /\ (p5 - F) * p2 = p5 * p2 - F * p2
      BY <1>2, <1>3, SMT
  <2>3. F * p2 \in Int /\ p5 * p2 \in Int
      BY <1>2, <1>3
  <2> QED
      BY <1>10, <2>1, <2>2, <2>3
<1>12. first \in [0 .. 7 - 1 -> Digit] /\ n1 = l1 + K * h1
  <2> DEFINE seven == 7
  <2>1. /\ LIMBS \in Nat /\ LIMBS <= LIMBS /\ seven \in Nat /\ LIMBS < seven /\ LIMBS <= seven
        /\ seven <= 10
      BY Five
  <2>2. Value(L1) + FoldConstant * Sum(H1, LIMBS) < Power(seven)
    <3>1. l1 + K * h1 < Power(seven)
        BY <1>3, <1>8, <1>10, <1>11
    <3> QED
        BY <3>1 DEF l1, K, h1
  <2>3. first = accumulate_fold(L1, H1, seven)
      BY DEF first
  <2> HIDE DEF seven
  <2>4. /\ first \in [0 .. seven - 1 -> Digit]
        /\ Sum(first, seven) = Value(L1) + FoldConstant * Sum(H1, LIMBS)
      BY <1>6, <2>1, <2>2, <2>3, Fold
  <2> QED
      BY <2>4 DEF seven, n1, l1, K, h1
<1>13. L2 \in Limbs /\ H2 \in [0 .. 2 - 1 -> Digit] /\ l2 < F /\ l2 + F * h2 = n1
  <2> DEFINE two == 2
  <2>1. two \in Nat /\ 1 <= two /\ two <= LIMBS /\ two + LIMBS = 7
      BY Five
  <2>2. first \in [0 .. two + LIMBS - 1 -> Digit] /\ Sum(first, two + LIMBS) = n1
    <3>1. two + LIMBS - 1 = 7 - 1
        BY <2>1, Width
    <3> HIDE DEF two
    <3> QED
        BY <1>12, <2>1, <3>1, Zenon DEF n1
  <2>3. Sum(first, two + LIMBS) < FieldRadix * Power(two)
    <3>1. n1 < F * p2
        BY <1>8, <1>10, <1>11, <1>12
    <3> QED
        BY <2>2, <3>1 DEF F, p2
  <2>4. L2 = LowWords(first) /\ H2 = HighWords(first, two)
      BY DEF L2, H2
  <2> HIDE DEF two
  <2>5. /\ L2 \in Limbs /\ H2 \in [0 .. two - 1 -> Digit] /\ Value(L2) < FieldRadix
        /\ Value(L2) + FieldRadix * Sum(H2, two) = n1
      BY <2>1, <2>2, <2>3, <2>4, Split
  <2> QED
      BY <2>5 DEF two, l2, h2, F
<1>14. l2 \in Nat /\ h2 \in Nat /\ n1 \in Nat
  <2>1. l2 \in Nat
      BY <1>13, ValueIsSum DEF l2
  <2> DEFINE two == 2
  <2>2. two \in Nat /\ two <= 10 /\ \A k \in 0 .. two - 1 : H2[k] \in Digit
      BY <1>13
  <2> HIDE DEF two
  <2>3. Sum(H2, two) \in 0 .. Power(two) - 1 /\ Power(two) \in Nat
      BY <2>2, SumBound, Powers
  <2> QED
      BY <1>8, <1>12, <2>1, <2>3 DEF two, h2
<1>15. /\ l2 + K * h2 \in Nat /\ K * h2 \in Nat /\ P * h2 \in Int /\ F * h2 \in Int
       /\ n1 = (l2 + K * h2) + P * h2
    BY <1>13, <1>14, FoldedValue DEF F, K
<1>16. h2 <= 16 * K
  <2>1. F * h2 < F * c
      BY <1>10, <1>12, <1>13, <1>14, <1>15
  <2>2. h2 < c
      BY <1>2, <1>10, <1>14, <2>1, Quotient
  <2> QED
      BY <1>2, <1>14, <2>2 DEF c
<1>17. l2 + K * h2 < 2 * P
  <2>1. K * (16 * K - h2) >= 0 /\ K * (16 * K - h2) = 16 * (K * K) - K * h2
      BY <1>2, <1>14, <1>16, SMT
  <2> DEFINE KK == K * K
             Kh == K * h2
  <2>2. KK \in Nat /\ Kh \in Nat /\ Kh <= 16 * KK /\ 16 * KK + 3 * K < F
      BY <1>2, <1>15, <2>1
  <2> HIDE DEF KK, Kh
  <2>3. l2 + Kh < 2 * P
      BY <1>2, <1>13, <1>14, <2>2
  <2> QED
      BY <2>3 DEF Kh
<1>18. last \in Limbs /\ n2 = l2 + K * h2
  <2> DEFINE two == 2
  <2>1. two \in Nat /\ two <= LIMBS /\ LIMBS \in Nat /\ two < LIMBS /\ LIMBS <= LIMBS /\ LIMBS <= 10
      BY Five
  <2>2. Value(L2) + FoldConstant * Sum(H2, two) < Power(LIMBS)
    <3>1. l2 + K * h2 < p5
        BY <1>2, <1>15, <1>17
    <3> QED
        BY <3>1 DEF l2, K, h2, p5
  <2>3. last = accumulate_fold(L2, H2, LIMBS) /\ H2 \in [0 .. two - 1 -> Digit]
      BY <1>13 DEF last
  <2> HIDE DEF two
  <2>4. /\ last \in [0 .. LIMBS - 1 -> Digit]
        /\ Sum(last, LIMBS) = Value(L2) + FoldConstant * Sum(H2, two)
      BY <1>13, <2>1, <2>2, <2>3, Fold
  <2>5. last \in Limbs
      BY <2>4 DEF Limbs
  <2>6. Value(last) = Sum(last, LIMBS)
      BY <2>5, ValueIsSum
  <2> QED
      BY <2>4, <2>5, <2>6 DEF two, n2, l2, h2, K
<1>19. N = n2 + P * (h1 + h2) /\ h1 + h2 \in Nat
  <2>1. P * (h1 + h2) = P * h1 + P * h2
      BY <1>2, <1>7, <1>14, SMT
  <2> QED
      BY <1>7, <1>8, <1>12, <1>14, <1>15, <1>18, <2>1
<1> QED
    BY <1>1, <1>17, <1>18, <1>19 DEF n2, N

\* A multiplier of mul_small leaves room for the penalty of its fold.
LEMMA MultiplierSize ==
    ASSUME NEW c \in Multipliers
    PROVE  c \in Nat /\ c \in Digit /\ 4 * c < RADIX /\ (4 * c) * FOLD_SUBTRAHEND < RADIX
<1>1. c \in Nat /\ 4 * c * FOLD_SUBTRAHEND < RADIX
    BY LimbAssumption DEF LimbAssumption
<1>2. RADIX \in Nat /\ FOLD_SUBTRAHEND \in Nat /\ FOLD_SUBTRAHEND # 0 /\ 4 * c \in Nat
    BY <1>1, Radix
<1> DEFINE d == 4 * c
<1>3. d * FOLD_SUBTRAHEND >= d /\ d * FOLD_SUBTRAHEND < RADIX /\ d * FOLD_SUBTRAHEND \in Int
  <2>1. d \in Nat /\ d * FOLD_SUBTRAHEND < RADIX
      BY <1>1, <1>2
  <2> HIDE DEF d
  <2> QED
      BY <1>2, <2>1, AtLeastOnce
<1>4. d < RADIX /\ d \in Nat
  <2>1. d \in Nat
      BY <1>2
  <2> HIDE DEF d
  <2> QED
      BY <1>2, <1>3, <2>1
<1>5. c \in Digit
    BY <1>1, <1>2, <1>4 DEF Digit
<1> QED
    BY <1>1, <1>3, <1>4, <1>5

\* A single word as five.
LEMMA PenaltyValue ==
    ASSUME NEW x \in Digit
    PROVE  [Words(0) EXCEPT ![0] = x] \in Limbs /\ Value([Words(0) EXCEPT ![0] = x]) = x
<1> DEFINE z == Words(0)
           v == [z EXCEPT ![0] = x]
           rest == z[1] + RADIX * (z[2] + RADIX * (z[3] + RADIX * z[4]))
<1>1. z \in Limbs /\ Value(z) = 0
  <2>1. 0 \in Nat /\ Power(LIMBS) \in Nat /\ Power(LIMBS) >= 1
      BY Width, Powers
  <2> QED
      BY <2>1, WordsValue
<1> HIDE DEF z
<1>2. z[0] + RADIX * rest = 0
    BY <1>1 DEF Value
<1>3. v \in Limbs
    BY <1>1 DEF Limbs
<1>4. Value(v) = x + RADIX * rest
  <2>1. v[0] = x /\ v[1] = z[1] /\ v[2] = z[2] /\ v[3] = z[3] /\ v[4] = z[4]
      BY <1>1, Five DEF Limbs
  <2> HIDE DEF v
  <2> QED
      BY <2>1 DEF Value
<1>5. /\ z[0] \in Nat /\ z[1] \in Nat /\ z[2] \in Nat /\ z[3] \in Nat /\ z[4] \in Nat
  <2>1. \A k \in 0 .. LIMBS - 1 : z[k] \in Nat
      BY <1>1, LimbIsInt
  <2> QED
      BY <2>1, Five
<1>6. RADIX * rest \in Nat
  <2> DEFINE z1 == z[1]
             z2 == z[2]
             z3 == z[3]
             z4 == z[4]
             r == RADIX
  <2>1. z1 \in Nat /\ z2 \in Nat /\ z3 \in Nat /\ z4 \in Nat /\ r \in Nat
      BY <1>5, Radix
  <2> HIDE DEF z1, z2, z3, z4, r
  <2>2. z3 + r * z4 \in Nat
      BY <2>1
  <2> DEFINE a == z3 + r * z4
  <2> HIDE DEF a
  <2>3. z2 + r * a \in Nat
      BY <2>1, <2>2 DEF a
  <2> DEFINE b == z2 + r * a
  <2> HIDE DEF b
  <2>4. z1 + r * b \in Nat
      BY <2>1, <2>3 DEF b
  <2> DEFINE d == z1 + r * b
  <2> HIDE DEF d
  <2>5. r * d \in Nat
      BY <2>1, <2>4 DEF d
  <2> QED
      BY <2>5 DEF d, b, a, r, z1, z2, z3, z4
<1> HIDE DEF rest
<1>7. RADIX * rest = 0
    BY <1>2, <1>5, <1>6
<1>8. x \in Int
    BY Radix DEF Digit
<1> HIDE DEF v
<1>9. Value(v) = x
    BY <1>4, <1>7, <1>8
<1> QED
    BY <1>3, <1>9 DEF v, z

\* Two words, one place up.
LEMMA ShiftedValue ==
    ASSUME NEW lo \in Digit, NEW hi \in Digit, NEW w,
           \A k \in 0 .. LIMBS - 1 : w[k] = CASE k = 1 -> lo [] k = 2 -> hi [] OTHER -> 0
    PROVE  /\ \A k \in 0 .. LIMBS - 1 : w[k] \in Digit
           /\ Sum(w, LIMBS) = RADIX * (lo + RADIX * hi)
<1>1. w[0] = 0 /\ w[1] = lo /\ w[2] = hi /\ w[3] = 0 /\ w[4] = 0
    BY Five
<1>2. lo \in Int /\ hi \in Int /\ RADIX \in Int /\ 0 \in Digit
    BY Radix DEF Digit
<1>3. \A k \in 0 .. LIMBS - 1 : w[k] \in Digit
    BY <1>2
<1> DEFINE r == RADIX
<1>4. Sum(w, LIMBS) = r * lo + (r * r) * hi
  <2>1. /\ Term(w, 5, 0) = 1 * 0 /\ Term(w, 5, 1) = r * lo /\ Term(w, 5, 2) = (r * r) * hi
        /\ Term(w, 5, 3) = R3 * 0 /\ Term(w, 5, 4) = R4 * 0
        /\ Term(w, 5, 5) = 0 /\ Term(w, 5, 6) = 0 /\ Term(w, 5, 7) = 0
        /\ Term(w, 5, 8) = 0 /\ Term(w, 5, 9) = 0
      BY <1>1 DEF Term, Power, R2
  <2>2. R3 \in Int /\ R4 \in Int
    <3>1. r * r \in Int /\ r * (r * r) \in Int /\ r * (r * (r * r)) \in Int
        BY <1>2, SMT
    <3> QED
        BY <3>1 DEF R4, R3, R2
  <2>3. R3 * 0 = 0 /\ R4 * 0 = 0 /\ 1 * 0 = 0
      BY <2>2
  <2>4. r * lo \in Int /\ (r * r) * hi \in Int
      BY <1>2, SMT
  <2> HIDE DEF r
  <2> QED
      BY <2>1, <2>3, <2>4, Five DEF Sum
<1>5. r * (lo + r * hi) = r * lo + (r * r) * hi
    BY <1>2, SMT
<1> QED
    BY <1>3, <1>4, <1>5

\* One fold with its penalty leaves a number below 2p, congruent to the
\* product of an operand below 4p and a multiplier.
LEMMA SmallReduction ==
    ASSUME NEW product \in [0 .. LIMBS -> Digit], NEW c \in Multipliers, NEW v \in Nat,
           v < 4 * P, Sum(product, LIMBS + 1) = c * v
    PROVE  /\ reduce_small_product_unreduced(product) \in Limbs
           /\ Value(reduce_small_product_unreduced(product)) < 2 * P
           /\ \E q \in Nat : c * v = Value(reduce_small_product_unreduced(product)) + P * q
<1> DEFINE F == FieldRadix
           K == FoldConstant
           s == FOLD_SUBTRAHEND
           N == c * v
           one == 1
           H == HighWords(product, one)
           h == H[0]
           L == LowWords(product)
           l == Value(L)
           shifted == h * FOLD_RADIX
           addend == [k \in 0 .. LIMBS - 1 |->
                         CASE k = 1 -> shifted % RADIX [] k = 2 -> shifted \div RADIX [] OTHER -> 0]
           column == [k \in 0 .. LIMBS - 1 |-> L[k] + addend[k]]
           added == Low(Accumulators(column, LIMBS))
           penalty == [Words(0) EXCEPT ![0] = (h * s) % RADIX]
           difference == subtract_limbs_runtime(added, penalty)
           last == difference.words
           p5 == Power(LIMBS)
<1>1. reduce_small_product_unreduced(product) = last
  <2>1. \A k \in 0 .. LIMBS - 1 :
            addend[k] = CASE k = 1 -> shifted % RADIX [] k = 2 -> shifted \div RADIX [] OTHER -> 0
      OBVIOUS
  <2>2. column = [k \in 0 .. LIMBS - 1 |->
                     L[k] + (CASE k = 1 -> shifted % RADIX
                               [] k = 2 -> shifted \div RADIX [] OTHER -> 0)]
      BY <2>1
  <2> HIDE DEF column, addend
  <2> QED
      BY <2>2 DEF reduce_small_product_unreduced
<1>2. /\ \A k \in 0 .. LIMBS - 1 : column[k] = L[k] + addend[k]
      /\ \A k \in 0 .. LIMBS - 1 :
             addend[k] = CASE k = 1 -> shifted % RADIX [] k = 2 -> shifted \div RADIX [] OTHER -> 0
    OBVIOUS
<1> HIDE DEF column, addend, added, penalty, difference, last
<1>3. /\ F \in Nat /\ F >= 1 /\ K \in Nat /\ K >= 1 /\ P \in Nat /\ P >= 1 /\ P = F - K
      /\ p5 \in Nat /\ 16 * F <= p5 /\ 16 * P < p5 /\ (RADIX + 3) * K < F
    BY FieldSize, FoldSize, Modulus
<1>4. /\ c \in Nat /\ 4 * c < RADIX /\ (4 * c) * s < RADIX /\ s \in Nat /\ RADIX \in Nat
      /\ FOLD_RADIX \in Nat /\ K = FOLD_RADIX * RADIX - s /\ 16 * FOLD_RADIX <= RADIX
    BY MultiplierSize, Radix DEF FoldConstant
<1> HIDE DEF F, K, N, H, L, l, p5, s
<1>5. N \in Nat /\ F * RADIX \in Int /\ N < F * RADIX /\ N <= P * (4 * c) /\ P * (4 * c) \in Int
  <2>1. c * ((4 * P) - v) >= 0 /\ c * ((4 * P) - v) = P * (4 * c) - c * v
      BY <1>3, <1>4, SMT
  <2>2. c * v \in Nat /\ P * (4 * c) \in Int /\ F * RADIX \in Int /\ F * (4 * c) \in Int
      BY <1>3, <1>4
  <2>3. (F - P) * (4 * c) >= 0 /\ (F - P) * (4 * c) = F * (4 * c) - P * (4 * c)
      BY <1>3, <1>4, SMT
  <2>4. F * (RADIX - 4 * c) >= 1 /\ F * (RADIX - 4 * c) = F * RADIX - F * (4 * c)
    <3> DEFINE x == RADIX - 4 * c
    <3>1. x \in Nat /\ x >= 1
        BY <1>4
    <3>2. F * x = F * RADIX - F * (4 * c)
        BY <1>3, <1>4, SMT
    <3> HIDE DEF x
    <3>3. F * x >= 1
        BY <1>3, <3>1, ProductIsPositive
    <3> QED
        BY <3>2, <3>3 DEF x
  <2> DEFINE cv == c * v
             Pc == P * (4 * c)
             Fc == F * (4 * c)
             FR == F * RADIX
  <2>5. /\ cv \in Nat /\ Pc \in Int /\ Fc \in Int /\ FR \in Int
        /\ Pc - cv >= 0 /\ Fc - Pc >= 0 /\ FR - Fc >= 1
      BY <2>1, <2>2, <2>3, <2>4
  <2> HIDE DEF cv, Pc, Fc, FR
  <2>6. cv \in Nat /\ FR \in Int /\ cv < FR /\ cv <= Pc /\ Pc \in Int
      BY <2>5
  <2> QED
      BY <2>6 DEF cv, FR, Pc, N
<1>6. L \in Limbs /\ H \in [0 .. one - 1 -> Digit] /\ l < F /\ l + F * Sum(H, one) = N
  <2>1. one \in Nat /\ 1 <= one /\ one <= LIMBS /\ one + LIMBS = LIMBS + 1 /\ one + LIMBS - 1 = LIMBS
        /\ Power(one) = RADIX
      BY Width, Powers
  <2>2. Sum(product, LIMBS + 1) = N
      BY DEF N
  <2>3. Sum(product, one + LIMBS) < FieldRadix * Power(one)
      BY <1>5, <2>1, <2>2 DEF F
  <2>4. L = LowWords(product) /\ H = HighWords(product, one)
      BY DEF L, H
  <2> HIDE DEF one
  <2>5. product \in [0 .. one + LIMBS - 1 -> Digit]
      BY <2>1, Zenon
  <2>6. /\ L \in Limbs /\ H \in [0 .. one - 1 -> Digit] /\ Value(L) < FieldRadix
        /\ Value(L) + FieldRadix * Sum(H, one) = Sum(product, one + LIMBS)
      BY <2>1, <2>3, <2>4, <2>5, Split
  <2> QED
      BY <2>1, <2>2, <2>6 DEF l, F
<1>7. h \in Digit /\ h \in Nat /\ h < RADIX /\ Sum(H, one) = h /\ l \in Nat
  <2>1. h \in Digit
      BY <1>6
  <2>2. h \in Nat /\ h < RADIX
      BY <2>1, Radix DEF Digit
  <2>3. Sum(H, one) = Sum(H, 0) + Power(0) * h
    <3> DEFINE zero == 0
    <3>1. zero \in Nat /\ zero < 10 /\ zero + 1 = one
        OBVIOUS
    <3>2. \A k \in 0 .. zero : H[k] \in Int
        BY <2>2
    <3>3. h = H[zero]
        OBVIOUS
    <3> HIDE DEF zero, one
    <3>4. Sum(H, zero + 1) = Sum(H, zero) + Power(zero) * H[zero]
        BY <3>1, <3>2, SumStep
    <3> QED
        BY <3>1, <3>3, <3>4 DEF zero
  <2>4. Sum(H, 0) = 0 /\ Power(0) = 1
      BY SumZero, Powers
  <2>5. l \in Nat
      BY <1>6, ValueIsSum DEF l
  <2> HIDE DEF h, one
  <2> QED
      BY <2>1, <2>2, <2>3, <2>4, <2>5
<1> HIDE DEF h, one
<1>8. /\ l + K * h \in Nat /\ K * h \in Nat /\ P * h \in Int /\ F * h \in Int
      /\ N = (l + K * h) + P * h /\ l + F * h = N
  <2>1. l + F * h = N
      BY <1>6, <1>7
  <2> QED
      BY <1>5, <1>7, <2>1, FoldedValue DEF F, K
<1>9. h <= 4 * c
  <2>1. CASE c = 0
    <3>1. P * (4 * 0) = 0
        BY <1>3
    <3>2. F * h <= 0
        BY <1>5, <1>7, <1>8, <2>1, <3>1
    <3>3. h # 0 => F * h >= F
        BY <1>3, <1>7, AtLeastOnce
    <3> QED
        BY <1>3, <1>4, <1>7, <1>8, <2>1, <3>2, <3>3
  <2>2. CASE c # 0
    <3>1. (F - P) * (4 * c) >= 1 /\ (F - P) * (4 * c) = F * (4 * c) - P * (4 * c)
      <4>1. (F - P) * (4 * c) = F * (4 * c) - P * (4 * c)
          BY <1>3, <1>4, SMT
      <4> DEFINE x == F - P
                 y == 4 * c
      <4>2. x \in Nat /\ x >= 1 /\ y \in Nat /\ y >= 1
          BY <1>3, <1>4, <2>2
      <4> HIDE DEF x, y
      <4>3. x * y >= 1
          BY <4>2, ProductIsPositive
      <4> QED
          BY <4>1, <4>3 DEF x, y
    <3>2. F * (4 * c) \in Int
        BY <1>3, <1>4
    <3>3. F * h < F * (4 * c)
        BY <1>5, <1>7, <1>8, <3>1, <3>2
    <3>4. h < 4 * c
        BY <1>3, <1>4, <1>7, <3>3, Quotient
    <3> QED
        BY <1>4, <1>7, <3>4
  <2> QED
      BY <2>1, <2>2
<1> DEFINE hs == h * s
<1>10. hs \in Nat /\ hs < RADIX /\ hs % RADIX = hs
  <2>1. ((4 * c) - h) * s >= 0 /\ ((4 * c) - h) * s = (4 * c) * s - h * s
      BY <1>4, <1>7, <1>9, SMT
  <2>2. h * s \in Nat /\ (4 * c) * s \in Int
      BY <1>4, <1>7
  <2>3. hs \in Nat /\ hs < RADIX
      BY <1>4, <2>1, <2>2
  <2> HIDE DEF hs
  <2>4. hs % RADIX = hs
      BY <1>4, <2>3
  <2> QED
      BY <2>3, <2>4
<1>11. penalty \in Limbs /\ Value(penalty) = hs
  <2>1. hs \in Digit
      BY <1>4, <1>10 DEF Digit
  <2>2. penalty = [Words(0) EXCEPT ![0] = hs]
      BY <1>10 DEF penalty
  <2> HIDE DEF hs
  <2> QED
      BY <2>1, <2>2, PenaltyValue
<1>12. /\ \A k \in 0 .. LIMBS - 1 : addend[k] \in Digit
       /\ Sum(addend, LIMBS) = RADIX * shifted /\ shifted \in Nat
  <2>1. shifted \in Column /\ shifted \in Nat
    <3>1. FOLD_RADIX \in Digit /\ 0 \in Digit
        BY <1>4, Radix DEF Digit
    <3>2. shifted + 0 \in Column /\ shifted \in Nat
        BY <1>7, <3>1, ProductColumn
    <3> HIDE DEF shifted
    <3> QED
        BY <3>2
  <2> HIDE DEF shifted
  <2>2. /\ shifted % RADIX \in Digit /\ shifted \div RADIX \in Digit
        /\ shifted = (shifted % RADIX) + RADIX * (shifted \div RADIX)
      BY <2>1, TwoWords
  <2> DEFINE lo == shifted % RADIX
             hi == shifted \div RADIX
  <2>3. lo \in Digit /\ hi \in Digit /\ shifted = lo + RADIX * hi
      BY <2>2
  <2>4. \A k \in 0 .. LIMBS - 1 : addend[k] = CASE k = 1 -> lo [] k = 2 -> hi [] OTHER -> 0
      BY <1>2
  <2> HIDE DEF lo, hi
  <2>5. /\ \A k \in 0 .. LIMBS - 1 : addend[k] \in Digit
        /\ Sum(addend, LIMBS) = RADIX * (lo + RADIX * hi)
      BY <2>3, <2>4, ShiftedValue
  <2> QED
      BY <2>1, <2>3, <2>5
<1> HIDE DEF shifted, hs
<1>13. RADIX * shifted = K * h + hs /\ RADIX * shifted \in Nat
  <2>1. RADIX * (h * FOLD_RADIX) = (FOLD_RADIX * RADIX) * h
      BY <1>4, <1>7, SMT
  <2>2. (FOLD_RADIX * RADIX - s) * h = (FOLD_RADIX * RADIX) * h - h * s
      BY <1>4, <1>7, SMT
  <2>3. (FOLD_RADIX * RADIX) * h \in Int /\ h * s \in Nat
      BY <1>4, <1>7, SMT
  <2>4. RADIX * shifted = (FOLD_RADIX * RADIX) * h /\ K * h = (FOLD_RADIX * RADIX) * h - hs
        /\ hs = h * s
      BY <1>4, <2>1, <2>2 DEF shifted, hs
  <2>5. RADIX * shifted \in Nat
      BY <1>4, <1>12
  <2> QED
      BY <2>3, <2>4, <2>5
<1>14. /\ l + K * h < 2 * P /\ (l + K * h) + hs < p5
  <2>1. K * (RADIX - h) >= 0 /\ K * (RADIX - h) = K * RADIX - K * h
      BY <1>3, <1>4, <1>7, SMT
  <2>2. (RADIX + 3) * K = K * RADIX + 3 * K /\ K * RADIX \in Int
      BY <1>3, <1>4, SMT
  <2> DEFINE Kh == K * h
             KR == K * RADIX
  <2>3. Kh <= KR /\ KR + 3 * K < F /\ Kh \in Nat /\ KR \in Int
      BY <1>3, <1>8, <2>1, <2>2
  <2>4. RADIX <= p5
    <3>1. p5 = RADIX * Power(LIMBS - 1) /\ Power(LIMBS - 1) \in Nat /\ Power(LIMBS - 1) # 0
      <4>1. LIMBS - 1 \in Nat /\ LIMBS - 1 <= 10
          BY Width
      <4>2. Power(LIMBS - 1) \in Nat /\ Power(LIMBS - 1) >= 1
          BY <4>1, Powers
      <4> QED
          BY <4>2, FieldSize DEF p5
    <3> DEFINE x == Power(LIMBS - 1)
    <3> HIDE DEF x
    <3>2. RADIX * x >= RADIX
        BY <1>4, <3>1, AtLeastOnce DEF x
    <3> QED
        BY <3>1, <3>2 DEF x
  <2>5. 3 * RADIX <= F
    <3>1. F >= Power(LIMBS - 1)
        BY FieldSize DEF F
    <3>2. LIMBS - 1 = 3 + 1 /\ Power(3 + 1) = RADIX * Power(3) /\ Power(3) \in Nat
        /\ Power(2 + 1) = RADIX * Power(2) /\ Power(2) \in Nat /\ Power(2) # 0
      <4>1. LIMBS - 1 = 3 + 1
          BY Five
      <4>2. 2 \in Nat /\ 3 \in Nat /\ 2 < 10 /\ 3 < 10 /\ 2 <= 10 /\ 3 <= 10
          OBVIOUS
      <4>3. Power(2) >= 1 /\ Power(2) \in Nat /\ Power(3) \in Nat
          BY <4>2, Powers
      <4>4. Power(3 + 1) = RADIX * Power(3) /\ Power(2 + 1) = RADIX * Power(2)
          BY <4>2, Powers
      <4> QED
          BY <4>1, <4>3, <4>4
    <3> DEFINE y == Power(2)
               z == Power(3)
    <3>3. F >= RADIX * z /\ z = RADIX * y /\ y \in Nat /\ z \in Nat /\ y # 0
      <4>1. 2 + 1 = 3
          OBVIOUS
      <4> QED
          BY <3>1, <3>2, <4>1
    <3> HIDE DEF y, z
    <3>4. RADIX * y >= RADIX
        BY <1>4, <3>3, AtLeastOnce
    <3>5. z >= 3
        BY <3>3, <3>4, Radix
    <3>6. RADIX * (z - 3) >= 0 /\ RADIX * (z - 3) = RADIX * z - 3 * RADIX
        BY <1>4, <3>3, <3>5, SMT
    <3>7. RADIX * z \in Int
        BY <1>4, <3>3
    <3> QED
        BY <1>3, <1>4, <3>3, <3>6, <3>7
  <2> HIDE DEF Kh, KR
  <2>6. l + Kh < 2 * P /\ (l + Kh) + hs < p5
      BY <1>3, <1>4, <1>6, <1>7, <1>10, <2>3, <2>5
  <2> QED
      BY <2>6 DEF Kh
<1>15. added \in Limbs /\ Value(added) = (l + K * h) + hs
  <2>1. \A k \in 0 .. LIMBS - 1 : /\ L[k] \in Int /\ addend[k] \in Int
                                  /\ column[k] = L[k] + addend[k] /\ column[k] \in Column
    <3> SUFFICES ASSUME NEW k \in 0 .. LIMBS - 1
                 PROVE  /\ L[k] \in Int /\ addend[k] \in Int
                        /\ column[k] = L[k] + addend[k] /\ column[k] \in Column
        OBVIOUS
    <3>1. L[k] \in Nat /\ L[k] < RADIX /\ addend[k] \in Digit
        BY <1>6, <1>12, LimbIsInt
    <3>2. addend[k] \in Nat /\ addend[k] < RADIX
        BY <3>1, Radix DEF Digit
    <3>3. 3 * RADIX <= RADIX * RADIX /\ RADIX * RADIX \in Int
        BY Radix, SMT
    <3>4. L[k] + addend[k] \in Column
        BY <3>1, <3>2, <3>3, Radix DEF Column
    <3> QED
        BY <1>2, <3>1, <3>2, <3>4
  <2>2. Sum(column, LIMBS) = Sum(L, LIMBS) + Sum(addend, LIMBS)
      BY <2>1, Width, SumPlus
  <2>3. Sum(L, LIMBS) = l
      BY <1>6, ValueIsSum DEF l
  <2>4. Sum(column, LIMBS) = (l + K * h) + hs
      BY <1>7, <1>8, <1>10, <1>12, <1>13, <2>2, <2>3
  <2>5. Sum(column, LIMBS) < Power(LIMBS)
      BY <1>14, <2>4 DEF p5
  <2>6. added \in [0 .. LIMBS - 1 -> Digit] /\ Sum(added, LIMBS) = Sum(column, LIMBS)
    <3>1. \A k \in 0 .. LIMBS - 1 : column[k] \in Column
        BY <2>1
    <3> QED
        BY <2>5, <3>1, Width, ExactChain DEF added
  <2>7. added \in Limbs
      BY <2>6 DEF Limbs
  <2>8. Value(added) = Sum(added, LIMBS)
      BY <2>7, ValueIsSum
  <2> QED
      BY <2>4, <2>6, <2>7, <2>8
<1>16. last \in Limbs /\ Value(last) = l + K * h
  <2>1. /\ last \in Limbs /\ difference.borrow \in Bit
        /\ Value(penalty) + Value(last) = Value(added) + p5 * difference.borrow
      BY <1>11, <1>15, Subtraction DEF difference, last, p5
  <2> DEFINE b == difference.borrow
             x == Value(last)
             y == l + K * h
  <2>2. hs + x = (y + hs) + p5 * b
      BY <1>11, <1>15, <2>1
  <2>3. x \in Nat /\ x < p5 /\ y \in Nat /\ (b = 0 \/ b = 1)
      BY <1>8, <2>1, ValueIsSum DEF p5, Bit
  <2> HIDE DEF b, x, y
  <2>4. p5 * 0 = 0 /\ p5 * 1 = p5
      BY <1>3
  <2>5. b = 0
    <3> SUFFICES ASSUME b = 1 PROVE FALSE
        BY <2>3
    <3> QED
        BY <1>3, <1>10, <2>2, <2>3, <2>4
  <2>6. x = y
      BY <1>10, <2>2, <2>3, <2>4, <2>5
  <2> QED
      BY <2>1, <2>6 DEF x, y
<1>17. N = Value(last) + P * h
    BY <1>8, <1>16
<1> QED
    BY <1>1, <1>7, <1>14, <1>16, <1>17 DEF N

-----------------------------------------------------------------------------
(* Arithmetic modulo P. *)

\* What the arithmetic modulo P needs of P.
LEMMA ModulusSize ==
    P \in Nat /\ P \in Nat \ {0} /\ P >= 1 /\ 16 * P < Power(LIMBS) /\ Power(LIMBS) \in Nat
BY Modulus, FieldSize

\* A number is its residue and a multiple of P.
LEMMA Residue ==
    ASSUME NEW n \in Int
    PROVE  n % P \in 0 .. P - 1 /\ \E q \in Int : n = (n % P) + P * q
<1> DEFINE w == P
           q == n \div w
           r == n % w
<1>1. w \in Nat \ {0}
    BY ModulusSize
<1>2. q = n \div w /\ r = n % w
    OBVIOUS
<1>3. r = n % P
    OBVIOUS
<1> HIDE DEF w
<1>4. q \in Int /\ r \in 0 .. w - 1
    BY <1>1, SMT
<1> HIDE DEF q, r
<1>5. n = r + w * q
  <2>1. n = w * q + r
      BY <1>1, <1>2, <1>4, SMT
  <2>2. w * q \in Int /\ r \in Int
      BY <1>1, <1>4
  <2> QED
      BY <2>1, <2>2
<1> QED
    BY <1>3, <1>4, <1>5 DEF w

\* Multiples of P change no residue.
LEMMA SameResidue ==
    ASSUME NEW x \in Int, NEW y \in Int, NEW q \in Int, x = y + P * q
    PROVE  x % P = y % P
<1> DEFINE w == P
           r == y % P
<1>1. PICK s \in Int : y = r + w * s
    BY Residue
<1>2. r \in 0 .. w - 1 /\ w \in Nat \ {0} /\ r = y % w /\ x = y + w * q
    BY Residue, ModulusSize
<1>3. w = P
    OBVIOUS
<1> HIDE DEF w, r
<1>4. s + q \in Int /\ x = r + w * (s + q)
  <2>1. w * (s + q) = w * s + w * q
      BY <1>2, SMT
  <2>2. w * s \in Int /\ w * q \in Int
      BY <1>2
  <2> QED
      BY <1>1, <1>2, <2>1, <2>2
<1> DEFINE t == s + q
<1>5. t \in Int /\ x = r + w * t
    BY <1>4
<1> HIDE DEF t
<1>6. x % w = r
    BY <1>2, <1>5, Uniqueness, Zenon
<1> QED
    BY <1>3, <1>6 DEF r

\* a * x + b * y may be computed from the residues.
LEMMA LinearResidue ==
    ASSUME NEW a \in Int, NEW x \in Int, NEW b \in Int
    PROVE  (a * (x % P) + b) % P = (a * x + b) % P
<1> DEFINE r == x % P
           p == P
<1>1. PICK q \in Int : x = r + p * q
    BY Residue
<1>2. r \in Int /\ p \in Int
    BY Residue, ModulusSize
<1> HIDE DEF r, p
<1>3. a * (r + p * q) = a * r + p * (a * q)
    BY <1>2, SMT
<1>4. a * q \in Int /\ a * r \in Int /\ p * (a * q) \in Int /\ a * x \in Int
    BY <1>2
<1>5. a * x + b = (a * r + b) + p * (a * q)
    BY <1>1, <1>3, <1>4
<1> DEFINE u == a * x + b
           v == a * r + b
           t == a * q
<1>6. u \in Int /\ v \in Int /\ t \in Int /\ u = v + P * t
    BY <1>4, <1>5 DEF p
<1> HIDE DEF u, v, t
<1>7. u % P = v % P
    BY <1>6, SameResidue
<1> QED
    BY <1>7 DEF u, v, r

\* Sums, differences and products may be computed from the residues.
LEMMA ResidueOfSum ==
    ASSUME NEW x \in Int, NEW y \in Int
    PROVE  ((x % P) + (y % P)) % P = (x + y) % P
<1> DEFINE r == x % P
           s == y % P
           p == P
<1>1. PICK q \in Int : x = r + p * q
    BY Residue
<1>2. PICK t \in Int : y = s + p * t
    BY Residue
<1>3. r \in Int /\ s \in Int /\ p \in Int
    BY Residue, ModulusSize
<1> HIDE DEF r, s, p
<1>4. p * (q + t) = p * q + p * t /\ p * q \in Int /\ p * t \in Int
    BY <1>3, SMT
<1>5. x + y = (r + s) + p * (q + t)
    BY <1>1, <1>2, <1>3, <1>4
<1>6. x + y \in Int /\ r + s \in Int /\ q + t \in Int /\ x + y = (r + s) + P * (q + t)
    BY <1>3, <1>5 DEF p
<1> DEFINE u == x + y
           v == r + s
           z == q + t
<1> HIDE DEF u, v, z
<1>7. u \in Int /\ v \in Int /\ z \in Int /\ u = v + P * z
    BY <1>6 DEF u, v, z
<1>8. u % P = v % P
    BY <1>7, SameResidue
<1> QED
    BY <1>8 DEF u, v, r, s

\* The residue of a difference is that of the difference of the residues.
LEMMA ResidueOfDifference ==
    ASSUME NEW x \in Int, NEW y \in Int
    PROVE  ((x % P) - (y % P)) % P = (x - y) % P
<1> DEFINE r == x % P
           s == y % P
           p == P
<1>1. PICK q \in Int : x = r + p * q
    BY Residue
<1>2. PICK t \in Int : y = s + p * t
    BY Residue
<1>3. r \in Int /\ s \in Int /\ p \in Int
    BY Residue, ModulusSize
<1> HIDE DEF r, s, p
<1>4. p * (q - t) = p * q - p * t /\ p * q \in Int /\ p * t \in Int
    BY <1>3, SMT
<1>5. x - y = (r - s) + p * (q - t)
    BY <1>1, <1>2, <1>3, <1>4
<1> DEFINE u == x - y
           v == r - s
           z == q - t
<1>6. u \in Int /\ v \in Int /\ z \in Int /\ u = v + P * z
    BY <1>3, <1>5 DEF p
<1> HIDE DEF u, v, z
<1>7. u % P = v % P
    BY <1>6, SameResidue
<1> QED
    BY <1>7 DEF u, v, r, s

\* The residue of a product is that of the product of the residues.
LEMMA ResidueOfProduct ==
    ASSUME NEW x \in Int, NEW y \in Int
    PROVE  ((x % P) * (y % P)) % P = (x * y) % P
<1> DEFINE r == x % P
           s == y % P
           p == P
<1>1. PICK q \in Int : x = r + p * q
    BY Residue
<1>2. PICK t \in Int : y = s + p * t
    BY Residue
<1>3. r \in Int /\ s \in Int /\ p \in Int
    BY Residue, ModulusSize
<1> HIDE DEF r, s, p
<1> DEFINE u == x * y
           v == r * s
           z == (q * s + r * t) + p * (q * t)
<1>4. (r + p * q) * (s + p * t) = r * s + p * ((q * s + r * t) + p * (q * t))
    BY <1>3, SMT
<1>5. u \in Int /\ v \in Int
    BY <1>3
<1>6. z \in Int
  <2>1. q * s \in Int /\ r * t \in Int /\ q * t \in Int
      BY <1>3
  <2>2. p * (q * t) \in Int
      BY <1>3, <2>1
  <2> QED
      BY <2>1, <2>2
<1>7. u = v + P * z
    BY <1>1, <1>2, <1>4 DEF p
<1> HIDE DEF u, v, z
<1>8. u % P = v % P
    BY <1>5, <1>6, <1>7, SameResidue
<1> QED
    BY <1>8 DEF u, v, r, s

-----------------------------------------------------------------------------
(* The reference: TimesModP is multiplication modulo P. *)

\* Half a word and then the other half are the word.
LEMMA HalfWords ==
    ASSUME NEW sum \in Int, NEW x \in Int, NEW w \in Digit
    PROVE  (STEP_RADIX * (((RADIX \div STEP_RADIX) * sum + x * (w \div STEP_RADIX)) % P)
            + x * (w % STEP_RADIX)) % P
           = (RADIX * sum + x * w) % P
<1> DEFINE S == STEP_RADIX
           R == RADIX
           G == R \div S
           d == w \div S
           m == w % S
<1>1. R \in Nat /\ S \in Nat \ {0} /\ R % S = 0 /\ w \in Nat
    BY Radix, RadixAssumption DEF RadixAssumption, Digit
<1>2. d \in Nat /\ m \in Nat /\ m + S * d = w
  <2> HIDE DEF S
  <2>1. d \in Nat /\ m \in 0 .. S - 1 /\ m + S * d = w
      BY <1>1, Division
  <2> QED
      BY <1>1, <2>1
<1>3. G \in Nat /\ S * G = R
  <2> HIDE DEF S, R
  <2>1. G \in Nat /\ (R % S) + S * G = R
      BY <1>1, Division
  <2> HIDE DEF G
  <2>2. S * G \in Int
      BY <1>1, <2>1
  <2> QED
      BY <1>1, <2>1, <2>2
<1> DEFINE inner == G * sum + x * d
           b == x * m
           t == R * sum + x * w
<1> HIDE DEF S, R, G, d, m
<1>4. inner \in Int /\ b \in Int /\ S \in Int
  <2>1. G * sum \in Int /\ x * d \in Int /\ x * m \in Int
      BY <1>2, <1>3
  <2> QED
      BY <1>1, <2>1
<1>5. S * inner + b = t
  <2>1. S * (G * sum + x * d) + x * m = (S * G) * sum + x * (m + S * d)
      BY <1>1, <1>2, <1>3, SMT
  <2> QED
      BY <1>2, <1>3, <2>1
<1> HIDE DEF inner, b, t
<1>6. (S * (inner % P) + b) % P = t % P
    BY <1>4, <1>5, LinearResidue
<1> QED
    BY <1>6 DEF inner, b, t, S, R, G, d, m

\* One word more.
LEMMA HornerStep ==
    ASSUME NEW x \in Int, NEW t \in Int, NEW w \in Int, NEW sum, sum = (x * t) % P
    PROVE  (RADIX * sum + x * w) % P = (x * (w + RADIX * t)) % P
<1> DEFINE R == RADIX
           u == x * t
           b == x * w
           v == x * (w + R * t)
<1>1. R \in Int /\ u \in Int /\ b \in Int
    BY Radix
<1>2. R * u + b = v
  <2> HIDE DEF R
  <2> QED
      BY <1>1, SMT
<1>3. sum = u % P
    OBVIOUS
<1> HIDE DEF R, u, b, v
<1>4. (R * sum + b) % P = v % P
    BY <1>1, <1>2, <1>3, LinearResidue
<1> QED
    BY <1>4 DEF R, b, v

\* The half-word multiplication of the reference is multiplication modulo P.
LEMMA Reference ==
    ASSUME NEW x \in Int, NEW y \in Nat, y < Power(LIMBS)
    PROVE  TimesModP(x, y) = (x * y) % P
<1> DEFINE w == Words(y)
           G == RADIX \div STEP_RADIX
           S == STEP_RADIX
           Half(sum, radix, half) == (radix * sum + x * half) % P
           Whole(sum, i) == Half(Half(sum, G, w[i] \div S), S, w[i] % S)
           s4 == Whole(0, 4)
           s3 == Whole(s4, 3)
           s2 == Whole(s3, 2)
           s1 == Whole(s2, 1)
           s0 == Whole(s1, 0)
           t4 == w[4]
           t3 == w[3] + RADIX * t4
           t2 == w[2] + RADIX * t3
           t1 == w[1] + RADIX * t2
           t0 == w[0] + RADIX * t1
<1>1. TimesModP(x, y) = s0
    BY DEF TimesModP
<1>2. w \in Limbs /\ Value(w) = y
    BY WordsValue
<1>3. t0 = y
    BY <1>2 DEF Value
<1> HIDE DEF w
<1>4. ASSUME NEW i \in 0 .. LIMBS - 1, NEW sum \in Int
      PROVE  Whole(sum, i) = (RADIX * sum + x * w[i]) % P
  <2>1. w[i] \in Digit
      BY <1>2, LimbIsInt
  <2> QED
      BY <2>1, HalfWords
<1>5. ASSUME NEW n \in Int PROVE n % P \in Int
  <2>1. n % P \in 0 .. P - 1
      BY <1>5, Residue
  <2> QED
      BY <2>1, ModulusSize
<1> HIDE DEF Whole
<1>6. RADIX \in Int /\ \A i \in 0 .. LIMBS - 1 : w[i] \in Int
    BY <1>2, Radix, LimbIsInt
<1>7. /\ w[0] \in Int /\ w[1] \in Int /\ w[2] \in Int /\ w[3] \in Int /\ w[4] \in Int
      /\ 0 \in 0 .. LIMBS - 1 /\ 1 \in 0 .. LIMBS - 1 /\ 2 \in 0 .. LIMBS - 1
      /\ 3 \in 0 .. LIMBS - 1 /\ 4 \in 0 .. LIMBS - 1
    BY <1>6, Five
<1>8. ASSUME NEW i \in 0 .. LIMBS - 1, NEW t \in Int, NEW sum, sum = (x * t) % P
      PROVE  Whole(sum, i) = (x * (w[i] + RADIX * t)) % P
  <2>1. x * t \in Int /\ w[i] \in Int
      BY <1>6
  <2> DEFINE xt == x * t
  <2>2. sum \in Int
    <3>1. xt \in Int /\ sum = xt % P
        BY <2>1, <1>8
    <3> HIDE DEF xt
    <3> QED
        BY <1>5, <3>1
  <2>3. Whole(sum, i) = (RADIX * sum + x * w[i]) % P
      BY <1>4, <2>2
  <2>4. (RADIX * sum + x * w[i]) % P = (x * (w[i] + RADIX * t)) % P
    <3> DEFINE y0 == w[i]
    <3>1. y0 \in Int /\ t \in Int /\ x \in Int /\ sum = (x * t) % P
        BY <1>8, <2>1
    <3> HIDE DEF y0
    <3>2. (RADIX * sum + x * y0) % P = (x * (y0 + RADIX * t)) % P
        BY <3>1, HornerStep, Zenon
    <3> QED
        BY <3>2 DEF y0
  <2> QED
      BY <2>3, <2>4
<1>9. s4 = (x * t4) % P
  <2>1. s4 = (RADIX * 0 + x * w[4]) % P
      BY <1>4, <1>7
  <2>2. RADIX * 0 + x * w[4] = x * t4
      BY <1>6, <1>7
  <2> QED
      BY <2>1, <2>2
<1>10. t4 \in Int
    BY <1>7
<1> HIDE DEF s4, t4
<1>11. s3 = (x * t3) % P /\ t3 \in Int
    BY <1>6, <1>7, <1>8, <1>9, <1>10
<1> HIDE DEF s3, t3
<1>12. s2 = (x * t2) % P /\ t2 \in Int
    BY <1>6, <1>7, <1>8, <1>11
<1> HIDE DEF s2, t2
<1>13. s1 = (x * t1) % P /\ t1 \in Int
    BY <1>6, <1>7, <1>8, <1>12
<1> HIDE DEF s1, t1
<1>14. s0 = (x * t0) % P
    BY <1>6, <1>7, <1>8, <1>13
<1> HIDE DEF s0, t0
<1> QED
    BY <1>1, <1>3, <1>14

-----------------------------------------------------------------------------
(* The operations of the three types. *)

\* Subtract the bound unless the number is below it.
LEMMA ConditionalSubtraction ==
    ASSUME NEW input \in Limbs, NEW bound \in Limbs
    PROVE  /\ SubtractIfNotBelow(input, bound) \in Limbs
           /\ Value(SubtractIfNotBelow(input, bound))
                  = IF Value(input) < Value(bound) THEN Value(input) ELSE Value(input) - Value(bound)
<1> DEFINE s == subtract_limbs_runtime(input, bound)
           b == s.borrow
           x == Value(input)
           y == Value(bound)
           z == Value(s.words)
           p == Power(LIMBS)
<1>1. s.words \in Limbs /\ b \in Bit /\ y + z = x + p * b
    BY Subtraction
<1>2. x \in Nat /\ x < p /\ y \in Nat /\ y < p /\ z \in Nat /\ z < p /\ p \in Nat
    BY <1>1, ValueIsSum, ModulusSize
<1>3. SubtractIfNotBelow(input, bound) = IF b = 1 THEN input ELSE s.words
    BY DEF SubtractIfNotBelow
<1>4. b = 0 \/ b = 1
    BY <1>1 DEF Bit
<1> HIDE DEF s, b, x, y, z, p
<1>5. p * 0 = 0 /\ p * 1 = p
    BY <1>2
<1>6. CASE b = 1
  <2>1. x < y
      BY <1>1, <1>2, <1>5, <1>6
  <2> QED
      BY <1>3, <1>6, <2>1 DEF x, y
<1>7. CASE b = 0
  <2>1. ~ (x < y) /\ z = x - y
      BY <1>1, <1>2, <1>5, <1>7
  <2>2. SubtractIfNotBelow(input, bound) = s.words
      BY <1>3, <1>7
  <2> QED
      BY <1>1, <2>1, <2>2 DEF x, y, z
<1> QED
    BY <1>4, <1>6, <1>7

\* The two constants of field_5x64.rs spell p and 2p.
LEMMA ModulusWords ==
    /\ MODULUS \in Limbs /\ Value(MODULUS) = P
    /\ MODULUS_TIMES_TWO \in Limbs /\ Value(MODULUS_TIMES_TWO) = 2 * P
<1> DEFINE n == 2 * P
<1>1. P \in Nat /\ n \in Nat /\ P < Power(LIMBS) /\ n < Power(LIMBS)
    BY ModulusSize
<1>2. Words(P) \in Limbs /\ Value(Words(P)) = P
    BY <1>1, WordsValue
<1>3. Words(n) \in Limbs /\ Value(Words(n)) = n
  <2> HIDE DEF n
  <2> QED
      BY <1>1, WordsValue
<1> QED
    BY <1>2, <1>3 DEF MODULUS, MODULUS_TIMES_TWO

Types == {"Fe301", "Fe301Lazy", "Fe301LazyLinear"}
Element == [type : Types, words : Limbs]

\* A value that keeps its type's bound and stands for e.
Represents(x, e) ==
    /\ x \in Element
    /\ Value(x.words) < Bound(x.type)
    /\ Value(x.words) % P = e

\* The bounds of the three types.
LEMMA Bounds ==
    /\ Bound("Fe301") = P /\ Bound("Fe301Lazy") = 2 * P /\ Bound("Fe301LazyLinear") = 4 * P
    /\ \A type \in Types : Bound(type) \in Nat /\ Bound(type) <= 4 * P
<1>1. /\ Bound("Fe301") = P /\ Bound("Fe301Lazy") = 2 * P /\ Bound("Fe301LazyLinear") = 4 * P
    BY DEF Bound
<1>2. \A type \in Types : type = "Fe301" \/ type = "Fe301Lazy" \/ type = "Fe301LazyLinear"
    BY DEF Types
<1>3. P \in Nat /\ 2 * P \in Nat /\ 4 * P \in Nat /\ P <= 4 * P /\ 2 * P <= 4 * P /\ 4 * P <= 4 * P
    BY ModulusSize
<1> QED
    BY <1>1, <1>2, <1>3

\* What Represents says of the words, the type and the element.
LEMMA Represented ==
    ASSUME NEW x, NEW e, Represents(x, e)
    PROVE  /\ x.words \in Limbs /\ x.type \in Types /\ Value(x.words) \in Nat
           /\ Value(x.words) < 4 * P /\ Value(x.words) < Bound(x.type)
           /\ e = Value(x.words) % P /\ e \in 0 .. P - 1
<1>1. x.words \in Limbs /\ x.type \in Types
    BY DEF Represents, Element
<1>2. Value(x.words) \in Nat /\ Bound(x.type) \in Nat /\ Bound(x.type) <= 4 * P /\ P \in Nat
    BY <1>1, ValueIsSum, Bounds, ModulusSize
<1>3. Value(x.words) < Bound(x.type) /\ e = Value(x.words) % P
    BY DEF Represents
<1>4. e \in 0 .. P - 1
  <2> DEFINE v == Value(x.words)
  <2>1. v \in Int /\ e = v % P
      BY <1>2, <1>3
  <2> HIDE DEF v
  <2> QED
      BY <2>1, Residue
<1> QED
    BY <1>1, <1>2, <1>3, <1>4

\* The three constructors.
LEMMA Constructors ==
    ASSUME NEW words \in Limbs, NEW e, e = Value(words) % P
    PROVE  /\ Value(words) < P => Represents(Fe301(words), e)
           /\ Value(words) < 2 * P => Represents(Fe301Lazy(words), e)
           /\ Value(words) < 4 * P => Represents(Fe301LazyLinear(words), e)
<1>1. "Fe301" \in Types /\ "Fe301Lazy" \in Types /\ "Fe301LazyLinear" \in Types
    BY DEF Types
<1>2. \A type \in Types : Value(words) < Bound(type)
          => Represents([type |-> type, words |-> words], e)
  <2> SUFFICES ASSUME NEW type \in Types, Value(words) < Bound(type)
               PROVE  Represents([type |-> type, words |-> words], e)
      OBVIOUS
  <2> DEFINE x == [type |-> type, words |-> words]
  <2>1. x \in Element /\ x.words = words /\ x.type = type
      BY DEF Element
  <2> HIDE DEF x
  <2>2. Represents(x, e)
      BY <2>1 DEF Represents
  <2> QED
      BY <2>2 DEF x
<1> QED
    BY <1>1, <1>2, Bounds DEF Fe301, Fe301Lazy, Fe301LazyLinear

\* A subtraction of the modulus below 2p leaves the canonical words.
LEMMA CanonicalWords ==
    ASSUME NEW words \in Limbs, Value(words) < 2 * P
    PROVE  /\ conditional_subtract_modulus_ct(words) \in Limbs
           /\ Value(conditional_subtract_modulus_ct(words)) < P
           /\ Value(conditional_subtract_modulus_ct(words)) % P = Value(words) % P
<1> DEFINE o == SubtractIfNotBelow(words, MODULUS)
           v == Value(words)
           z == Value(o)
<1>1. conditional_subtract_modulus_ct(words) = o
    BY DEF conditional_subtract_modulus_ct
<1>2. o \in Limbs /\ z = IF v < P THEN v ELSE v - P
  <2>1. o \in Limbs /\ z = IF v < Value(MODULUS) THEN v ELSE v - Value(MODULUS)
      BY ModulusWords, ConditionalSubtraction
  <2> QED
      BY <2>1, ModulusWords
<1>3. v \in Nat /\ v < 2 * P /\ P \in Nat
    BY ValueIsSum, ModulusSize
<1> HIDE DEF o, v, z
<1>4. z \in Int /\ z < P
    BY <1>2, <1>3
<1>5. z % P = v % P
  <2>1. CASE v < P
      BY <1>2, <2>1
  <2>2. CASE ~ (v < P)
    <3>1. PICK one \in Int : one = 1
        OBVIOUS
    <3>2. P * one = P
        BY <1>3, <3>1
    <3>3. v = z + P * one /\ v \in Int
        BY <1>2, <1>3, <2>2, <3>2
    <3> QED
        BY <1>4, <3>3, SameResidue
  <2> QED
      BY <2>1, <2>2
<1> QED
    BY <1>1, <1>2, <1>4, <1>5 DEF v, z

\* add of Fe301, add_loose of Fe301Lazy.
LEMMA AddCorrect ==
    ASSUME NEW x, NEW d, Represents(x, d), NEW y, NEW e, Represents(y, e),
           Are("Fe301", x, y) \/ Are("Fe301Lazy", x, y)
    PROVE  Represents(Add(x, y), (d + e) % P)
<1> DEFINE v == Value(x.words)
           w == Value(y.words)
           words == add_limbs(x.words, y.words)
           p == Power(LIMBS)
<1>1. /\ x.words \in Limbs /\ y.words \in Limbs /\ v \in Nat /\ w \in Nat
      /\ v < Bound(x.type) /\ w < Bound(y.type) /\ d = v % P /\ e = w % P
    BY Represented
<1>2. P \in Nat /\ 16 * P < p /\ p \in Nat
    BY ModulusSize
<1>3. v < 2 * P /\ w < 2 * P
    BY <1>1, <1>2, Bounds DEF Are
<1>4. words \in Limbs /\ Value(words) = v + w
  <2>1. v + w < p
      BY <1>1, <1>2, <1>3
  <2> QED
      BY <1>1, <2>1, Addition
<1>5. (d + e) % P = (v + w) % P
  <2>1. v \in Int /\ w \in Int
      BY <1>1
  <2> HIDE DEF v, w
  <2> QED
      BY <1>1, <2>1, ResidueOfSum
<1>6. CASE x.type = "Fe301"
  <2>1. x.type = "Fe301" /\ y.type = "Fe301"
      BY <1>6 DEF Are
  <2>2. v < P /\ w < P
      BY <1>1, <2>1, Bounds
  <2>3. Value(words) < 2 * P
      BY <1>1, <1>2, <1>4, <2>2
  <2> DEFINE o == conditional_subtract_modulus_ct(words)
  <2>4. Add(x, y) = Fe301(o)
      BY <2>1 DEF Add
  <2> HIDE DEF words
  <2>5. o \in Limbs /\ Value(o) < P /\ Value(o) % P = (d + e) % P
      BY <1>4, <1>5, <2>3, CanonicalWords
  <2> HIDE DEF o
  <2> QED
      BY <2>4, <2>5, Constructors
<1>7. CASE x.type # "Fe301"
  <2>1. Add(x, y) = Fe301LazyLinear(words)
      BY <1>7 DEF Add
  <2>2. Value(words) < 4 * P
      BY <1>1, <1>2, <1>3, <1>4
  <2>3. (d + e) % P = Value(words) % P
      BY <1>4, <1>5
  <2> HIDE DEF words
  <2> QED
      BY <1>4, <2>1, <2>2, <2>3, Constructors
<1> QED
    BY <1>6, <1>7

\* sub of Fe301, sub_loose of Fe301Lazy.
LEMMA SubCorrect ==
    ASSUME NEW x, NEW d, Represents(x, d), NEW y, NEW e, Represents(y, e),
           Are("Fe301", x, y) \/ Are("Fe301Lazy", x, y)
    PROVE  Represents(Sub(x, y), (d - e) % P)
<1> DEFINE v == Value(x.words)
           w == Value(y.words)
           p == Power(LIMBS)
<1>1. /\ x.words \in Limbs /\ y.words \in Limbs /\ v \in Nat /\ w \in Nat
      /\ v < Bound(x.type) /\ w < Bound(y.type) /\ d = v % P /\ e = w % P
    BY Represented
<1>2. P \in Nat /\ 16 * P < p /\ p \in Nat /\ P >= 1
    BY ModulusSize
<1>3. (d - e) % P = (v - w) % P
  <2>1. v \in Int /\ w \in Int
      BY <1>1
  <2> HIDE DEF v, w
  <2> QED
      BY <1>1, <2>1, ResidueOfDifference
<1>4. p * 0 = 0 /\ p * 1 = p
    BY <1>2
<1>5. PICK one \in Int : one = 1
    OBVIOUS
<1>6. PICK two \in Int : two = 2
    OBVIOUS
<1>7. P * one = P /\ P * two = 2 * P
    BY <1>2, <1>5, <1>6
<1>8. CASE x.type = "Fe301"
  <2> DEFINE s == subtract_limbs_runtime(x.words, y.words)
             b == s.borrow
             z == Value(s.words)
             o == IF b = 1 THEN add_limbs(s.words, MODULUS) ELSE s.words
  <2>1. v < P /\ w < P
      BY <1>1, <1>8, Bounds DEF Are
  <2>2. s.words \in Limbs /\ b \in Bit /\ w + z = v + p * b
      BY <1>1, Subtraction
  <2>3. z \in Nat /\ z < p
      BY <2>2, ValueIsSum
  <2>4. Sub(x, y) = Fe301(o)
      BY <1>8 DEF Sub
  <2>5. o \in Limbs /\ Value(o) \in Int /\ Value(o) < P /\ Value(o) % P = (v - w) % P
    <3>1. CASE b = 1
      <4> DEFINE a == add_limbs(s.words, MODULUS)
      <4>1. o = a
          BY <3>1
      <4> HIDE DEF o
      <4>2. a \in Limbs /\ \E top \in Nat : z + P = Value(a) + p * top
          BY <2>2, ModulusWords, WrappingAddition
      <4>3. Value(a) \in Nat /\ Value(a) < p
          BY <4>2, ValueIsSum
      <4>4. PICK top \in Nat : z + P = Value(a) + p * top
          BY <4>2
      <4> DEFINE A == Value(a)
      <4>5. A \in Nat /\ A < p /\ z + P = A + p * top
          BY <4>3, <4>4
      <4>6. w + z = v + p
          BY <1>4, <2>2, <3>1
      <4> HIDE DEF A, a, s, b, z, v, w, p
      <4>7. top = 1
        <5>1. CASE top = 0
            BY <1>1, <1>2, <1>4, <2>1, <2>3, <4>5, <4>6, <5>1
        <5>2. CASE top > 1
          <6>1. p * (top - 2) >= 0 /\ p * (top - 2) = p * top - 2 * p
              BY <1>2, <5>2, SMT
          <6>2. p * top \in Int
              BY <1>2
          <6> QED
              BY <1>1, <1>2, <2>1, <2>3, <4>5, <4>6, <6>1, <6>2
        <5> QED
            BY <5>1, <5>2
      <4>8. A = (v - w) + P /\ A < P
          BY <1>1, <1>2, <1>4, <2>1, <2>3, <4>5, <4>6, <4>7
      <4>9. A % P = (v - w) % P
        <5> DEFINE u == v - w
        <5>1. u \in Int /\ A \in Int /\ A = u + P * one
            BY <1>1, <1>7, <4>5, <4>8
        <5> HIDE DEF u
        <5>2. A % P = u % P
            BY <5>1, SameResidue
        <5> QED
            BY <5>2 DEF u
      <4> QED
          BY <4>1, <4>2, <4>5, <4>8, <4>9 DEF A
    <3>2. CASE b = 0
      <4>1. o = s.words
          BY <3>2
      <4> HIDE DEF o
      <4>2. z = v - w
          BY <1>1, <1>4, <2>2, <2>3, <3>2
      <4>3. z < P
          BY <1>1, <1>2, <2>1, <2>3, <4>2
      <4>4. z \in Int /\ z % P = (v - w) % P
          BY <2>3, <4>2
      <4> QED
          BY <2>2, <4>1, <4>3, <4>4
    <3> QED
        BY <2>2, <3>1, <3>2 DEF Bit
  <2> HIDE DEF o
  <2>6. (d - e) % P = Value(o) % P
      BY <1>3, <2>5
  <2> QED
      BY <2>4, <2>5, <2>6, Constructors
<1>9. CASE x.type # "Fe301"
  <2> DEFINE a == add_limbs(x.words, MODULUS_TIMES_TWO)
             s == subtract_limbs_runtime(a, y.words)
             b == s.borrow
             o == s.words
             z == Value(o)
  <2>1. v < 2 * P /\ w < 2 * P
      BY <1>1, <1>9, Bounds DEF Are
  <2>2. a \in Limbs /\ Value(a) = v + 2 * P
    <3>1. MODULUS_TIMES_TWO \in Limbs /\ Value(MODULUS_TIMES_TWO) = 2 * P
        BY ModulusWords
    <3>2. Value(x.words) + Value(MODULUS_TIMES_TWO) < Power(LIMBS)
        BY <1>1, <1>2, <2>1, <3>1
    <3>3. a \in Limbs /\ Value(a) = Value(x.words) + Value(MODULUS_TIMES_TWO)
        BY <1>1, <3>1, <3>2, Addition
    <3> QED
        BY <3>1, <3>3
  <2>3. o \in Limbs /\ b \in Bit /\ w + z = (v + 2 * P) + p * b
    <3>1. o \in Limbs /\ b \in Bit /\ w + z = Value(a) + p * b
      <4> HIDE DEF a
      <4> QED
          BY <1>1, <2>2, Subtraction
    <3> QED
        BY <2>2, <3>1
  <2>4. z \in Nat /\ z < p
      BY <2>3, ValueIsSum
  <2>5. Sub(x, y) = Fe301LazyLinear(o)
      BY <1>9 DEF Sub
  <2> HIDE DEF a, s, b, o
  <2>6. z = (v - w) + 2 * P /\ z < 4 * P
    <3>1. b = 0 \/ b = 1
        BY <2>3 DEF Bit
    <3> HIDE DEF v, w, z, p
    <3>2. b # 1
        BY <1>1, <1>2, <1>4, <2>1, <2>3, <2>4
    <3>3. w + z = (v + 2 * P) + 0
        BY <1>4, <2>3, <3>1, <3>2
    <3> QED
        BY <1>1, <1>2, <2>1, <2>4, <3>3
  <2>7. z % P = (v - w) % P
    <3> DEFINE u == v - w
    <3>1. u \in Int /\ z \in Int /\ z = u + P * two
        BY <1>1, <1>7, <2>4, <2>6
    <3> HIDE DEF u, z
    <3>2. z % P = u % P
        BY <3>1, SameResidue
    <3> QED
        BY <3>2 DEF u
  <2>8. (d - e) % P = Value(o) % P
      BY <1>3, <2>7
  <2> QED
      BY <2>3, <2>5, <2>6, <2>8, Constructors
<1> QED
    BY <1>8, <1>9

\* What a multiplication does with words below 2p.
LEMMA ReducedCorrect ==
    ASSUME NEW x, NEW words \in Limbs, Value(words) < 2 * P
    PROVE  Represents(Reduced(x, words), Value(words) % P)
<1> DEFINE o == conditional_subtract_modulus_ct(words)
           r == Value(words) % P
<1>1. o \in Limbs /\ Value(o) < P /\ Value(o) % P = r
    BY CanonicalWords
<1> HIDE DEF o
<1>2. Represents(Fe301(o), r)
    BY <1>1, Constructors
<1>3. Represents(Fe301Lazy(words), r)
    BY Constructors
<1> HIDE DEF r
<1>4. Reduced(x, words) = IF x.type = "Fe301" THEN Fe301(o) ELSE Fe301Lazy(words)
    BY DEF Reduced, o
<1>5. Represents(Reduced(x, words), r)
    BY <1>2, <1>3, <1>4
<1> QED
    BY <1>5 DEF r

\* The reduction of any product of operands below 4p.
LEMMA ProductReduced ==
    ASSUME NEW x, NEW product \in Wide, NEW v \in Nat, v < 4 * P, NEW w \in Nat, w < 4 * P,
           Sum(product, 2 * LIMBS) = v * w
    PROVE  Represents(Reduced(x, reduce_wide_unreduced(product)), (v * w) % P)
<1> DEFINE words == reduce_wide_unreduced(product)
           n == v * w
           z == Value(words)
<1>1. P \in Nat
    BY ModulusSize
<1>2. n \in Nat /\ n <= 16 * (P * P)
  <2> DEFINE q == 4 * P
  <2>1. q \in Nat /\ v <= q /\ w <= q
      BY <1>1
  <2> HIDE DEF q
  <2>2. v * (q - w) >= 0 /\ v * (q - w) = v * q - v * w
      BY <2>1, SMT
  <2>3. (q - v) * q >= 0 /\ (q - v) * q = q * q - v * q
      BY <2>1, SMT
  <2>4. v * w \in Nat /\ v * q \in Int /\ q * q \in Int
      BY <2>1
  <2>5. v * w <= q * q
      BY <2>2, <2>3, <2>4
  <2>6. q * q = 16 * (P * P)
      BY <1>1, SMT DEF q
  <2> QED
      BY <2>4, <2>5, <2>6
<1>3. Sum(product, 2 * LIMBS) = n
    OBVIOUS
<1> HIDE DEF n
<1>4. words \in Limbs /\ z < 2 * P /\ \E q \in Nat : n = z + P * q
    BY <1>2, <1>3, WideReduction
<1>5. PICK q \in Int : n = z + P * q
    BY <1>4
<1>6. z \in Int
    BY <1>4, ValueIsSum
<1> HIDE DEF z
<1>7. n % P = z % P
    BY <1>2, <1>5, <1>6, SameResidue
<1> HIDE DEF words
<1>8. Represents(Reduced(x, words), Value(words) % P)
    BY <1>4, ReducedCorrect DEF z
<1> QED
    BY <1>7, <1>8 DEF words, z, n

\* mul of each type, and mul_tight.
LEMMA MulCorrect ==
    ASSUME NEW x, NEW d, Represents(x, d), NEW y, NEW e, Represents(y, e)
    PROVE  Represents(Mul(x, y), TimesModP(d, e))
<1> DEFINE v == Value(x.words)
           w == Value(y.words)
           product == multiply_wide(x.words, y.words)
<1>1. /\ x.words \in Limbs /\ y.words \in Limbs /\ v \in Nat /\ w \in Nat
      /\ v < 4 * P /\ w < 4 * P /\ d = v % P /\ e = w % P /\ d \in 0 .. P - 1 /\ e \in 0 .. P - 1
    BY Represented
<1>2. product \in Wide /\ Sum(product, 2 * LIMBS) = v * w
    BY <1>1, WideProduct
<1>3. Mul(x, y) = Reduced(x, reduce_wide_unreduced(product))
    BY DEF Mul
<1> HIDE DEF v, w, product
<1>4. Represents(Mul(x, y), (v * w) % P)
    BY <1>1, <1>2, <1>3, ProductReduced
<1>5. (d * e) % P = (v * w) % P
  <2>1. v \in Int /\ w \in Int
      BY <1>1
  <2> QED
      BY <1>1, <2>1, ResidueOfProduct
<1>6. TimesModP(d, e) = (d * e) % P
  <2>1. d \in Int /\ e \in Nat /\ e < Power(LIMBS)
      BY <1>1, ModulusSize
  <2> QED
      BY <2>1, Reference
<1> QED
    BY <1>4, <1>5, <1>6

\* square of each type.
LEMMA SquareCorrect ==
    ASSUME NEW x, NEW d, Represents(x, d)
    PROVE  Represents(Square(x), TimesModP(d, d))
<1> DEFINE v == Value(x.words)
           product == square_wide(x.words)
<1>1. x.words \in Limbs /\ v \in Nat /\ v < 4 * P /\ d = v % P /\ d \in 0 .. P - 1
    BY Represented
<1>2. product \in Wide /\ Sum(product, 2 * LIMBS) = v * v
    BY <1>1, WideSquare
<1>3. Square(x) = Reduced(x, reduce_wide_unreduced(product))
    BY DEF Square
<1> HIDE DEF v, product
<1>4. Represents(Square(x), (v * v) % P)
    BY <1>1, <1>2, <1>3, ProductReduced
<1>5. (d * d) % P = (v * v) % P
  <2>1. v \in Int
      BY <1>1
  <2> QED
      BY <1>1, <2>1, ResidueOfProduct
<1>6. TimesModP(d, d) = (d * d) % P
  <2>1. d \in Int /\ d \in Nat /\ d < Power(LIMBS)
      BY <1>1, ModulusSize
  <2> QED
      BY <2>1, Reference
<1> QED
    BY <1>4, <1>5, <1>6

\* mul_small of each type.
LEMMA MulSmallCorrect ==
    ASSUME NEW x, NEW d, Represents(x, d), NEW c \in Multipliers
    PROVE  Represents(MulSmall(x, c), TimesModP(d, c))
<1> DEFINE v == Value(x.words)
           product == multiply_five_by_u32(x.words, c)
           words == reduce_small_product_unreduced(product)
           n == c * v
           z == Value(words)
<1>1. x.words \in Limbs /\ v \in Nat /\ v < 4 * P /\ d = v % P /\ d \in 0 .. P - 1
    BY Represented
<1>2. c \in Nat /\ c \in Digit /\ c < RADIX
    BY MultiplierSize, Radix DEF Digit
<1>3. product \in [0 .. LIMBS -> Digit] /\ Sum(product, LIMBS + 1) = c * v
    BY <1>1, <1>2, SmallProduct
<1>4. MulSmall(x, c) = Reduced(x, words)
    BY DEF MulSmall
<1>5. words \in Limbs /\ z < 2 * P /\ \E q \in Nat : c * v = z + P * q
  <2> HIDE DEF v, product
  <2> QED
      BY <1>1, <1>3, SmallReduction
<1>6. n \in Int /\ z \in Int /\ n = v * c
    BY <1>1, <1>2, <1>5, ValueIsSum
<1>7. PICK q \in Int : n = z + P * q
    BY <1>5
<1> HIDE DEF n, z
<1>8. n % P = z % P
    BY <1>6, <1>7, SameResidue
<1>9. Represents(Reduced(x, words), z % P)
  <2> HIDE DEF words
  <2> QED
      BY <1>5, ReducedCorrect DEF z
<1>10. (d * c) % P = n % P
  <2>1. PICK zero \in Int : zero = 0
      OBVIOUS
  <2> HIDE DEF v
  <2>2. (c * (v % P) + zero) % P = (c * v + zero) % P
    <3>1. c \in Int /\ v \in Int
        BY <1>1, <1>2
    <3> QED
        BY <3>1, LinearResidue
  <2>3. c * (v % P) + zero = d * c /\ c * v + zero = n
      BY <1>1, <1>2, <1>6, <2>1, ModulusSize
  <2> QED
      BY <2>2, <2>3
<1>11. TimesModP(d, c) = (d * c) % P
  <2>1. c < Power(LIMBS)
    <3>1. /\ LIMBS - 1 \in Nat /\ LIMBS - 1 <= 10
        BY Width
    <3> DEFINE y == Power(LIMBS - 1)
    <3>2. y \in Nat /\ y >= 1 /\ Power(LIMBS) = RADIX * y /\ RADIX \in Nat
        BY <3>1, Powers, FieldSize, Radix
    <3>3. y \in Nat /\ y # 0
        BY <3>2
    <3> HIDE DEF y
    <3>4. RADIX * y >= RADIX /\ RADIX * y \in Int
        BY <3>2, <3>3, AtLeastOnce
    <3> QED
        BY <1>2, <3>2, <3>4
  <2>2. d \in Int
      BY <1>1, ModulusSize
  <2> QED
      BY <1>2, <2>1, <2>2, Reference
<1> QED
    BY <1>4, <1>8, <1>9, <1>10, <1>11

\* from_fe301, canonical and tighten change the type and keep the element.
LEMMA FromFe301Correct ==
    ASSUME NEW x, NEW d, Represents(x, d), x.type = "Fe301"
    PROVE  Represents(from_fe301(x), d)
<1>1. /\ x.words \in Limbs /\ Value(x.words) \in Nat /\ Value(x.words) < Bound(x.type)
      /\ d = Value(x.words) % P
    BY Represented
<1>2. Value(x.words) < 2 * P
    BY <1>1, Bounds, ModulusSize
<1> QED
    BY <1>1, <1>2, Constructors DEF from_fe301

\* canonical subtracts p at most once.
LEMMA CanonicalCorrect ==
    ASSUME NEW x, NEW d, Represents(x, d), x.type = "Fe301Lazy"
    PROVE  Represents(canonical(x), d)
<1> DEFINE o == conditional_subtract_modulus_ct(x.words)
<1>1. x.words \in Limbs /\ Value(x.words) < Bound(x.type) /\ d = Value(x.words) % P
    BY Represented
<1>2. Value(x.words) < 2 * P
    BY <1>1, Bounds
<1>3. o \in Limbs /\ Value(o) < P /\ Value(o) % P = d
    BY <1>1, <1>2, CanonicalWords
<1>4. canonical(x) = Fe301(o)
    BY DEF canonical
<1> HIDE DEF o
<1> QED
    BY <1>3, <1>4, Constructors

\* tighten subtracts 2p at most once.
LEMMA TightenCorrect ==
    ASSUME NEW x, NEW d, Represents(x, d), x.type = "Fe301LazyLinear"
    PROVE  Represents(tighten(x), d)
<1> DEFINE o == SubtractIfNotBelow(x.words, MODULUS_TIMES_TWO)
           v == Value(x.words)
           z == Value(o)
<1>1. x.words \in Limbs /\ v \in Nat /\ v < 4 * P /\ d = v % P
    BY Represented
<1>2. o \in Limbs /\ z = IF v < 2 * P THEN v ELSE v - 2 * P
  <2>1. o \in Limbs /\ z = IF v < Value(MODULUS_TIMES_TWO) THEN v ELSE v - Value(MODULUS_TIMES_TWO)
      BY <1>1, ModulusWords, ConditionalSubtraction
  <2> QED
      BY <2>1, ModulusWords
<1>3. tighten(x) = Fe301Lazy(o)
    BY DEF tighten
<1> HIDE DEF o, v, z
<1>4. P \in Nat /\ z \in Int /\ z < 2 * P
    BY <1>1, <1>2, ModulusSize
<1>5. z % P = d
  <2>1. CASE v < 2 * P
      BY <1>1, <1>2, <2>1
  <2>2. CASE ~ (v < 2 * P)
    <3>1. PICK two \in Int : two = 2
        OBVIOUS
    <3>2. P * two = 2 * P
        BY <1>4, <3>1
    <3>3. v = z + P * two /\ v \in Int
        BY <1>1, <1>2, <1>4, <2>2, <3>2
    <3>4. v % P = z % P
        BY <1>4, <3>3, SameResidue
    <3> QED
        BY <1>1, <3>4
  <2> QED
      BY <2>1, <2>2
<1> QED
    BY <1>2, <1>3, <1>4, <1>5, Constructors DEF z


-----------------------------------------------------------------------------
(* The invariant of the programs. *)

FieldInvariant ==
    /\ held \in [Registers -> Element]
    /\ residue \in [Registers -> 0 .. P - 1]
    /\ \A r \in Registers : Represents(held[r], residue[r])

\* What the program starts from: words of a sample, and its residue.
LEMMA Start == Init => FieldInvariant
<1> SUFFICES ASSUME Init PROVE FieldInvariant
    OBVIOUS
<1>1. /\ held \in [Registers -> {v \in {[type |-> t, words |-> Words(x)] :
                                       t \in {"Fe301", "Fe301Lazy", "Fe301LazyLinear"},
                                       x \in Samples} :
                                Value(v.words) < Bound(v.type)}]
      /\ residue = [r \in Registers |-> Value(held[r].words) % P]
    BY DEF Init
<1>2. \A x \in Samples : Words(x) \in Limbs
  <2> SUFFICES ASSUME NEW x \in Samples PROVE Words(x) \in Limbs
      OBVIOUS
  <2>1. x \in 0 .. 4 * P - 1
      BY LimbAssumption DEF LimbAssumption
  <2>2. x \in Nat
      BY <2>1, ModulusSize
  <2> QED
      BY <2>2, WordsValue
<1>3. \A r \in Registers : held[r] \in Element /\ Value(held[r].words) < Bound(held[r].type)
    BY <1>1, <1>2 DEF Element, Types
<1>4. \A r \in Registers : residue[r] = Value(held[r].words) % P
    BY <1>1
<1>5. \A r \in Registers : Represents(held[r], residue[r])
    BY <1>3, <1>4 DEF Represents
<1>6. \A r \in Registers : residue[r] \in 0 .. P - 1
    BY <1>5, Represented
<1>7. held \in [Registers -> Element]
    BY <1>1, <1>3
<1>8. residue \in [Registers -> 0 .. P - 1]
    BY <1>1, <1>4, <1>6
<1> QED
    BY <1>5, <1>7, <1>8 DEF FieldInvariant

\* A register is given a value and what it stands for; the others keep theirs.
LEMMA WriteCorrect ==
    ASSUME FieldInvariant, NEW d \in Registers, NEW value, NEW element,
           Represents(value, element), Write(d, value, element)
    PROVE  FieldInvariant'
<1>1. held' = [held EXCEPT ![d] = value] /\ residue' = [residue EXCEPT ![d] = element]
    BY DEF Write
<1>2. /\ held \in [Registers -> Element] /\ residue \in [Registers -> 0 .. P - 1]
      /\ \A r \in Registers : Represents(held[r], residue[r])
    BY DEF FieldInvariant
<1>3. value \in Element
    BY DEF Represents
<1>4. element \in 0 .. P - 1
    BY Represented
<1>5. held' \in [Registers -> Element]
    BY <1>1, <1>2, <1>3
<1>6. residue' \in [Registers -> 0 .. P - 1]
  <2> DEFINE S == 0 .. P - 1
  <2>1. residue \in [Registers -> S] /\ element \in S
      BY <1>2, <1>4
  <2> HIDE DEF S
  <2>2. residue' \in [Registers -> S]
      BY <1>1, <2>1
  <2> QED
      BY <2>2 DEF S
<1>7. \A r \in Registers : Represents(held'[r], residue'[r])
  <2> TAKE r \in Registers
  <2>1. CASE r = d
    <3>1. held'[r] = value /\ residue'[r] = element
        BY <1>1, <1>2, <2>1
    <3> QED
        BY <3>1
  <2>2. CASE r # d
    <3>1. held'[r] = held[r] /\ residue'[r] = residue[r]
        BY <1>1, <1>2, <2>2
    <3> QED
        BY <1>2, <3>1
  <2> QED
      BY <2>1, <2>2
<1> QED
    BY <1>5, <1>6, <1>7 DEF FieldInvariant, Represents

\* Each operation writes a value that stands for its result modulo p.
LEMMA Step ==
    ASSUME FieldInvariant, NEW d \in Registers,
           \/ \E e \in Registers : AddOp(d, e) \/ SubOp(d, e) \/ MulOp(d, e)
           \/ SquareOp(d) \/ FromFe301Op(d) \/ CanonicalOp(d) \/ TightenOp(d)
           \/ \E c \in Multipliers : MulSmallOp(d, c)
    PROVE  FieldInvariant'
<1>1. \A r \in Registers : Represents(held[r], residue[r])
    BY DEF FieldInvariant
<1>2. ASSUME NEW e \in Registers, AddOp(d, e)
      PROVE  FieldInvariant'
  <2>1. /\ Are("Fe301", held[d], held[e]) \/ Are("Fe301Lazy", held[d], held[e])
        /\ Write(d, Add(held[d], held[e]), (residue[d] + residue[e]) % P)
      BY <1>2 DEF AddOp
  <2>2. Represents(Add(held[d], held[e]), (residue[d] + residue[e]) % P)
      BY <1>1, <2>1, AddCorrect
  <2> QED
      BY <2>1, <2>2, WriteCorrect
<1>3. ASSUME NEW e \in Registers, SubOp(d, e)
      PROVE  FieldInvariant'
  <2>1. /\ Are("Fe301", held[d], held[e]) \/ Are("Fe301Lazy", held[d], held[e])
        /\ Write(d, Sub(held[d], held[e]), (residue[d] - residue[e]) % P)
      BY <1>3 DEF SubOp
  <2>2. Represents(Sub(held[d], held[e]), (residue[d] - residue[e]) % P)
      BY <1>1, <2>1, SubCorrect
  <2> QED
      BY <2>1, <2>2, WriteCorrect
<1>4. ASSUME NEW e \in Registers, MulOp(d, e)
      PROVE  FieldInvariant'
  <2>1. Write(d, Mul(held[d], held[e]), TimesModP(residue[d], residue[e]))
      BY <1>4 DEF MulOp
  <2>2. Represents(Mul(held[d], held[e]), TimesModP(residue[d], residue[e]))
      BY <1>1, MulCorrect
  <2> QED
      BY <2>1, <2>2, WriteCorrect
<1>5. ASSUME SquareOp(d)
      PROVE  FieldInvariant'
  <2>1. Write(d, Square(held[d]), TimesModP(residue[d], residue[d]))
      BY <1>5 DEF SquareOp
  <2>2. Represents(Square(held[d]), TimesModP(residue[d], residue[d]))
      BY <1>1, SquareCorrect
  <2> QED
      BY <2>1, <2>2, WriteCorrect
<1>6. ASSUME FromFe301Op(d)
      PROVE  FieldInvariant'
  <2>1. held[d].type = "Fe301" /\ Write(d, from_fe301(held[d]), residue[d])
      BY <1>6 DEF FromFe301Op
  <2>2. Represents(from_fe301(held[d]), residue[d])
      BY <1>1, <2>1, FromFe301Correct
  <2> QED
      BY <2>1, <2>2, WriteCorrect
<1>7. ASSUME CanonicalOp(d)
      PROVE  FieldInvariant'
  <2>1. held[d].type = "Fe301Lazy" /\ Write(d, canonical(held[d]), residue[d])
      BY <1>7 DEF CanonicalOp
  <2>2. Represents(canonical(held[d]), residue[d])
      BY <1>1, <2>1, CanonicalCorrect
  <2> QED
      BY <2>1, <2>2, WriteCorrect
<1>8. ASSUME TightenOp(d)
      PROVE  FieldInvariant'
  <2>1. held[d].type = "Fe301LazyLinear" /\ Write(d, tighten(held[d]), residue[d])
      BY <1>8 DEF TightenOp
  <2>2. Represents(tighten(held[d]), residue[d])
      BY <1>1, <2>1, TightenCorrect
  <2> QED
      BY <2>1, <2>2, WriteCorrect
<1>9. ASSUME NEW c \in Multipliers, MulSmallOp(d, c)
      PROVE  FieldInvariant'
  <2>1. Write(d, MulSmall(held[d], c), TimesModP(residue[d], c))
      BY <1>9 DEF MulSmallOp
  <2>2. Represents(MulSmall(held[d], c), TimesModP(residue[d], c))
      BY <1>1, MulSmallCorrect
  <2> QED
      BY <2>1, <2>2, WriteCorrect
<1> QED
    BY <1>2, <1>3, <1>4, <1>5, <1>6, <1>7, <1>8, <1>9

\* In every state of a program over the field types of field_5x64.rs, for
\* every word width and modulus that leave the room the reducers claim, the
\* registers hold limbs below the bound of their type and stand for the
\* element of the field the operations performed so far give.
THEOREM FieldInvariance == Spec => []FieldInvariant
<1>1. Init => FieldInvariant
    BY Start
<1>2. FieldInvariant /\ [Next]_vars => FieldInvariant'
  <2> SUFFICES ASSUME FieldInvariant, [Next]_vars PROVE FieldInvariant'
      OBVIOUS
  <2>1. CASE Next
    <3>1. PICK d \in Registers :
            \/ \E e \in Registers : AddOp(d, e) \/ SubOp(d, e) \/ MulOp(d, e)
            \/ SquareOp(d) \/ FromFe301Op(d) \/ CanonicalOp(d) \/ TightenOp(d)
            \/ \E c \in Multipliers : MulSmallOp(d, c)
        BY <2>1, Zenon DEF Next
    <3> QED
        BY <3>1, Step
  <2>2. CASE UNCHANGED vars
      BY <2>2 DEF FieldInvariant, vars, Represents
  <2> QED
      BY <2>1, <2>2
<1> QED
    BY <1>1, <1>2, PTL DEF Spec

\* LimbsFollowTheField for every word width, modulus and length of program:
\* no carry, borrow, shift or fold of field_5x64.rs loses a bit.
THEOREM LimbsAreExact == Spec => []LimbsFollowTheField
<1>1. FieldInvariant => LimbsFollowTheField
  <2> SUFFICES ASSUME FieldInvariant, NEW r \in Registers
               PROVE  /\ \A i \in 0 .. LIMBS - 1 : held[r].words[i] \in 0 .. RADIX - 1
                      /\ Value(held[r].words) < Bound(held[r].type)
                      /\ Value(held[r].words) % P = residue[r]
      BY DEF LimbsFollowTheField
  <2>1. Represents(held[r], residue[r])
      BY DEF FieldInvariant
  <2>2. /\ held[r].words \in Limbs /\ Value(held[r].words) < Bound(held[r].type)
        /\ residue[r] = Value(held[r].words) % P
      BY <2>1, Represented
  <2>3. \A i \in 0 .. LIMBS - 1 : held[r].words[i] \in Digit
    <3> DEFINE w == held[r].words
    <3>1. w \in Limbs
        BY <2>2
    <3> HIDE DEF w
    <3>2. \A i \in 0 .. LIMBS - 1 : w[i] \in Digit
        BY <3>1, LimbIsInt
    <3> QED
        BY <3>2 DEF w
  <2> QED
      BY <2>2, <2>3 DEF Digit
<1> QED
    BY <1>1, FieldInvariance, PTL

=============================================================================
