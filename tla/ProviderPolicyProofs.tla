------------------------ MODULE ProviderPolicyProofs ------------------------
(***************************************************************************)
(* What the provider lets in.  First the core it is loaded into: the       *)
(* version parser is safe, and its verdict right, for every string and     *)
(* every width of unsigned int.  The first invariant is the type of the    *)
(* state with the cursor's bound: the cursor only moves over a character   *)
(* that is not the NUL.  The second says what has been read: a component   *)
(* that starts where the string has it, and the number of its digits so    *)
(* far.  A refusal is then right because no version goes on from there,    *)
(* and the end of a component is the only place it can end.  Then the      *)
(* policy: key generation follows it, and agrees with what was announced,  *)
(* for any sequence of requests.                                           *)
(***************************************************************************)
EXTENDS CoreVersion, ProviderPolicy, FiniteSetTheorems, WellFoundedInduction, TLAPS

-----------------------------------------------------------------------------
\* The version check.

CursorInside == cursor <= Len(text) + 1

IInv == TypeOK /\ CursorInside

\* A character the code recognises is one of the string.
LEMMA CharInside ==
  ASSUME IInv, Char(cursor) # Nul
  PROVE  cursor \in 1 .. Len(text) /\ Char(cursor) = text[cursor]
BY VersionAssumption DEF IInv, TypeOK, CursorInside, Char, VersionAssumption

\* The overflow test bounds the sum it guards.
LEMMA SumFits ==
  ASSUME NEW a \in 0 .. UINT_MAX, NEW d \in Digits, ~(a > (UINT_MAX - d) \div 10)
  PROVE  a * 10 + d \in 0 .. UINT_MAX
BY VersionAssumption DEF VersionAssumption, Digits

LEMMA SumExact ==
  ASSUME NEW n \in 0 .. UINT_MAX
  PROVE  n % (UINT_MAX + 1) = n
BY VersionAssumption DEF VersionAssumption

LEMMA InitInv == VersionInit => IInv
BY VersionAssumption DEF VersionInit, IInv, TypeOK, CursorInside, VersionAssumption

\* What one iteration of the loop does.
LEMMA DigitStep ==
  ASSUME IInv, Digit
  PROVE  IInv' /\ ExactStep
<1> DEFINE d == Char(cursor)
<1>1. /\ d \in Digits /\ d # Nul /\ accumulator \in 0 .. UINT_MAX /\ cursor \in Nat \ {0}
      /\ UNCHANGED <<hybrid, text, component, value>> /\ pc = "digit"
    BY VersionAssumption DEF Digit, IInv, TypeOK, VersionAssumption
<1>2. cursor \in 1 .. Len(text) /\ d = text[cursor] /\ Len(text) \in Nat
    <2>1. text \in Seq(Characters)
        BY VersionAssumption DEF IInv, TypeOK, VersionAssumption
    <2> QED
        BY <1>1, <2>1, CharInside
<1>3. CASE Overflows(d)
    <2>1. pc' = "refused" /\ UNCHANGED <<accumulator, cursor>>
        BY <1>3 DEF Digit
    <2> QED
        BY <1>1, <2>1 DEF IInv, TypeOK, CursorInside, ExactStep
<1>4. CASE ~Overflows(d)
    <2>1. /\ accumulator' = (accumulator * 10 + d) % (UINT_MAX + 1)
          /\ cursor' = cursor + 1 /\ UNCHANGED pc
        BY <1>4 DEF Digit
    <2>2. accumulator * 10 + d \in 0 .. UINT_MAX
        BY <1>1, <1>4, SumFits DEF Overflows
    <2>3. accumulator' = accumulator * 10 + d
        BY <2>1, <2>2, SumExact
    <2> HIDE DEF d
    <2>4. ExactStep
        BY <1>2, <2>2, <2>3 DEF ExactStep
    <2>5. IInv'
        BY <1>1, <1>2, <2>1, <2>2, <2>3 DEF IInv, TypeOK, CursorInside
    <2> QED
        BY <2>4, <2>5
<1> QED
    BY <1>3, <1>4

LEMMA AfterMajorInv ==
  ASSUME IInv, AfterMajor
  PROVE  IInv'
<1>1. text \in Seq(Characters) /\ Len(text) \in Nat /\ cursor \in Nat \ {0}
    BY VersionAssumption DEF IInv, TypeOK, VersionAssumption
<1>2. CASE Char(cursor) = Nul
    BY <1>2, VersionAssumption DEF VersionAssumption, AfterMajor, IInv, TypeOK, CursorInside
<1>3. CASE Char(cursor) # Nul
    BY <1>1, <1>3, CharInside DEF AfterMajor, IInv, TypeOK, CursorInside
<1> QED
    BY <1>2, <1>3

LEMMA NextInv == IInv /\ [VersionNext]_versionVars => IInv' /\ [ExactStep]_versionVars
<1> SUFFICES ASSUME IInv, [VersionNext]_versionVars PROVE IInv' /\ [ExactStep]_versionVars
    OBVIOUS
<1>1. CASE FirstDigit
    BY <1>1, VersionAssumption
    DEF FirstDigit, IInv, TypeOK, CursorInside, ExactStep, VersionAssumption
<1>2. CASE Digit
    BY <1>2, DigitStep
<1>3. CASE ComponentEnds
    BY <1>3 DEF ComponentEnds, IInv, TypeOK, CursorInside, ExactStep
<1>4. CASE AfterMajor
    BY <1>4, AfterMajorInv DEF AfterMajor, ExactStep
<1>5. CASE AfterMinor
    BY <1>5 DEF AfterMinor, IInv, TypeOK, CursorInside, ExactStep
<1>6. CASE UNCHANGED versionVars
    BY <1>6 DEF versionVars, IInv, TypeOK, CursorInside, ExactStep
<1> QED
    BY <1>1, <1>2, <1>3, <1>4, <1>5, <1>6 DEF VersionNext, Stop

LEMMA Invariance == VersionSpec => []IInv
BY InitInv, NextInv, PTL DEF VersionSpec

\* The components fit the unsigned int they are parsed into.
THEOREM TypeCorrect == VersionSpec => []TypeOK
<1>1. IInv => TypeOK
    BY DEF IInv
<1> QED
    BY <1>1, Invariance, PTL

\* x301_core_version_is_supported never looks behind the terminating NUL.
THEOREM ReadsInside == VersionSpec => []NeverReadsPastEnd
<1>1. IInv => NeverReadsPastEnd
    BY DEF IInv, CursorInside, NeverReadsPastEnd
<1> QED
    BY <1>1, Invariance, PTL

\* The test in x301_parse_decimal_component makes its unsigned arithmetic
\* exact, whatever the width of unsigned int.
THEOREM Exact == VersionSpec => NoWrapAround
BY Invariance, NextInv, PTL DEF VersionSpec, NoWrapAround

-----------------------------------------------------------------------------
\* Numbers, by induction over the characters.

\* A set of numbers that holds zero and every successor holds them all.
LEMMA SetInduction ==
  ASSUME NEW S \in SUBSET Nat, 0 \in S, \A n \in S : n + 1 \in S
  PROVE  S = Nat
<1> DEFINE T == Nat \ S
           R == {ss \in Nat \X Nat : ss[1] < ss[2]}
<1> SUFFICES ASSUME T # {} PROVE FALSE
    OBVIOUS
<1>1. IsWellFoundedOn(R, Nat)
    BY NatLessThanWellFounded DEF OpToRel
<1>2. PICK x \in T : \A y \in T : ~(<<y, x>> \in R)
  <2>1. T \subseteq Nat /\ T # {}
      OBVIOUS
  <2> HIDE DEF T, R
  <2> QED
      BY <1>1, <2>1, WFMin, Zenon
<1>3. x \in Nat /\ x # 0 /\ x - 1 \in Nat /\ x - 1 \in T
    OBVIOUS
<1>4. <<x - 1, x>> \in R
    BY <1>3
<1> QED
    BY <1>2, <1>3, <1>4

\* The numbers of the first n characters.
Reads(t, first, s, n) ==
  /\ s = [i \in 0 .. Len(t) |-> s[i]]
  /\ \A i \in 0 .. Len(t) : i <= n => s[i] = IF i < first THEN 0 ELSE s[i - 1] * 10 + t[i]

\* One more character extends them.
LEMMA ReadsExist ==
  ASSUME NEW t \in Seq(Characters), NEW first \in Nat \ {0}
  PROVE  \E s : Reads(t, first, s, Len(t))
<1> DEFINE S == {n \in Nat : \E s : Reads(t, first, s, n)}
<1>1. Len(t) \in Nat
    OBVIOUS
<1>2. 0 \in S
  <2>1. Reads(t, first, [i \in 0 .. Len(t) |-> 0], 0)
      BY <1>1 DEF Reads
  <2> QED
      BY <2>1
<1>3. ASSUME NEW n \in S PROVE n + 1 \in S
  <2>1. PICK s : Reads(t, first, s, n)
      OBVIOUS
  <2> DEFINE v == IF n + 1 < first THEN 0 ELSE s[n] * 10 + t[n + 1]
             u == [i \in 0 .. Len(t) |-> IF i = n + 1 THEN v ELSE s[i]]
  <2>2. \A i \in 0 .. Len(t) : u[i] = IF i = n + 1 THEN v ELSE s[i]
      OBVIOUS
  <2>3. u = [i \in 0 .. Len(t) |-> u[i]]
      OBVIOUS
  <2> HIDE DEF u
  <2>4. ASSUME NEW i \in 0 .. Len(t), i <= n + 1
        PROVE  u[i] = IF i < first THEN 0 ELSE u[i - 1] * 10 + t[i]
    <3>1. n \in Nat /\ i \in Nat
        BY <1>1
    <3>2. CASE i < first
      <4>1. CASE i = n + 1
        <5>1. v = 0 /\ u[i] = v
            BY <2>2, <3>2, <4>1
        <5> QED
            BY <3>2, <5>1
      <4>2. CASE i # n + 1
        <5>1. i <= n /\ u[i] = s[i]
            BY <2>2, <2>4, <3>1, <4>2
        <5>2. s[i] = 0
            BY <2>1, <3>2, <5>1 DEF Reads
        <5> QED
            BY <3>2, <5>1, <5>2
      <4> QED
          BY <4>1, <4>2
    <3>3. CASE ~(i < first)
      <4>1. i - 1 \in 0 .. Len(t) /\ i - 1 # n + 1
          BY <1>1, <2>4, <3>1, <3>3
      <4>2. u[i - 1] = s[i - 1]
          BY <2>2, <4>1
      <4>3. CASE i = n + 1
        <5>1. u[i] = s[n] * 10 + t[n + 1] /\ i - 1 = n
            BY <2>2, <3>1, <3>3, <4>3
        <5> QED
            BY <3>3, <4>2, <4>3, <5>1
      <4>4. CASE i # n + 1
        <5>1. i <= n /\ u[i] = s[i]
            BY <2>2, <2>4, <3>1, <4>4
        <5>2. s[i] = s[i - 1] * 10 + t[i]
            BY <2>1, <3>3, <5>1 DEF Reads
        <5> QED
            BY <3>3, <4>2, <5>1, <5>2
      <4> QED
          BY <4>3, <4>4
    <3> QED
        BY <3>2, <3>3
  <2>5. Reads(t, first, u, n + 1)
      BY <2>3, <2>4 DEF Reads
  <2> QED
      BY <2>5
<1>4. S = Nat
  <2>1. S \in SUBSET Nat
      OBVIOUS
  <2> HIDE DEF S
  <2> QED
      BY <1>2, <1>3, <2>1, SetInduction
<1> QED
    BY <1>1, <1>4

\* A number is its leading digits times ten and the last digit.
LEMMA NumberStep ==
  ASSUME NEW t \in Seq(Characters), NEW first \in Nat \ {0}, NEW i \in 0 .. Len(t)
  PROVE  Number(t, first, i) = IF i < first THEN 0 ELSE Number(t, first, i - 1) * 10 + t[i]
<1> DEFINE Extended(s) == [k \in 0 .. Len(t) |-> IF k < first THEN 0 ELSE s[k - 1] * 10 + t[k]]
           p == Numbers(t, first)
<1>1. PICK s : Reads(t, first, s, Len(t))
    BY ReadsExist
<1>2. s = Extended(s)
  <2>1. ASSUME NEW k \in 0 .. Len(t) PROVE s[k] = IF k < first THEN 0 ELSE s[k - 1] * 10 + t[k]
    <3>1. k <= Len(t)
        OBVIOUS
    <3> QED
        BY <1>1, <3>1 DEF Reads
  <2>2. s = [k \in 0 .. Len(t) |-> s[k]]
      BY <1>1 DEF Reads
  <2>3. [k \in 0 .. Len(t) |-> s[k]] = Extended(s)
      BY <2>1
  <2> HIDE DEF Extended
  <2> QED
      BY <2>2, <2>3, Zenon
<1>3. p = Extended(p)
    BY <1>2, Zenon DEF Numbers
<1> HIDE DEF p
<1>4. p[i] = Extended(p)[i]
    BY <1>3
<1>5. Extended(p)[i] = IF i < first THEN 0 ELSE p[i - 1] * 10 + t[i]
    OBVIOUS
<1> QED
    BY <1>4, <1>5 DEF p, Number

DigitsOnly(t, first, last) == \A i \in first .. last : t[i] \in Digits

\* Digits make a natural number.
LEMMA NumberIsNatural ==
  ASSUME NEW t \in Seq(Characters), NEW first \in Nat \ {0}, NEW last \in 0 .. Len(t),
         DigitsOnly(t, first, last)
  PROVE  \A i \in 0 .. last : Number(t, first, i) \in Nat
<1> DEFINE N(i) == Number(t, first, i)
           S == {n \in Nat : n <= last => N(n) \in Nat}
<1>1. Len(t) \in Nat /\ last \in Nat
    OBVIOUS
<1>2. \A i \in 0 .. last : N(i) = IF i < first THEN 0 ELSE N(i - 1) * 10 + t[i]
    BY <1>1, NumberStep
<1> HIDE DEF N
<1>3. 0 \in S
    BY <1>1, <1>2
<1>4. ASSUME NEW n \in S PROVE n + 1 \in S
  <2>1. CASE n + 1 > last
      BY <1>1, <2>1
  <2>2. CASE n + 1 <= last
    <3>1. n + 1 \in 0 .. last /\ N(n) \in Nat /\ (n + 1) - 1 = n
        BY <1>1, <2>2
    <3>2. CASE n + 1 < first
        BY <1>2, <3>1, <3>2
    <3>3. CASE ~(n + 1 < first)
      <4>1. n + 1 \in first .. last
          BY <3>1, <3>3
      <4>2. t[n + 1] \in Nat
          BY <4>1 DEF DigitsOnly, Digits
      <4>3. N(n + 1) = N(n) * 10 + t[n + 1]
          BY <1>2, <3>1, <3>3
      <4> QED
          BY <3>1, <4>2, <4>3
    <3> QED
        BY <3>2, <3>3
  <2> QED
      BY <1>1, <2>1, <2>2
<1>5. S = Nat
  <2>1. S \in SUBSET Nat
      OBVIOUS
  <2> HIDE DEF S
  <2> QED
      BY <1>3, <1>4, <2>1, SetInduction
<1> QED
    BY <1>1, <1>5 DEF N

\* More digits make a number that is not smaller.
LEMMA NumberGrows ==
  ASSUME NEW t \in Seq(Characters), NEW first \in Nat \ {0}, NEW last \in 0 .. Len(t),
         DigitsOnly(t, first, last), NEW m \in 0 .. last
  PROVE  Number(t, first, m) <= Number(t, first, last)
<1> DEFINE N(i) == Number(t, first, i)
           S == {n \in Nat : m + n <= last => N(m) <= N(m + n)}
<1>1. Len(t) \in Nat /\ last \in Nat /\ m \in Nat
    OBVIOUS
<1>2. \A i \in 0 .. last : N(i) = IF i < first THEN 0 ELSE N(i - 1) * 10 + t[i]
    BY <1>1, NumberStep
<1>3. \A i \in 0 .. last : N(i) \in Nat
    BY NumberIsNatural
<1> HIDE DEF N
<1>4. 0 \in S
    BY <1>1, <1>3
<1>5. ASSUME NEW n \in S PROVE n + 1 \in S
  <2>1. CASE m + (n + 1) > last
      BY <1>1, <2>1
  <2>2. CASE m + (n + 1) <= last
    <3> DEFINE i == m + (n + 1)
    <3>1. i \in 0 .. last /\ N(m) <= N(i - 1) /\ i - 1 = m + n /\ i - 1 \in 0 .. last
        BY <1>1, <2>2
    <3> HIDE DEF i
    <3>2. N(i) \in Nat /\ N(i - 1) \in Nat /\ N(m) \in Nat
        BY <1>1, <1>3, <3>1
    <3>3. CASE i < first
      <4>1. N(i) = 0 /\ N(i - 1) = 0
          BY <1>2, <3>1, <3>3
      <4> QED
          BY <3>1, <4>1 DEF i
    <3>4. CASE ~(i < first)
      <4>1. N(i) = N(i - 1) * 10 + t[i]
          BY <1>2, <3>1, <3>4
      <4>2. t[i] \in Nat
          BY <3>1, <3>4 DEF DigitsOnly, Digits
      <4>3. N(m) <= N(i)
        <5> HIDE DEF S
        <5>1. ASSUME NEW a \in Nat, NEW b \in Nat, NEW c \in Nat, a <= b PROVE a <= b * 10 + c
            BY <5>1
        <5>2. N(m) <= N(i - 1) * 10 + t[i]
            BY <3>1, <3>2, <4>2, <5>1
        <5> QED
            BY <4>1, <5>2
      <4> QED
          BY <4>3 DEF i
    <3> QED
        BY <3>3, <3>4
  <2> QED
      BY <1>1, <2>1, <2>2
<1>6. S = Nat
  <2>1. S \in SUBSET Nat
      OBVIOUS
  <2> HIDE DEF S
  <2> QED
      BY <1>4, <1>5, <2>1, SetInduction
<1>7. last - m \in S /\ m + (last - m) = last
  <2>1. last - m \in Nat /\ m + (last - m) = last
      BY <1>1
  <2> HIDE DEF S
  <2> QED
      BY <1>6, <2>1
<1>8. N(m) <= N(last)
    BY <1>1, <1>7
<1> QED
    BY <1>8 DEF N

-----------------------------------------------------------------------------
\* The verdict.

\* The component being read starts at first; for the minor, the number and the
\* dot before it are the major.
Started(first) ==
  \/ component = "major" /\ first = 1
  \/ /\ component = "minor"
     /\ first - 1 \in 1 .. Len(text) /\ text[first - 1] = Dot
     /\ IsNumber(text, 1, first - 2) /\ value.major = Number(text, 1, first - 2)

\* What has been read of that component.
Reading(first) ==
  /\ pc = "component" => cursor = first
  /\ pc = "digit" =>
       /\ first <= cursor /\ DigitsOnly(text, first, cursor - 1)
       /\ accumulator = Number(text, first, cursor - 1)
       /\ cursor = first => Char(cursor) \in Digits
  /\ pc = "separator" =>
       /\ IsNumber(text, first, cursor - 1) /\ Char(cursor) \notin Digits
       /\ value[component] = Number(text, first, cursor - 1)

VersionInvariant ==
  /\ IInv
  /\ VerdictIsTheVersionRule
  /\ ~Decided => \E first \in Nat \ {0} : Started(first) /\ Reading(first)

\* A version the text is would have to go on at first with a number up to j.
GoesOn(first, j, major, minor) ==
  /\ first < j /\ j \in 1 .. Len(text) + 1 /\ (j <= Len(text) => text[j] = Dot)
  /\ IsNumber(text, first, j - 1)
  /\ component = "major" => j <= Len(text)
  /\ component = "minor" => major = value.major /\ Number(text, first, j - 1) = minor

\* The string, and where the cursor may be in it.
LEMMA TextIsString ==
  ASSUME IInv
  PROVE  text \in Seq(Characters) /\ Len(text) \in Nat /\ cursor \in Nat \ {0} /\ cursor <= Len(text) + 1
BY VersionAssumption DEF IInv, TypeOK, CursorInside, VersionAssumption

\* Two runs of digits from the same character that a dot or the end stops are
\* one: neither can go past where the other stops.
LEMMA SameStop ==
  ASSUME IInv, NEW first \in Nat \ {0}, NEW i \in Nat, NEW j \in Nat,
         first < i, i <= j, j <= Len(text) + 1,
         DigitsOnly(text, first, j - 1), i <= Len(text) => text[i] \notin Digits
  PROVE  i = j
<1>1. Len(text) \in Nat
    BY TextIsString
<1> SUFFICES ASSUME i # j PROVE FALSE
    OBVIOUS
<1>2. i <= Len(text) /\ i \in first .. j - 1
    BY <1>1
<1> QED
    BY <1>2 DEF DigitsOnly

\* What ends a component is no digit.
LEMMA DotIsNoDigit == Dot \notin Digits /\ Nul \notin Digits /\ Nul # Dot
BY VersionAssumption DEF VersionAssumption

\* What has been read is how any version the text is begins: the characters
\* before first are its major component, and first starts the one being read.
LEMMA VersionGoesOn ==
  ASSUME IInv, NEW first \in Nat \ {0}, Started(first), NEW major, NEW minor,
         VersionIs(text, major, minor)
  PROVE  \E j \in Nat : GoesOn(first, j, major, minor)
<1>1. Len(text) \in Nat
    BY TextIsString
<1>2. PICK i \in 1 .. Len(text) + 1, j \in 1 .. Len(text) + 1 :
        /\ i < j /\ text[i] = Dot /\ (j <= Len(text) => text[j] = Dot)
        /\ IsNumber(text, 1, i - 1) /\ Number(text, 1, i - 1) = major
        /\ IsNumber(text, i + 1, j - 1) /\ Number(text, i + 1, j - 1) = minor
    BY DEF VersionIs
<1>3. i \in Nat /\ j \in Nat /\ i <= Len(text)
    BY <1>1, <1>2
<1>4. 1 <= i - 1 /\ DigitsOnly(text, 1, i - 1) /\ i + 1 <= j - 1
    BY <1>2 DEF IsNumber, DigitsOnly
<1>5. CASE component = "major"
  <2>1. first = 1
      BY <1>5 DEF Started
  <2> QED
      BY <1>2, <1>3, <1>4, <1>5, <2>1 DEF GoesOn
<1>6. CASE component = "minor"
  <2> DEFINE k == first - 1
  <2>1. /\ k \in 1 .. Len(text) /\ text[k] = Dot /\ k - 1 = first - 2 /\ k + 1 = first
        /\ IsNumber(text, 1, k - 1) /\ value.major = Number(text, 1, k - 1)
      BY <1>6 DEF Started
  <2> HIDE DEF k
  <2>2. 1 <= k - 1 /\ DigitsOnly(text, 1, k - 1) /\ k \in Nat
      BY <1>1, <2>1 DEF IsNumber, DigitsOnly
  <2>3. i = k
    <3>1. CASE i <= k
        BY <1>2, <1>3, <1>4, <2>1, <2>2, <3>1, SameStop, DotIsNoDigit
    <3>2. CASE k <= i
        BY <1>2, <1>3, <1>4, <2>1, <2>2, <3>2, SameStop, DotIsNoDigit
    <3> QED
        BY <1>3, <2>2, <3>1, <3>2
  <2> QED
      BY <1>2, <1>3, <1>4, <1>6, <2>1, <2>3 DEF GoesOn
<1> QED
    BY <1>5, <1>6 DEF Started

\* A refusal is right when no version can go on where it was made.
LEMMA RefusalIsRight ==
  ASSUME VersionInvariant, pc' = "refused", text' = text, hybrid' = hybrid, IInv',
         NEW first \in Nat \ {0}, Started(first),
         \A j \in Nat, minor \in 0 .. UINT_MAX :
           GoesOn(first, j, SUPPORTED_MAJOR, minor) =>
             ~(hybrid /\ SUPPORTED_MAJOR = 3 => minor >= 5)
  PROVE  VersionInvariant'
<1>1. ASSUME NEW minor \in 0 .. UINT_MAX, VersionIs(text, SUPPORTED_MAJOR, minor)
      PROVE  ~(hybrid /\ SUPPORTED_MAJOR = 3 => minor >= 5)
  <2>1. PICK j \in Nat : GoesOn(first, j, SUPPORTED_MAJOR, minor)
      BY <1>1, VersionGoesOn DEF VersionInvariant
  <2> QED
      BY <2>1
<1>2. ~SupportedVersion(text, hybrid)
    BY <1>1 DEF SupportedVersion
<1>3. VerdictIsTheVersionRule'
    BY <1>2 DEF VerdictIsTheVersionRule
<1> QED
    BY <1>3 DEF VersionInvariant, Decided

\* A component that does not start with a digit is no number.
LEMMA ComponentKeepsVerdict ==
  ASSUME VersionInvariant, FirstDigit
  PROVE  VersionInvariant'
<1>1. PICK first \in Nat \ {0} : Started(first) /\ Reading(first)
    BY DEF VersionInvariant, FirstDigit, Decided
<1>2. /\ IInv /\ IInv' /\ cursor = first /\ UNCHANGED <<hybrid, text, cursor, component, value>>
      /\ accumulator' = 0 /\ pc = "component"
    BY <1>1, NextInv DEF VersionInvariant, FirstDigit, Reading, VersionNext
<1>3. text \in Seq(Characters) /\ Len(text) \in Nat /\ cursor <= Len(text) + 1
    BY <1>2, TextIsString
<1>4. CASE Char(cursor) \in Digits
  <2>1. pc' = "digit"
      BY <1>4 DEF FirstDigit
  <2>2. Number(text, first, first - 1) = 0
    <3>1. first - 1 \in 0 .. Len(text) /\ first - 1 < first
        BY <1>2, <1>3
    <3> QED
        BY <1>3, <3>1, NumberStep
  <2>3. DigitsOnly(text, first, first - 1)
      BY DEF DigitsOnly
  <2>4. Char(cursor)' = Char(cursor)
      BY <1>2 DEF Char
  <2>5. Started(first)'
      BY <1>1, <1>2 DEF Started
  <2>6. Reading(first)'
      BY <1>2, <1>4, <2>1, <2>2, <2>3, <2>4 DEF Reading
  <2> QED
      BY <1>2, <2>1, <2>5, <2>6 DEF VersionInvariant, VerdictIsTheVersionRule, Decided
<1>5. CASE Char(cursor) \notin Digits
  <2>1. pc' = "refused"
      BY <1>5 DEF FirstDigit
  <2>2. ASSUME NEW j \in Nat, NEW minor \in 0 .. UINT_MAX, GoesOn(first, j, SUPPORTED_MAJOR, minor)
        PROVE  FALSE
    <3>1. first <= j - 1 /\ text[first] \in Digits /\ j \in 1 .. Len(text) + 1
        BY <2>2 DEF GoesOn, IsNumber
    <3>2. first <= Len(text)
        BY <1>3, <3>1
    <3> QED
        BY <1>2, <1>5, <3>1, <3>2 DEF Char
  <2> QED
      BY <1>1, <1>2, <2>1, <2>2, RefusalIsRight
<1> QED
    BY <1>4, <1>5

\* A sum the overflow test refuses does not fit.
LEMMA RefusedSumIsTooLarge ==
  ASSUME NEW a \in 0 .. UINT_MAX, NEW d \in Digits, a > (UINT_MAX - d) \div 10
  PROVE  a * 10 + d > UINT_MAX
BY VersionAssumption DEF VersionAssumption, Digits

\* One more digit, or a number that no digits to come can make fit.
LEMMA DigitKeepsVerdict ==
  ASSUME VersionInvariant, Digit
  PROVE  VersionInvariant'
<1> DEFINE d == Char(cursor)
<1>1. PICK first \in Nat \ {0} : Started(first) /\ Reading(first)
    BY DEF VersionInvariant, Digit, Decided
<1>2. /\ IInv /\ IInv' /\ UNCHANGED <<hybrid, text, component, value>> /\ pc = "digit" /\ d \in Digits
      /\ first <= cursor /\ DigitsOnly(text, first, cursor - 1)
      /\ accumulator = Number(text, first, cursor - 1)
    BY <1>1, NextInv DEF VersionInvariant, Digit, Reading, VersionNext
<1>3. /\ text \in Seq(Characters) /\ Len(text) \in Nat
      /\ cursor \in 1 .. Len(text) /\ d = text[cursor] /\ accumulator \in 0 .. UINT_MAX
    BY <1>2, TextIsString, CharInside, DotIsNoDigit DEF IInv, TypeOK
<1>4. DigitsOnly(text, first, cursor)
    BY <1>2, <1>3 DEF DigitsOnly
<1>5. Number(text, first, cursor) = accumulator * 10 + d
  <2>1. cursor \in 0 .. Len(text) /\ ~(cursor < first)
      BY <1>2, <1>3
  <2> QED
      BY <1>2, <1>3, <2>1, NumberStep
<1> HIDE DEF d
<1>6. CASE Overflows(d)
  <2>1. pc' = "refused"
      BY <1>6 DEF Digit, d
  <2>2. accumulator * 10 + d > UINT_MAX
      BY <1>2, <1>3, <1>6, RefusedSumIsTooLarge DEF Overflows
  <2>3. ASSUME NEW j \in Nat, NEW minor \in 0 .. UINT_MAX, GoesOn(first, j, SUPPORTED_MAJOR, minor)
        PROVE  FALSE
    <3>1. /\ first < j /\ j \in 1 .. Len(text) + 1 /\ (j <= Len(text) => text[j] = Dot)
          /\ DigitsOnly(text, first, j - 1) /\ Number(text, first, j - 1) <= UINT_MAX
        BY <2>3 DEF GoesOn, IsNumber, DigitsOnly
    <3>2. CASE j <= cursor
      <4>1. j \in first .. cursor /\ j <= Len(text)
          BY <1>2, <1>3, <3>1, <3>2
      <4> QED
          BY <1>4, <3>1, <4>1, DotIsNoDigit DEF DigitsOnly
    <3>3. CASE j > cursor
      <4>1. j - 1 \in 0 .. Len(text) /\ cursor \in 0 .. j - 1
          BY <1>3, <3>1, <3>3
      <4>2. Number(text, first, cursor) <= Number(text, first, j - 1)
          BY <1>3, <3>1, <4>1, NumberGrows
      <4>3. Number(text, first, j - 1) \in Nat /\ Number(text, first, cursor) \in Nat
        <5>1. j - 1 \in 0 .. j - 1
            BY <4>1
        <5> QED
            BY <1>3, <3>1, <4>1, <5>1, NumberIsNatural
      <4> QED
          BY <1>5, <2>2, <3>1, <4>2, <4>3, VersionAssumption DEF VersionAssumption
    <3> QED
        BY <1>3, <3>2, <3>3
  <2> QED
      BY <1>1, <1>2, <2>1, <2>3, RefusalIsRight
<1>7. CASE ~Overflows(d)
  <2>1. /\ accumulator' = (accumulator * 10 + d) % (UINT_MAX + 1)
        /\ cursor' = cursor + 1 /\ UNCHANGED pc
      BY <1>7 DEF Digit, d
  <2>2. accumulator' = Number(text, first, cursor)
    <3>1. accumulator * 10 + d \in 0 .. UINT_MAX
        BY <1>2, <1>3, <1>7, SumFits DEF Overflows
    <3> QED
        BY <1>5, <2>1, <3>1, SumExact
  <2>3. cursor' - 1 = cursor /\ cursor' # first /\ first <= cursor'
      BY <1>2, <1>3, <2>1
  <2>4. Started(first)'
      BY <1>1, <1>2 DEF Started
  <2>5. Reading(first)'
      BY <1>2, <1>4, <2>1, <2>2, <2>3 DEF Reading
  <2> QED
      BY <1>2, <2>1, <2>4, <2>5 DEF VersionInvariant, VerdictIsTheVersionRule, Decided
<1> QED
    BY <1>6, <1>7

\* The loop leaves the component with its number.
LEMMA EndKeepsVerdict ==
  ASSUME VersionInvariant, ComponentEnds
  PROVE  VersionInvariant'
<1>1. PICK first \in Nat \ {0} : Started(first) /\ Reading(first)
    BY DEF VersionInvariant, ComponentEnds, Decided
<1>2. /\ IInv /\ IInv' /\ UNCHANGED <<hybrid, text, cursor, component, accumulator>>
      /\ pc = "digit" /\ pc' = "separator" /\ Char(cursor) \notin Digits
      /\ value' = [value EXCEPT ![component] = accumulator]
      /\ first <= cursor /\ cursor # first /\ DigitsOnly(text, first, cursor - 1)
      /\ accumulator = Number(text, first, cursor - 1)
    BY <1>1, NextInv DEF VersionInvariant, ComponentEnds, Reading, VersionNext
<1>3. /\ cursor \in Nat /\ accumulator <= UINT_MAX /\ component \in {"major", "minor"}
      /\ value \in [{"major", "minor"} -> 0 .. UINT_MAX]
    BY <1>2, VersionAssumption DEF IInv, TypeOK, VersionAssumption
<1>4. IsNumber(text, first, cursor - 1)
    BY <1>2, <1>3 DEF IsNumber, DigitsOnly
<1>5. value'[component] = accumulator /\ (component = "minor" => value'.major = value.major)
    BY <1>2, <1>3
<1>6. Char(cursor)' = Char(cursor)
    BY <1>2 DEF Char
<1>7. Started(first)'
    BY <1>1, <1>2, <1>5 DEF Started
<1>8. Reading(first)'
    BY <1>2, <1>4, <1>5, <1>6 DEF Reading
<1> QED
    BY <1>2, <1>7, <1>8 DEF VersionInvariant, VerdictIsTheVersionRule, Decided

\* What is known where a component has ended.
LEMMA AtSeparator ==
  ASSUME VersionInvariant, pc = "separator", NEW first \in Nat \ {0}, Started(first), Reading(first)
  PROVE  /\ first < cursor /\ cursor \in Nat /\ cursor <= Len(text) + 1
         /\ IsNumber(text, first, cursor - 1) /\ value[component] = Number(text, first, cursor - 1)
         /\ cursor <= Len(text) => Char(cursor) = text[cursor] /\ text[cursor] \notin Digits
         /\ cursor = Len(text) + 1 => Char(cursor) = Nul
         /\ \A j \in Nat : \A major, minor : GoesOn(first, j, major, minor) => j = cursor
<1>1. /\ IInv /\ Len(text) \in Nat /\ cursor \in Nat /\ cursor <= Len(text) + 1
    BY TextIsString DEF VersionInvariant
<1>2. /\ IsNumber(text, first, cursor - 1) /\ value[component] = Number(text, first, cursor - 1)
      /\ Char(cursor) \notin Digits
    BY DEF Reading
<1>3. first < cursor /\ DigitsOnly(text, first, cursor - 1)
    BY <1>1, <1>2 DEF IsNumber, DigitsOnly
<1>4. /\ cursor <= Len(text) => Char(cursor) = text[cursor] /\ text[cursor] \notin Digits
      /\ cursor = Len(text) + 1 => Char(cursor) = Nul
    BY <1>1, <1>2 DEF Char
<1>5. ASSUME NEW j \in Nat, NEW major, NEW minor, GoesOn(first, j, major, minor)
      PROVE  j = cursor
  <2>1. /\ first < j /\ j <= Len(text) + 1 /\ (j <= Len(text) => text[j] = Dot)
        /\ DigitsOnly(text, first, j - 1)
      BY <1>1, <1>5 DEF GoesOn, IsNumber, DigitsOnly
  <2>2. CASE j <= cursor
      BY <1>1, <1>3, <2>1, <2>2, SameStop, DotIsNoDigit
  <2>3. CASE cursor <= j
      BY <1>1, <1>3, <1>4, <2>1, <2>3, SameStop
  <2> QED
      BY <1>1, <2>2, <2>3
<1> QED
    BY <1>1, <1>2, <1>3, <1>4, <1>5

\* The major ends at a dot or the string is no version.
LEMMA MajorKeepsVerdict ==
  ASSUME VersionInvariant, AfterMajor
  PROVE  VersionInvariant'
<1>1. PICK first \in Nat \ {0} : Started(first) /\ Reading(first)
    BY DEF VersionInvariant, AfterMajor, Decided
<1>2. /\ IInv /\ IInv' /\ UNCHANGED <<hybrid, text, accumulator, value>>
      /\ pc = "separator" /\ component = "major" /\ first = 1 /\ Len(text) \in Nat
    BY <1>1, NextInv, TextIsString DEF VersionInvariant, AfterMajor, Started, VersionNext
<1>3. /\ first < cursor /\ cursor \in Nat /\ cursor <= Len(text) + 1
      /\ IsNumber(text, first, cursor - 1) /\ value[component] = Number(text, first, cursor - 1)
      /\ cursor <= Len(text) => Char(cursor) = text[cursor] /\ text[cursor] \notin Digits
      /\ cursor = Len(text) + 1 => Char(cursor) = Nul
      /\ \A j \in Nat : \A major, minor : GoesOn(first, j, major, minor) => j = cursor
    BY <1>1, <1>2, AtSeparator
<1>4. CASE Char(cursor) = Dot
  <2>1. cursor' = cursor + 1 /\ component' = "minor" /\ pc' = "component"
      BY <1>4 DEF AfterMajor
  <2>0. PICK next \in Nat \ {0} : next = cursor + 1
      BY <1>3
  <2>2. /\ cursor \in 1 .. Len(text) /\ text[cursor] = Dot /\ next - 1 = cursor
        /\ next - 2 = cursor - 1 /\ cursor' = next
      BY <1>2, <1>3, <1>4, <2>0, <2>1, DotIsNoDigit
  <2>3. value.major = Number(text, 1, cursor - 1) /\ IsNumber(text, 1, cursor - 1)
      BY <1>2, <1>3
  <2>4. Started(next)'
      BY <1>2, <2>1, <2>2, <2>3 DEF Started
  <2>5. Reading(next)'
      BY <2>1, <2>2 DEF Reading
  <2> QED
      BY <1>2, <2>1, <2>2, <2>4, <2>5 DEF VersionInvariant, VerdictIsTheVersionRule, Decided
<1>5. CASE Char(cursor) # Dot
  <2>1. pc' = "refused"
      BY <1>5 DEF AfterMajor
  <2>2. ASSUME NEW j \in Nat, NEW minor \in 0 .. UINT_MAX, GoesOn(first, j, SUPPORTED_MAJOR, minor)
        PROVE  FALSE
    <3>1. j = cursor /\ j <= Len(text) /\ text[j] = Dot
        BY <1>2, <1>3, <2>2 DEF GoesOn
    <3> QED
        BY <1>3, <1>5, <3>1
  <2> QED
      BY <1>1, <1>2, <2>1, <2>2, RefusalIsRight
<1> QED
    BY <1>4, <1>5

\* The minor ends the check: both components are what the string says.
LEMMA MinorKeepsVerdict ==
  ASSUME VersionInvariant, AfterMinor
  PROVE  VersionInvariant'
<1>1. PICK first \in Nat \ {0} : Started(first) /\ Reading(first)
    BY DEF VersionInvariant, AfterMinor, Decided
<1>2. /\ IInv /\ IInv' /\ UNCHANGED <<hybrid, text, cursor, component, accumulator, value>>
      /\ pc = "separator" /\ component = "minor" /\ Len(text) \in Nat
      /\ value \in [{"major", "minor"} -> 0 .. UINT_MAX]
    BY <1>1, NextInv, TextIsString DEF VersionInvariant, AfterMinor, VersionNext, IInv, TypeOK
<1>3. /\ first < cursor /\ cursor \in Nat /\ cursor <= Len(text) + 1
      /\ IsNumber(text, first, cursor - 1) /\ value.minor = Number(text, first, cursor - 1)
      /\ cursor <= Len(text) => Char(cursor) = text[cursor] /\ text[cursor] \notin Digits
      /\ cursor = Len(text) + 1 => Char(cursor) = Nul
      /\ \A j \in Nat : \A major, minor : GoesOn(first, j, major, minor) => j = cursor
    BY <1>1, <1>2, AtSeparator
<1>4. CASE Char(cursor) \in {Dot, Nul} /\ Supported
  <2>1. pc' = "accepted"
      BY <1>4 DEF AfterMinor
  <2> DEFINE k == first - 1
  <2>2. /\ k \in 1 .. Len(text) /\ text[k] = Dot /\ k - 1 = first - 2 /\ k + 1 = first
        /\ IsNumber(text, 1, k - 1) /\ value.major = Number(text, 1, k - 1)
      BY <1>1, <1>2 DEF Started
  <2>3. k \in 1 .. Len(text) + 1 /\ cursor \in 1 .. Len(text) + 1 /\ k < cursor
      BY <1>2, <1>3, <2>2
  <2>4. cursor <= Len(text) => text[cursor] = Dot
    <3>1. ASSUME cursor <= Len(text) PROVE text[cursor] # Nul
      <4>1. text \in Seq(Characters) /\ cursor \in 1 .. Len(text)
          BY <1>2, <1>3, <3>1, TextIsString
      <4>2. text[cursor] \in Characters
          BY <4>1
      <4> QED
          BY <4>2, VersionAssumption DEF VersionAssumption
    <3> QED
        BY <1>3, <1>4, <3>1
  <2> HIDE DEF k
  <2>5. VersionIs(text, value.major, value.minor)
      BY <1>3, <2>2, <2>3, <2>4 DEF VersionIs
  <2>6. SupportedVersion(text, hybrid)
    <3>1. /\ value.major = SUPPORTED_MAJOR /\ value.minor \in 0 .. UINT_MAX /\ value.minor \in Int
          /\ ~(hybrid /\ value.major = 3 /\ value.minor < 5)
        BY <1>2, <1>4 DEF Supported
    <3>2. hybrid /\ SUPPORTED_MAJOR = 3 => value.minor >= 5
        BY <3>1
    <3> QED
        BY <2>5, <3>1, <3>2 DEF SupportedVersion
  <2> QED
      BY <1>2, <2>1, <2>6 DEF VersionInvariant, VerdictIsTheVersionRule, Decided
<1>5. CASE ~(Char(cursor) \in {Dot, Nul} /\ Supported)
  <2>1. pc' = "refused"
      BY <1>5 DEF AfterMinor
  <2>2. ASSUME NEW j \in Nat, NEW minor \in 0 .. UINT_MAX, GoesOn(first, j, SUPPORTED_MAJOR, minor)
        PROVE  ~(hybrid /\ SUPPORTED_MAJOR = 3 => minor >= 5)
    <3>1. /\ j = cursor /\ (j <= Len(text) => text[j] = Dot)
          /\ value.major = SUPPORTED_MAJOR /\ value.minor = minor
        BY <1>2, <1>3, <2>2 DEF GoesOn
    <3>2. Char(cursor) \in {Dot, Nul}
        BY <1>2, <1>3, <3>1
    <3>3. ~Supported
        BY <1>5, <3>2
    <3> QED
        BY <3>1, <3>3 DEF Supported
  <2> QED
      BY <1>1, <1>2, <2>1, <2>2, RefusalIsRight
<1> QED
    BY <1>4, <1>5

\* Every step of the check.
LEMMA StepKeepsVerdict == VersionInvariant /\ [VersionNext]_versionVars => VersionInvariant'
<1> SUFFICES ASSUME VersionInvariant, [VersionNext]_versionVars PROVE VersionInvariant'
    OBVIOUS
<1>1. CASE FirstDigit
    BY <1>1, ComponentKeepsVerdict
<1>2. CASE Digit
    BY <1>2, DigitKeepsVerdict
<1>3. CASE ComponentEnds
    BY <1>3, EndKeepsVerdict
<1>4. CASE AfterMajor
    BY <1>4, MajorKeepsVerdict
<1>5. CASE AfterMinor
    BY <1>5, MinorKeepsVerdict
<1>6. CASE UNCHANGED versionVars
  <2>1. IInv'
      BY <1>6, NextInv DEF VersionInvariant
  <2>2. ASSUME NEW first, Started(first), Reading(first) PROVE Started(first)' /\ Reading(first)'
      BY <1>6, <2>2 DEF versionVars, Started, Reading, Char
  <2> QED
      BY <1>6, <2>1, <2>2 DEF VersionInvariant, VerdictIsTheVersionRule, Decided, versionVars
<1> QED
    BY <1>1, <1>2, <1>3, <1>4, <1>5, <1>6 DEF VersionNext, Stop

\* x301_core_version_is_supported accepts exactly the strings the version rule
\* names, whatever the string, the width of unsigned int and the major the
\* build was made against: leading zeros, long numbers and a third component
\* change nothing, and an overflowing component is refused, not wrapped.
THEOREM VerdictIsRight == VersionSpec => []VerdictIsTheVersionRule
<1>1. VersionInit => VersionInvariant
  <2> SUFFICES ASSUME VersionInit PROVE VersionInvariant
      OBVIOUS
  <2>1. Started(1) /\ Reading(1)
      BY DEF VersionInit, Started, Reading
  <2> QED
      BY <2>1, InitInv DEF VersionInit, VersionInvariant, VerdictIsTheVersionRule, Decided
<1>2. VersionInvariant => VerdictIsTheVersionRule
    BY DEF VersionInvariant
<1> QED
    BY <1>1, <1>2, StepKeepsVerdict, PTL DEF VersionSpec

-----------------------------------------------------------------------------
\* The policy.

\* What the property rests on: the child never has a fallback of its own, a
\* warm DRBG was admitted, and keys were generated from a warm one.
PolicyInvariant ==
  /\ instance \in [exists : BOOLEAN, fallback : {FALSE}, drbg : {"cold", "warm"}]
  /\ served \in BOOLEAN /\ admitted \in BOOLEAN
  /\ ~instance.exists => "x301" \notin loaded /\ instance.drbg = "cold"
  /\ instance.drbg = "warm" => admitted
  /\ served => instance.drbg = "warm"

\* A child without a fallback offers a DRBG only if the application does.
LEMMA ChildPermits ==
  ASSUME PolicyInvariant, Permits(Child, policy)
  PROVE  Permits(loaded, policy)
<1>1. Child = loaded \ {"x301"}
  BY DEF PolicyInvariant, Child
<1>2. PICK p \in Best(Child, "RAND", "CTR-DRBG", policy) : TRUE
  BY DEF Permits
<1>3. "CTR-DRBG" \notin Offered("x301", "RAND")
  BY DEF Offered, x301_provider_query_operation, Probes
<1>4. {q \in loaded : /\ "CTR-DRBG" \in Offered(q, "RAND")
                      /\ \A c \in policy : c.optional \/ Has(q, c)}
      = {q \in Child : /\ "CTR-DRBG" \in Offered(q, "RAND")
                       /\ \A c \in policy : c.optional \/ Has(q, c)}
  BY <1>1, <1>3
<1>5. Best(loaded, "RAND", "CTR-DRBG", policy) = Best(Child, "RAND", "CTR-DRBG", policy)
  BY <1>4, Zenon DEF Best
<1>. QED
  BY <1>2, <1>5 DEF Permits

\* The DRBG is warm after a request for it only if it was, or is admitted now.
LEMMA DrbgGet ==
  ASSUME PolicyInvariant
  PROVE  /\ x301_drbg_get \in {"cold", "warm"}
         /\ x301_drbg_get = "warm" => admitted \/ Permits(loaded, policy)
         /\ instance.drbg = "warm" => x301_drbg_get = "warm"
  BY ChildPermits DEF x301_drbg_get, PolicyInvariant

\* The step predicate of DrbgFollowsPolicy.
FollowsPolicy ==
  /\ served' => admitted'
  /\ served /\ answer'.op = "X301" /\ answer'.reached => answer'.ok

\* The history variables only grow.
LEMMA History ==
  ASSUME Witness, served \in BOOLEAN, admitted \in BOOLEAN
  PROVE  /\ served' \in BOOLEAN /\ admitted' \in BOOLEAN
         /\ admitted => admitted'
         /\ "x301" \in loaded' /\ Permits(loaded', policy') => admitted'
         /\ served' => served \/ (answer'.op = "X301" /\ answer'.ok)
  BY Zenon DEF Witness

\* Requests that do not draw: the DRBG is as it was.
LEMMA OthersFollow ==
  ASSUME PolicyInvariant, Witness, UNCHANGED instance, answer'.op # "X301",
         ~instance.exists => "x301" \notin loaded'
  PROVE  PolicyInvariant' /\ FollowsPolicy
<1>1. served' => served
  BY History DEF PolicyInvariant
<1>. QED
  BY <1>1, History DEF PolicyInvariant, FollowsPolicy

LEMMA LoadFollows ==
  ASSUME PolicyInvariant, NEW p, Load(p) PROVE PolicyInvariant' /\ FollowsPolicy
<1>1. Witness /\ answer'.op # "X301" /\ loaded' = loaded \cup {p}
  BY DEF Load, Answer
<1>2. CASE p = "x301" /\ ~instance.exists
  <2>1. instance' = [exists |-> TRUE, fallback |-> FALSE, drbg |-> "cold"]
    BY <1>2 DEF Load, x301_shim_init
  <2>2. ~served'
    BY <1>1, <1>2, History DEF PolicyInvariant
  <2>. QED
    BY <1>1, <2>1, <2>2, History DEF PolicyInvariant, FollowsPolicy
<1>3. CASE ~(p = "x301" /\ ~instance.exists)
  <2>1. UNCHANGED instance /\ (~instance.exists => "x301" \notin loaded')
    BY <1>1, <1>3 DEF Load, PolicyInvariant
  <2>. QED
    BY <1>1, <2>1, OthersFollow
<1>. QED
  BY <1>2, <1>3

LEMMA FreeFollows ==
  ASSUME PolicyInvariant, FreeLibctx PROVE PolicyInvariant' /\ FollowsPolicy
<1>1. /\ instance' = [exists |-> FALSE, fallback |-> FALSE, drbg |-> "cold"]
      /\ loaded' = {} /\ served' = FALSE /\ admitted' = FALSE /\ answer'.op # "X301"
  BY DEF FreeLibctx, NoInstance, Answer
<1>. QED
  BY <1>1 DEF PolicyInvariant, FollowsPolicy

\* A draw by a provider that is loaded: the DRBG is asked for, and a raw key
\* comes out exactly if it is there.
LEMMA DrawFollows ==
  ASSUME PolicyInvariant, Witness, "x301" \in loaded, loaded' = loaded, policy' = policy,
         instance' = [instance EXCEPT !.drbg = x301_drbg_get],
         answer'.op = "X301" => answer'.ok = (instance'.drbg = "warm")
  PROVE  PolicyInvariant' /\ FollowsPolicy
<1>1. /\ instance' \in [exists : BOOLEAN, fallback : {FALSE}, drbg : {"cold", "warm"}]
      /\ instance'.exists = instance.exists /\ instance'.drbg = x301_drbg_get
  BY DrbgGet DEF PolicyInvariant
<1>2. instance.exists
  BY DEF PolicyInvariant
<1>3. instance'.drbg = "warm" => admitted'
  BY <1>1, DrbgGet, History DEF PolicyInvariant
<1>4. served => instance'.drbg = "warm"
  BY <1>1, DrbgGet DEF PolicyInvariant
<1>5. served' => instance'.drbg = "warm"
  BY <1>4, History DEF PolicyInvariant
<1>6. FollowsPolicy
  BY <1>3, <1>4, <1>5 DEF FollowsPolicy
<1>. QED
  BY <1>1, <1>2, <1>3, <1>5, <1>6, History DEF PolicyInvariant

\* Nobody else offers X301.
LEMMA OnlyX301Offers ==
  ASSUME NEW query, NEW p \in Best(loaded, "KEYMGMT", "X301", query) PROVE p = "x301"
<1>1. "X301" \in Offered(p, "KEYMGMT")
  BY DEF Best
<1>. QED
  BY <1>1 DEF Offered, probe_query, default_query, Probes

\* A generation that finds no provider.
LEMMA UnreachedFollows ==
  ASSUME PolicyInvariant, Witness, UNCHANGED instance, loaded' = loaded,
         ~answer'.reached, ~answer'.ok
  PROVE  PolicyInvariant' /\ FollowsPolicy
<1>1. served' => served
  BY History DEF PolicyInvariant
<1>. QED
  BY <1>1, History DEF PolicyInvariant, FollowsPolicy

LEMMA KeygenFollows ==
  ASSUME PolicyInvariant, NEW name \in {"X301", "X301MLKEM1024", "ML-KEM-1024"}, NEW query,
         Keygen(name, query)
  PROVE  PolicyInvariant' /\ FollowsPolicy
<1>1. Witness /\ loaded' = loaded /\ policy' = policy
  BY DEF Keygen, Unchanged
<1>2. PICK p \in OrNone(Best(loaded, "KEYMGMT", name, Merge(query, policy))) :
        IF p = "x301"
        THEN IF name = "X301" THEN KeygenRaw ELSE KeygenHybrid(query)
        ELSE answer' = Answer(name, p # Absent, Generates(p), p) /\ UNCHANGED instance
  BY DEF Keygen
<1>3. CASE p = "x301"
  <2>1. "x301" \in loaded
    BY <1>2, <1>3, AbsentAssumption DEF OrNone, Best, Names
  <2>2. /\ instance' = [instance EXCEPT !.drbg = x301_drbg_get]
        /\ answer'.op = "X301" => answer'.ok = (instance'.drbg = "warm")
    BY <1>2, <1>3 DEF KeygenRaw, KeygenHybrid, Answer
  <2>. QED
    BY <1>1, <2>1, <2>2, DrawFollows
<1>4. CASE p # "x301" /\ name # "X301"
  <2>1. answer'.op # "X301" /\ UNCHANGED instance
    BY <1>2, <1>4 DEF Answer
  <2>. QED
    BY <1>1, <2>1, OthersFollow DEF PolicyInvariant
<1>5. CASE p # "x301" /\ name = "X301"
  <2>1. p = Absent
    BY <1>2, <1>5, OnlyX301Offers DEF OrNone
  <2>2. answer' = Answer(name, p # Absent, Generates(p), p) /\ UNCHANGED instance
    BY <1>2, <1>5
  <2>3. answer'.reached = (p # Absent) /\ answer'.ok = Generates(p)
    BY <2>2, Zenon DEF Answer
  <2>4. ~answer'.reached /\ ~answer'.ok
    BY <2>1, <2>3 DEF Generates
  <2>. QED
    BY <1>1, <2>2, <2>4, UnreachedFollows
<1>. QED
  BY <1>3, <1>4, <1>5

LEMMA StepFollows ==
  ASSUME PolicyInvariant, [Next]_vars PROVE PolicyInvariant' /\ [FollowsPolicy]_vars
<1>1. ASSUME NEW p \in Names, Load(p) PROVE PolicyInvariant' /\ FollowsPolicy
  BY <1>1, LoadFollows
<1>2. ASSUME NEW p \in Names, Unload(p) PROVE PolicyInvariant' /\ FollowsPolicy
  <2>1. Witness /\ UNCHANGED instance /\ answer'.op # "X301" /\ loaded' \subseteq loaded
    BY <1>2 DEF Unload, Answer
  <2>. QED
    BY <2>1, OthersFollow DEF PolicyInvariant
<1>3. ASSUME NEW q \in Queries, set_default_properties(q) PROVE PolicyInvariant' /\ FollowsPolicy
  <2>1. Witness /\ UNCHANGED instance /\ answer'.op # "X301" /\ loaded' = loaded
    BY <1>3 DEF set_default_properties, Answer
  <2>. QED
    BY <2>1, OthersFollow DEF PolicyInvariant
<1>4. ASSUME NEW q \in Queries, ImportRaw(q) PROVE PolicyInvariant' /\ FollowsPolicy
  <2>1. Witness /\ UNCHANGED instance /\ answer'.op # "X301" /\ loaded' = loaded
    BY <1>4 DEF ImportRaw, Answer, Unchanged
  <2>. QED
    BY <2>1, OthersFollow DEF PolicyInvariant
<1>5. ASSUME NEW q \in Queries, NEW operation, NEW name, Fetch(operation, name, q)
      PROVE  PolicyInvariant' /\ FollowsPolicy
  <2>1. Witness /\ UNCHANGED instance /\ answer'.op # "X301" /\ loaded' = loaded
    BY <1>5 DEF Fetch, Answer, Unchanged
  <2>. QED
    BY <2>1, OthersFollow DEF PolicyInvariant
<1>6. ASSUME NEW q \in Queries, NEW name \in {"X301", "X301MLKEM1024", "ML-KEM-1024"},
             Keygen(name, q)
      PROVE  PolicyInvariant' /\ FollowsPolicy
  BY <1>6, KeygenFollows
<1>7. CASE RandBytes
  <2>1. Witness /\ UNCHANGED instance /\ answer'.op # "X301" /\ loaded' = loaded
    BY <1>7 DEF RandBytes, Answer, Unchanged
  <2>. QED
    BY <2>1, OthersFollow DEF PolicyInvariant
<1>8. CASE GetCapabilities
  <2>1. Witness /\ UNCHANGED instance /\ answer'.op # "X301" /\ loaded' = loaded
    BY <1>8 DEF GetCapabilities, Answer
  <2>. QED
    BY <2>1, OthersFollow DEF PolicyInvariant
<1>9. CASE FreeLibctx
  BY <1>9, FreeFollows
<1>10. CASE UNCHANGED vars
  BY <1>10 DEF vars, PolicyInvariant
<1>. QED
  BY <1>1, <1>2, <1>3, <1>4, <1>5, <1>6, <1>7, <1>8, <1>9, <1>10 DEF Next

LEMMA PolicyInit == Init => PolicyInvariant
<1>. SUFFICES ASSUME Init PROVE PolicyInvariant
  OBVIOUS
<1>1. /\ instance = [exists |-> FALSE, fallback |-> FALSE, drbg |-> "cold"]
      /\ loaded = {} /\ served = FALSE /\ admitted = FALSE
  BY Zenon DEF Init, NoInstance
<1>. QED
  BY <1>1 DEF PolicyInvariant

\* Key generation fails closed and does not flap, for every sequence of loads,
\* unloads, property changes, generations and other requests of an application
\* (x301_drbg_get and x301_shim_init under OpenSSL's property selection).
THEOREM KeygenFollowsPolicy == Spec => DrbgFollowsPolicy
<1>1. Init => PolicyInvariant
  BY PolicyInit
<1>2. PolicyInvariant /\ [Next]_vars => PolicyInvariant' /\ [FollowsPolicy]_vars
  BY StepFollows
<1>. QED
  BY <1>1, <1>2, PTL DEF Spec, DrbgFollowsPolicy, FollowsPolicy
-----------------------------------------------------------------------------
(* What was announced. *)

\* An announcement still in force is what the provider would announce now.
AnnouncementInvariant ==
  /\ loaded \subseteq Names
  /\ policy \in Queries
  /\ advertised \in {Absent, Advertises}

\* The step predicate of CapabilityMatchesKeygen.
MatchesKeygen ==
  answer'.op = "X301MLKEM1024" /\ answer'.reached =>
    /\ advertised = FALSE => ~answer'.ok
    /\ advertised = TRUE =>
         /\ answer'.by # Absent
         /\ instance'.drbg = "warm" /\ answer'.by # "mlkem_fail" => answer'.ok

\* A step that leaves providers, properties and the announcement as they were.
LEMMA AnnouncementKept ==
  ASSUME AnnouncementInvariant, PolicyInvariant, PolicyInvariant',
         UNCHANGED <<loaded, policy, advertised>>
  PROVE  AnnouncementInvariant'
<1>1. Advertises' = Advertises
  BY DEF Advertises, Child, PolicyInvariant
<1>. QED
  BY <1>1 DEF AnnouncementInvariant

\* The providers a fetch chooses from.
Fitting(active, operation, name, query) ==
  {p \in active : name \in Offered(p, operation) /\ \A c \in query : c.optional \/ Has(p, c)}

\* A query of one clause gives no provider more than one point.
LEMMA ScoreOfQuery ==
  ASSUME NEW query \in Queries, NEW p
  PROVE  Score(p, query) \in {0, 1}
<1>. DEFINE hits == {c \in query : c.optional /\ Has(p, c)}
<1>1. query = {} \/ \E c : query = {c}
  BY DEF Queries, Requires, Prefers
<1>2. hits = {} \/ \E c : hits = {c}
  BY <1>1
<1>3. Cardinality(hits) \in {0, 1}
  BY <1>2, FS_EmptySet, FS_Singleton
<1>. QED
  BY <1>3 DEF Score

\* A preference never leaves a fetch with nothing: it gives a provider exactly
\* when one fits.
LEMMA FetchGives ==
  ASSUME NEW active, NEW operation, NEW name, NEW query \in Queries
  PROVE  Best(active, operation, name, query) # {} <=> Fitting(active, operation, name, query) # {}
<1>. DEFINE fitting == Fitting(active, operation, name, query)
<1>1. Best(active, operation, name, query) =
        {p \in fitting : \A o \in fitting : Score(o, query) <= Score(p, query)}
  BY DEF Best, Fitting
<1>2. \A p : Score(p, query) \in {0, 1}
  BY ScoreOfQuery
<1>. HIDE DEF fitting
<1>3. ASSUME fitting # {} PROVE \E p \in fitting : \A o \in fitting : Score(o, query) <= Score(p, query)
  <2>1. CASE \E p \in fitting : Score(p, query) = 1
    BY <1>2, <2>1
  <2>2. CASE \A p \in fitting : Score(p, query) = 0
    BY <1>3, <2>2
  <2>. QED
    BY <1>2, <2>1, <2>2
<1>4. Best(active, operation, name, query) # {} <=> fitting # {}
  BY <1>1, <1>3
<1>. QED
  BY <1>4 DEF fitting

\* More providers and fewer requirements leave a fetch no less to choose from.
LEMMA FittingGrows ==
  ASSUME NEW few, NEW many, few \subseteq many, NEW operation, NEW name,
         NEW strict, NEW lax, Required(lax) \subseteq Required(strict)
  PROVE  Fitting(few, operation, name, strict) \subseteq Fitting(many, operation, name, lax)
<1>1. ASSUME NEW p, \A c \in strict : c.optional \/ Has(p, c),
             NEW c \in lax
      PROVE  c.optional \/ Has(p, c)
  <2>1. ~c.optional => c \in strict
    BY DEF Required
  <2>. QED
    BY <1>1, <2>1
<1>. QED
  BY <1>1 DEF Fitting

LEMMA AdvertisesFits ==
  ASSUME AnnouncementInvariant, PolicyInvariant
  PROVE  Advertises <=> Fitting(loaded \ {"x301"}, "KEYMGMT", "ML-KEM-1024", policy) # {}
<1>1. Child = loaded \ {"x301"}
  BY DEF Child, PolicyInvariant
<1>2. policy \in Queries
  BY DEF AnnouncementInvariant
<1>. QED
  BY <1>1, <1>2, FetchGives DEF Advertises

\* A step that is no hybrid generation and lets the announcement stand no longer
\* than it should.
LEMMA AnnouncementStands ==
  ASSUME AnnouncementInvariant, PolicyInvariant, PolicyInvariant',
         loaded' \subseteq Names, policy' \in Queries, Announced,
         answer'.op # "X301MLKEM1024"
  PROVE  AnnouncementInvariant' /\ MatchesKeygen
<1>. DEFINE before == Fitting(loaded \ {"x301"}, "KEYMGMT", "ML-KEM-1024", policy)
            after == Fitting(loaded' \ {"x301"}, "KEYMGMT", "ML-KEM-1024", policy')
<1>1. Advertises <=> before # {}
  BY AdvertisesFits
<1>2. Advertises' <=> after # {}
  <2>1. Child' = loaded' \ {"x301"}
    BY DEF Child, PolicyInvariant
  <2>. QED
    BY <2>1, FetchGives DEF Advertises
<1>3. ASSUME loaded \subseteq loaded', Required(policy') \subseteq Required(policy)
      PROVE  before \subseteq after
  BY <1>3, FittingGrows
<1>4. ASSUME loaded' \subseteq loaded, Required(policy) \subseteq Required(policy')
      PROVE  after \subseteq before
  BY <1>4, FittingGrows
<1>. HIDE DEF before, after
<1>5. Advertises \in BOOLEAN /\ Advertises' \in BOOLEAN
  BY DEF Advertises
<1>6. advertised = TRUE => Advertises
  BY <1>5, AbsentAssumption DEF AnnouncementInvariant
<1>7. advertised = FALSE => ~Advertises
  BY <1>5, AbsentAssumption DEF AnnouncementInvariant
<1>8. advertised' \in {Absent, Advertises'}
  <2>1. CASE /\ advertised = TRUE
             /\ loaded \subseteq loaded' /\ Required(policy') \subseteq Required(policy)
    <3>1. advertised' = TRUE /\ Advertises'
      BY <2>1, <1>1, <1>2, <1>3, <1>6 DEF Announced
    <3>. QED
      BY <3>1, <1>5
  <2>2. CASE /\ advertised = FALSE
             /\ loaded' \subseteq loaded /\ Required(policy) \subseteq Required(policy')
    <3>1. advertised' = FALSE /\ ~Advertises'
      BY <2>2, <1>1, <1>2, <1>4, <1>7 DEF Announced
    <3>. QED
      BY <3>1, <1>5
  <2>. QED
    BY <2>1, <2>2 DEF Announced
<1>. QED
  BY <1>8 DEF AnnouncementInvariant, MatchesKeygen

\* Nobody else offers the hybrid.
LEMMA OnlyX301OffersHybrid ==
  ASSUME NEW query, NEW p \in Best(loaded, "KEYMGMT", "X301MLKEM1024", query)
  PROVE  p = "x301"
<1>1. "X301MLKEM1024" \in Offered(p, "KEYMGMT")
  BY DEF Best
<1>. QED
  BY <1>1 DEF Offered, probe_query, default_query, Probes

\* hybrid_gen looks for ML-KEM where the announcement looked.
LEMMA HybridMatches ==
  ASSUME AnnouncementInvariant, NEW outer, KeygenHybrid(outer)
  PROVE  MatchesKeygen
<1>1. PICK mlkem \in OrNone(Best(Child, "KEYMGMT", "ML-KEM-1024", policy)) :
        /\ instance' = [instance EXCEPT !.drbg = x301_drbg_get]
        /\ answer' = Answer("X301MLKEM1024", TRUE, instance'.drbg = "warm" /\ Generates(mlkem), mlkem)
  BY DEF KeygenHybrid, NestedQuery
<1>2. answer'.ok = (instance'.drbg = "warm" /\ Generates(mlkem)) /\ answer'.by = mlkem
  BY <1>1, Zenon DEF Answer
<1>3. Best(Child, "KEYMGMT", "ML-KEM-1024", policy) \subseteq Names
  BY DEF Best, Child, AnnouncementInvariant, Names
<1>4. Advertises <=> mlkem # Absent
  BY <1>1, <1>3, AbsentAssumption DEF OrNone, Advertises
<1>5. advertised \in BOOLEAN => advertised = Advertises
  BY AbsentAssumption DEF AnnouncementInvariant
<1>. QED
  BY <1>2, <1>4, <1>5 DEF MatchesKeygen, Generates

LEMMA KeygenMatches ==
  ASSUME AnnouncementInvariant, PolicyInvariant, PolicyInvariant', NEW name \in {"X301", "X301MLKEM1024", "ML-KEM-1024"},
         NEW query, Keygen(name, query)
  PROVE  AnnouncementInvariant' /\ MatchesKeygen
<1>1. PICK p \in OrNone(Best(loaded, "KEYMGMT", name, Merge(query, policy))) :
        IF p = "x301"
        THEN IF name = "X301" THEN KeygenRaw ELSE KeygenHybrid(query)
        ELSE answer' = Answer(name, p # Absent, Generates(p), p) /\ UNCHANGED instance
  BY DEF Keygen
<1>3. AnnouncementInvariant'
  BY AnnouncementKept DEF Keygen, Unchanged
<1>4. CASE p = "x301" /\ name # "X301"
  BY <1>1, <1>3, <1>4, HybridMatches, Zenon
<1>5. CASE p = "x301" /\ name = "X301"
  <2>1. answer'.op = "X301"
    BY <1>1, <1>5, SMTT(30) DEF KeygenRaw, Answer
  <2>. QED
    BY <1>3, <2>1 DEF MatchesKeygen
<1>6. CASE p # "x301"
  <2>1. answer' = Answer(name, p # Absent, Generates(p), p)
    BY <1>1, <1>6
  <2>2. answer'.op = name /\ answer'.reached = (p # Absent)
    BY <2>1, Zenon DEF Answer
  <2>3. name = "X301MLKEM1024" => p = Absent
    BY <1>1, <1>6, OnlyX301OffersHybrid DEF OrNone
  <2>. QED
    BY <1>3, <2>2, <2>3 DEF MatchesKeygen
<1>. QED
  BY <1>4, <1>5, <1>6

LEMMA StepMatches ==
  ASSUME AnnouncementInvariant, PolicyInvariant, PolicyInvariant', [Next]_vars
  PROVE  AnnouncementInvariant' /\ [MatchesKeygen]_vars
<1>1. ASSUME NEW p \in Names, Load(p) PROVE AnnouncementInvariant' /\ MatchesKeygen
  <2>1. /\ loaded' \subseteq Names /\ policy' \in Queries /\ Announced
        /\ answer'.op # "X301MLKEM1024"
    BY <1>1 DEF Load, Answer, AnnouncementInvariant
  <2>. QED
    BY <2>1, AnnouncementStands
<1>2. ASSUME NEW p \in Names, Unload(p) PROVE AnnouncementInvariant' /\ MatchesKeygen
  <2>1. /\ loaded' \subseteq Names /\ policy' \in Queries /\ Announced
        /\ answer'.op # "X301MLKEM1024"
    BY <1>2 DEF Unload, Answer, AnnouncementInvariant
  <2>. QED
    BY <2>1, AnnouncementStands
<1>3. ASSUME NEW q \in Queries, set_default_properties(q)
      PROVE  AnnouncementInvariant' /\ MatchesKeygen
  <2>1. /\ loaded' \subseteq Names /\ policy' \in Queries /\ Announced
        /\ answer'.op # "X301MLKEM1024"
    BY <1>3 DEF set_default_properties, Answer, AnnouncementInvariant
  <2>. QED
    BY <2>1, AnnouncementStands
<1>4. CASE FreeLibctx
  BY <1>4 DEF FreeLibctx, Answer, Queries, AnnouncementInvariant, MatchesKeygen
<1>5. ASSUME NEW q \in Queries, ImportRaw(q) PROVE AnnouncementInvariant' /\ MatchesKeygen
  BY <1>5, AnnouncementKept DEF ImportRaw, Unchanged, Answer, MatchesKeygen
<1>6. ASSUME NEW q \in Queries, NEW operation, NEW name, Fetch(operation, name, q)
      PROVE  AnnouncementInvariant' /\ MatchesKeygen
  BY <1>6, AnnouncementKept DEF Fetch, Unchanged, Answer, MatchesKeygen
<1>7. CASE RandBytes
  BY <1>7, AnnouncementKept DEF RandBytes, Unchanged, Answer, MatchesKeygen
<1>8. ASSUME NEW q \in Queries, NEW name \in {"X301", "X301MLKEM1024", "ML-KEM-1024"},
             Keygen(name, q)
      PROVE  AnnouncementInvariant' /\ MatchesKeygen
  BY <1>8, KeygenMatches
<1>9. CASE GetCapabilities
  <2>1. Advertises' = Advertises
    BY <1>9 DEF GetCapabilities, Advertises, Child, PolicyInvariant
  <2>. QED
    BY <1>9, <2>1 DEF GetCapabilities, Answer, AnnouncementInvariant, MatchesKeygen
<1>10. CASE UNCHANGED vars
  BY <1>10, AnnouncementKept DEF vars
<1>. QED
  BY <1>1, <1>2, <1>3, <1>4, <1>5, <1>6, <1>7, <1>8, <1>9, <1>10 DEF Next

\* x301_provider_get_capabilities and hybrid_gen agree, also after the child's
\* providers and properties changed: what was not announced cannot be generated
\* after more is unloaded or required, and after more is loaded and less
\* required what was announced fails only with its DRBG or its generator.
THEOREM AnnouncementHolds == Spec => CapabilityMatchesKeygen
<1>1. Init => PolicyInvariant /\ AnnouncementInvariant
  BY PolicyInit DEF Init, Queries, AnnouncementInvariant
<1>2. PolicyInvariant /\ AnnouncementInvariant /\ [Next]_vars
      => PolicyInvariant' /\ AnnouncementInvariant' /\ [MatchesKeygen]_vars
  BY StepFollows, StepMatches
<1>. QED
  BY <1>1, <1>2, PTL DEF Spec, CapabilityMatchesKeygen, MatchesKeygen
=============================================================================
