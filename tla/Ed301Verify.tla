----------------------------- MODULE Ed301Verify ----------------------------
(***************************************************************************)
(* verify of signature.rs one loop iteration at a time: the key is decoded *)
(* and shown to have prime order with the table it will be verified with,  *)
(* the signature is parsed, both scalars are recoded to non-adjacent form  *)
(* (scalar.rs), and [S]B - [k]A is computed from both tables at once.      *)
(* All of it is variable-time: everything here is public.                  *)
(***************************************************************************)
EXTENDS Edwards

CONSTANTS
    ORDER,                  \* the prime order L of the base point
    WNAF_WIDTH,             \* width of both recodings: 8
    PRIME_ORDER_WNAF_DESC,  \* the digits of L, from the top: <<position, digit>>
    Inputs                  \* the calls tried: key, commitment, response, challenge

\* The number that the digits of the schedule spell down to its entry i.
Scheduled[i \in 0 .. Len(PRIME_ORDER_WNAF_DESC)] ==
    IF i = 0 THEN 0
    ELSE Scheduled[i - 1] + PRIME_ORDER_WNAF_DESC[i][2] * 2 ^ PRIME_ORDER_WNAF_DESC[i][1]

\* The digits the table of odd multiples has an entry for.
TableDigits == {d \in -(2 ^ (WNAF_WIDTH - 1) - 1) .. 2 ^ (WNAF_WIDTH - 1) - 1 : d % 2 = 1}

\* The widths the assertion of vartime_wnaf admits, and the schedule the test
\* of edwards.rs derives from L: from the most to the least significant
\* position its digits are odd, the leading one is 1, and they spell L.
ASSUME WnafAssumption ==
    /\ WNAF_WIDTH \in 2 .. 8
    /\ PRIME_ORDER_WNAF_DESC \in Seq((0 .. FIELD_BITS) \X Int)
    /\ LET n == Len(PRIME_ORDER_WNAF_DESC)
       IN  /\ n # 0 /\ PRIME_ORDER_WNAF_DESC[1][2] = 1 /\ PRIME_ORDER_WNAF_DESC[n][1] = 0
           /\ \A i \in 2 .. n : /\ PRIME_ORDER_WNAF_DESC[i][1] < PRIME_ORDER_WNAF_DESC[i - 1][1]
                              /\ PRIME_ORDER_WNAF_DESC[i][2] \in TableDigits
           /\ Scheduled[n] = ORDER
    /\ ORDER < 2 ^ (FIELD_BITS - 1)

\* The fields of an encoded point: y, the sign bit and the two spare bits.
EncodedPoints == [y : Nat, sign : {0, 1}, spare : 0 .. 3]

\* Both scalars are numbers, the challenge reduced modulo L, and the powers of
\* two in play are powers of two.
ASSUME RecodingAssumption ==
    /\ FIELD_BITS \in Nat \ {0} /\ ORDER \in Nat
    /\ \A call \in Inputs : /\ call.response \in Nat /\ call.challenge \in 0 .. ORDER - 1
                            /\ call.key \in EncodedPoints /\ call.commitment \in EncodedPoints
    /\ 2 ^ 0 = 1
    /\ \A n \in 0 .. FIELD_BITS + WNAF_WIDTH :
          2 ^ n \in Nat \ {0} /\ (n # 0 => 2 ^ n = 2 * 2 ^ (n - 1))

VARIABLES
    input,      \* the arguments of this call, and the challenge they hash to
    loop,       \* the part of verify that is running
    index,      \* its counter
    bit,        \* current_bit of the subgroup test
    value,      \* what is left of the scalar being recoded
    digits,     \* the digits of the response and of the challenge
    table,      \* odd_multiples of the key
    acc,        \* the point accumulated
    verdict     \* the returned Boolean, or Running

vars == <<input, loop, index, bit, value, digits, table, acc, verdict>>

Running == "running"
Positions == 0 .. FIELD_BITS

-----------------------------------------------------------------------------
(* Points and tables. *)

FromAffine(x, y) == [x |-> x, y |-> y, z |-> 1, t |-> FMul(x, y)]
Negate(p) == [p EXCEPT !.x = FNeg(@), !.t = FNeg(@)]
IsIdentity(p) == p.x = 0 /\ p.y = p.z
MultiplyByCofactor(p) == Double(Double(p))

\* An encoding is its y, its sign bit and its two spare bits.  The spare bits
\* must be clear and y below p; the sign bit chooses the root of x^2, and may
\* not ask for the negative of zero.
Roots(e) ==
    LET yy == FSquare(e.y)
    IN  {x \in Elements : FMul(FSub(EDWARDS_A, FMul(yy, EDWARDS_D)), FSquare(x)) = FSub(1, yy)}

Decodes(e) ==
    /\ e.spare = 0 /\ e.y < P
    /\ LET roots == Roots(e) IN roots # {} /\ (e.sign = 1 => 0 \notin roots)

Decode(e) == FromAffine(CHOOSE x \in Roots(e) : x % 2 = e.sign, e.y)

\* 1, 3, 5, ... times the point, normalised together.
OddTable(point) ==
    LET step == Double(point)
        multiple[i \in 1 .. 2 ^ (WNAF_WIDTH - 2)] ==
            IF i = 1 THEN point ELSE Add(multiple[i - 1], step)
    IN  BatchNormalize([i \in 1 .. 2 ^ (WNAF_WIDTH - 2) |-> multiple[i]])

BASEPOINT_ODD_TABLE == OddTable(Basepoint)

\* Entry |digit| >> 1 of a table numbered from zero.
vartime_add_signed(p, digit, odd, negate_scalar) ==
    LET addend == odd[(IF digit < 0 THEN -digit ELSE digit) \div 2 + 1]
    IN  IF digit = 0 THEN p
        ELSE AddAffine(p, IF (digit < 0) # negate_scalar THEN NegateNiels(addend) ELSE addend)

-----------------------------------------------------------------------------
(* VerifyingKey::from_bytes. *)

Return(answer) ==
    /\ verdict' = answer /\ loop' = "done"
    /\ UNCHANGED <<input, index, bit, value, digits, table, acc>>

KeyRefused ==
    /\ loop = "key"
    /\ Decodes(input.key) => IsIdentity(Decode(input.key))
    /\ Return(FALSE)

PrepareTable ==
    /\ loop = "key" /\ Decodes(input.key)
    /\ LET point == Decode(input.key)
       IN  /\ ~IsIdentity(point)
           /\ table' = OddTable(point) /\ acc' = point
    /\ loop' = "subgroup" /\ index' = 2 /\ bit' = PRIME_ORDER_WNAF_DESC[1][1]
    /\ UNCHANGED <<input, value, digits, verdict>>

\* is_prime_subgroup_with_table: double down to the next position of the
\* schedule, add its digit there.
SubgroupDouble ==
    /\ loop = "subgroup" /\ index <= Len(PRIME_ORDER_WNAF_DESC)
    /\ bit > PRIME_ORDER_WNAF_DESC[index][1]
    /\ acc' = Double(acc) /\ bit' = bit - 1
    /\ UNCHANGED <<input, loop, index, value, digits, table, verdict>>

SubgroupAdd ==
    /\ loop = "subgroup" /\ index <= Len(PRIME_ORDER_WNAF_DESC)
    /\ bit = PRIME_ORDER_WNAF_DESC[index][1]
    /\ acc' = vartime_add_signed(acc, PRIME_ORDER_WNAF_DESC[index][2], table, FALSE)
    /\ index' = index + 1
    /\ UNCHANGED <<input, loop, bit, value, digits, table, verdict>>

SubgroupEnds ==
    /\ loop = "subgroup" /\ index > Len(PRIME_ORDER_WNAF_DESC)
    /\ IF IsIdentity(acc)
       THEN /\ loop' = "signature"
            /\ UNCHANGED <<input, index, bit, value, digits, table, acc, verdict>>
       ELSE Return(FALSE)

-----------------------------------------------------------------------------
(* Signature::from_bytes, and the recodings. *)

SignatureRefused ==
    /\ loop = "signature"
    /\ ~Decodes(input.commitment) \/ input.response >= ORDER
    /\ Return(FALSE)

StartRecoding(scalar, scalarLoop) ==
    /\ loop' = scalarLoop /\ index' = 0 /\ value' = scalar
    /\ UNCHANGED <<input, bit, digits, table, acc, verdict>>

ParseSignature ==
    /\ loop = "signature"
    /\ Decodes(input.commitment) /\ input.response < ORDER
    /\ StartRecoding(input.response, "response")

\* Fault: the upper half of the residues is not made negative.
WnafDigit_Unsigned(n) == IF n % 2 = 0 THEN 0 ELSE n % 2 ^ WNAF_WIDTH

\* The digit at a position: zero, or the odd number congruent to what is left
\* modulo the radix, between minus half of it and half of it.
WnafDigit(n) ==
    LET low == n % 2 ^ WNAF_WIDTH
    IN  IF n % 2 = 0 THEN 0
        ELSE IF low >= 2 ^ (WNAF_WIDTH - 1) THEN low - 2 ^ WNAF_WIDTH ELSE low

\* Fault: a negative digit is taken for its residue, and borrows nothing.
Recode_WithoutBorrow ==
    /\ loop \in {"response", "challenge"} /\ index \in Positions
    /\ LET digit == WnafDigit(value)
       IN  /\ digits' = [digits EXCEPT ![loop][index] = digit]
           /\ value' = (value - (IF value % 2 = 0 THEN 0 ELSE value % 2 ^ WNAF_WIDTH)) \div 2
    /\ index' = index + 1
    /\ UNCHANGED <<input, loop, bit, table, acc, verdict>>

\* vartime_wnaf: take the digit away and halve the rest.
Recode ==
    /\ loop \in {"response", "challenge"} /\ index \in Positions
    /\ LET digit == WnafDigit(value)
       IN  /\ digits' = [digits EXCEPT ![loop][index] = digit]
           /\ value' = (value - digit) \div 2
    /\ index' = index + 1
    /\ UNCHANGED <<input, loop, bit, table, acc, verdict>>

ResponseRecoded ==
    /\ loop = "response" /\ index \notin Positions
    /\ StartRecoding(input.challenge, "challenge")

ChallengeRecoded ==
    /\ loop = "challenge" /\ index \notin Positions
    /\ loop' = "top" /\ index' = FIELD_BITS
    /\ UNCHANGED <<input, bit, value, digits, table, acc, verdict>>

-----------------------------------------------------------------------------
(* vartime_double_scalar_mul_basepoint, and the equation. *)

AllZero(i) == digits["response"][i] = 0 /\ digits["challenge"][i] = 0

SkipTop ==
    /\ loop = "top" /\ index # 0 /\ AllZero(index)
    /\ index' = index - 1
    /\ UNCHANGED <<input, loop, bit, value, digits, table, acc, verdict>>

StartStraus ==
    /\ loop = "top" /\ (index = 0 \/ ~AllZero(index))
    /\ loop' = "straus" /\ acc' = Identity
    /\ UNCHANGED <<input, index, bit, value, digits, table, verdict>>

\* Fault: the challenge's multiple is added, not subtracted.
StrausStep_Adds(p, i) ==
    vartime_add_signed(
        vartime_add_signed(Double(p), digits["response"][i], BASEPOINT_ODD_TABLE, FALSE),
        digits["challenge"][i], table, FALSE)

StrausStep(p, i) ==
    vartime_add_signed(
        vartime_add_signed(Double(p), digits["response"][i], BASEPOINT_ODD_TABLE, FALSE),
        digits["challenge"][i], table, TRUE)

Straus ==
    /\ loop = "straus"
    /\ acc' = StrausStep(acc, index)
    /\ IF index = 0 THEN loop' = "equation" /\ UNCHANGED index
       ELSE index' = index - 1 /\ UNCHANGED loop
    /\ UNCHANGED <<input, bit, value, digits, table, verdict>>

Equation ==
    /\ loop = "equation"
    /\ Return(IsIdentity(MultiplyByCofactor(Add(acc, Negate(Decode(input.commitment))))))

Init ==
    /\ input \in Inputs
    /\ loop = "key" /\ index = 0 /\ bit = 0 /\ value = 0
    /\ digits = [s \in {"response", "challenge"} |-> [i \in Positions |-> 0]]
    /\ table = <<>> /\ acc = Identity /\ verdict = Running

Next ==
    \/ KeyRefused \/ PrepareTable \/ SubgroupDouble \/ SubgroupAdd \/ SubgroupEnds
    \/ SignatureRefused \/ ParseSignature \/ Recode \/ ResponseRecoded \/ ChallengeRecoded
    \/ SkipTop \/ StartStraus \/ Straus \/ Equation

Spec == Init /\ [][Next]_vars

-----------------------------------------------------------------------------
(* What the code promises. *)

\* What the digits below each position spell.
Spelling(d) ==
    LET sum[i \in 0 .. FIELD_BITS + 1] ==
            IF i = 0 THEN 0 ELSE sum[i - 1] + d[i - 1] * 2 ^ (i - 1)
    IN  sum

Spelled(d) == Spelling(d)[FIELD_BITS + 1]

NonAdjacent(d) ==
    \A i \in Positions : d[i] # 0 =>
        /\ d[i] \in TableDigits
        /\ \A j \in i + 1 .. i + WNAF_WIDTH - 1 : j \in Positions => d[j] = 0

\* The digits vartime_wnaf writes are odd, fit an i8 and the table of odd
\* multiples (an even digit would silently select the entry of the odd one
\* above it), and stand at least WNAF_WIDTH apart.
RecodingIsNonAdjacent == \A s \in {"response", "challenge"} : NonAdjacent(digits[s])

\* vartime_wnaf never loses the scalar it recodes: the digits written and
\* what is left spell it after every iteration, and nothing is left after the
\* last one (the array has room for the digit a borrow pushes up).
RecodingKeepsScalar ==
    /\ loop = "response" => Spelled(digits["response"]) + value * 2 ^ index = input.response
    /\ loop = "challenge" => Spelled(digits["challenge"]) + value * 2 ^ index = input.challenge
    /\ loop \in {"challenge", "top", "straus", "equation"} => Spelled(digits["response"]) = input.response
    /\ loop \in {"top", "straus", "equation"} => Spelled(digits["challenge"]) = input.challenge

\* The points an encoding stands for: one, or none if it is malformed.
EncodedBy(e) ==
    {q \in {<<x, e.y>> : x \in Elements} : q \in Points /\ q[1] % 2 = e.sign /\ e.spare = 0}

\* What is left of [S]B - [k]A - R, and whether its multiple by the cofactor
\* is zero for a key of prime order.
Residual(call, a, r) ==
    AffineSum(AffineSum(BaseMultiple(call.response), PointMultiple(-call.challenge, a)), Opposite(r))

Accepts(call) ==
    \E a \in EncodedBy(call.key), r \in EncodedBy(call.commitment) :
        /\ a # Neutral /\ PointMultiple(ORDER, a) = Neutral
        /\ call.response < ORDER
        /\ PointMultiple(4, Residual(call, a, r)) = Neutral

\* verify answers TRUE exactly when the key is the canonical encoding of a
\* point of prime order, the commitment is canonical, the response is below
\* the order and the cofactored equation 4([S]B - [k]A - R) = 0 holds: torsion
\* in the commitment is ignored, torsion in the key is refused.
VerdictIsTheEquation == loop = "done" => verdict = Accepts(input)
=============================================================================
