---------------------------- MODULE FixedBaseLoop ---------------------------
(***************************************************************************)
(* public_from_secret of x301.rs one loop iteration at a time: the clamp,  *)
(* the signed radix-16 recoding, the additions of the odd digits, four     *)
(* doublings, the additions of the even digits, and the map to u.          *)
(***************************************************************************)
EXTENDS X301

CONSTANT Secrets        \* raw secrets tried, as the integers they encode

\* The powers of two and sixteen in play, and the room the clamp leaves at the
\* top: a scalar has at most 8*16^75 in its 76 digits (2^301 <= 2^303).
ASSUME RadixAssumption ==
    /\ Secrets \subseteq Nat
    /\ FIELD_BYTES \in Nat \ {0}
    /\ 2 ^ (FIELD_BITS - 1) \in Nat \ {0}
    /\ TwoToField = 2 * 2 ^ (FIELD_BITS - 1)
    /\ 16 ^ 0 = 1
    /\ \A i \in 0 .. RADIX16_DIGITS - 1 :
          16 ^ i \in Nat \ {0} /\ (i # 0 => 16 ^ i = 16 * 16 ^ (i - 1))
    /\ TwoToField <= 8 * 16 ^ (RADIX16_DIGITS - 1)

VARIABLES
    secret,     \* the input of this call
    loop,       \* which loop of scalar_mul_base_encoded is running
    index,      \* its counter
    digits,     \* the RADIX16_DIGITS signed digits
    acc,        \* the point accumulated so far
    public      \* the returned coordinate, None for an error, or Running

vars == <<secret, loop, index, digits, acc, public>>

Running == -2
Last == RADIX16_DIGITS - 1

Init ==
    /\ secret \in Secrets
    /\ loop = "recode" /\ index = 0
    /\ digits = Nibbles(ClampScalar(secret))
    /\ acc = Identity /\ public = Running

Recode ==
    /\ loop = "recode" /\ index < Last
    /\ digits' = CarryDigit(digits, index)
    /\ index' = index + 1
    /\ UNCHANGED <<secret, loop, acc, public>>

RecodeEnds ==
    /\ loop = "recode" /\ index = Last
    /\ loop' = "odd" /\ index' = 1
    /\ UNCHANGED <<secret, digits, acc, public>>

AddOdd ==
    /\ loop = "odd" /\ index < RADIX16_DIGITS
    /\ acc' = AddDigit(acc, digits, index)
    /\ index' = index + 2
    /\ UNCHANGED <<secret, loop, digits, public>>

Shift ==
    /\ loop = "odd" /\ index >= RADIX16_DIGITS
    /\ acc' = Double(Double(Double(Double(acc))))
    /\ loop' = "even" /\ index' = 0
    /\ UNCHANGED <<secret, digits, public>>

AddEven ==
    /\ loop = "even" /\ index < RADIX16_DIGITS
    /\ acc' = AddDigit(acc, digits, index)
    /\ index' = index + 2
    /\ UNCHANGED <<secret, loop, digits, public>>

MapToU ==
    /\ loop = "even" /\ index >= RADIX16_DIGITS
    /\ public' = MontgomeryU(acc)
    /\ loop' = "done"
    /\ UNCHANGED <<secret, index, digits, acc>>

Next == Recode \/ RecodeEnds \/ AddOdd \/ Shift \/ AddEven \/ MapToU

Spec == Init /\ [][Next]_vars

-----------------------------------------------------------------------------
Digits == 0 .. Last

\* What the digits recoded so far may be: a digit the loop has left is
\* signed, the digit it stands at may have received a carry.
DigitRange(j) ==
    IF j < index \/ loop # "recode" THEN -8 .. 8
    ELSE IF j = index THEN 0 .. 16 ELSE 0 .. 15

\* Every digit the additions look up is in the eight-entry table, with its
\* sign, and no intermediate digit leaves the range of an i8: a magnitude the
\* scan of select_basepoint does not know would silently add the identity.
\* The top digit is safe only because the clamp bounds the top nibble.
DigitsFitTable ==
    \A j \in Digits : digits[j] \in DigitRange(j)

\* The number that the digits at a set of positions spell.
Spelling(d, positions) ==
    LET sum[j \in 0 .. RADIX16_DIGITS] ==
            IF j = 0 THEN 0
            ELSE sum[j - 1] + (IF j - 1 \in positions THEN d[j - 1] * 16 ^ (j - 1) ELSE 0)
    IN  sum
ValueOf(d, positions) == Spelling(d, positions)[RADIX16_DIGITS]

\* The multiple of the base point that the additions done so far amount to:
\* the odd digits count for a sixteenth of their weight until the shift.
Odd == {j \in Digits : j % 2 = 1}
Covered ==
    IF loop \in {"recode", "odd"}
    THEN ValueOf(digits, {j \in Odd : loop = "odd" /\ j < index}) \div 16
    ELSE ValueOf(digits, Odd \cup {j \in Digits \ Odd : j < index})

\* The accumulator is a valid extended point and is exactly the multiple of
\* the base point that the digits consumed so far spell: the table rows, the
\* sign of a selected entry, the even-odd split and the four doublings fit.
AccumulatesMultiple == StandsForMultiple(acc, Covered)

\* The fixed-base route gives the public key the ladder gives for the base
\* point (X-K1), and never fails: no clamped scalar is a multiple of q.
AgreesWithLadder ==
    loop = "done" =>
        /\ public # None
        /\ public = SharedSecret(secret, MontgomeryU(Basepoint))
=============================================================================
