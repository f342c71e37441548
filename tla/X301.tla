-------------------------------- MODULE X301 --------------------------------
(***************************************************************************)
(* The X301 function of x301.rs: clamping, decoding, the Montgomery ladder *)
(* with its fixed top and bottom bits folded away, and the two operations  *)
(* built on them, public_from_secret and shared_secret.                    *)
(***************************************************************************)
EXTENDS Edwards

\* (A - 2)/4 = d/(a - d), kept as a fraction: both outputs of a doubling are
\* scaled by the denominator.
A24_DENOMINATOR == EDWARDS_A - EDWARDS_D
A24_NUMERATOR == EDWARDS_D

\* clamp_scalar: bits 0 and 1 cleared, the top field bit set, all above it
\* cleared.
ClampScalar(s) == 4 * ((s % 2 ^ (FIELD_BITS - 1)) \div 4) + 2 ^ (FIELD_BITS - 1)

ScalarBit(k, i) == (k \div 2 ^ i) % 2

\* decode_public followed by to_canonical_bytes.
CanonicalizePublicEncoding(e) == FromX301Bytes(e)

DoubleScaled(x, z) ==
    LET aa == FSquare(FAdd(x, z))
        bb == FSquare(FSub(x, z))
        e == FSub(aa, bb)
        scaledAA == FMul(aa, A24_DENOMINATOR)
    IN  [x |-> FMul(scaledAA, bb),
         z |-> FMul(e, FAdd(scaledAA, FMul(e, A24_NUMERATOR)))]

\* conditional_swap exchanges the two projective points when told to.
ConditionalSwap(st, swap) ==
    IF swap = 1 THEN [st EXCEPT !.x2 = st.x3, !.z2 = st.z3, !.x3 = st.x2, !.z3 = st.z2]
    ELSE st

\* Bit 300 is one: its round is a doubling, and leaves (2P, P) unswapped.
LadderStart(u) ==
    LET two == DoubleScaled(u, 1)
    IN  [x1 |-> u, x2 |-> two.x, z2 |-> two.z, x3 |-> u, z3 |-> 1, swap |-> 1]

\* The doubling and the differential addition of one round.
Rounded(s, bit) ==
    LET two == DoubleScaled(s.x2, s.z2)
        da == FMul(FSub(s.x3, s.z3), FAdd(s.x2, s.z2))
        cb == FMul(FAdd(s.x3, s.z3), FSub(s.x2, s.z2))
    IN  [x1 |-> s.x1, x2 |-> two.x, z2 |-> two.z,
         x3 |-> FSquare(FAdd(da, cb)), z3 |-> FMul(s.x1, FSquare(FSub(da, cb))),
         swap |-> bit]

\* Fault: the swap left pending by the previous round is not undone.
LadderRound_ForgetsPendingSwap(st, bit) == Rounded(ConditionalSwap(st, bit), bit)

LadderRound(st, bit) == Rounded(ConditionalSwap(st, (st.swap + bit) % 2), bit)

\* Fault: the accumulated result is doubled without being selected first.
LadderFinish_WithoutSwap(st) ==
    LET once == DoubleScaled(st.x2, st.z2) IN DoubleScaled(once.x, once.z)

\* Bits 1 and 0 are zero: the result is selected, then doubled twice.
LadderFinish(st) ==
    LET s == ConditionalSwap(st, st.swap)
        once == DoubleScaled(s.x2, s.z2)
    IN  DoubleScaled(once.x, once.z)

\* The affine coordinate; a zero denominator and a zero result are refused.
Finalize(q) ==
    LET affine == FMul(q.x, FInvert(q.z))
    IN  IF q.z = 0 \/ affine = 0 THEN None ELSE affine

\* The state of the ladder after the rounds for bits FIELD_BITS - 2 down to i.
AfterRounds(k, u) ==
    LET st[i \in 2 .. FIELD_BITS - 1] ==
            IF i = FIELD_BITS - 1 THEN LadderStart(u)
            ELSE LadderRound(st[i + 1], ScalarBit(k, i))
    IN  st

SharedSecret(s, e) ==
    Finalize(LadderFinish(AfterRounds(ClampScalar(s), FromX301Bytes(e))[2]))

\* signed_radix16 and scalar_mul_base_encoded, loop by loop.
Nibbles(k) == [i \in 0 .. RADIX16_DIGITS - 1 |-> Nibble(k, i)]

SignedRadix16(k) ==
    LET carried[n \in 0 .. RADIX16_DIGITS - 1] ==
            IF n = 0 THEN Nibbles(k) ELSE CarryDigit(carried[n - 1], n - 1)
    IN  carried[RADIX16_DIGITS - 1]

AddDigit(acc, digits, i) == AddAffine(acc, SelectBasepoint(i \div 2, digits[i]))

ScalarMulBase(k) ==
    LET digits == SignedRadix16(k)
        odd[n \in 0 .. FIELD_BYTES] ==
            IF n = 0 THEN Identity ELSE AddDigit(odd[n - 1], digits, 2 * n - 1)
        even[n \in 0 .. FIELD_BYTES] ==
            IF n = 0 THEN Double(Double(Double(Double(odd[FIELD_BYTES]))))
            ELSE AddDigit(even[n - 1], digits, 2 * n - 2)
    IN  even[FIELD_BYTES]

PublicFromSecret(s) == MontgomeryU(ScalarMulBase(ClampScalar(s)))
=============================================================================
