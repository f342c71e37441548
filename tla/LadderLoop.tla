----------------------------- MODULE LadderLoop -----------------------------
(***************************************************************************)
(* The ladder of x301.rs run one round at a time, for every scalar and     *)
(* every encoded coordinate of the instance.                               *)
(***************************************************************************)
EXTENDS X301

CONSTANTS
    PrivateKeys,    \* raw secrets tried, as the integers they encode
    PublicInputs    \* raw encodings of u tried, non-canonical ones included

\* A 301-bit scalar, and the powers of two that its bits stand for.
ASSUME LadderAssumption ==
    /\ PrivateKeys \subseteq Nat /\ PublicInputs \subseteq Nat
    /\ FIELD_BITS \in Nat /\ FIELD_BITS >= 3
    /\ 2 ^ 0 = 1
    /\ \A i \in 1 .. FIELD_BITS : 2 ^ i \in Nat /\ 2 ^ i = 2 * 2 ^ (i - 1)

VARIABLES
    private, encoded,   \* the inputs of this call
    bitIndex,           \* the last bit whose round has been done
    st,                 \* LadderState and the pending swap
    result              \* what finalize returns, or NoResult

ladderVars == <<private, encoded, bitIndex, st, result>>

NoResult == -2
Ref == INSTANCE MontgomeryReference

LadderInit ==
    /\ private \in PrivateKeys /\ encoded \in PublicInputs
    /\ bitIndex = FIELD_BITS - 1
    /\ st = LadderStart(FromX301Bytes(encoded))
    /\ result = NoResult

Round ==
    /\ bitIndex > 2
    /\ bitIndex' = bitIndex - 1
    /\ st' = LadderRound(st, ScalarBit(ClampScalar(private), bitIndex - 1))
    /\ UNCHANGED <<private, encoded, result>>

Complete ==
    /\ bitIndex = 2 /\ result = NoResult
    /\ result' = Finalize(LadderFinish(st))
    /\ UNCHANGED <<private, encoded, bitIndex, st>>

LadderNext == Round \/ Complete

LadderSpec == LadderInit /\ [][LadderNext]_ladderVars

-----------------------------------------------------------------------------
\* The scalar and the coordinate the inputs mean, by RFC 7748 section 5 and
\* decisions D2 and D3: agree with the raw bits from 2 to FIELD_BITS - 2, and
\* reduce whatever is left of the encoding.
MeantScalar ==
    CHOOSE k \in 2 ^ (FIELD_BITS - 1) .. TwoToField - 1 :
        /\ k % 4 = 0
        /\ \A i \in 2 .. FIELD_BITS - 2 : ScalarBit(k, i) = ScalarBit(private, i)
MeantU == (encoded % TwoToField) % P

\* The registers of a state, put back in order, stand for [m]Q and [m + 1]Q.
HoldsMultiples(state, m, u) ==
    LET s == ConditionalSwap(state, state.swap)
    IN  /\ Ref!StandsFor(s.x2, s.z2, Ref!Multiple(m, u))
        /\ Ref!StandsFor(s.x3, s.z3, Ref!Multiple(m + 1, u))

\* After the round of bit i they do so for the m that is the scalar without
\* its low i bits: the fold of the top bit into the start, the swap carried
\* from one round to the next and the scaled a24 are all right together, on
\* the curve and on its twist.  At u = 0 the differential addition degenerates
\* and only the result is claimed.
LadderInvariant ==
    MeantU # 0 => HoldsMultiples(st, MeantScalar \div 2 ^ bitIndex, MeantU)

\* The coordinate that is returned for a point, the neutral one refused.
Coordinate(q) == IF q.inf THEN None ELSE q.u

\* x301 returns the coordinate of [k]Q for every encoding of u, aliases
\* included, and refuses exactly the inputs for which that point is the
\* neutral one: points of small order and scalars that annihilate the twist.
ResultIsTheMultiple ==
    result # NoResult => result = Coordinate(Ref!Multiple(MeantScalar, MeantU))

-----------------------------------------------------------------------------
(* What the formulas of a round compute, for the proofs.                   *)

\* A point in projective coordinates, scaled by c.
Scaled(q, c) == IF q.inf THEN [x |-> c, z |-> 0] ELSE [x |-> FMul(q.u, c), z |-> c]

\* A round on the points p and q, and what it leaves in its third register.
RoundOn(u, p, q) ==
    Rounded([x1 |-> u, x2 |-> p.x, z2 |-> p.z, x3 |-> q.x, z3 |-> q.z, swap |-> 0], 0)

\* The doubling of [n]Q is [2n]Q, and the differential addition of [n]Q and
\* [n + 1]Q, either one first, is [2n + 1]Q, whatever they are scaled by.
RoundLaws(coordinates, numbers, scales) ==
    \A u \in coordinates, n \in numbers :
        LET here == Ref!Multiple(n, u)
            next == Ref!Multiple(n + 1, u)
            sum == Ref!Multiple(2 * n + 1, u)
        IN  \A b \in scales :
              /\ LET p == Scaled(here, b)
                     two == DoubleScaled(p.x, p.z)
                 IN  Ref!StandsFor(two.x, two.z, Ref!Multiple(2 * n, u))
              /\ \A c \in scales :
                   LET p == Scaled(here, b)
                       q == Scaled(next, c)
                   IN  \A s \in {RoundOn(u, p, q), RoundOn(u, q, p)} : Ref!StandsFor(s.x3, s.z3, sum)

\* Four times a point is the neutral one or has an affine coordinate other than
\* 0: both groups are of order four times an odd.
CurveLaws(numbers) ==
    \A u \in Elements, n \in numbers :
        LET q == Ref!Multiple(4 * n, u) IN q.inf \/ (u # 0 /\ q.u \in Elements \ {0})

\* The map to u takes [n]B to the multiple of the coordinate of B.
MapLaws(numbers, scales) ==
    LET base == MontgomeryU(Basepoint)
    IN  /\ base \in Elements \ {0}
        /\ \A n \in numbers, z \in scales, t \in Elements :
             LET b == BaseMultiple(n)
                 p == [x |-> FMul(b[1], z), y |-> FMul(b[2], z), z |-> z, t |-> t]
             IN  IsValid(p) => MontgomeryU(p) = Coordinate(Ref!Multiple(n, base))

\* No clamped secret is a multiple of the order of the base point.
NoneAnnihilates(secrets) ==
    \A s \in secrets : ~Ref!Multiple(ClampScalar(s), MontgomeryU(Basepoint)).inf
=============================================================================
