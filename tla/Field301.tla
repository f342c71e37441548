------------------------------ MODULE Field301 ------------------------------
(***************************************************************************)
(* The field the curve code computes in, at the level of values: what      *)
(* Fe301 and Fe301Lazy of field_5x64.rs return, whatever limbs they are    *)
(* held in.  A 38-byte string is the integer it encodes, little-endian.    *)
(***************************************************************************)
EXTENDS Integers

CONSTANTS
    P,              \* the modulus: 2^301 - 2^99 + 947 in the code
    FIELD_BITS,     \* 301
    FIELD_BYTES     \* 38

TwoToField == 2 ^ FIELD_BITS

\* The modulus fills its bit length: one subtraction brings any masked
\* encoding below it, which from_x301_bytes relies on.
ASSUME FieldAssumption ==
    /\ P \in Nat /\ TwoToField \in Nat
    /\ 4 < P /\ P < TwoToField /\ TwoToField < 2 * P

\* It is a prime.
ASSUME PrimeAssumption == \A d \in 2 .. P - 1 : P % d # 0

None == -1

Elements == 0 .. P - 1
Encodings == 0 .. 2 ^ (8 * FIELD_BYTES) - 1

FAdd(x, y) == (x + y) % P
FSub(x, y) == (x - y) % P
FNeg(x) == FSub(0, x)
FMul(x, y) == (x * y) % P
FSquare(x) == FMul(x, x)

\* invert: a CtOption, absent for zero.
FInvert(x) ==
    IF x = 0 THEN None ELSE CHOOSE y \in Elements : FMul(x, y) = 1

\* from_x301_bytes: the bits above the field are dropped, then the modulus
\* is subtracted once if the rest is not below it.
FromX301Bytes(e) ==
    LET masked == e % TwoToField
    IN  IF masked >= P THEN masked - P ELSE masked
=============================================================================
