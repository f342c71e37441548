------------------------------- MODULE Edwards ------------------------------
(***************************************************************************)
(* The twisted Edwards curve a*x^2 + y^2 = 1 + d*x^2*y^2 of edwards.rs in  *)
(* extended coordinates, its fixed-base signed radix-16 multiplication and *)
(* the map from a point to its Montgomery u coordinate.                    *)
(***************************************************************************)
EXTENDS Field301, Sequences

CONSTANTS
    EDWARDS_A, EDWARDS_D,       \* 2086388329 and 301
    BASE_X, BASE_Y              \* the affine base point

RADIX16_DIGITS == 2 * FIELD_BYTES
BASEPOINT_TABLE_WIDTH == 8

Identity == [x |-> 0, y |-> 1, z |-> 1, t |-> 0]
Basepoint == [x |-> BASE_X, y |-> BASE_Y, z |-> 1, t |-> FMul(BASE_X, BASE_Y)]
NielsIdentity == [x |-> 0, y |-> 1, xy |-> 1, dt |-> 0]

\* The last four products, which the three addition formulas share.
Assemble(cross, difference, sum, twisted) ==
    [x |-> FMul(cross, difference), y |-> FMul(sum, twisted),
     z |-> FMul(difference, sum),   t |-> FMul(cross, twisted)]

Add(p, q) ==
    LET xx == FMul(p.x, q.x)
        yy == FMul(p.y, q.y)
        dt == FMul(FMul(p.t, EDWARDS_D), q.t)
        zz == FMul(p.z, q.z)
        cross == FSub(FMul(FAdd(p.x, p.y), FAdd(q.x, q.y)), FAdd(xx, yy))
    IN  Assemble(cross, FSub(zz, dt), FAdd(zz, dt), FSub(yy, FMul(xx, EDWARDS_A)))

\* Mixed addition of a table entry, whose z is 1 and whose dt is d*x*y.
AddAffine(p, n) ==
    LET xx == FMul(p.x, n.x)
        yy == FMul(p.y, n.y)
        dt == FMul(p.t, n.dt)
        cross == FSub(FMul(FAdd(p.x, p.y), n.xy), FAdd(xx, yy))
    IN  Assemble(cross, FSub(p.z, dt), FAdd(p.z, dt), FSub(yy, FMul(xx, EDWARDS_A)))

Double(p) ==
    LET xx == FSquare(p.x)
        yy == FSquare(p.y)
        zz == FSquare(p.z)
        twistedXX == FMul(xx, EDWARDS_A)
        cross == FSub(FSquare(FAdd(p.x, p.y)), FAdd(xx, yy))
        sum == FAdd(twistedXX, yy)
    IN  Assemble(cross, FSub(sum, FAdd(zz, zz)), sum, FSub(twistedXX, yy))

\* Both representations of a point, and the checks made on them.
IsValid(p) ==
    /\ p.z # 0
    /\ FMul(p.x, p.y) = FMul(p.z, p.t)
    /\ LET xx == FSquare(p.x)
           yy == FSquare(p.y)
           zz == FSquare(p.z)
       IN  FAdd(FMul(FMul(xx, EDWARDS_A), zz), FMul(yy, zz))
             = FAdd(FSquare(zz), FMul(FMul(xx, EDWARDS_D), yy))

FromProjective(p, inverseZ) ==
    LET x == FMul(p.x, inverseZ)
        y == FMul(p.y, inverseZ)
    IN  [x |-> x, y |-> y, xy |-> FAdd(x, y), dt |-> FMul(FMul(x, y), EDWARDS_D)]

NegateNiels(n) ==
    [x |-> FNeg(n.x), y |-> n.y, xy |-> FAdd(FNeg(n.x), n.y), dt |-> FNeg(n.dt)]

\* Row r of the table starts at [256^r]B, eight doublings after row r - 1;
\* entry e is [e + 1] times its row's first point.
RowBase[r \in 0 .. FIELD_BYTES - 1] ==
    LET doubled[i \in 0 .. 8] == IF i = 0 THEN RowBase[r - 1] ELSE Double(doubled[i - 1])
    IN  IF r = 0 THEN Basepoint ELSE doubled[8]
Row(r) ==
    LET entry[e \in 0 .. BASEPOINT_TABLE_WIDTH - 1] ==
            IF e = 0 THEN RowBase[r] ELSE Add(entry[e - 1], RowBase[r])
    IN  entry

\* One inversion serves all the points: that of the product of their z, taken
\* apart from the last point down by the products of the z before each.
BatchNormalize(points) ==
    LET n == Len(points)
        product[i \in 0 .. n] == IF i = 0 THEN 1 ELSE FMul(product[i - 1], points[i].z)
        inverse[i \in 0 .. n] ==
            IF i = n THEN FInvert(product[n]) ELSE FMul(inverse[i + 1], points[i + 1].z)
    IN  [i \in 1 .. n |-> FromProjective(points[i], FMul(inverse[i], product[i - 1]))]

BASEPOINT_TABLE ==
    BatchNormalize([i \in 1 .. FIELD_BYTES * BASEPOINT_TABLE_WIDTH |->
        Row((i - 1) \div BASEPOINT_TABLE_WIDTH)[(i - 1) % BASEPOINT_TABLE_WIDTH]])

\* Fault: the last entry of a row is never compared.
SelectBasepoint_StopsAtSeven(row, digit) ==
    LET magnitude == IF digit < 0 THEN -digit ELSE digit
        selected == IF magnitude \in 1 .. BASEPOINT_TABLE_WIDTH - 1
                    THEN BASEPOINT_TABLE[row * BASEPOINT_TABLE_WIDTH + magnitude] ELSE NielsIdentity
    IN  IF digit < 0 THEN NegateNiels(selected) ELSE selected

\* All eight entries are scanned; a magnitude of zero, or above eight, leaves
\* the identity selected.
SelectBasepoint(row, digit) ==
    LET magnitude == IF digit < 0 THEN -digit ELSE digit
        selected == IF magnitude \in 1 .. BASEPOINT_TABLE_WIDTH
                    THEN BASEPOINT_TABLE[row * BASEPOINT_TABLE_WIDTH + magnitude] ELSE NielsIdentity
    IN  IF digit < 0 THEN NegateNiels(selected) ELSE selected

Nibble(k, i) == (k \div 16 ^ i) % 16

\* Fault: the threshold is sixteen, so digits from nine to fifteen are kept.
CarryDigit_Unsigned(digits, i) ==
    [digits EXCEPT ![i] = @ % 16, ![i + 1] = @ + digits[i] \div 16]

\* One step of the carry loop of signed_radix16 on digit i.
CarryDigit(digits, i) ==
    LET carry == (digits[i] + 8) \div 16
    IN  [digits EXCEPT ![i] = @ - 16 * carry, ![i + 1] = @ + carry]

\* Fault: the numerator and the denominator of the map are swapped.
MontgomeryU_Inverted(p) ==
    LET i == FInvert(FAdd(p.z, p.y))
    IN  IF ~IsValid(p) \/ i = None THEN None ELSE FMul(FSub(p.z, p.y), i)

\* u = (Z + Y)/(Z - Y), refused for an invalid point, the identity and u = 0.
MontgomeryU(p) ==
    LET i == FInvert(FSub(p.z, p.y))
        u == FMul(FAdd(p.z, p.y), i)
    IN  IF ~IsValid(p) \/ i = None \/ u = 0 THEN None ELSE u

-----------------------------------------------------------------------------
(* What the projective formulas are checked against: the affine points of  *)
(* the curve with the unified addition law, and doubling and adding with it.*)

Points ==
    {q \in Elements \X Elements :
        FAdd(FMul(EDWARDS_A, FSquare(q[1])), FSquare(q[2]))
          = FAdd(1, FMul(EDWARDS_D, FMul(FSquare(q[1]), FSquare(q[2]))))}

BasePoint == <<BASE_X, BASE_Y>>
Neutral == <<0, 1>>
Opposite(q) == <<FNeg(q[1]), q[2]>>

\* The header of edwards.rs: the curve has a square a and a nonsquare d.
ASSUME EdwardsAssumption ==
    /\ EDWARDS_A \in Elements \ {0} /\ EDWARDS_D \in Elements
    /\ \E s \in Elements : FSquare(s) = EDWARDS_A
    /\ \A s \in Elements : FSquare(s) # EDWARDS_D
    /\ BasePoint \in Points

AffineSum(p, q) ==
    LET e == FMul(EDWARDS_D, FMul(FMul(p[1], q[1]), FMul(p[2], q[2])))
    IN  <<FMul(FAdd(FMul(p[1], q[2]), FMul(p[2], q[1])), FInvert(FAdd(1, e))),
          FMul(FSub(FMul(p[2], q[2]), FMul(EDWARDS_A, FMul(p[1], q[1]))), FInvert(FSub(1, e)))>>

PointMultiple(n, q) ==
    LET step == IF n < 0 THEN Opposite(q) ELSE q
        m[j \in Nat] ==
            IF j = 0 THEN Neutral
            ELSE LET half == m[j \div 2]
                     even == AffineSum(half, half)
                 IN  IF j % 2 = 0 THEN even ELSE AffineSum(even, step)
    IN  m[IF n < 0 THEN -n ELSE n]

BaseMultiple(n) == PointMultiple(n, BasePoint)

\* An extended point stands for the multiple of the base point it is valid for.
ExtendedPoints == [x : Elements, y : Elements, z : Elements, t : Elements]
StandsForMultiple(p, n) ==
    /\ IsValid(p)
    /\ LET b == BaseMultiple(n) IN p.x = FMul(b[1], p.z) /\ p.y = FMul(b[2], p.z)
Represents(p, n) == p \in ExtendedPoints /\ StandsForMultiple(p, n)
=============================================================================
