------------------------- MODULE MontgomeryReference ------------------------
(***************************************************************************)
(* What the curve code is checked against: textbook affine arithmetic on   *)
(* the Montgomery curve B*v^2 = u^3 + A*u^2 + u and on its quadratic       *)
(* twist, with scalar multiplication by repeated addition.  Nothing here   *)
(* is translated from the code.                                            *)
(***************************************************************************)
EXTENDS Field301

CONSTANTS EDWARDS_A, EDWARDS_D

Infinity == [inf |-> TRUE]
Affine(u, v) == [inf |-> FALSE, u |-> u, v |-> v]

Div(x, y) == FMul(x % P, FInvert(y % P))

\* A = 2(a + d)/(a - d).
CoefficientA == Div(2 * (EDWARDS_A + EDWARDS_D), EDWARDS_A - EDWARDS_D)

\* -1 is not a square (P % 4 = 3), so each u is on B = 1 or on B = -1.
OnLine(u) ==
    LET f == FMul(u, FAdd(FAdd(FSquare(u), FMul(CoefficientA, u)), 1))
        lifts == {l \in {1, P - 1} \X Elements : FMul(l[1], FSquare(l[2])) = f}
        lift == CHOOSE l \in lifts : TRUE
    IN  [b |-> lift[1], point |-> Affine(u, lift[2])]

PointAdd(b, p, q) ==
    LET slope == IF p = q
                 THEN Div(3 * p.u * p.u + 2 * CoefficientA * p.u + 1, 2 * b * p.v)
                 ELSE Div(q.v - p.v, q.u - p.u)
        u == (b * slope * slope - CoefficientA - p.u - q.u) % P
        v == (slope * (p.u - u) - p.v) % P
    IN  IF p.inf THEN q
        ELSE IF q.inf THEN p
        ELSE IF p.u = q.u /\ (p.v # q.v \/ p.v = 0) THEN Infinity
        ELSE Affine(u, v)

\* The points [0]Q to [n]Q for the Q above u, and the last of them.
Multiples(n, u) ==
    LET line == OnLine(u)
        m[j \in 0 .. n] == IF j = 0 THEN Infinity ELSE PointAdd(line.b, m[j - 1], line.point)
    IN  m
Multiple(n, u) == Multiples(n, u)[n]

\* The projective pair x : z stands for the u coordinate of the point q.
StandsFor(x, z, q) ==
    IF q.inf THEN z = 0 /\ x # 0 ELSE z # 0 /\ x = FMul(q.u, z)
=============================================================================
