---------------------------- MODULE MCEd301Verify ---------------------------
(***************************************************************************)
(* Calls of verify on the curve of MCFixedBase, whose group is the         *)
(* multiples of the base point (order 2083) and four points of torsion.    *)
(* Every point is made as a multiple and a torsion point, so that whether  *)
(* a key is valid and a signature satisfies the equation is arithmetic     *)
(* modulo the order, without a point operation.                            *)
(***************************************************************************)
EXTENDS Ed301Verify

\* Width-6 digits of the order: 2083 = 2^12 - 31*2^6 - 29.
MCSchedule == << <<12, 1>>, <<6, -31>>, <<0, -29>> >>

\* The torsion points: [0, 1, 2 and 3](1/4, 0).
Torsion == << <<0, 1>>, <<2043, 0>>, <<0, 8170>>, <<6128, 0>> >>

Responses == {0, 31, 33, 1055, 2082}
Challenges == {0, 32, 2079}
Keys == {1, 1500}

Multiples ==
    [m \in {0, 1, 1500} \cup {(s - k * n + shift) % ORDER :
               s \in Responses \cup {ORDER, ORDER + 33}, k \in Challenges, n \in Keys \cup {0}, shift \in {0, 1}} |->
        BaseMultiple(m)]

Encoded(n, t) ==
    LET p == AffineSum(Multiples[n % ORDER], Torsion[t + 1])
    IN  [y |-> p[2], sign |-> p[1] % 2, spare |-> 0]

\* Encodings no point has: y not below p, a spare bit, a negative zero, and
\* a y that is not on the curve.
Malformed ==
    {[y |-> BASE_Y + P, sign |-> 0, spare |-> 0], [y |-> BASE_Y, sign |-> 0, spare |-> 1],
     [y |-> 1, sign |-> 1, spare |-> 0], [y |-> 2, sign |-> 0, spare |-> 0]}

\* A call whose key is [n]B and torsion t, and whose commitment misses the
\* equation by [shift]B and by torsion c.
Call(n, t, response, challenge, shift, c) ==
    [key |-> Encoded(n, t), multiple |-> n, torsion |-> t,
     response |-> response, challenge |-> challenge, shift |-> shift,
     commitment |-> Encoded(response - challenge * n + shift, c)]

Genuine == Call(1500, 0, 2082, 2079, 0, 0)

MCInputs ==
    {Call(n, 0, s, k, shift, c) : n \in Keys, s \in Responses, k \in Challenges,
                                  shift \in {0, 1}, c \in {0, 1}}
      \cup {Call(n, t, 33, 32, 0, 0) : n \in {0, 1500}, t \in 0 .. 3}
      \cup {Call(1500, 0, s, 32, 0, 0) : s \in {ORDER, ORDER + 33}}
      \cup {[Genuine EXCEPT !.key = e] : e \in Malformed}
      \cup {[Genuine EXCEPT !.commitment = e] : e \in Malformed}

-----------------------------------------------------------------------------
\* What the equation comes to for points made as multiples.
ValidKey(call) ==
    call.key \notin Malformed /\ call.torsion = 0 /\ call.multiple % ORDER # 0

WellFormed(call) ==
    call.commitment \notin Malformed /\ call.response < ORDER

ASSUME AcceptedByArithmetic ==
    \A call \in MCInputs :
        Accepts(call) = (ValidKey(call) /\ WellFormed(call) /\ call.shift % ORDER = 0)
=============================================================================
