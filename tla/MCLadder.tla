------------------------------ MODULE MCLadder ------------------------------
(***************************************************************************)
(* The curve 12*x^2 + y^2 = 1 + 2*x^2*y^2 over F_59: like ED301 it has     *)
(* order 4q > 2^6 (q = 17) and a twist of order 4q' (q' = 13) whose        *)
(* annihilator 52 is a clamped scalar, over a prime that is 3 modulo 4.    *)
(***************************************************************************)
EXTENDS LadderLoop

\* All eight clamped scalars, and raw secrets that share one.
MCPrivateKeys == {0, 35, 36, 40, 106, 44, 48, 52, 247, 60}

\* Every coordinate, and every alias that needs a mask, a subtraction or both.
MCPublicInputs == 0 .. 63 \cup {64, 65, 102, 127, 191, 250, 255}

\* On this curve the formulas of a round follow the group law, for the points
\* above every coordinate and the multiples that a scalar of six bits goes
\* through, and so does the map to u.
ASSUME RoundsFollowTheLaw == RoundLaws(Elements \ {0}, 0 .. 31, {1, 2, P - 1})
ASSUME ResultsFollowTheLaw == CurveLaws(0 .. 17)
ASSUME MapFollowsTheLaw == MapLaws(0 .. 17, Elements \ {0})
ASSUME KeysFollowTheLaw == NoneAnnihilates(MCPrivateKeys)
=============================================================================
