----------------------------- MODULE MCFixedBase ----------------------------
(***************************************************************************)
(* The curve 16*x^2 + y^2 = 1 + 6*x^2*y^2 over F_8171, of order 4*2083 and *)
(* twist order 4*2003.  The field has 13 bits and an encoding two bytes,   *)
(* so three bits are unused as in the code, the top nibble of a clamped    *)
(* scalar is 1, and there are four digits and two rows of table.           *)
(***************************************************************************)
EXTENDS FixedBaseLoop

\* Clamped scalars whose nibbles sit on both sides of every carry, the
\* smallest and the largest one, and raw secrets whose other bits are set.
MCSecrets ==
    {4096 + 256 * a + 16 * b + c : a \in {0, 7, 8, 15}, b \in {0, 7, 8, 9, 15}, c \in {0, 4, 8, 12}}
      \cup {3, 513, 40959, 65535}
=============================================================================
