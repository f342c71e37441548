---------------------------- MODULE MCCoreVersion ---------------------------
(***************************************************************************)
(* Every string of up to MaxLength characters.  UINT_MAX is 33, so that a  *)
(* component of two digits can fit (33), overflow by the digit alone (34)  *)
(* or overflow outright (40), and the minors around 5 are among them.      *)
(***************************************************************************)
EXTENDS CoreVersion, SequencesExt

CONSTANTS MaxLength, Other

MCCharacters == {0, 3, 4, 5, Dot, Other}
MCTexts == BoundedSeq(MCCharacters, MaxLength)

\* The two OpenSSL 3 minors around the hybrid build's bound.
MCReleases == {<<3, Dot, 4>>, <<3, Dot, 5>>}
=============================================================================
