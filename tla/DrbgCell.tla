------------------------------ MODULE DrbgCell ------------------------------
(***************************************************************************)
(* What the provider promises about its random source, with no locks and   *)
(* no threads: one cell that is filled once per load, a draw that always   *)
(* comes from the filled cell and never repeats, and a close.              *)
(***************************************************************************)
CONSTANTS
  Ctxs,     \* DRBG instances
  NullCtx   \* no instance

VARIABLES
  cell,     \* the DRBG in use, or NullCtx
  retired,  \* DRBGs that were in use in an earlier load
  drawn     \* the blocks handed out so far, as <<DRBG, block number>>

cellVars == <<cell, retired, drawn>>

CellInit ==
  /\ cell = NullCtx
  /\ retired = {}
  /\ drawn = {}

Fill ==
  /\ cell = NullCtx
  /\ cell' \in Ctxs \ retired
  /\ UNCHANGED <<retired, drawn>>

(* The filled cell hands out exactly one block, never handed out before.   *)
Draw ==
  /\ cell # NullCtx
  /\ \E draw \in drawn' \ drawn : /\ draw[1] = cell
                                 /\ drawn' = drawn \cup {draw}
  /\ UNCHANGED <<cell, retired>>

Close ==
  /\ cell # NullCtx
  /\ cell' = NullCtx
  /\ retired' = retired \cup {cell}
  /\ UNCHANGED drawn

CellNext == Fill \/ Draw \/ Close

CellSpec == CellInit /\ [][CellNext]_cellVars

=============================================================================
