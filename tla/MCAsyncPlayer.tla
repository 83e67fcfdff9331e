--------------------------- MODULE MCAsyncPlayer ---------------------------
(***************************************************************************)
(* A player for TLC: two seek targets, so that one seek can overtake       *)
(* another; the configurations allow two video objects, enough to open     *)
(* twice, or once more after a close.                                      *)
(***************************************************************************)
EXTENDS AsyncPlayer

TwoPositions == {1, 2}
=============================================================================
