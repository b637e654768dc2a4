---------------------------- MODULE MCPublication ----------------------------
(***************************************************************************)
(* Two editors of a product at once, for TLC.                              *)
(***************************************************************************)
EXTENDS Publication

CONSTANTS e1, e2
=============================================================================
