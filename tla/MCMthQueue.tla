----------------------------- MODULE MCMthQueue -----------------------------
(***************************************************************************)
(* MthQueue with three writers.                                            *)
(***************************************************************************)
EXTENDS MthQueue, TLC

CONSTANTS w1, w2, w3

ThreeWriters == {w1, w2, w3}
=============================================================================
