---------------------------- MODULE MCEngineWake ----------------------------
(***************************************************************************)
(* EngineWake with three producers.                                        *)
(***************************************************************************)
EXTENDS EngineWake, TLC

CONSTANTS p1, p2, p3

ThreeProducers == {p1, p2, p3}
=============================================================================
