---------------------------- MODULE MCEngineLinks ----------------------------
(***************************************************************************)
(* EngineLinks with two threads of the application.                        *)
(***************************************************************************)
EXTENDS EngineLinks, TLC

CONSTANTS u1, u2

TwoUsers == {u1, u2}
=============================================================================
