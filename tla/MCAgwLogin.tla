----------------------------- MODULE MCAgwLogin -----------------------------
(***************************************************************************)
(* AgwLogin with two user threads.                                         *)
(***************************************************************************)
EXTENDS AgwLogin, TLC

CONSTANTS u1, u2

TwoUsers == {u1, u2}
=============================================================================
