----------------------------- MODULE MCC98Login -----------------------------
(***************************************************************************)
(* C98Login on two accounts.                                               *)
(***************************************************************************)
EXTENDS C98Login, TLC

CONSTANTS a1, a2

TwoAccounts == {a1, a2}
=============================================================================
