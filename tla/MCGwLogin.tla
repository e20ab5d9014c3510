----------------------------- MODULE MCGwLogin ------------------------------
(***************************************************************************)
(* GwLogin on two accounts.                                                *)
(***************************************************************************)
EXTENDS GwLogin, TLC

CONSTANTS a1, a2

TwoAccounts == {a1, a2}

Symmetry == Permutations(TwoAccounts)
=============================================================================
