------------------------------ MODULE LinkLife -------------------------------
(***************************************************************************)
(* What a counter may rely on of one of its links, told by                 *)
(* deal_link_connect and deal_link_close: it comes up, is closed and is    *)
(* gone, and only then comes up again, as long as its life is not          *)
(* disturbed.                                                              *)
(***************************************************************************)
VARIABLES
    state,  \* "gone", "up", or "closing": the counter is still to be told
    sound   \* nothing has disturbed it

vars == <<state, sound>>

Init == state = "gone" /\ sound = TRUE

ComesUp ==
    /\ state = "gone" /\ state' = "up"
    /\ UNCHANGED sound

IsClosed ==
    /\ state = "up" /\ state' = "closing"
    /\ UNCHANGED sound

IsGone ==
    /\ state = "closing" /\ state' = "gone"
    /\ UNCHANGED sound

(* Nothing is promised any longer. *)
Disturbed ==
    /\ sound' = FALSE
    /\ state' \in {"gone", "up", "closing"}

Next == ComesUp \/ IsClosed \/ IsGone \/ Disturbed

Spec == Init /\ [][Next]_vars
=============================================================================
