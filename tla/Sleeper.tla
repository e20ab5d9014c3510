------------------------------ MODULE Sleeper -------------------------------
(***************************************************************************)
(* What the sleep of the engine promises to those who queue events: it     *)
(* sleeps only on an empty queue, an event wakes it, and nothing else      *)
(* does.                                                                   *)
(***************************************************************************)
EXTENDS Naturals

VARIABLES
    n,      \* events in the queue
    awake   \* the engine is at work, or a wake is on its way

vars == <<n, awake>>

Init == n = 0 /\ awake = TRUE

Put ==
    /\ n' = n + 1
    /\ awake' = TRUE

Take ==
    /\ awake /\ n > 0
    /\ n' = n - 1
    /\ UNCHANGED awake

Rest ==
    /\ awake /\ n = 0
    /\ awake' = FALSE
    /\ UNCHANGED n

Next == Put \/ Take \/ Rest

Spec == Init /\ [][Next]_vars
=============================================================================
