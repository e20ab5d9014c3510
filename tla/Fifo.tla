-------------------------------- MODULE Fifo --------------------------------
(***************************************************************************)
(* What the ring of que_mth_buf promises: messages leave in the order in   *)
(* which they were put, one at a time and whole.                           *)
(***************************************************************************)
EXTENDS Sequences

CONSTANTS Messages, None

VARIABLES
    queue,  \* messages put and not taken
    held    \* the message the reader works on, or None

vars == <<queue, held>>

Init == queue = <<>> /\ held = None

Put == \E m \in Messages : queue' = Append(queue, m) /\ UNCHANGED held

Take ==
    /\ held = None /\ queue # <<>>
    /\ held' = Head(queue)
    /\ queue' = Tail(queue)

Release ==
    /\ held # None
    /\ held' = None
    /\ UNCHANGED queue

Next == Put \/ Take \/ Release

Spec == Init /\ [][Next]_vars
=============================================================================
