------------------------------ MODULE StatRef -------------------------------
(***************************************************************************)
(* The state word of a channel (class src_stat_ref, state_machine.cpp): a  *)
(* state, a closing flag and a reference count packed in one atomic        *)
(* integer.  Every method is a load / compare-and-swap loop, so it takes   *)
(* effect at its last load or at its successful swap; an operator below    *)
(* maps the word read there to the word left there.                        *)
(*                                                                         *)
(* "work" stands for CSTATEREF_INITED and CSTATEREF_WORK together: the     *)
(* second is set only on top of the first.                                 *)
(***************************************************************************)
EXTENDS Naturals

Word == [st : {"closed", "initing", "inited", "work"}, closing : BOOLEAN, ref : Nat]

Closed == [st |-> "closed", closing |-> FALSE, ref |-> 0]

(* What the methods leave: a closing word has a reference, a closed one is *)
(* CSTATEREF_CLOSED and nothing else, and an initialisation holds one.     *)
LegalWord(w) ==
    /\ w \in Word
    /\ w.st = "closed" => w = Closed
    /\ w.st = "initing" => w.ref = 1
    /\ w.closing => w.ref > 0

IsFree(w) == w = Closed

IsWork(w) == w.st = "work" /\ ~w.closing

-----------------------------------------------------------------------------
(* to_init: refused unless the word is CSTATEREF_CLOSED. *)
ToInit(w) == [st |-> "initing", closing |-> FALSE, ref |-> 1]

(* end_init: the reference of the initialisation goes; a close that came   *)
(* meanwhile, or a failure, ends in CLOSED.                                *)
EndInitWorks(w, ok) == ok /\ ~w.closing

EndInit(w, ok) ==
    IF EndInitWorks(w, ok) THEN [st |-> "inited", closing |-> FALSE, ref |-> 0] ELSE Closed

SetWork(w) == IF w.st = "inited" /\ ~w.closing THEN [w EXCEPT !.st = "work"] ELSE w

(* add_ref: only on an open channel that nobody is closing. *)
RefAllowed(w) == w.st \in {"inited", "work"} /\ ~w.closing

AddRef(w) == [w EXCEPT !.ref = @ + 1]

(* sub_ref: the last reference to a closing channel closes it, and only    *)
(* the caller that gave it up is told so.                                  *)
LastRef(w) == w.ref = 1 /\ w.closing

(* Mistake: the last reference is given up like the others. *)
BugSubRef(w) == IF w.ref > 0 THEN [w EXCEPT !.ref = @ - 1] ELSE w

SubRef(w) ==
    CASE LastRef(w) -> Closed
      [] ~LastRef(w) /\ w.ref > 0 -> [w EXCEPT !.ref = @ - 1]
      [] OTHER -> w

(* to_close: refused when the channel is closed or closing already.  One   *)
(* that nobody refers to is closed at once.                                *)
CloseAllowed(w) == w.st # "closed" /\ ~w.closing

ToClose(w) == IF w.ref > 0 THEN [w EXCEPT !.closing = TRUE] ELSE Closed
=============================================================================
