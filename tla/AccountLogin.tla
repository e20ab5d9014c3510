---------------------------- MODULE AccountLogin ----------------------------
(***************************************************************************)
(* What a counter promises its user about the login of his accounts        *)
(* (api_interface.h and api_callback.h, as far as the code keeps it): the  *)
(* user asks, waits, and hears success, failure or the loss of the link.   *)
(* Links, queues, requests and internal relogins do not appear.            *)
(***************************************************************************)
EXTENDS TLAPS

CONSTANT Accounts

VARIABLES
    st,     \* "NONE", "OK" or "LOGOUT"
    waits   \* the user's login was taken and he has not heard of it

vars == <<st, waits>>

Init ==
    /\ st = [a \in Accounts |-> "NONE"]
    /\ waits = [a \in Accounts |-> FALSE]

Asked(a) ==
    /\ st[a] # "OK"
    /\ st' = [st EXCEPT ![a] = "NONE"]
    /\ waits' = [waits EXCEPT ![a] = TRUE]

ToldOk(a) ==
    /\ waits[a]
    /\ st' = [st EXCEPT ![a] = "OK"]
    /\ waits' = [waits EXCEPT ![a] = FALSE]

ToldErr(a) ==
    /\ waits[a]
    /\ waits' = [waits EXCEPT ![a] = FALSE]
    /\ UNCHANGED st

(* An account the counter refuses to take back after a reconnection. *)
LoginWithdrawn(a) ==
    /\ st[a] = "OK"
    /\ st' = [st EXCEPT ![a] = "NONE"]
    /\ UNCHANGED waits

(* The success of an earlier request of the account comes after the user   *)
(* was told of the failure of another one: he is logged in and not told.   *)
LateOk(a) ==
    /\ st[a] = "NONE" /\ ~waits[a]
    /\ st' = [st EXCEPT ![a] = "OK"]
    /\ UNCHANGED waits

Logout(a) ==
    /\ st[a] = "OK" /\ ~waits[a]
    /\ st' = [st EXCEPT ![a] = "LOGOUT"]
    /\ UNCHANGED waits

(* on_link_status(0): nobody waits any longer, nobody is logged out. *)
LinkDown ==
    /\ waits' = [a \in Accounts |-> FALSE]
    /\ UNCHANGED st

Next ==
    \/ \E a \in Accounts :
        \/ Asked(a) \/ ToldOk(a) \/ ToldErr(a)
        \/ LoginWithdrawn(a) \/ LateOk(a) \/ Logout(a)
    \/ LinkDown

Spec == Init /\ [][Next]_vars

-----------------------------------------------------------------------------
TypeOK == st \in [Accounts -> {"NONE", "OK", "LOGOUT"}] /\ waits \in [Accounts -> BOOLEAN]

(* Nobody waits who is logged in or logged out. *)
WaitingIsOpen == \A a \in Accounts : waits[a] => st[a] = "NONE"

(* Only the user ends a logout. *)
LogoutLasts ==
    [][\A a \in Accounts :
        st[a] = "LOGOUT" /\ st'[a] # "LOGOUT" => st'[a] = "NONE" /\ waits'[a]]_vars

(* Who waits for the answer to his login is neither logged in nor logged   *)
(* out: what he will be told of is still open.                             *)
THEOREM WaitingStaysOpen == Spec => [](TypeOK /\ WaitingIsOpen)
<1>1. Init => TypeOK /\ WaitingIsOpen
  BY DEF Init, TypeOK, WaitingIsOpen
<1>2. TypeOK /\ WaitingIsOpen /\ [Next]_vars => (TypeOK /\ WaitingIsOpen)'
  BY DEF TypeOK, WaitingIsOpen, Next, Asked, ToldOk, ToldErr, LoginWithdrawn, LateOk, Logout, LinkDown, vars
<1> QED
  BY <1>1, <1>2, PTL DEF Spec

(* A logout lasts until the user asks again: no late answer, no relogin of *)
(* the counter's own and no loss of the link ends it, and it ends in       *)
(* waiting, not in being logged in.                                        *)
THEOREM LogoutStays == Spec => LogoutLasts
<1>1. TypeOK /\ WaitingIsOpen /\ [Next]_vars =>
        [\A a \in Accounts : st[a] = "LOGOUT" /\ st'[a] # "LOGOUT" => st'[a] = "NONE" /\ waits'[a]]_vars
  BY DEF TypeOK, WaitingIsOpen, Next, Asked, ToldOk, ToldErr, LoginWithdrawn, LateOk, Logout, LinkDown, vars
<1> QED
  BY <1>1, WaitingStaysOpen, PTL DEF Spec, LogoutLasts
=============================================================================
