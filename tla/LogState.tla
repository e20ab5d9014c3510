------------------------------ MODULE LogState ------------------------------
(***************************************************************************)
(* The login word of one account in one counter (struct log_state_ctl,     *)
(* api_event_msg.h): a login state and an in-flight mark packed in one     *)
(* atomic integer.  Every method is a load / compare-and-swap loop, so it  *)
(* takes effect at its last load or at its successful swap; an operator    *)
(* below maps the word read there to the word left there.                  *)
(***************************************************************************)
EXTENDS Naturals

(* Login state: never logged in (or refused), logged out, logged in. *)
States == {"NONE", "LOGOUT", "OK"}

(* Who waits for the answer: nobody, the user, the automatic relogin. *)
Pendings == {"no", "USER", "RELOGIN"}

Word == [st : States, pend : Pendings]

W(s, p) == [st |-> s, pend |-> p]

Fresh == W("NONE", "no")

(* The words the comments of log_state_ctl allow: a user request is in     *)
(* flight only before the account is logged in, a relogin only while it is.*)
Legal(w) ==
    /\ w \in Word
    /\ w.pend = "USER" => w.st = "NONE"
    /\ w.pend = "RELOGIN" => w.st = "OK"

Logined(w) == w.st = "OK"

-----------------------------------------------------------------------------
(* to_logout: refused while a user login is in flight, otherwise a logged  *)
(* in account becomes LOGOUT and its relogin mark is wiped with it.        *)
LogoutRefused(w) == w.pend = "USER"

(* Mistake: only the state bits are replaced. *)
BugToLogoutKeepsMark(w) ==
    IF Logined(w) /\ ~LogoutRefused(w) THEN W("LOGOUT", w.pend) ELSE w

ToLogout(w) == IF Logined(w) /\ ~LogoutRefused(w) THEN W("LOGOUT", "no") ELSE w

(* to_login(is_user = 1): what the caller does next, and the word left.    *)
(* "done" is o_havelog = 1 (report success), "merge" waits for the answer  *)
(* already in flight, "send" sends a request to the counter.               *)
UserLoginStep(w) ==
    CASE Logined(w) -> "done"
      [] ~Logined(w) /\ w.pend # "no" -> "merge"
      [] OTHER -> "send"

(* Mistake: the state bits of a logout are kept. *)
BugUserLoginWord(w) == IF Logined(w) THEN w ELSE W(w.st, "USER")

UserLoginWord(w) == IF Logined(w) THEN w ELSE W("NONE", "USER")

(* to_login(is_user = 0): an internal relogin is sent only for an account  *)
(* that is logged in, whatever relogin is in flight already.               *)
(* Mistake: the state is not looked at. *)
BugReloginSentAlways(w) == w.pend # "USER"

ReloginSent(w) == Logined(w) /\ w.pend # "USER"

ReloginWord(w) == IF ReloginSent(w) THEN W(w.st, "RELOGIN") ELSE w

(* clear_pending: the mark goes, the state stays. *)
ClearPending(w) == W(w.st, "no")

(* ans_login_ok: a logged out account ignores the late success; otherwise  *)
(* the account is logged in, and the user is told if he waits for it.      *)
(* Mistake: a late success brings a logged out account back. *)
BugAnsOkAlways(w) == W("OK", "no")

AnsOk(w) == IF w.st = "LOGOUT" THEN w ELSE W("OK", "no")

(* Mistake: the flags are mixed up. *)
BugAnsOkTellsRelogin(w) == w.pend = "RELOGIN"

AnsOkTells(w) == w.pend = "USER" /\ ~Logined(w)

(* ans_login_err: a refusal counts only for a request in flight.  It takes *)
(* the login state away, a relogin's too, and the user is told.            *)
AnsErrTells(w) == w.st # "LOGOUT" /\ w.pend # "no"

(* Mistake: a late refusal takes the login away. *)
BugAnsErrLate(w) == IF w.st # "LOGOUT" THEN Fresh ELSE w

AnsErr(w) == IF AnsErrTells(w) THEN Fresh ELSE w
=============================================================================
