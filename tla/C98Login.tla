------------------------------ MODULE C98Login ------------------------------
(***************************************************************************)
(* Account login at the 98 counter, the first half of login(): counter98,  *)
(* its session table C98SessionCache, and multi_socket_engine, whose       *)
(* thread consumes the login events, sends the requests and handles the    *)
(* answers.  An account that 98 has accepted is handed over to the fast    *)
(* counter's engine (GwLogin!UserLogin), which tells the user the end.     *)
(*                                                                         *)
(* An answer lists accounts, and each is looked up and treated by itself:  *)
(* the counter may list the other accounts of a customer, and leave out    *)
(* the one that was asked for (the mock counter of this repository lists   *)
(* none when it refuses).  Which accounts it lists is free here.           *)
(*                                                                         *)
(* Left out: the gateway login that login() begins with (AgwLogin), which  *)
(* the link may outdate at any time, and the data of a session.            *)
(***************************************************************************)
EXTENDS LogState, Sequences, FiniteSets

CONSTANTS
    Accounts,   \* fund accounts
    QueueCap,   \* events the send queue holds (bound)
    MaxOut      \* requests without answer per account (bound)

ASSUME AccountsAssumption == IsFiniteSet(Accounts)
ASSUME QueueCapAssumption == QueueCap \in Nat \ {0}
ASSUME MaxOutAssumption == MaxOut \in Nat \ {0}

VARIABLES
    log,        \* login word of each account (C98SessionInfo.log_98)
    known,      \* accounts with a session in C98SessionCache
    queue,      \* accounts of the login events in the engine's send queue
    pc,         \* the engine: "poll"; "send": it has marked the login at the
                \* head of the queue; "recv": it handles the frames behind one
                \* that made it close the link
    link,       \* "free", "up", "closing", or "dead": broken, not noticed
    out,        \* requests on this connection that have no answer yet
    todo,       \* accounts of an answer still to be treated, each with its
                \* outcome
    owed,       \* the user has asked and has neither been told nor handed over
    accepted,   \* accounts that a success has listed so far
    leaked,     \* accounts handed over to the fast counter before that
    missed      \* accounts whose request was answered without listing them

vars == <<log, known, queue, pc, link, out, todo, owed, accepted, leaked, missed>>

(* What an answer may list. *)
Lists == {s \in UNION {[1 .. n -> Accounts] : n \in 0 .. Cardinality(Accounts)} :
             \A i, j \in DOMAIN s : s[i] = s[j] => i = j}

TypeOK ==
    /\ log \in [Accounts -> Word]
    /\ \A a \in Accounts : Legal(log[a]) /\ log[a].pend # "RELOGIN"
    /\ known \in SUBSET Accounts
    /\ \A a \in Accounts \ known : log[a] = Fresh
    /\ queue \in Seq(Accounts) /\ Len(queue) <= QueueCap
    /\ pc \in {"poll", "send", "recv"}
    /\ pc = "send" => queue # <<>>
    /\ link \in {"free", "up", "closing", "dead"}
    /\ out \in [Accounts -> 0 .. MaxOut]
    /\ todo \in Seq([acct : Accounts, ok : BOOLEAN])
    /\ owed \in [Accounts -> BOOLEAN]
    /\ accepted \in SUBSET Accounts /\ leaked \in SUBSET Accounts
    /\ missed \in SUBSET Accounts

NoRequests == [a \in Accounts |-> 0]

Init ==
    /\ log = [a \in Accounts |-> Fresh] /\ known = {}
    /\ queue = <<>> /\ pc = "poll"
    /\ link = "free" /\ out = NoRequests
    /\ todo = <<>>
    /\ owed = [a \in Accounts |-> FALSE]
    /\ accepted = {} /\ leaked = {} /\ missed = {}

-----------------------------------------------------------------------------
(* User threads.                                                           *)

(* deal_login_req puts a login event in the queue, or login() fails. *)
UserLogin(a) ==
    /\ Len(queue) < QueueCap
    /\ queue' = Append(queue, a)
    /\ owed' = [owed EXCEPT ![a] = TRUE]
    /\ UNCHANGED <<log, known, pc, link, out, todo, accepted, leaked, missed>>

(* deal_logout_req, once the fast counter has let the logout pass. *)
UserLogout(a) ==
    /\ a \in known
    /\ log' = [log EXCEPT ![a] = ToLogout(@)]
    /\ UNCHANGED <<known, queue, pc, link, out, todo, owed, accepted, leaked, missed>>

-----------------------------------------------------------------------------
(* The engine's events.                                                    *)

Idle == pc = "poll" /\ todo = <<>>

(* Link events, and gateway login events, which open a free link too, may  *)
(* be at the head of the queue at any time.  A link that is not free is    *)
(* left alone by them; a free one opens, or deal_link_connect fails and it *)
(* is closed again. *)
Opens ==
    /\ Idle /\ link = "free"
    /\ link' \in {"up", "closing"}
    /\ UNCHANGED <<log, known, queue, pc, out, todo, owed, accepted, leaked, missed>>

(* A close event, or a broken connection is noticed. *)
Closes ==
    /\ Idle /\ link \in {"up", "dead"}
    /\ link' = "closing"
    /\ UNCHANGED <<log, known, queue, pc, out, todo, owed, accepted, leaked, missed>>

(* delive_fast_counter_login of account a: the fast engine's queue has     *)
(* room, or not.  Whoever waits for a hears of it from now on. *)
HandOver(a, allowed) ==
    /\ leaked' = leaked \cup ({a} \ allowed)
    /\ owed' = [owed EXCEPT ![a] = FALSE]

Told(a) == owed' = [owed EXCEPT ![a] = FALSE]

acct == Head(queue)
AtLogin == Idle /\ queue # <<>>

(* deal_cust_login for an account that is logged in: straight to the fast  *)
(* counter; without room there, ans_cust_login tells a user even though no *)
(* mark says that he waits.                                                *)
LoginDone ==
    /\ AtLogin /\ UserLoginStep(log[acct]) = "done"
    /\ HandOver(acct, accepted) \/ (Told(acct) /\ UNCHANGED leaked)
    /\ queue' = Tail(queue)
    /\ UNCHANGED <<log, known, pc, link, out, todo, accepted, missed>>

LoginMerged ==
    /\ AtLogin /\ UserLoginStep(log[acct]) = "merge"
    /\ queue' = Tail(queue)
    /\ UNCHANGED <<log, known, pc, link, out, todo, owed, accepted, leaked, missed>>

(* A session is made if there is none, and the word marked. *)
LoginMark ==
    /\ AtLogin /\ UserLoginStep(log[acct]) = "send"
    /\ known' = known \cup {acct}
    /\ log' = [log EXCEPT ![acct] = UserLoginWord(@)]
    /\ pc' = "send"
    /\ UNCHANGED <<queue, link, out, todo, owed, accepted, leaked, missed>>

(* On a dead connection the message is lost. *)
LoginSent ==
    /\ pc = "send" /\ link \in {"up", "dead"} /\ out[acct] < MaxOut
    /\ out' = IF link = "up" THEN [out EXCEPT ![acct] = @ + 1] ELSE out
    /\ missed' = missed \ {acct}
    /\ queue' = Tail(queue) /\ pc' = "poll"
    /\ UNCHANGED <<log, known, link, todo, owed, accepted, leaked>>

(* Mistake: the user is told and the mark stays. *)
BugLoginSendFails ==
    /\ pc = "send"
    /\ Told(acct)
    /\ queue' = Tail(queue) /\ pc' = "poll"
    /\ UNCHANGED <<log, known, link, out, todo, accepted, leaked, missed>>

(* The message cannot be built or sent: ans_cust_login. *)
LoginSendFails ==
    /\ pc = "send"
    /\ log' = [log EXCEPT ![acct] = ClearPending(@)]
    /\ Told(acct)
    /\ queue' = Tail(queue) /\ pc' = "poll"
    /\ UNCHANGED <<known, link, out, todo, accepted, leaked, missed>>

-----------------------------------------------------------------------------
(* Answers, deal_cust_login_ans.                                           *)

Receiving == todo = <<>> /\ (pc = "recv" \/ (pc = "poll" /\ link = "up"))

(* The counter answers the request of account a and lists accounts s. *)
Answer(a, s, ok) ==
    /\ Receiving /\ out[a] > 0
    /\ out' = [out EXCEPT ![a] = @ - 1]
    /\ todo' = [i \in DOMAIN s |-> [acct |-> s[i], ok |-> ok]]
    /\ missed' = IF \E i \in DOMAIN s : s[i] = a THEN missed ELSE missed \cup {a}
    /\ UNCHANGED <<log, known, queue, pc, link, owed, accepted, leaked>>

Listed(a, ok) == todo # <<>> /\ Head(todo) = [acct |-> a, ok |-> ok] /\ todo' = Tail(todo)

AnswerUnknown ==
    /\ todo # <<>> /\ Head(todo).acct \notin known
    /\ todo' = Tail(todo)
    /\ accepted' = IF Head(todo).ok THEN accepted \cup {Head(todo).acct} ELSE accepted
    /\ UNCHANGED <<log, known, queue, pc, link, out, owed, leaked, missed>>

(* Mistake: a failed delivery is left to ans_cust_login, which finds no    *)
(* mark any more. *)
BugAnswerOk(a) ==
    /\ Listed(a, TRUE) /\ a \in known
    /\ log' = [log EXCEPT ![a] = AnsOk(@)]
    /\ accepted' = accepted \cup {a}
    /\ HandOver(a, accepted \cup {a}) \/ UNCHANGED <<leaked, owed>>
    /\ UNCHANGED <<known, queue, pc, link, out, missed>>

(* A success is handed over whatever the word says; only if that fails is  *)
(* a user who waits told here.                                             *)
AnswerOk(a) ==
    /\ Listed(a, TRUE) /\ a \in known
    /\ log' = [log EXCEPT ![a] = AnsOk(@)]
    /\ accepted' = accepted \cup {a}
    /\ \/ HandOver(a, accepted \cup {a})
       \/ AnsOkTells(log[a]) /\ Told(a) /\ UNCHANGED leaked
       \/ ~AnsOkTells(log[a]) /\ UNCHANGED <<leaked, owed>>
    /\ UNCHANGED <<known, queue, pc, link, out, missed>>

(* Mistake: whether the account is logged in is not looked at. *)
BugAnswerErr(a) ==
    /\ Listed(a, FALSE) /\ a \in known
    /\ log' = [log EXCEPT ![a] = AnsErr(@)]
    /\ IF AnsErrTells(log[a])
       THEN Told(a) /\ UNCHANGED leaked
       ELSE HandOver(a, accepted)
    /\ UNCHANGED <<known, queue, pc, link, out, accepted, missed>>

(* A refusal counts for a user who waits; an account that is logged in     *)
(* already is handed over once more.                                       *)
AnswerErr(a) ==
    /\ Listed(a, FALSE) /\ a \in known
    /\ log' = [log EXCEPT ![a] = AnsErr(@)]
    /\ \/ AnsErrTells(log[a]) /\ Told(a) /\ UNCHANGED leaked
       \/ ~AnsErrTells(log[a]) /\ Logined(log[a]) /\ HandOver(a, accepted)
       \/ ~AnsErrTells(log[a]) /\ UNCHANGED <<leaked, owed>>
    /\ UNCHANGED <<known, queue, pc, link, out, accepted, missed>>

-----------------------------------------------------------------------------
(* The end of a connection.                                                *)

(* A frame on which the engine closes the link (a failed gateway login,    *)
(* the counter's logout); those behind it are still handled. *)
ClosingFrame ==
    /\ Receiving
    /\ link' = "closing" /\ pc' = "recv"
    /\ UNCHANGED <<log, known, queue, out, todo, owed, accepted, leaked, missed>>

BufferEnds ==
    /\ pc = "recv" /\ todo = <<>>
    /\ pc' = "poll"
    /\ UNCHANGED <<log, known, queue, link, out, todo, owed, accepted, leaked, missed>>

Breaks ==
    /\ link = "up" /\ link' = "dead"
    /\ out' = NoRequests
    /\ UNCHANGED <<log, known, queue, pc, todo, owed, accepted, leaked, missed>>

(* Mistake: clear_all_pending is forgotten. *)
BugLinkClosed ==
    /\ Idle /\ link = "closing" /\ link' = "free"
    /\ out' = NoRequests
    /\ owed' = [a \in Accounts |-> owed[a] /\ log[a].pend = "no"]
    /\ UNCHANGED <<log, known, queue, pc, todo, accepted, leaked, missed>>

(* deal_recv_stop and deal_link_close: clear_all_pending, and the user     *)
(* learns that the link is down. *)
LinkClosed ==
    /\ Idle /\ link = "closing" /\ link' = "free"
    /\ out' = NoRequests /\ missed' = {}
    /\ log' = [a \in Accounts |-> ClearPending(log[a])]
    /\ owed' = [a \in Accounts |-> owed[a] /\ log[a].pend = "no"]
    /\ UNCHANGED <<known, queue, pc, todo, accepted, leaked>>

-----------------------------------------------------------------------------
TakeLogin == LoginDone \/ LoginMerged \/ LoginMark \/ LoginSent \/ LoginSendFails

Treat == AnswerUnknown \/ \E a \in Accounts : AnswerOk(a) \/ AnswerErr(a)

Answered(a) == \E s \in Lists, ok \in BOOLEAN : Answer(a, s, ok)

Next ==
    \/ \E a \in Accounts : UserLogin(a) \/ UserLogout(a) \/ Answered(a)
    \/ TakeLogin \/ Treat \/ BufferEnds
    \/ Opens \/ Closes \/ ClosingFrame \/ Breaks \/ LinkClosed

Spec == Init /\ [][Next]_vars

(* The engine treats what it has received and comes back to its queue and  *)
(* to the link, however often either interrupts it; the counter answers    *)
(* unless the link closes.                                                 *)
Fairness ==
    /\ WF_vars(Treat) /\ WF_vars(BufferEnds) /\ SF_vars(TakeLogin)
    /\ SF_vars(Closes /\ link = "dead") /\ SF_vars(LinkClosed)
    /\ \A a \in Accounts : SF_vars(Answered(a))

FairSpec == Spec /\ Fairness

-----------------------------------------------------------------------------
(* Properties.                                                             *)

(* A user who has asked and heard nothing is carried on: by an event in    *)
(* the queue or by the mark in his account's word.  No failed send, full   *)
(* queue or answer drops him without a word.                               *)
OwedIsCarried ==
    \A a \in Accounts : owed[a] =>
        log[a].pend = "USER" \/ \E i \in DOMAIN queue : queue[i] = a

(* A mark, on which later logins of the account wait, has something that   *)
(* will remove it: the engine about to send, a request without answer, an  *)
(* answer being treated, a connection that is ending.  Only a request that *)
(* was answered without its account leaves one behind, until the link      *)
(* closes.                                                                 *)
MarkIsBacked ==
    \A a \in Accounts : log[a].pend # "no" =>
        \/ pc = "send" /\ acct = a
        \/ link = "up" /\ out[a] > 0
        \/ \E i \in DOMAIN todo : todo[i].acct = a
        \/ link \in {"dead", "closing"}
        \/ a \in missed

(* The fast counter is asked to log in an account only after 98 has        *)
(* accepted it, whatever is refused, logged out or answered for another    *)
(* account in between (api_instance.cpp:425).                              *)
OnlyAccepted == leaked = {}

(* 98 keeps what AccountLogin promises, the mark being the user's waiting. *)
Promise == INSTANCE AccountLogin WITH
    st <- [a \in Accounts |-> log[a].st],
    waits <- [a \in Accounts |-> log[a].pend = "USER"]

KeepsPromise == Promise!Spec

(* Who has asked is told or handed over at last, unless the counter        *)
(* answered without his account. *)
LoginEnds == \A a \in Accounts : owed[a] ~> ~owed[a] \/ a \in missed
=============================================================================
