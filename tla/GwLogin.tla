------------------------------ MODULE GwLogin -------------------------------
(***************************************************************************)
(* Account login on the direct counter link: gw_counter_direct, its        *)
(* account table GwLoginCache and the engine that owns the link            *)
(* (single_socket_engine, or tcpdirect_engine, whose code is the same).    *)
(*                                                                         *)
(* Threads.  The engine thread consumes the send queue, sends, receives    *)
(* and opens and closes the link.  User login events reach the queue from  *)
(* the 98 engine, link events from the timer, both without a lock; logout  *)
(* runs on a user thread and meets the engine only in the login words.     *)
(*                                                                         *)
(* One event is consumed in up to three steps (pc): open the link if it is *)
(* down ("poll"), mark the login in the account's word ("login"), send the *)
(* message ("send"); or, with no link, answer it ("refuse").  The event    *)
(* leaves the queue (read_cmt) at the end.                                 *)
(***************************************************************************)
EXTENDS LogState, Sequences, FiniteSets

CONSTANTS
    Accounts,       \* fund accounts
    QueueCap,       \* events the send queue holds (bound)
    OneCust,        \* configured for a single customer (need_multi_cust = 0)
    CloseNotifies   \* the link reports its close to the counter: TRUE for
                    \* tcpdir_link (deal_ch_closing calls deal_link_close),
                    \* FALSE for aio_socket_link driven by this engine, which
                    \* connects with no receive thread (recv_th = NULL), so
                    \* that deal_recv_stop never comes

ASSUME AccountsAssumption == IsFiniteSet(Accounts)
ASSUME QueueCapAssumption == QueueCap \in Nat \ {0}
ASSUME OneCustAssumption == OneCust \in BOOLEAN
ASSUME CloseNotifiesAssumption == CloseNotifies \in BOOLEAN

VARIABLES
    log,    \* login word of each account (GwLoginInfo.log_gw)
    known,  \* accounts with an entry in GwLoginCache
    queue,  \* the engine's send queue
    pc,     \* where the engine is inside the event at the head of the queue
    link,   \* "free", "up", or "dead": broken, and the engine does not know
    flag,   \* trade_link_connect_
    out,    \* login requests on this connection that have no answer yet
    tried,  \* accounts whose login was handed to send on this connection
    owed    \* "yes": the user's login was taken and he has not heard of it;
            \* "lost": it was thrown away without a word; "no" otherwise

vars == <<log, known, queue, pc, link, flag, out, tried, owed>>

LoginEvent == [kind : {"user", "relogin"}, acct : Accounts]
LinkEvent == [kind : {"connect", "close"}]
Event == LoginEvent \cup LinkEvent

User(a) == [kind |-> "user", acct |-> a]
Relogin(a) == [kind |-> "relogin", acct |-> a]

TypeOK ==
    /\ log \in [Accounts -> Word]
    /\ known \in SUBSET Accounts
    /\ queue \in Seq(Event)
    /\ Len(queue) <= QueueCap
    /\ pc \in {"poll", "login", "send", "refuse"}
    /\ pc # "poll" => queue # <<>> /\ Head(queue) \in LoginEvent
    /\ link \in {"free", "up", "dead"}
    /\ flag \in {0, 1}
    /\ out \in [Accounts -> Nat]
    /\ tried \in SUBSET Accounts
    /\ owed \in [Accounts -> {"no", "yes", "lost"}]

Init ==
    /\ log = [a \in Accounts |-> Fresh]
    /\ known = {}
    /\ queue = <<>>
    /\ pc = "poll"
    /\ link = "free"
    /\ flag = 0
    /\ out = [a \in Accounts |-> 0]
    /\ tried = {}
    /\ owed = [a \in Accounts |-> "no"]

-----------------------------------------------------------------------------
(* on_login for account a, as the user sees it. *)
Heard(a) == [owed EXCEPT ![a] = "no"]

-----------------------------------------------------------------------------
(* Producers.                                                              *)

(* counter98 delivers a user login to the queue, when it has room. *)
UserLogin(a) ==
    /\ Len(queue) < QueueCap
    /\ queue' = Append(queue, User(a))
    /\ UNCHANGED <<log, known, pc, link, flag, out, tried, owed>>

(* deal_logout_req: local, no message; an account without entry, one that  *)
(* is not logged in and one with a user login in flight keep their word.   *)
UserLogout(a) ==
    /\ a \in known
    /\ log' = [log EXCEPT ![a] = ToLogout(@)]
    /\ UNCHANGED <<known, queue, pc, link, flag, out, tried, owed>>

(* The link timer: a heartbeat timeout asks for a close, a link that is    *)
(* down for a connect.  The engine may find the link in another state.     *)
Timer ==
    /\ Len(queue) < QueueCap
    /\ queue' = Append(queue,
                       [kind |-> IF link = "free" THEN "connect" ELSE "close"])
    /\ UNCHANGED <<log, known, pc, link, flag, out, tried, owed>>

-----------------------------------------------------------------------------
(* The link.                                                               *)

(* Mistake: accounts with a request in flight are left out. *)
BugRelogsIdle == {a \in known : Logined(log[a]) /\ log[a].pend = "no"}

(* The relogin events of the accounts that are logged in, in the order in  *)
(* which the table yields them. *)
Relogs == {a \in known : Logined(log[a])}

ReloginOrders ==
    {s \in [1 .. Cardinality(Relogs) -> {Relogin(a) : a \in Relogs}] :
        \A a \in Relogs : \E i \in DOMAIN s : s[i] = Relogin(a)}

(* Mistake: the marks go, and the user is not told. *)
BugCounterClosedSilent ==
    /\ flag' = 0
    /\ log' = [a \in Accounts |-> ClearPending(log[a])]
    /\ UNCHANGED owed

(* Mistake: clear_all_pending is forgotten. *)
BugCounterClosedKeepsMarks == flag' = 0 /\ UNCHANGED <<log, owed>>

(* deal_link_close of the counter, where the link calls it: the words keep *)
(* their state and lose their marks, the user learns the link is down.     *)
CounterClosed ==
    IF CloseNotifies
    THEN /\ flag' = 0
         /\ log' = [a \in Accounts |-> ClearPending(log[a])]
         /\ owed' = [a \in Accounts |-> IF owed[a] = "yes" THEN "no" ELSE owed[a]]
    ELSE UNCHANGED <<flag, log, owed>>

LinkCloses ==
    /\ link' = "free"
    /\ out' = [a \in Accounts |-> 0]
    /\ tried' = {}
    /\ CounterClosed

(* Mistake: relogin events are put in the queue without looking for room. *)
BugLinkOpensNoRoom(q) ==
    /\ \E s \in ReloginOrders : queue' = q \o s
    /\ link' = "up"
    /\ flag' = 1
    /\ out' = [a \in Accounts |-> 0]
    /\ tried' = {}

(* connect and deal_link_connect succeed; q is the queue without the       *)
(* events just delivered.  The event being consumed still holds its place. *)
LinkOpens(q) ==
    /\ \E s \in ReloginOrders :
        /\ Len(queue) + Cardinality(Relogs) <= QueueCap
        /\ queue' = q \o s
    /\ link' = "up"
    /\ flag' = 1
    /\ out' = [a \in Accounts |-> 0]
    /\ tried' = {}

(* Mistake: the failure of deal_link_connect is ignored. *)
BugLinkOpensQueueFullStays(q) ==
    /\ \E s \in ReloginOrders :
        /\ Len(queue) + Cardinality(Relogs) > QueueCap
        /\ queue' = q \o SubSeq(s, 1, QueueCap - Len(queue))
    /\ link' = "up"
    /\ out' = [a \in Accounts |-> 0]
    /\ tried' = {}
    /\ flag' = 1 /\ UNCHANGED <<log, owed>>

(* The relogin events do not fit: deal_link_connect fails and the link is  *)
(* closed again, with the events that did fit left in the queue.  Without  *)
(* a close notice the flag set by deal_link_connect stays.                 *)
LinkOpensQueueFull(q) ==
    /\ \E s \in ReloginOrders :
        /\ Len(queue) + Cardinality(Relogs) > QueueCap
        /\ queue' = q \o SubSeq(s, 1, QueueCap - Len(queue))
    /\ link' = "free"
    /\ out' = [a \in Accounts |-> 0]
    /\ tried' = {}
    /\ IF CloseNotifies
       THEN CounterClosed
       ELSE flag' = 1 /\ UNCHANGED <<log, owed>>

-----------------------------------------------------------------------------
(* The engine: link events.                                                *)

AtHead(kinds) == pc = "poll" /\ queue # <<>> /\ Head(queue).kind \in kinds

CloseEvent ==
    /\ AtHead({"close"})
    /\ queue' = Tail(queue)
    /\ IF link = "free"
       THEN UNCHANGED <<log, link, flag, out, tried, owed>>
       ELSE LinkCloses
    /\ UNCHANGED <<known, pc>>

(* A connect event that meets an open link does nothing, one that meets a  *)
(* closed link opens it or fails. *)
ConnectEventIdle ==
    /\ AtHead({"connect"})
    /\ queue' = Tail(queue)
    /\ UNCHANGED <<log, known, pc, link, flag, out, tried, owed>>

ConnectEventOpens ==
    /\ AtHead({"connect"}) /\ link = "free"
    /\ LinkOpens(Tail(queue))
    /\ UNCHANGED <<log, known, pc, owed>>

ConnectEventQueueFull ==
    /\ AtHead({"connect"}) /\ link = "free"
    /\ LinkOpensQueueFull(Tail(queue))
    /\ UNCHANGED <<known, pc>>

-----------------------------------------------------------------------------
(* The engine: a login event, deal_cust_login of engine and counter.       *)

acct == Head(queue).acct
byUser == Head(queue).kind = "user"

LoginLinkReady ==
    /\ AtHead({"user", "relogin"}) /\ link # "free"
    /\ pc' = "login"
    /\ UNCHANGED <<log, known, queue, link, flag, out, tried, owed>>

LoginOpensLink ==
    /\ AtHead({"user", "relogin"}) /\ link = "free"
    /\ LinkOpens(queue)
    /\ pc' = "login"
    /\ UNCHANGED <<log, known, owed>>

LoginLinkFails ==
    /\ AtHead({"user", "relogin"}) /\ link = "free"
    /\ pc' = "refuse"
    /\ UNCHANGED <<log, known, queue, link, flag, out, tried, owed>>

LoginOpensQueueFull ==
    /\ AtHead({"user", "relogin"}) /\ link = "free"
    /\ LinkOpensQueueFull(queue)
    /\ pc' = "refuse"
    /\ UNCHANGED known

(* The event is done with. *)
Consumed ==
    /\ queue' = Tail(queue)
    /\ pc' = "poll"

(* Mistake: the mark is left in the word. *)
BugAnsCustLoginKeepsMark ==
    /\ owed' = IF byUser THEN [owed EXCEPT ![acct] = "yes"] ELSE owed
    /\ UNCHANGED log

(* ans_cust_login: the account loses its mark, and the user is told only   *)
(* if there was one. *)
AnsCustLogin ==
    IF acct \in known /\ log[acct].pend # "no"
    THEN /\ log' = [log EXCEPT ![acct] = ClearPending(@)]
         /\ owed' = Heard(acct)
    ELSE /\ owed' = IF byUser THEN [owed EXCEPT ![acct] = "lost"] ELSE owed
         /\ UNCHANGED log

(* The link could not be opened.  This login has set no mark yet. *)
LoginRefused ==
    /\ pc = "refuse"
    /\ AnsCustLogin
    /\ Consumed
    /\ UNCHANGED <<known, link, flag, out, tried>>

(* Mistake: the entry is given away once its account has logged out. *)
BugBoundWhileLogined ==
    OneCust /\ acct \notin known /\ \E a \in known : Logined(log[a])

(* prepare_login in single customer mode: the entry stays bound to the     *)
(* first account, another account is told of the failure at once. *)
BoundToOther == OneCust /\ known # {} /\ acct \notin known

LoginOtherAccount ==
    /\ pc = "login" /\ BoundToOther
    /\ owed' = Heard(acct)
    /\ Consumed
    /\ UNCHANGED <<log, known, link, flag, out, tried>>

(* A user login: report success at once, join the request in flight, or    *)
(* mark the word and go on to send. *)
LoginMark ==
    /\ pc = "login" /\ byUser /\ ~BoundToOther
    /\ known' = known \cup {acct}
    /\ log' = [log EXCEPT ![acct] = UserLoginWord(@)]
    /\ LET next == UserLoginStep(log[acct]) IN
        /\ owed' = IF next = "done" THEN Heard(acct)
                   ELSE [owed EXCEPT ![acct] = "yes"]
        /\ IF next = "send"
           THEN pc' = "send" /\ UNCHANGED queue
           ELSE Consumed
    /\ UNCHANGED <<link, flag, out, tried>>

ReloginMark ==
    /\ pc = "login" /\ ~byUser /\ ~BoundToOther
    /\ known' = known \cup {acct}
    /\ log' = [log EXCEPT ![acct] = ReloginWord(@)]
    /\ IF ReloginSent(log[acct])
       THEN pc' = "send" /\ UNCHANGED queue
       ELSE Consumed
    /\ UNCHANGED <<link, flag, out, tried, owed>>

(* send accepts the message; on a dead connection it is lost. *)
LoginSent ==
    /\ pc = "send"
    /\ out' = IF link = "up" THEN [out EXCEPT ![acct] = @ + 1] ELSE out
    /\ tried' = tried \cup {acct}
    /\ Consumed
    /\ UNCHANGED <<log, known, link, flag, owed>>

(* send fails: the connection is dead, or its buffer stays full. *)
LoginSendFails ==
    /\ pc = "send"
    /\ tried' = tried \cup {acct}
    /\ AnsCustLogin
    /\ Consumed
    /\ UNCHANGED <<known, link, flag, out>>

-----------------------------------------------------------------------------
(* The counter's side and the engine's receive (deal_log_ans).             *)

AnswerOk(a) ==
    /\ pc = "poll" /\ link = "up" /\ out[a] > 0
    /\ out' = [out EXCEPT ![a] = @ - 1]
    /\ log' = [log EXCEPT ![a] = AnsOk(@)]
    /\ owed' = IF AnsOkTells(log[a]) THEN Heard(a) ELSE owed
    /\ UNCHANGED <<known, queue, pc, link, flag, tried>>

AnswerErr(a) ==
    /\ pc = "poll" /\ link = "up" /\ out[a] > 0
    /\ out' = [out EXCEPT ![a] = @ - 1]
    /\ log' = [log EXCEPT ![a] = AnsErr(@)]
    /\ owed' = IF AnsErrTells(log[a]) THEN Heard(a) ELSE owed
    /\ UNCHANGED <<known, queue, pc, link, flag, tried>>

(* The connection breaks; what was under way on it is lost. *)
Breaks ==
    /\ link = "up"
    /\ link' = "dead"
    /\ out' = [a \in Accounts |-> 0]
    /\ UNCHANGED <<log, known, queue, pc, flag, tried, owed>>

(* The engine's receive meets the end of the connection and closes it. *)
BreakSeen ==
    /\ pc = "poll" /\ link = "dead"
    /\ LinkCloses
    /\ UNCHANGED <<known, queue, pc>>

-----------------------------------------------------------------------------
Engine ==
    \/ CloseEvent
    \/ ConnectEventIdle
    \/ ConnectEventOpens
    \/ ConnectEventQueueFull
    \/ LoginLinkReady
    \/ LoginOpensLink
    \/ LoginLinkFails
    \/ LoginOpensQueueFull
    \/ LoginRefused
    \/ LoginOtherAccount
    \/ LoginMark
    \/ ReloginMark
    \/ LoginSent
    \/ LoginSendFails

Answer(a) == AnswerOk(a) \/ AnswerErr(a)

Next ==
    \/ \E a \in Accounts : UserLogin(a) \/ UserLogout(a) \/ Answer(a)
    \/ Timer
    \/ Engine
    \/ Breaks
    \/ BreakSeen

Spec == Init /\ [][Next]_vars

(* do_work, called without end, takes a bounded number of events and then  *)
(* receives: neither the queue nor the link can keep it from the other.    *)
(* The counter answers a request unless the connection breaks.             *)
Fairness ==
    /\ WF_vars(Engine)
    /\ SF_vars(BreakSeen)
    /\ \A a \in Accounts : SF_vars(Answer(a))

FairSpec == Spec /\ Fairness

-----------------------------------------------------------------------------
(* Properties.                                                             *)

(* The words stay legal: a relogin mark only on a logged in account, a user *)
(* mark only on one that is not (the branch of to_login that the source     *)
(* calls unreachable is).                                                   *)
LegalWords == \A a \in Accounts : Legal(log[a])

(* A user who waits for on_login is marked as waiting: no sequence of       *)
(* answers, closes, logouts and failures wipes the mark without a word.     *)
OwedIsMarked == \A a \in Accounts : owed[a] = "yes" => log[a].pend = "USER"

(* Every mark has something that will remove it: a request without answer   *)
(* on this connection, a broken connection still to be noticed, or the      *)
(* engine about to send.  A mark without one blocks the account for good.   *)
MarkIsBacked ==
    \A a \in Accounts : log[a].pend # "no" =>
        \/ link = "up" /\ out[a] > 0
        \/ link = "dead"
        \/ pc = "send" /\ acct = a

(* deal_link_close says it: a closed link leaves no mark behind, or later  *)
(* logins would be merged into a request that is gone.                     *)
CloseClearsMarks == link = "free" => \A a \in Accounts : log[a].pend = "no"

(* Nor is the link's flag left up: orders are refused while it is closed.   *)
CloseCleansUp == CloseClearsMarks /\ (link = "free" => flag = 0)

(* An account that is logged in was presented to the counter on this        *)
(* connection, or its relogin still waits in the queue: a reconnection      *)
(* forgets nobody.                                                          *)
ReloginCovers ==
    link = "up" =>
        \A a \in Accounts : Logined(log[a]) =>
            a \in tried \/ \E i \in DOMAIN queue : queue[i] = Relogin(a)

(* Single customer mode keeps one entry, and an account without entry has  *)
(* neither login nor mark. *)
OneAccountBound ==
    /\ OneCust => \A a, b \in known : a = b
    /\ \A a \in Accounts \ known : log[a] = Fresh

(* to_login: one request per account is under way at a time. *)
OneInFlight == \A a \in Accounts : out[a] <= 1

(* api_interface.h: any step of login that fails is told by on_login. *)
NoLoginLost == \A a \in Accounts : owed[a] # "lost"

(* Login state moves: a login is taken away only by the refusal of a       *)
(* relogin on the open link, never by the link; and what was logged out    *)
(* stays so, whatever answers come late, until the user logs in again.     *)
LoginStateMoves ==
    [][\A a \in Accounts :
        /\ log[a].st = "OK" /\ log'[a].st = "NONE" =>
               log[a].pend = "RELOGIN" /\ out'[a] < out[a] /\ link' = "up"
        /\ log[a].st = "LOGOUT" /\ log'[a].st # "LOGOUT" => log'[a] = W("NONE", "USER")
      ]_vars

(* The counter keeps what AccountLogin promises the user. *)
Promise == INSTANCE AccountLogin WITH
    st <- [a \in Accounts |-> log[a].st],
    waits <- [a \in Accounts |-> owed[a] = "yes"]

KeepsPromise == Promise!Spec

(* A user login that was taken is answered, or the user learns that the    *)
(* link is down. *)
LoginHeard == \A a \in Accounts : owed[a] = "yes" ~> owed[a] # "yes"
=============================================================================
