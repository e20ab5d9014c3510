------------------------------ MODULE AgwLogin ------------------------------
(***************************************************************************)
(* The gateway user's login at the 98 counter: agw_login_state of          *)
(* counter98, claimed by compare-and-swap by every user thread that calls  *)
(* login and by the engine when the link comes back; and the 98 link of    *)
(* multi_socket_engine.                                                    *)
(*                                                                         *)
(* Threads.  User threads run deal_agw_login: claim, deliver the event,    *)
(* wait for the state to change.  The engine thread consumes the events,   *)
(* opens and closes the link and receives.  The timer queues link events.  *)
(* The error code that explains a failure is left out; it decides nothing. *)
(***************************************************************************)
EXTENDS Naturals, Sequences, FiniteSets

CONSTANTS
    Users,      \* user threads that call login
    QueueCap,   \* events the send queue holds (bound)
    MaxOut,     \* unanswered login requests on a connection (bound)
    Sync        \* report sync is configured: a login answer queues a message

ASSUME QueueCapAssumption == QueueCap \in Nat \ {0}
ASSUME MaxOutAssumption == MaxOut \in Nat \ {0}
ASSUME SyncAssumption == Sync \in BOOLEAN

VARIABLES
    agw,     \* agw_login_state: 0 not logged in, 1 in flight, 2 logged in
    okOnce,  \* have_agw_ok_: a login has succeeded before
    flag,    \* trade_link_connect_
    link,    \* "free", "up", "dead" (broken, not noticed yet), "closing"
             \* (close_ch was called, deal_recv_stop still to come)
    out,     \* login requests on this connection that have no answer yet
    session, \* 1: the counter has accepted a login on this connection
    queue,   \* the engine's send queue
    pc,      \* where the engine is inside the event at the head of the queue
    upc      \* where each user is inside deal_agw_login

vars == <<agw, okOnce, flag, link, out, session, queue, pc, upc>>
linkVars == <<flag, link, out, session>>

Event == {"agw", "connect", "close", "msg"}

TypeOK ==
    /\ agw \in 0 .. 2
    /\ okOnce \in {0, 1}
    /\ flag \in {0, 1}
    /\ link \in {"free", "up", "dead", "closing"}
    /\ out \in Nat
    /\ session \in {0, 1}
    /\ queue \in Seq(Event) /\ Len(queue) <= QueueCap
    /\ pc \in {"poll", "recv", "send", "relogin", "full"}
    /\ upc \in [Users -> {"idle", "want", "check", "deliver", "full", "wait"}]

Init ==
    /\ agw = 0 /\ okOnce = 0
    /\ flag = 0 /\ link = "free" /\ out = 0 /\ session = 0
    /\ queue = <<>> /\ pc = "poll"
    /\ upc = [u \in Users |-> "idle"]

HasRoom == Len(queue) < QueueCap

-----------------------------------------------------------------------------
(* deal_agw_login on a user thread.                                        *)

At(u, from, to) == upc[u] = from /\ upc' = [upc EXCEPT ![u] = to]

LoginCall(u) ==
    /\ At(u, "idle", "want")
    /\ UNCHANGED <<agw, okOnce, linkVars, queue, pc>>

Claim(u) ==
    /\ At(u, "want", "check")
    /\ agw = 0
    /\ agw' = 1
    /\ UNCHANGED <<okOnce, linkVars, queue, pc>>

(* Logged in already, or tired of waiting for another's request. *)
NoClaim(u) ==
    /\ At(u, "want", "idle")
    /\ agw # 0
    /\ UNCHANGED <<agw, okOnce, linkVars, queue, pc>>

(* delive_agw_login_event: an answer to an earlier request may have come. *)
Check(u) ==
    /\ At(u, "check", IF agw = 2 THEN "wait" ELSE "deliver")
    /\ UNCHANGED <<agw, okOnce, linkVars, queue, pc>>

(* Mistake: the ring takes whatever it is given. *)
BugDeliver(u) ==
    /\ At(u, "deliver", "wait")
    /\ queue' = Append(queue, "agw")
    /\ UNCHANGED <<agw, okOnce, linkVars, pc>>

Deliver(u) ==
    /\ HasRoom
    /\ At(u, "deliver", "wait")
    /\ queue' = Append(queue, "agw")
    /\ UNCHANGED <<agw, okOnce, linkVars, pc>>

(* Mistake: the claim is kept when its event found no room. *)
BugDeliverFull(u) ==
    /\ ~HasRoom
    /\ At(u, "deliver", "idle")
    /\ UNCHANGED <<agw, okOnce, linkVars, queue, pc>>

DeliverFull(u) ==
    /\ ~HasRoom
    /\ At(u, "deliver", "full")
    /\ UNCHANGED <<agw, okOnce, linkVars, queue, pc>>

(* The state is stored, not compared: it may have moved on. *)
GiveUp(u) ==
    /\ At(u, "full", "idle")
    /\ agw' = 0
    /\ UNCHANGED <<okOnce, linkVars, queue, pc>>

(* Success and failure are both seen in the state; a timeout takes the     *)
(* claim away, whoever holds it by now. *)
WaitEnds(u) ==
    /\ At(u, "wait", "idle")
    /\ agw' = IF agw = 1 THEN 0 ELSE agw
    /\ UNCHANGED <<okOnce, linkVars, queue, pc>>

UserStep(u) ==
    \/ LoginCall(u)
    \/ Claim(u)
    \/ NoClaim(u)
    \/ Check(u)
    \/ Deliver(u)
    \/ DeliverFull(u)
    \/ GiveUp(u)
    \/ WaitEnds(u)

(* The link timer asks for a close (heartbeat timeout) or a connect. *)
Timer ==
    /\ HasRoom
    /\ \/ link \in {"up", "dead"} /\ queue' = Append(queue, "close")
       \/ link = "free" /\ queue' = Append(queue, "connect")
    /\ UNCHANGED <<agw, okOnce, linkVars, pc, upc>>

-----------------------------------------------------------------------------
(* The engine: opening the link, for a connect event or a login event.     *)

AtHead(kinds) == pc = "poll" /\ queue # <<>> /\ Head(queue) \in kinds

Consumed == queue' = Tail(queue) /\ pc' = "poll"

(* close_ch: nothing happens to a link that is closing or free. *)
Closing == IF link = "free" THEN "free" ELSE "closing"

(* The link is open: a connect event is done, a login event goes on. *)
Opened(q) ==
    IF Head(queue) = "connect"
    THEN queue' = Tail(q) /\ pc' = "poll"
    ELSE queue' = q /\ pc' = "send"

Connected == link' = "up" /\ flag' = 1 /\ out' = 0 /\ session' = 0

(* deal_link_connect after an earlier success: claim the state. *)
OpenClaims ==
    /\ AtHead({"connect", "agw"}) /\ link = "free"
    /\ Connected
    /\ okOnce = 1 /\ agw = 0
    /\ agw' = 1
    /\ pc' = "relogin"
    /\ UNCHANGED <<okOnce, queue, upc>>

(* First connection, or the claim is another's. *)
Opens ==
    /\ AtHead({"connect", "agw"}) /\ link = "free"
    /\ Connected
    /\ okOnce = 0 \/ agw # 0
    /\ Opened(queue)
    /\ UNCHANGED <<agw, okOnce, upc>>

(* delive_agw_login_event on the engine thread. *)
Relogin ==
    /\ pc = "relogin"
    /\ IF agw = 2
       THEN Opened(queue)
       ELSE HasRoom /\ Opened(Append(queue, "agw"))
    /\ UNCHANGED <<agw, okOnce, linkVars, upc>>

(* No room: the claim is dropped, the link closed, and a login event that  *)
(* opened it fails with it (error_agwuser_login, which finds a claim only  *)
(* if a user made one in the meantime). *)
ReloginFull ==
    /\ pc = "relogin" /\ agw # 2 /\ ~HasRoom
    /\ agw' = 0
    /\ link' = "closing"
    /\ IF Head(queue) = "connect"
       THEN Consumed
       ELSE pc' = "full" /\ UNCHANGED queue
    /\ UNCHANGED <<okOnce, flag, out, session, upc>>

(* Mistake: a claim that failed is not given back. *)
BugErrorAgwuser == UNCHANGED <<agw, link>>

(* error_agwuser_login: only a login in flight fails, and the link with it.*)
ErrorAgwuser ==
    IF agw = 1
    THEN agw' = 0 /\ link' = Closing
    ELSE UNCHANGED <<agw, link>>

OpenFailed ==
    /\ pc = "full"
    /\ ErrorAgwuser
    /\ Consumed
    /\ UNCHANGED <<okOnce, flag, out, session, upc>>

ConnectFails ==
    /\ AtHead({"connect", "agw"}) /\ link = "free"
    /\ IF Head(queue) = "agw" THEN ErrorAgwuser ELSE UNCHANGED <<agw, link>>
    /\ Consumed
    /\ UNCHANGED <<okOnce, flag, out, session, upc>>

ConnectIdle ==
    /\ AtHead({"connect"}) /\ link # "free"
    /\ Consumed
    /\ UNCHANGED <<agw, okOnce, linkVars, upc>>

-----------------------------------------------------------------------------
(* The engine: the other events.                                           *)

CloseEvent ==
    /\ AtHead({"close"})
    /\ link' = Closing
    /\ Consumed
    /\ UNCHANGED <<agw, okOnce, flag, out, session, upc>>

(* Any other message; the failure of its send does not touch the login. *)
MsgEvent ==
    /\ AtHead({"msg"})
    /\ Consumed
    /\ UNCHANGED <<agw, okOnce, linkVars, upc>>

(* The login request is handed to send: from an open link, at once. *)
Sending == pc = "send" \/ (AtHead({"agw"}) /\ link # "free")

(* What a dead connection accepts is lost. *)
LoginSent ==
    /\ Sending /\ link \in {"up", "dead"} /\ out < MaxOut
    /\ out' = IF link = "up" THEN out + 1 ELSE out
    /\ Consumed
    /\ UNCHANGED <<agw, okOnce, flag, link, session, upc>>

(* A closing link refuses, any other may. *)
LoginSendFails ==
    /\ Sending
    /\ ErrorAgwuser
    /\ Consumed
    /\ UNCHANGED <<okOnce, flag, out, session, upc>>

-----------------------------------------------------------------------------
(* Receiving and closing.  The frames behind one that closes the link are  *)
(* in the same buffer and still handled ("recv"), the rest is not read.    *)

Receiving == pc = "recv" \/ (pc = "poll" /\ link = "up")

(* The counter accepts: any time, asked for by whomever. *)
AnswerOk ==
    /\ Receiving /\ out > 0
    /\ Sync => HasRoom
    /\ queue' = IF Sync THEN Append(queue, "msg") ELSE queue
    /\ out' = out - 1
    /\ session' = 1
    /\ agw' = 2 /\ okOnce' = 1
    /\ UNCHANGED <<flag, link, pc, upc>>

(* No room for the sync message: the login fails and the link is closed. *)
AnswerSyncFails ==
    /\ Receiving /\ out > 0
    /\ Sync /\ ~HasRoom
    /\ out' = out - 1
    /\ agw' = IF agw = 1 THEN 0 ELSE agw
    /\ link' = "closing" /\ pc' = "recv"
    /\ UNCHANGED <<okOnce, flag, session, queue, upc>>

(* The counter ends the session. *)
PeerLogout ==
    /\ Receiving
    /\ agw' = 0
    /\ link' = "closing" /\ pc' = "recv"
    /\ UNCHANGED <<okOnce, flag, out, session, queue, upc>>

BufferEnds ==
    /\ pc = "recv"
    /\ pc' = "poll"
    /\ UNCHANGED <<agw, okOnce, linkVars, queue, upc>>

Breaks ==
    /\ link = "up"
    /\ link' = "dead" /\ out' = 0
    /\ UNCHANGED <<agw, okOnce, flag, session, queue, pc, upc>>

BreakSeen ==
    /\ pc = "poll" /\ link = "dead"
    /\ link' = "closing"
    /\ UNCHANGED <<agw, okOnce, flag, out, session, queue, pc, upc>>

(* Mistake: a session is left as it is. *)
BugLinkClosedKeepsSession ==
    /\ pc = "poll" /\ link = "closing"
    /\ link' = "free" /\ flag' = 0 /\ out' = 0 /\ session' = 0
    /\ agw' = IF agw = 1 THEN 0 ELSE agw
    /\ UNCHANGED <<okOnce, queue, pc, upc>>

(* deal_recv_stop and deal_link_close. *)
LinkClosed ==
    /\ pc = "poll" /\ link = "closing"
    /\ link' = "free" /\ flag' = 0 /\ out' = 0 /\ session' = 0
    /\ agw' = 0
    /\ UNCHANGED <<okOnce, queue, pc, upc>>

-----------------------------------------------------------------------------
Engine ==
    \/ OpenClaims
    \/ Opens
    \/ Relogin
    \/ ReloginFull
    \/ OpenFailed
    \/ ConnectFails
    \/ ConnectIdle
    \/ CloseEvent
    \/ MsgEvent
    \/ LoginSent
    \/ LoginSendFails
    \/ BufferEnds

Answer == AnswerOk \/ AnswerSyncFails

Next ==
    \/ \E u \in Users : UserStep(u)
    \/ Timer
    \/ Engine
    \/ Answer
    \/ PeerLogout
    \/ Breaks
    \/ BreakSeen
    \/ LinkClosed

Spec == Init /\ [][Next]_vars

(* The engine thread goes round its events and its receive; the counter    *)
(* answers a login request unless the connection ends; a user thread does  *)
(* not stop half way through a claim, but may wait for ever.               *)
Claiming(u) == Check(u) \/ Deliver(u) \/ DeliverFull(u) \/ GiveUp(u)

Fairness ==
    /\ WF_vars(Engine)
    /\ \A u \in Users : WF_vars(Claiming(u))
    /\ SF_vars(Answer)
    /\ SF_vars(BreakSeen)
    /\ SF_vars(LinkClosed)

FairSpec == Spec /\ Fairness

-----------------------------------------------------------------------------
(* Properties.                                                             *)

(* Orders are let through on agw = 2 alone: then the link is not closed,    *)
(* and the counter has accepted a login on this very connection, whatever   *)
(* late answers, timeouts and reconnections came before.                    *)
SessionIsLive == agw = 2 => session = 1 /\ flag = 1 /\ link # "free"

(* A state in flight is no orphan: some thread is about to deliver its      *)
(* event, the event is queued, the request is unanswered, or the link is    *)
(* about to close and reset it.  A caller that waits is not enough.         *)
Requested ==
    \/ \E i \in DOMAIN queue : queue[i] = "agw"
    \/ link = "up" /\ out > 0

ClaimIsBacked ==
    agw = 1 =>
        \/ Requested
        \/ link \in {"dead", "closing"}
        \/ pc = "relogin"
        \/ \E u \in Users : upc[u] \in {"check", "deliver", "full"}

(* A login in flight ends, without the help of any caller's timeout. *)
LoginEnds == agw = 1 ~> agw # 1

(* deal_link_connect: after a reconnection a login is under way, for who    *)
(* comes second leaves it to the holder of the claim to ask for one.        *)
ReconnectLogsIn ==
    link = "up" /\ okOnce = 1 /\ session = 0 /\ agw = 0 /\ pc = "poll" =>
        \/ Requested
        \/ \E u \in Users : upc[u] \in {"check", "deliver"}
=============================================================================
