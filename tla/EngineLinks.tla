----------------------------- MODULE EngineLinks -----------------------------
(***************************************************************************)
(* The links of multi_socket_engine from start() to stop(): the state word *)
(* of each link's channel (aio_socket_link, aio_tcp, tcp_ch), the epoll    *)
(* thread that polls them (mthread, wait_poll_multi) with its list of      *)
(* removals, and the calls of api_impl that bring the thread up and down.  *)
(*                                                                         *)
(* A thread that closes a link does not take it out of the epoll set: it   *)
(* queues the removal and wakes the engine, which gives up the reference   *)
(* of the polling, and with the last reference the link is closed.  Links  *)
(* are opened by the engine, and in start() by the caller.                 *)
(*                                                                         *)
(* Left out: what is sent and received on an open link, and the timers,    *)
(* which only put events in the engine's queue.  The queue is EngineWake's *)
(* and MthQueue's; here any event may be the next one in it.               *)
(***************************************************************************)
EXTENDS StatRef, Sequences, FiniteSets

CONSTANTS
    Users,      \* threads of the application
    Engine,     \* the epoll thread
    G98, Fgw,   \* g98_link_ and fast_gw_link_
    Slots,      \* removals wait_poll_multi has room for, eventnum - 1
    Rounds,     \* events deal_event takes in a round, send_poll_num_
    Faults      \* times epoll_ctl refuses to add a good socket (bound)

Links == {G98, Fgw}
Threads == Users \cup {Engine}

ASSUME ThreadAssumption == Engine \notin Users
ASSUME LinkAssumption == G98 # Fgw /\ Links \cap {"change", "queue"} = {}
ASSUME BoundAssumption == Slots \in Nat /\ Rounds \in Nat /\ Faults \in Nat

VARIABLES
    word,       \* the state word of each link
    fd,         \* its socket is open, sysfd # -1
    started,    \* th_recv is set; nothing resets it
    polled,     \* the socket is in the epoll set
    linked,     \* the counter's trade_link_connect_
    dels,       \* del_evs, the removals queued
    change,     \* change_event is readable
    mstate,     \* mthread::state
    have,       \* have_start: 0 down, 1 starting, 2 up, 3 stopped
    faults,     \* refusals of epoll_ctl so far
    batch,      \* events of the last epoll_wait not yet dispatched
    round,      \* events of the queue taken in this round
    done, known,\* i and t of del_wake
    pc,         \* where each thread is
    job         \* the link it opens or closes, where it goes on afterwards,
                \* and o_closed: the close left no reference

linkVars == <<word, fd, started, polled, linked>>
pollVars == <<dels, change, batch, round, done, known>>
callVars == <<mstate, have, faults>>
ctlVars == <<pc, job>>
vars == <<linkVars, pollVars, callVars, ctlVars>>

OpenPcs == {"connect", "socket", "end_init", "add_ref", "add", "sub_ref", "tell", "fail"}
ClosePcs == {"remove", "destroy"}
UserPcs == {"idle", "prepare", "dial", "run", "fast", "undo", "undo_join", "undo_fgw",
            "undone", "stop_g98", "stop_fgw", "halt", "join"}
EnginePcs == {"off", "batch", "round", "entry", "end_poll", "recv_stop", "reset"}

Job == [link : Links, back : UserPcs \cup EnginePcs, last : BOOLEAN]

(* A thread that has no link in hand. *)
NoJob == [link |-> G98, back |-> "off", last |-> FALSE]

LinkPcs == OpenPcs \cup ClosePcs
PcsOf(x) == LinkPcs \cup IF x = Engine THEN EnginePcs ELSE UserPcs

ControlOK ==
    /\ pc \in [Threads -> LinkPcs \cup EnginePcs \cup UserPcs]
    /\ \A x \in Threads : pc[x] \in PcsOf(x)
    /\ job \in [Threads -> Job]

TypeOK ==
    /\ word \in [Links -> Word] /\ \A l \in Links : LegalWord(word[l])
    /\ fd \in [Links -> BOOLEAN] /\ started \in [Links -> BOOLEAN]
    /\ polled \in [Links -> BOOLEAN] /\ linked \in [Links -> BOOLEAN]
    /\ dels \in Seq(Links) /\ Len(dels) <= Slots
    /\ change \in BOOLEAN
    /\ mstate \in {"none", "init", "running", "tostop"}
    /\ have \in 0 .. 3
    /\ faults \in 0 .. Faults
    /\ batch \subseteq Links \cup {"change", "queue"}
    /\ round \in 0 .. Rounds
    /\ done \in Nat /\ known \in Nat /\ known <= Slots
    /\ ControlOK

(* After init(): the thread's epoll set exists, nothing runs. *)
Init ==
    /\ word = [l \in Links |-> Closed]
    /\ fd = [l \in Links |-> FALSE] /\ started = [l \in Links |-> FALSE]
    /\ polled = [l \in Links |-> FALSE] /\ linked = [l \in Links |-> FALSE]
    /\ dels = <<>> /\ change = FALSE
    /\ mstate = "init" /\ have = 0
    /\ faults = 0
    /\ batch = {} /\ round = 0 /\ done = 0 /\ known = 0
    /\ pc = [x \in Threads |-> IF x = Engine THEN "off" ELSE "idle"]
    /\ job = [x \in Threads |-> NoJob]

Goes(x, from, to) ==
    /\ pc[x] = from
    /\ pc' = [pc EXCEPT ![x] = to]
    /\ job' = IF to \in LinkPcs THEN job ELSE [job EXCEPT ![x] = NoJob]

Begins(x, p, l, b, o) ==
    /\ pc' = [pc EXCEPT ![x] = p]
    /\ job' = [job EXCEPT ![x] = [link |-> l, back |-> b, last |-> o]]

At(x) == job[x].link

-----------------------------------------------------------------------------
(* close_ch of link l by thread x, which goes on at b afterwards: to_close *)
(* decides who closes, and the one that does queues the removal            *)
(* (deal_tcp_to_close) and, if no reference is left, destroys the channel. *)

CloseCh(x, l, b) ==
    LET free == word[l].ref = 0 IN
    /\ \/ /\ CloseAllowed(word[l])
          /\ word' = [word EXCEPT ![l] = ToClose(@)]
          /\ \/ (started[l] \/ free) /\ Begins(x, IF started[l] THEN "remove" ELSE "destroy", l, b, free)
             \/ ~started[l] /\ ~free /\ Goes(x, pc[x], b)
       \/ /\ ~CloseAllowed(word[l])
          /\ Goes(x, pc[x], b)
          /\ UNCHANGED word
    /\ UNCHANGED <<fd, started, polled, linked>>

AfterTold(x) == IF job[x].last THEN "destroy" ELSE job[x].back

(* remove_wake.  A list that is full, or destroyed, drops the removal. *)
RoomToRemove == mstate # "none" /\ Len(dels) < Slots

(* Mistake: the removal is queued and the engine is not woken. *)
BugRemove(x) ==
    /\ RoomToRemove
    /\ Goes(x, "remove", AfterTold(x))
    /\ dels' = Append(dels, At(x))
    /\ UNCHANGED <<linkVars, change, batch, round, done, known, callVars>>

Remove(x) ==
    /\ RoomToRemove
    /\ Goes(x, "remove", AfterTold(x))
    /\ dels' = Append(dels, At(x))
    /\ change' = TRUE
    /\ UNCHANGED <<linkVars, batch, round, done, known, callVars>>

DropRemoval(x) ==
    /\ ~RoomToRemove
    /\ Goes(x, "remove", AfterTold(x))
    /\ UNCHANGED <<linkVars, pollVars, callVars>>

(* destroy: a closed socket leaves the epoll set by itself. *)
Destroy(x) ==
    /\ Goes(x, "destroy", job[x].back)
    /\ fd' = [fd EXCEPT ![At(x)] = FALSE]
    /\ polled' = [polled EXCEPT ![At(x)] = FALSE]
    /\ UNCHANGED <<word, started, linked, pollVars, callVars>>

-----------------------------------------------------------------------------
(* connect of aio_socket_link, by the engine or by start().                *)

After(x, ok) ==
    IF x = Engine THEN "round" ELSE IF ok THEN "run" ELSE "undo"

(* A link that works is left alone, one in between is refused, and so is   *)
(* one without an address. *)
Connect(x) ==
    LET w == word[At(x)] IN
    /\ \/ /\ IsWork(w)
          /\ Goes(x, "connect", After(x, TRUE))
          /\ UNCHANGED <<word, fd>>
       \/ /\ ~IsWork(w)
          /\ Goes(x, "connect", After(x, FALSE))
          /\ UNCHANGED <<word, fd>>
       \/ /\ IsFree(w)
          /\ Goes(x, "connect", "socket")
          /\ word' = [word EXCEPT ![At(x)] = ToInit(w)]
          /\ fd' = [fd EXCEPT ![At(x)] = FALSE]
    /\ UNCHANGED <<started, polled, linked, pollVars, callVars>>

(* The blocking connect; when it fails, destroy and end_init. *)
Socket(x) ==
    /\ \/ /\ Goes(x, "socket", "end_init")
          /\ fd' = [fd EXCEPT ![At(x)] = TRUE]
          /\ UNCHANGED word
       \/ /\ Goes(x, "socket", After(x, FALSE))
          /\ word' = [word EXCEPT ![At(x)] = EndInit(@, FALSE)]
          /\ UNCHANGED fd
    /\ UNCHANGED <<started, polled, linked, pollVars, callVars>>

(* end_init and set_work: closed meanwhile, the channel is destroyed and   *)
(* the connect fails. *)
EndOfInit(x) ==
    LET l == At(x) IN
    /\ pc[x] = "end_init"
    /\ \/ EndInitWorks(word[l], TRUE) /\ Goes(x, "end_init", "add_ref")
       \/ ~EndInitWorks(word[l], TRUE) /\ Begins(x, "destroy", l, After(x, FALSE), FALSE)
    /\ word' = [word EXCEPT ![l] = SetWork(EndInit(@, TRUE))]
    /\ UNCHANGED <<fd, started, polled, linked, pollVars, callVars>>

(* start_ch: th_recv is set, and the polling takes a reference. *)
(* Mistake: it takes none. *)
BugTakeRef(x) ==
    LET l == At(x) IN
    /\ started' = [started EXCEPT ![l] = TRUE]
    /\ Goes(x, "add_ref", IF RefAllowed(word[l]) THEN "add" ELSE "fail")
    /\ UNCHANGED <<word, fd, polled, linked, pollVars, callVars>>

TakeRef(x) ==
    LET l == At(x) IN
    /\ started' = [started EXCEPT ![l] = TRUE]
    /\ \/ /\ RefAllowed(word[l])
          /\ Goes(x, "add_ref", "add")
          /\ word' = [word EXCEPT ![l] = AddRef(@)]
       \/ /\ ~RefAllowed(word[l])
          /\ Goes(x, "add_ref", "fail")
          /\ UNCHANGED word
    /\ UNCHANGED <<fd, polled, linked, pollVars, callVars>>

(* add_wake: epoll_ctl may refuse, and does without a socket or a set. *)
AddWake(x) ==
    LET good == mstate # "none" /\ fd[At(x)] IN
    /\ \/ /\ good
          /\ Goes(x, "add", "tell")
          /\ polled' = [polled EXCEPT ![At(x)] = TRUE]
          /\ UNCHANGED faults
       \/ /\ Goes(x, "add", "sub_ref")
          /\ good => faults < Faults
          /\ faults' = IF good THEN faults + 1 ELSE faults
          /\ UNCHANGED polled
    /\ UNCHANGED <<word, fd, started, linked, pollVars, mstate, have>>

(* Mistake: nobody looks whether it was the last. *)
BugGiveUpRef(x, l, from, p, b) ==
    /\ Goes(x, from, p)
    /\ word' = [word EXCEPT ![l] = SubRef(@)]
    /\ UNCHANGED <<fd, started, polled, linked, pollVars, callVars>>

(* sub_ref of link l by x, which goes on at p or, when this was the last   *)
(* reference to a closing channel, destroys it and goes on at b.           *)
GiveUpRef(x, l, from, p, b) ==
    /\ pc[x] = from
    /\ \/ ~LastRef(word[l]) /\ Goes(x, from, p)
       \/ LastRef(word[l]) /\ Begins(x, "destroy", l, b, FALSE)
    /\ word' = [word EXCEPT ![l] = SubRef(@)]
    /\ UNCHANGED <<fd, started, polled, linked, pollVars, callVars>>

(* The close_ch that follows finds a destroyed channel closed. *)
AddFailed(x) == GiveUpRef(x, At(x), "sub_ref", "fail", After(x, FALSE))

(* deal_link_connect of the counter: it sets its flag, and may fail on a   *)
(* full queue.                                                             *)
Tell(x) ==
    /\ Goes(x, "tell", After(x, TRUE)) \/ Goes(x, "tell", "fail")
    /\ linked' = [linked EXCEPT ![At(x)] = TRUE]
    /\ UNCHANGED <<word, fd, started, polled, pollVars, callVars>>

(* What failed after connect_ch ends in close_ch. *)
Fail(x) ==
    /\ pc[x] = "fail"
    /\ CloseCh(x, At(x), After(x, FALSE))
    /\ UNCHANGED <<pollVars, callVars>>

LinkStep(x) ==
    \/ Remove(x) \/ DropRemoval(x) \/ Destroy(x)
    \/ Connect(x) \/ Socket(x) \/ EndOfInit(x) \/ TakeRef(x)
    \/ AddWake(x) \/ AddFailed(x) \/ Tell(x) \/ Fail(x)

-----------------------------------------------------------------------------
(* The epoll thread.                                                       *)

(* With the last batch dispatched, epoll_wait_func looks at the state: it  *)
(* ends, or waits.  change_event is level triggered: readable, it is in    *)
(* every batch. *)
ToStop ==
    /\ mstate = "tostop" /\ batch = {}
    /\ Goes(Engine, "batch", "off")
    /\ mstate' = "init"
    /\ UNCHANGED <<linkVars, pollVars, have, faults>>

EpollWait ==
    /\ mstate # "tostop" /\ batch = {} /\ pc[Engine] = "batch"
    /\ \E b \in SUBSET ({l \in Links : polled[l]} \cup {"queue"}) :
         batch' = IF change THEN b \cup {"change"} ELSE b
    /\ UNCHANGED <<linkVars, dels, change, round, done, known, callVars, ctlVars>>

(* An event of link l: messages, or an error, on which deal_ch_error       *)
(* closes the link.                                                        *)
LinkEvent(l) ==
    /\ pc[Engine] = "batch" /\ l \in batch
    /\ batch' = batch \ {l}
    /\ \/ UNCHANGED <<linkVars, ctlVars>>
       \/ CloseCh(Engine, l, "batch")
    /\ UNCHANGED <<dels, change, round, done, known, callVars>>

QueueEvent ==
    /\ "queue" \in batch
    /\ Goes(Engine, "batch", "round")
    /\ batch' = batch \ {"queue"}
    /\ round' = 0
    /\ UNCHANGED <<linkVars, dels, change, done, known, callVars>>

(* LINK_CONNECT, a login that needs the link, or LINK_CLOSE. *)
Event(l) ==
    /\ pc[Engine] = "round" /\ round < Rounds
    /\ round' = round + 1
    /\ \/ Begins(Engine, "connect", l, "round", FALSE) /\ UNCHANGED linkVars
       \/ CloseCh(Engine, l, "round")
    /\ UNCHANGED <<dels, change, batch, done, known, callVars>>

(* The queue is empty, or send_poll_num_ events have been taken. *)
RoundDone ==
    /\ Goes(Engine, "round", "batch")
    /\ round' = 0
    /\ UNCHANGED <<linkVars, dels, change, batch, done, known, callVars>>

-----------------------------------------------------------------------------
(* del_wake.                                                               *)

(* Mistake: the list is read from its second entry. *)
BugChangeEvent ==
    /\ "change" \in batch
    /\ Goes(Engine, "batch", "entry")
    /\ batch' = batch \ {"change"}
    /\ known' = Len(dels) /\ done' = 1
    /\ UNCHANGED <<linkVars, dels, change, round, callVars>>

ChangeEvent ==
    /\ "change" \in batch
    /\ Goes(Engine, "batch", "entry")
    /\ batch' = batch \ {"change"}
    /\ known' = Len(dels) /\ done' = 0
    /\ UNCHANGED <<linkVars, dels, change, round, callVars>>

(* Mistake: events already fetched for the link are left in the batch. *)
BugEntry ==
    LET l == dels[done + 1] IN
    /\ pc[Engine] = "entry" /\ done < known
    /\ IF polled[l]
       THEN /\ Goes(Engine, "entry", "end_poll")
            /\ polled' = [polled EXCEPT ![l] = FALSE]
            /\ UNCHANGED done
       ELSE /\ done' = done + 1
            /\ UNCHANGED <<polled, ctlVars>>
    /\ UNCHANGED <<word, fd, started, linked, dels, change, batch, round, known, callVars>>

(* The next removal: its events are taken out of the batch, and epoll_ctl  *)
(* takes the link out of the set; if it is not there, the entry is skipped. *)
Entry ==
    LET l == dels[done + 1] IN
    /\ pc[Engine] = "entry" /\ done < known
    /\ batch' = batch \ {l}
    /\ IF polled[l]
       THEN /\ Goes(Engine, "entry", "end_poll")
            /\ polled' = [polled EXCEPT ![l] = FALSE]
            /\ UNCHANGED done
       ELSE /\ done' = done + 1
            /\ UNCHANGED <<polled, ctlVars>>
    /\ UNCHANGED <<word, fd, started, linked, dels, change, round, known, callVars>>

(* Mistake: deal_close is over when the channel has been destroyed. *)
BugEndPoll == GiveUpRef(Engine, dels[done + 1], "end_poll", "recv_stop", "entry")

(* deal_close of the link: end_poll_recv, then deal_recv_stop, on which    *)
(* the counter's deal_link_close clears its flag.                          *)
EndPoll == GiveUpRef(Engine, dels[done + 1], "end_poll", "recv_stop", "recv_stop")

RecvStop ==
    /\ Goes(Engine, "recv_stop", "entry")
    /\ linked' = [linked EXCEPT ![dels[done + 1]] = FALSE]
    /\ done' = done + 1
    /\ UNCHANGED <<word, fd, started, polled, dels, change, batch, round, known, callVars>>

(* All entries known are done: if there are no more by now, the list is    *)
(* emptied. *)
MoreEntries ==
    /\ pc[Engine] = "entry" /\ done >= known
    /\ known # Len(dels) /\ known' = Len(dels)
    /\ UNCHANGED <<linkVars, dels, change, batch, round, done, callVars, ctlVars>>

NoMoreEntries ==
    /\ done >= known /\ known = Len(dels)
    /\ Goes(Engine, "entry", "reset")
    /\ dels' = <<>> /\ done' = 0 /\ known' = 0
    /\ UNCHANGED <<linkVars, change, batch, round, callVars>>

(* change_event is reset after the lock is given up. *)
Reset ==
    /\ Goes(Engine, "reset", "batch")
    /\ change' = FALSE
    /\ UNCHANGED <<linkVars, dels, batch, round, done, known, callVars>>

EngineStep ==
    \/ ToStop \/ EpollWait \/ QueueEvent \/ RoundDone \/ ChangeEvent
    \/ (\E l \in Links : LinkEvent(l) \/ Event(l))
    \/ Entry \/ EndPoll \/ RecvStop \/ MoreEntries \/ NoMoreEntries \/ Reset
    \/ LinkStep(Engine)

-----------------------------------------------------------------------------
(* start() and stop() of api_impl.                                         *)

CallUnchanged == UNCHANGED <<linkVars, pollVars>>

(* start(): the caller that moves have_start from 0 to 1 does the work.    *)
(* Others wait while it is 1. *)
Start(u) ==
    /\ have = 0
    /\ Goes(u, "idle", "prepare")
    /\ have' = 1
    /\ UNCHANGED <<mstate, faults>> /\ CallUnchanged

(* Started or stopped, start() returns at once, and so does a second stop(). *)
ReturnAtOnce(u) ==
    /\ have \in {2, 3} /\ pc[u] = "idle"
    /\ UNCHANGED vars

(* The callback thread and the timers; either may fail. *)
Prepare(u) ==
    /\ Goes(u, "prepare", "dial") \/ Goes(u, "prepare", "undo")
    /\ UNCHANGED callVars /\ CallUnchanged

(* connect_98agw. *)
Dial(u) ==
    /\ \/ IsWork(word[G98]) /\ Goes(u, "dial", "run")
       \/ IsFree(word[G98]) /\ pc[u] = "dial" /\ Begins(u, "connect", G98, "run", FALSE)
       \/ ~IsWork(word[G98]) /\ ~IsFree(word[G98]) /\ Goes(u, "dial", "undo")
    /\ UNCHANGED <<linkVars, pollVars, callVars>>

(* multi_socket_engine::start: the queue and the timers are added to the   *)
(* epoll set and the thread is run.  If it cannot be created, run destroys *)
(* the set, for good. *)
Run(u) ==
    /\ \/ /\ mstate = "init" /\ pc[u] = "run"
          /\ mstate' = "running"
          /\ pc' = [pc EXCEPT ![u] = "fast", ![Engine] = "batch"]
          /\ UNCHANGED <<polled, job>>
       \/ /\ mstate = "init"
          /\ Goes(u, "run", "undo")
          /\ mstate' = "none"
          /\ polled' = [l \in Links |-> FALSE]
       \/ Goes(u, "run", "undo") /\ UNCHANGED <<mstate, polled>>
    /\ UNCHANGED <<word, fd, started, linked, pollVars, have, faults>>

(* Mistake: have_start is reset before the way back. *)
BugFast(u) ==
    /\ \/ Goes(u, "fast", "idle") /\ have' = 2
       \/ Goes(u, "fast", "undo") /\ have' = 0
    /\ UNCHANGED <<mstate, faults>> /\ CallUnchanged

(* fast_engine_.start is the last that may fail. *)
Fast(u) ==
    /\ \/ Goes(u, "fast", "idle") /\ have' = 2
       \/ Goes(u, "fast", "undo") /\ UNCHANGED have
    /\ UNCHANGED <<mstate, faults>> /\ CallUnchanged

(* mthread::to_stop. *)
StopThread == mstate' = IF mstate = "running" THEN "tostop" ELSE mstate

(* The way back: multi_socket_engine::stop joins the thread and closes the *)
(* links after that.                                                       *)
Undo(u) ==
    /\ Goes(u, "undo", "undo_join")
    /\ StopThread
    /\ UNCHANGED <<have, faults>> /\ CallUnchanged

UndoClose(u) ==
    /\ \/ pc[u] = "undo_join" /\ pc[Engine] = "off" /\ CloseCh(u, G98, "undo_fgw")
       \/ pc[u] = "undo_fgw" /\ CloseCh(u, Fgw, "undone")
    /\ UNCHANGED <<pollVars, callVars>>

(* have_start goes back to 0: start() may be called again. *)
Undone(u) ==
    /\ Goes(u, "undone", "idle")
    /\ have' = 0
    /\ UNCHANGED <<mstate, faults>> /\ CallUnchanged

(* stop(): it waits while have_start is 1, and only in 2 is there anything *)
(* to do, once. *)
Stop(u) ==
    /\ have = 2
    /\ Goes(u, "idle", "stop_g98")
    /\ have' = 3
    /\ UNCHANGED <<mstate, faults>> /\ CallUnchanged

(* multi_socket_engine::close closes the links under the running engine.   *)
StopClose(u) ==
    /\ \/ pc[u] = "stop_g98" /\ CloseCh(u, G98, "stop_fgw")
       \/ pc[u] = "stop_fgw" /\ CloseCh(u, Fgw, "halt")
    /\ UNCHANGED <<pollVars, callVars>>

(* Mistake: the thread is waited for and not asked to stop. *)
BugHalt(u) ==
    /\ Goes(u, "halt", "join")
    /\ UNCHANGED callVars /\ CallUnchanged

Halt(u) ==
    /\ Goes(u, "halt", "join")
    /\ StopThread
    /\ UNCHANGED <<have, faults>> /\ CallUnchanged

Join(u) ==
    /\ pc[Engine] = "off"
    /\ Goes(u, "join", "idle")
    /\ UNCHANGED callVars /\ CallUnchanged

UserStep(u) ==
    \/ Prepare(u) \/ Dial(u) \/ Run(u) \/ Fast(u)
    \/ Undo(u) \/ UndoClose(u) \/ Undone(u)
    \/ StopClose(u) \/ Halt(u) \/ Join(u)
    \/ LinkStep(u)

-----------------------------------------------------------------------------
Next == EngineStep \/ \E u \in Users : Start(u) \/ Stop(u) \/ ReturnAtOnce(u) \/ UserStep(u)

Spec == Init /\ [][Next]_vars

(* The epoll thread runs, and a call that has been made goes on. *)
Fairness == WF_vars(EngineStep) /\ \A u \in Users : WF_vars(UserStep(u))

FairSpec == Spec /\ Fairness

-----------------------------------------------------------------------------
(* Properties.                                                             *)

(* stop() closes a link under the engine that may be opening it; until    *)
(* then only one thread at a time deals with links.                        *)
BeforeStop == have # 3

(* Nobody is between the two halves of a close of link l. *)
NotDestroying(l) == \A x \in Threads : ~(pc[x] \in ClosePcs /\ At(x) = l)

(* del_wake is between taking link l out of the set and sub_ref. *)
Removing(l) == pc[Engine] = "end_poll" /\ dels[done + 1] = l

Holds(x, l) == pc[x] \in {"add", "sub_ref"} /\ At(x) = l

(* A link's word counts one reference exactly while it is initialised or   *)
(* polled: none is lost and none given up twice, however connects fail and *)
(* removals are queued.  It ends with an epoll set that is destroyed.      *)
RefIsPoll ==
    BeforeStop /\ mstate # "none" =>
        \A l \in Links :
            LET held == \/ word[l].st = "initing"
                        \/ polled[l] \/ Removing(l) \/ \E x \in Threads : Holds(x, l)
            IN  word[l].ref = IF held THEN 1 ELSE 0

(* A link in use has a socket, and one that is free has none: nothing is   *)
(* sent on a socket another connection has got, and none is left open.     *)
SocketFollowsWord ==
    BeforeStop =>
        \A l \in Links :
            /\ word[l].st \in {"inited", "work"} => fd[l]
            /\ IsFree(word[l]) /\ NotDestroying(l) => ~fd[l]

(* del_wake has given up the reference and has not told the counter yet.   *)
GivenUp ==
    \/ pc[Engine] = "recv_stop"
    \/ pc[Engine] = "destroy" /\ job[Engine].back = "recv_stop"

(* The counter's flag does not outlive the link: when it is free again,    *)
(* the engine is on the way to clear the flag.  And the counter hears of   *)
(* a link by turns that it is up and that it is gone: deal_link_connect    *)
(* finds the flag clear, deal_link_close finds it set.                     *)
FlagFollowsLink ==
    /\ \A l \in Links : IsFree(word[l]) /\ linked[l] => GivenUp
    /\ \A x \in Threads : pc[x] = "tell" => ~linked[At(x)]
    /\ GivenUp => linked[dels[done + 1]]

(* The socket and the counter's flag both follow the word of the link.     *)
LinkFollowsWord == SocketFollowsWord /\ FlagFollowsLink

(* A link as its counter sees it: gone while the flag is clear, closing    *)
(* while it is set and the link is not in use any more.                    *)
View(l) ==
    CASE ~linked[l] -> "gone"
      [] linked[l] /\ (IsFree(word[l]) \/ word[l].closing) -> "closing"
      [] OTHER -> "up"

(* Nobody has called stop(), and epoll_ctl has refused nothing: a refusal  *)
(* may leave a removal in the list that takes the next connection out of   *)
(* the set.                                                                *)
Sound == BeforeStop /\ faults = 0

Life98 == INSTANCE LinkLife WITH state <- View(G98), sound <- Sound
LifeFgw == INSTANCE LinkLife WITH state <- View(Fgw), sound <- Sound

(* What the counter is told is what happens to the link: it comes up, is   *)
(* closed, is gone, and only then comes up again.                          *)
LinkIsTold == Life98!Spec /\ LifeFgw!Spec

(* An event still to be dispatched is of a socket that is in the epoll     *)
(* set: del_wake leaves nothing of a link it has taken out.                *)
BatchIsCurrent == BeforeStop => \A l \in batch \cap Links : polled[l]

InCharge == {u \in Users : pc[u] # "idle"}

(* One call at a time brings the engine up or down, and have_start says so. *)
OneInCharge ==
    /\ \A u, v \in InCharge : u = v
    /\ have = 1 => InCharge # {}
    /\ have \in {0, 2} => InCharge = {}

(* Whoever joins the epoll thread joins one that has ended or been told to. *)
StopIsHeard ==
    \A u \in Users : pc[u] \in {"undo_join", "join"} =>
        pc[Engine] = "off" \/ mstate = "tostop"

(* No call waits for nobody: while have_start is 1 the one that will reset  *)
(* it is under way, and a thread that is joined ends.                       *)
CallsGoOn == OneInCharge /\ StopIsHeard

(* del_wake runs: it looks at the whole list before it ends. *)
InDelWake == pc[Engine] \in {"entry", "end_poll"} \/ GivenUp

(* No closing link is forgotten: it is still polled or just taken out of   *)
(* the set, its removal is in the list or about to be put there, and the   *)
(* engine is at the list or will be woken for it.                          *)
ClosingIsQueued ==
    BeforeStop /\ mstate # "none" =>
        \A l \in Links : word[l].closing =>
            /\ polled[l] \/ Removing(l)
            /\ \/ \E x \in Threads : pc[x] = "remove" /\ At(x) = l
               \/ /\ \E i \in done + 1 .. Len(dels) : dels[i] = l
                  /\ change \/ InDelWake

(* Nothing is removed that is not to be: what del_wake still finds in the  *)
(* list is of closing links, but for one removal that each registration    *)
(* refused by epoll_ctl may have left of a link that was closed at once.   *)
Stale == {i \in done + 1 .. Len(dels) : ~word[dels[i]].closing}

StaleIsRefused ==
    BeforeStop /\ pc[Engine] \in {"entry", "end_poll"} => Cardinality(Stale) <= faults

(* Then the counter is told that a link is gone when it is. *)
GoneIsFree == BeforeStop /\ faults = 0 /\ GivenUp => IsFree(word[dels[done + 1]])

(* The list of removals and the closing links match. *)
RemovalsMatch == ClosingIsQueued /\ StaleIsRefused /\ GoneIsFree

(* A link that is being closed while the engine is up gets closed: the     *)
(* removal is found and the last reference is given up.                    *)
ClosingEnds ==
    \A l \in Links : have = 2 /\ word[l].closing ~> ~word[l].closing \/ have = 3

(* A start() or stop() that has taken charge comes back. *)
ChargeEnds == InCharge # {} ~> InCharge = {}

(* api_instance.cpp:248 has start() callable again after one that failed:  *)
(* then connect_98agw finds the link free or at work.                      *)
RetryFindsLinkFree == have = 0 => IsFree(word[G98]) \/ IsWork(word[G98])
=============================================================================
