----------------------------- MODULE EngineWake -----------------------------
(***************************************************************************)
(* How the engine of the 98 link (multi_socket_engine) goes to sleep and   *)
(* is woken.  The engine sleeps in epoll_wait on an eventfd; a thread that *)
(* has put an event in the send queue writes the eventfd, unless it sees   *)
(* in queue_dealing_ that the engine is at work.                           *)
(*                                                                         *)
(* The engine's stores reach the other threads late, through the store     *)
(* buffer of its processor (x86); the swap with which a producer commits   *)
(* leaves it nothing to delay.  The queue is the FIFO of MthQueue, reduced *)
(* to the number of events in it.                                          *)
(***************************************************************************)
EXTENDS Naturals, Sequences

CONSTANTS
    Producers,  \* threads that put events in the send queue
    Cap,        \* events it holds (bound)
    Poll        \* events the engine takes in a round, send_poll_num_

ASSUME CapAssumption == Cap \in Nat \ {0}
ASSUME PollAssumption == Poll \in Nat \ {0}

VARIABLES
    unread,     \* events committed and not read
    open,       \* producers that have reserved and not committed, in order
    ppc,        \* where each producer is
    dealing,    \* queue_dealing_ in memory
    buffer,     \* the engine's stores to it that memory has not seen
    ev,         \* the eventfd queue_wake_: 1 when readable
    epc,        \* where the engine is
    round       \* events taken in this round

queueVars == <<unread, open>>
vars == <<queueVars, ppc, dealing, buffer, ev, epc, round>>

TypeOK ==
    /\ unread \in Nat
    /\ open \in Seq(Producers)
    /\ unread + Len(open) <= Cap
    /\ ppc \in [Producers -> {"idle", "open", "look", "wake"}]
    /\ dealing \in {0, 1}
    /\ buffer \in Seq({0, 1})
    /\ ev \in {0, 1}
    /\ epc \in {"wait", "reset", "read", "fence", "recheck"}
    /\ round \in 0 .. Poll

(* start() wakes the engine once. *)
Init ==
    /\ unread = 0 /\ open = <<>>
    /\ ppc = [p \in Producers |-> "idle"]
    /\ dealing = 0 /\ buffer = <<>>
    /\ ev = 1
    /\ epc = "wait" /\ round = 0

-----------------------------------------------------------------------------
(* A producer: take_req_que_mem, cmt_req_que_mem and trigger_send.         *)

To(p, from, to) == ppc[p] = from /\ ppc' = [ppc EXCEPT ![p] = to]

(* Mistake: the queue takes whatever it is given. *)
BugReserve(p) ==
    /\ To(p, "idle", "open")
    /\ open' = Append(open, p)
    /\ UNCHANGED <<unread, dealing, buffer, ev, epc, round>>

Reserve(p) ==
    /\ unread + Len(open) < Cap
    /\ To(p, "idle", "open")
    /\ open' = Append(open, p)
    /\ UNCHANGED <<unread, dealing, buffer, ev, epc, round>>

Commit(p) ==
    /\ To(p, "open", "look")
    /\ open # <<>> /\ Head(open) = p
    /\ open' = Tail(open)
    /\ unread' = unread + 1
    /\ UNCHANGED <<dealing, buffer, ev, epc, round>>

Look(p) ==
    /\ To(p, "look", IF dealing = 0 THEN "wake" ELSE "idle")
    /\ UNCHANGED <<queueVars, dealing, buffer, ev, epc, round>>

Wake(p) ==
    /\ To(p, "wake", "idle")
    /\ ev' = 1
    /\ UNCHANGED <<queueVars, dealing, buffer, epc, round>>

-----------------------------------------------------------------------------
(* The engine.                                                             *)

(* What it has stored itself, whether others see it or not. *)
View == IF buffer = <<>> THEN dealing ELSE buffer[Len(buffer)]

(* Storing what is stored already changes nothing for anybody. *)
Store(v) == buffer' = IF View = v THEN buffer ELSE Append(buffer, v)

Flush ==
    /\ buffer # <<>>
    /\ dealing' = Head(buffer)
    /\ buffer' = Tail(buffer)
    /\ UNCHANGED <<queueVars, ppc, ev, epc, round>>

(* Mistake: a round begins with the count of the last one. *)
BugStart ==
    /\ epc = "wait" /\ ev = 1
    /\ epc' = "reset"
    /\ Store(1)
    /\ UNCHANGED <<queueVars, ppc, dealing, ev, round>>

(* epoll_wait finds the eventfd readable: deal_event. *)
Start ==
    /\ epc = "wait" /\ ev = 1
    /\ epc' = "reset"
    /\ round' = 0
    /\ Store(1)
    /\ UNCHANGED <<queueVars, ppc, dealing, ev>>

(* A message received on the link makes the engine put an event in its own *)
(* queue, outside deal_event. *)
PutOwn ==
    /\ epc = "wait"
    /\ open = <<>> /\ unread < Cap
    /\ unread' = unread + 1
    /\ ev' = IF View = 0 THEN 1 ELSE ev
    /\ UNCHANGED <<open, ppc, dealing, buffer, epc, round>>

Reset ==
    /\ epc = "reset"
    /\ epc' = "read"
    /\ ev' = 0
    /\ UNCHANGED <<queueVars, ppc, dealing, buffer, round>>

Read ==
    /\ epc = "read" /\ round < Poll /\ unread > 0
    /\ unread' = unread - 1
    /\ round' = round + 1
    /\ UNCHANGED <<open, ppc, dealing, buffer, ev, epc>>

(* Mistake: the fence is left out. *)
BugReadEmpty ==
    /\ epc = "read" /\ round < Poll /\ unread = 0
    /\ epc' = "recheck"
    /\ Store(0)
    /\ UNCHANGED <<queueVars, ppc, dealing, ev, round>>

ReadEmpty ==
    /\ epc = "read" /\ round < Poll /\ unread = 0
    /\ epc' = "fence"
    /\ Store(0)
    /\ UNCHANGED <<queueVars, ppc, dealing, ev, round>>

(* The fence ends when memory has seen all stores. *)
Fence ==
    /\ epc = "fence" /\ buffer = <<>>
    /\ epc' = "recheck"
    /\ UNCHANGED <<queueVars, ppc, dealing, buffer, ev, round>>

(* Mistake: the engine wakes itself without looking. *)
BugRecheckAlways ==
    /\ epc = "recheck"
    /\ epc' = "wait"
    /\ ev' = 1
    /\ UNCHANGED <<queueVars, ppc, dealing, buffer, round>>

(* get_used counts what is reserved, too. *)
Recheck ==
    /\ epc = "recheck"
    /\ epc' = "wait"
    /\ ev' = IF unread + Len(open) > 0 THEN 1 ELSE ev
    /\ UNCHANGED <<queueVars, ppc, dealing, buffer, round>>

(* The round is over; queue_dealing_ stays set, and the engine wakes       *)
(* itself for the next round.                                              *)
RoundOver ==
    /\ epc = "read" /\ round = Poll
    /\ epc' = "wait"
    /\ ev' = 1
    /\ UNCHANGED <<queueVars, ppc, dealing, buffer, round>>

-----------------------------------------------------------------------------
Engine ==
    \/ Start
    \/ Reset
    \/ Read
    \/ ReadEmpty
    \/ Fence
    \/ Recheck
    \/ RoundOver

Finish(p) == Commit(p) \/ Look(p) \/ Wake(p)

Next ==
    \/ \E p \in Producers : Reserve(p) \/ Finish(p)
    \/ Flush
    \/ PutOwn
    \/ Engine

Spec == Init /\ [][Next]_vars

(* The engine comes back to epoll_wait and is not kept out of deal_event   *)
(* by its other descriptors, a producer finishes what it has reserved, and *)
(* a store is seen in the end.                                             *)
Fairness ==
    /\ WF_vars(Engine)
    /\ WF_vars(Flush)
    /\ \A p \in Producers : WF_vars(Finish(p))

FairSpec == Spec /\ Fairness

-----------------------------------------------------------------------------
(* Properties.                                                             *)

(* The engine does not sleep on an event: if one is in the queue, the      *)
(* eventfd is readable or somebody is about to make it so.                 *)
NoLostWake ==
    epc = "wait" /\ unread > 0 =>
        \/ ev = 1
        \/ \E p \in Producers : ppc[p] = "wake" \/ (ppc[p] = "look" /\ dealing = 0)

(* The engine sleeps with its stores seen by all: queue_dealing_ tells the *)
(* producers the truth when it counts. *)
SleepIsSeen == epc = "wait" /\ ev = 0 => dealing = 0 /\ buffer = <<>>

(* The engine is at work, or something will get it out of epoll_wait. *)
Awake ==
    \/ epc # "wait"
    \/ ev = 1
    \/ \E p \in Producers : ppc[p] = "wake" \/ (ppc[p] = "look" /\ dealing = 0)

Sleep == INSTANCE Sleeper WITH n <- unread, awake <- Awake

(* The engine falls asleep only with its queue empty, and the event that   *)
(* makes it non-empty wakes it: a producer that finds queue_dealing_ set   *)
(* may leave the eventfd alone.  A wake on its way is not lost either, not *)
(* even by the reset of the eventfd. *)
KeepsAwake == Sleep!Spec

(* As long as there are events, events are read. *)
EventsAreRead == <>[](unread > 0) => []<><<Read>>_vars

(* When nothing more comes, the engine sleeps: it does not wake itself     *)
(* again and again. *)
SleepsAtLast ==
    <>[](unread = 0 /\ \A p \in Producers : ppc[p] = "idle") =>
        <>[](epc = "wait" /\ ev = 0)
=============================================================================
