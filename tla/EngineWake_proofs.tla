-------------------------- MODULE EngineWake_proofs --------------------------
(***************************************************************************)
(* The engine does not sleep on an event, for any producers, queue and     *)
(* length of a round, with stores that are seen late.                      *)
(*                                                                         *)
(* The invariant adds to NoLostWake what makes the recheck sufficient: the *)
(* fence and what follows it come after a store of 0, and once the fence   *)
(* is over (recheck), or the engine sleeps, no store is pending.           *)
(***************************************************************************)
EXTENDS EngineWake, TLAPS

FenceInv ==
    /\ epc \in {"fence", "recheck"} => View = 0
    /\ epc = "recheck" => buffer = <<>>

IInv == TypeOK /\ FenceInv /\ SleepIsSeen /\ NoLostWake

(* Flush keeps the engine's own view of the flag. *)
LEMMA FlushKeepsView ==
    ASSUME TypeOK, Flush
    PROVE  View' = View
<1>1. CASE Len(buffer) = 1
  <2>1. buffer' \in Seq({0, 1}) /\ Len(buffer') = 0
    BY <1>1 DEF TypeOK, Flush
  <2>2. buffer' = <<>>
    BY <2>1
  <2>3. dealing' = buffer[1]
    BY <1>1 DEF TypeOK, Flush
  <2>4. View = buffer[1]
    BY <1>1 DEF Flush, View
  <2> QED BY <2>2, <2>3, <2>4 DEF View
<1>2. CASE Len(buffer) # 1
  <2>1. buffer \in Seq({0, 1}) /\ buffer # <<>> /\ buffer' = Tail(buffer)
    BY DEF TypeOK, Flush
  <2>2. Len(buffer) \in Nat /\ Len(buffer) > 1
    <3> DEFINE n == Len(buffer)
    <3>1. n \in Nat /\ n # 0 /\ n # 1
      BY <1>2, <2>1
    <3> HIDE DEF n
    <3>2. n > 1
      BY <3>1
    <3> QED BY <3>1, <3>2 DEF n
  <2>3. /\ Len(buffer') = Len(buffer) - 1
        /\ buffer'[Len(buffer) - 1] = buffer[Len(buffer)]
    BY <2>1, <2>2
  <2>4. buffer' # <<>>
    <3>1. Len(buffer') > 0
      BY <2>2, <2>3
    <3> QED BY <3>1
  <2> QED BY <2>1, <2>3, <2>4 DEF View
<1> QED BY <1>1, <1>2

LEMMA StoreIsViewed ==
    ASSUME TypeOK, NEW v \in {0, 1}, Store(v), dealing' = dealing
    PROVE  /\ View' = v
           /\ buffer' \in Seq({0, 1})
<1> USE DEF TypeOK, Store
<1>1. CASE View = v
  <2>1. buffer' = buffer
    BY <1>1
  <2> QED BY <1>1, <2>1 DEF View
<1>2. CASE View # v
  <2>1. buffer' = Append(buffer, v)
    BY <1>2
  <2>2. buffer' # <<>> /\ buffer'[Len(buffer')] = v /\ buffer' \in Seq({0, 1})
    BY <2>1
  <2> QED BY <2>2 DEF View
<1> QED BY <1>1, <1>2

(* Every reachable state is well typed and the queue within its capacity   *)
(* (the reservations of write_get_mth).                                    *)
LEMMA TypeStep == TypeOK /\ [Next]_vars => TypeOK'
<1> SUFFICES ASSUME TypeOK, [Next]_vars PROVE TypeOK'
  OBVIOUS
<1> USE CapAssumption, PollAssumption DEF TypeOK, To, queueVars
<1>1. ASSUME NEW p \in Producers, Reserve(p) PROVE TypeOK'
  <2>1. Len(open') = Len(open) + 1 /\ open' \in Seq(Producers)
    BY <1>1 DEF Reserve
  <2> QED BY <1>1, <2>1 DEF Reserve
<1>2. ASSUME NEW p \in Producers, Commit(p) PROVE TypeOK'
  <2>1. Len(open') = Len(open) - 1 /\ open' \in Seq(Producers)
    BY <1>2 DEF Commit
  <2> QED BY <1>2, <2>1 DEF Commit
<1>3. ASSUME NEW p \in Producers, Look(p) PROVE TypeOK'
  BY <1>3 DEF Look
<1>4. ASSUME NEW p \in Producers, Wake(p) PROVE TypeOK'
  BY <1>4 DEF Wake
<1>5. CASE Flush
  BY <1>5 DEF Flush
<1>6. CASE PutOwn
  BY <1>6 DEF PutOwn
<1>7. CASE Start
  BY <1>7, StoreIsViewed DEF Start
<1>8. CASE Reset \/ Read \/ Fence \/ Recheck \/ RoundOver
  BY <1>8 DEF Reset, Read, Fence, Recheck, RoundOver
<1>9. CASE ReadEmpty
  BY <1>9, StoreIsViewed DEF ReadEmpty
<1>10. CASE UNCHANGED vars
  BY <1>10 DEF vars
<1> QED BY <1>1, <1>2, <1>3, <1>4, <1>5, <1>6, <1>7, <1>8, <1>9, <1>10
        DEF Next, Finish, Engine

LEMMA FenceStep == TypeOK /\ FenceInv /\ [Next]_vars => FenceInv'
<1> SUFFICES ASSUME TypeOK, FenceInv, [Next]_vars PROVE FenceInv'
  OBVIOUS
<1>1. CASE UNCHANGED <<epc, dealing, buffer>>
  BY <1>1 DEF FenceInv, View
<1>2. CASE Flush
  BY <1>2, FlushKeepsView DEF FenceInv, Flush
<1>3. CASE ReadEmpty
  BY <1>3, StoreIsViewed DEF FenceInv, ReadEmpty
<1>4. CASE Fence
  BY <1>4 DEF FenceInv, Fence, View
<1>5. CASE Start \/ Reset \/ Recheck \/ RoundOver
  BY <1>5 DEF FenceInv, Start, Reset, Recheck, RoundOver
<1> QED BY <1>1, <1>2, <1>3, <1>4, <1>5
        DEF Next, Finish, Engine, Reserve, Commit, Look, Wake, PutOwn, Read, vars

(* The recheck is the only way to sleep without a wake pending. *)
LEMMA SleepStep ==
    TypeOK /\ FenceInv /\ SleepIsSeen /\ [Next]_vars => SleepIsSeen'
<1> SUFFICES ASSUME TypeOK, FenceInv, SleepIsSeen, [Next]_vars,
                    epc' = "wait", ev' = 0
             PROVE  dealing' = 0 /\ buffer' = <<>>
  BY DEF SleepIsSeen
<1> USE DEF SleepIsSeen, TypeOK
<1>1. CASE UNCHANGED <<epc, ev, dealing, buffer>>
  BY <1>1
<1>2. CASE PutOwn
  BY <1>2 DEF PutOwn
<1>3. CASE Recheck
  BY <1>3 DEF Recheck, FenceInv, View
<1>4. CASE Flush
  BY <1>4 DEF Flush
<1>5. CASE Start \/ Reset \/ Read \/ ReadEmpty \/ Fence \/ RoundOver
  BY <1>5 DEF Start, Reset, Read, ReadEmpty, Fence, RoundOver
<1>6. ASSUME NEW p \in Producers, Wake(p) PROVE FALSE
  BY <1>6 DEF Wake
<1> QED BY <1>1, <1>2, <1>3, <1>4, <1>5, <1>6
        DEF Next, Finish, Engine, Reserve, Commit, Look, vars

(* Whoever makes the queue non-empty while the engine sleeps sees that it  *)
(* sleeps. *)
LEMMA WakeStep ==
    TypeOK /\ FenceInv /\ SleepIsSeen /\ NoLostWake /\ [Next]_vars => NoLostWake'
<1> SUFFICES ASSUME TypeOK, FenceInv, SleepIsSeen, NoLostWake, [Next]_vars,
                    epc' = "wait", unread' > 0, ev' = 0
             PROVE  \E p \in Producers :
                        \/ ppc'[p] = "wake"
                        \/ ppc'[p] = "look" /\ dealing' = 0
  BY TypeStep DEF NoLostWake, TypeOK
<1> USE DEF TypeOK, SleepIsSeen, NoLostWake
<1>1. ASSUME NEW p \in Producers, Reserve(p)
      PROVE  \E q \in Producers :
                 \/ ppc'[q] = "wake"
                 \/ ppc'[q] = "look" /\ dealing' = 0
  <2>1. PICK q \in Producers : ppc[q] = "wake" \/ (ppc[q] = "look" /\ dealing = 0)
    BY <1>1 DEF Reserve
  <2>2. q # p
    BY <1>1, <2>1 DEF Reserve, To
  <2> QED BY <1>1, <2>1, <2>2 DEF Reserve, To
<1>2. ASSUME NEW p \in Producers, Commit(p)
      PROVE  ppc'[p] = "look" /\ dealing' = 0
  BY <1>2 DEF Commit, To
<1>3. ASSUME NEW p \in Producers, Look(p)
      PROVE  \E q \in Producers :
                 \/ ppc'[q] = "wake"
                 \/ ppc'[q] = "look" /\ dealing' = 0
  <2>1. PICK q \in Producers : ppc[q] = "wake" \/ (ppc[q] = "look" /\ dealing = 0)
    BY <1>3 DEF Look, queueVars
  <2>2. dealing = 0
    BY <1>3 DEF Look
  <2>3. CASE q = p
    BY <1>3, <2>1, <2>2, <2>3 DEF Look, To
  <2>4. CASE q # p
    BY <1>3, <2>1, <2>4 DEF Look, To
  <2> QED BY <2>3, <2>4
<1>4. ASSUME NEW p \in Producers, Wake(p) PROVE FALSE
  BY <1>4 DEF Wake
<1>5. CASE Flush
  BY <1>5 DEF Flush
<1>6. CASE PutOwn
  BY <1>6 DEF PutOwn, View
<1>7. CASE Recheck
  BY <1>7 DEF Recheck, queueVars
<1>8. CASE Start \/ Reset \/ Read \/ ReadEmpty \/ Fence \/ RoundOver
  BY <1>8 DEF Start, Reset, Read, ReadEmpty, Fence, RoundOver
<1>9. CASE UNCHANGED vars
  BY <1>9 DEF vars, queueVars
<1> QED BY <1>1, <1>2, <1>3, <1>4, <1>5, <1>6, <1>7, <1>8, <1>9
        DEF Next, Finish, Engine

(* All of it holds in every reachable state. *)
THEOREM InvariantHolds == Spec => []IInv
<1>1. Init => IInv
  BY CapAssumption, PollAssumption
     DEF Init, IInv, TypeOK, FenceInv, SleepIsSeen, NoLostWake
<1>2. IInv /\ [Next]_vars => IInv'
  BY TypeStep, FenceStep, SleepStep, WakeStep DEF IInv
<1> QED BY <1>1, <1>2, PTL DEF Spec

(* Well typed, with the queue within its capacity (write_get_mth). *)
THEOREM TypeCorrect == Spec => []TypeOK
<1>1. IInv => TypeOK BY DEF IInv
<1> QED BY <1>1, InvariantHolds, PTL

(* The fence and the recheck of deal_event leave no event to a sleeping    *)
(* engine. *)
THEOREM NoWakeIsLost == Spec => []NoLostWake
<1>1. IInv => NoLostWake BY DEF IInv
<1> QED BY <1>1, InvariantHolds, PTL

(* When the engine sleeps for good, producers read queue_dealing_ as 0. *)
THEOREM SleepersAreSeen == Spec => []SleepIsSeen
<1>1. IInv => SleepIsSeen BY DEF IInv
<1> QED BY <1>1, InvariantHolds, PTL

-----------------------------------------------------------------------------
(* The refinement of Sleeper.                                              *)

(* A step that leaves the queue alone and is not the recheck changes       *)
(* nothing for Sleeper: no wake comes from nowhere and none disappears.    *)
LEMMA OthersLetSleep ==
    ASSUME TypeOK, SleepIsSeen,
           \/ \E p \in Producers : Reserve(p) \/ Look(p) \/ Wake(p)
           \/ Flush \/ Start \/ Reset \/ ReadEmpty \/ Fence \/ RoundOver
    PROVE  UNCHANGED unread /\ Awake' = Awake
<1> USE DEF TypeOK, SleepIsSeen, Awake
<1>1. ASSUME NEW p \in Producers, Reserve(p)
      PROVE  UNCHANGED unread /\ Awake' = Awake
  <2>1. UNCHANGED <<unread, epc, ev, dealing>>
    BY <1>1 DEF Reserve
  <2>2. \A q \in Producers : ppc'[q] = ppc[q] \/ (ppc[q] = "idle" /\ ppc'[q] = "open")
    BY <1>1 DEF Reserve, To
  <2>3. \A q \in Producers :
            (ppc'[q] = "wake" \/ (ppc'[q] = "look" /\ dealing' = 0))
                <=> (ppc[q] = "wake" \/ (ppc[q] = "look" /\ dealing = 0))
    BY <2>1, <2>2
  <2> QED BY <2>1, <2>3
<1>2. ASSUME NEW p \in Producers, Look(p)
      PROVE  UNCHANGED unread /\ Awake' = Awake
  <2>1. UNCHANGED <<unread, epc, ev, dealing>>
    BY <1>2 DEF Look, queueVars
  <2>2. \A q \in Producers :
            \/ ppc'[q] = ppc[q]
            \/ ppc[q] = "look" /\ ppc'[q] = IF dealing = 0 THEN "wake" ELSE "idle"
    BY <1>2 DEF Look, To
  <2>3. \A q \in Producers :
            (ppc'[q] = "wake" \/ (ppc'[q] = "look" /\ dealing' = 0))
                <=> (ppc[q] = "wake" \/ (ppc[q] = "look" /\ dealing = 0))
    BY <2>1, <2>2
  <2> QED BY <2>1, <2>3
<1>3. ASSUME NEW p \in Producers, Wake(p)
      PROVE  UNCHANGED unread /\ Awake' = Awake
  <2>1. Awake /\ Awake'
    BY <1>3 DEF Wake, To
  <2>2. UNCHANGED unread
    BY <1>3 DEF Wake, queueVars
  <2> QED BY <2>1, <2>2
<1>4. CASE Flush
  <2>1. UNCHANGED <<unread, epc, ev, ppc>> /\ (epc # "wait" \/ ev = 1)
    BY <1>4 DEF Flush, queueVars
  <2> QED BY <2>1
<1>5. CASE Start \/ Reset \/ ReadEmpty \/ Fence \/ RoundOver
  <2>1. UNCHANGED unread /\ Awake /\ Awake'
    BY <1>5 DEF Start, Reset, ReadEmpty, Fence, RoundOver, queueVars
  <2> QED BY <2>1
<1> QED BY <1>1, <1>2, <1>3, <1>4, <1>5

LEMMA SleeperStep ==
    ASSUME TypeOK, SleepIsSeen, [Next]_vars
    PROVE  [Sleep!Next]_Sleep!vars
<1>1. ASSUME NEW p \in Producers, Commit(p) PROVE Sleep!Put
  <2>1. unread' = unread + 1
    BY <1>1 DEF Commit
  <2>2. ppc'[p] = "look" /\ UNCHANGED <<epc, ev, dealing>>
    BY <1>1 DEF Commit, To, TypeOK
  <2>3. Awake'
    BY <2>2 DEF Awake, SleepIsSeen, TypeOK
  <2>4. Awake' = TRUE
    BY <2>3 DEF Awake
  <2> QED BY <2>1, <2>4 DEF Sleep!Put
<1>2. CASE PutOwn
  <2>1. unread' = unread + 1
    BY <1>2 DEF PutOwn
  <2>2. ev' = 1
    BY <1>2 DEF PutOwn, View, SleepIsSeen, TypeOK
  <2>3. Awake' = TRUE
    BY <2>2 DEF Awake
  <2> QED BY <2>1, <2>3 DEF Sleep!Put, Sleep!Next
<1>3. CASE Read
  <2>1. Awake = TRUE /\ Awake' = TRUE
    BY <1>3 DEF Read, Awake
  <2> QED BY <1>3, <2>1 DEF Sleep!Take, Sleep!Next, Read
<1>4. CASE Recheck
  <2>1. UNCHANGED unread /\ Awake = TRUE
    BY <1>4 DEF Recheck, queueVars, Awake
  <2>2. Awake' = TRUE \/ Awake' = FALSE
    BY DEF Awake
  <2>3. ~Awake' => unread = 0
    BY <1>4 DEF Recheck, Awake, TypeOK
  <2> QED BY <2>1, <2>2, <2>3 DEF Sleep!Rest, Sleep!Next, Sleep!vars
<1>5. CASE \/ \E p \in Producers : Reserve(p) \/ Look(p) \/ Wake(p)
           \/ Flush \/ Start \/ Reset \/ ReadEmpty \/ Fence \/ RoundOver
  BY <1>5, OthersLetSleep DEF Sleep!vars
<1>6. CASE UNCHANGED vars
  <2>1. UNCHANGED unread /\ Awake' = Awake
    BY <1>6 DEF vars, queueVars, Awake
  <2> QED BY <2>1 DEF Sleep!vars
<1> QED BY <1>1, <1>2, <1>3, <1>4, <1>5, <1>6
        DEF Next, Finish, Engine, Sleep!Next

(* The engine's sleep keeps Sleeper's promise, although its stores are     *)
(* seen late: it falls asleep only when its queue is empty, and an event   *)
(* that comes then wakes it. *)
THEOREM SleepIsPromised == Spec => KeepsAwake
<1>1. Init => Sleep!Init
  BY DEF Init, Sleep!Init, Awake
<1>2. IInv /\ [Next]_vars => [Sleep!Next]_Sleep!vars
  BY SleeperStep DEF IInv
<1> QED BY <1>1, <1>2, InvariantHolds, PTL DEF Spec, KeepsAwake, Sleep!Spec
=============================================================================
