-------------------------- MODULE AgwLogin_proofs ---------------------------
(***************************************************************************)
(* Proofs about AgwLogin, for any set of user threads, any queue and any   *)
(* number of unanswered requests: an accepted order has a live session,    *)
(* and a login in flight is never an orphan.                               *)
(***************************************************************************)
EXTENDS AgwLogin, SequenceTheorems, TLAPS

-----------------------------------------------------------------------------
(* Queues of events. *)

Queued(q) == \E i \in DOMAIN q : q[i] = "agw"

LEMMA AppendEvent ==
    ASSUME NEW q \in Seq(Event), NEW e \in Event
    PROVE  /\ Append(q, e) \in Seq(Event)
           /\ Len(Append(q, e)) = Len(q) + 1
           /\ Append(q, e) # <<>>
           /\ q # <<>> => Head(Append(q, e)) = Head(q)
<1>1. /\ Append(q, e) \in Seq(Event)
      /\ Len(Append(q, e)) = Len(q) + 1
      /\ q # <<>> => Head(Append(q, e)) = Head(q)
  OBVIOUS
<1>2. Append(q, e) # <<>>
  BY <1>1
<1> QED
  BY <1>1, <1>2

LEMMA AppendQueued ==
    ASSUME NEW q \in Seq(Event), NEW e \in Event
    PROVE  /\ Queued(Append(q, "agw"))
           /\ Queued(q) => Queued(Append(q, e))
<1>1. Append(q, "agw")[Len(q) + 1] = "agw" /\ Len(q) + 1 \in DOMAIN Append(q, "agw")
  OBVIOUS
<1>2. \A i \in DOMAIN q : i \in DOMAIN Append(q, e) /\ Append(q, e)[i] = q[i]
  OBVIOUS
<1> QED
  BY <1>1, <1>2 DEF Queued

LEMMA TailEvents ==
    ASSUME NEW q \in Seq(Event), q # <<>>
    PROVE  /\ Head(q) \in Event
           /\ Tail(q) \in Seq(Event)
           /\ Len(Tail(q)) = Len(q) - 1
  OBVIOUS

LEMMA TailQueued ==
    ASSUME NEW q \in Seq(Event), q # <<>>, Head(q) # "agw", Queued(q)
    PROVE  Queued(Tail(q))
<1>1. PICK i \in DOMAIN q : q[i] = "agw"
  BY DEF Queued
<1>2. i # 1 /\ i - 1 \in DOMAIN Tail(q) /\ Tail(q)[i - 1] = q[i]
  BY <1>1
<1> QED
  BY <1>1, <1>2 DEF Queued

-----------------------------------------------------------------------------
(* The inductive invariant: what the engine's position says of the event   *)
(* at the head and of the link, and what the link says of the flag.        *)

EngineInv ==
    /\ pc \in {"send", "full"} => queue # <<>> /\ Head(queue) = "agw"
    /\ pc = "relogin" => queue # <<>> /\ Head(queue) \in {"agw", "connect"}
    /\ pc \in {"send", "relogin"} => link \in {"up", "dead"}
    /\ pc \in {"recv", "full"} => link = "closing"
    /\ link # "free" => flag = 1

IInv == TypeOK /\ EngineInv /\ SessionIsLive /\ ClaimIsBacked

LEMMA InitHolds == Init => IInv
<1> SUFFICES ASSUME Init PROVE IInv
  OBVIOUS
<1>1. queue \in Seq(Event) /\ Len(queue) <= QueueCap
  BY QueueCapAssumption DEF Init
<1>2. TypeOK
  BY <1>1 DEF Init, TypeOK
<1> QED
  BY <1>2 DEF Init, IInv, EngineInv, SessionIsLive, ClaimIsBacked

(* Opening the link from an event at the head. *)
LEMMA OpenedKeepsQueue ==
    ASSUME NEW q \in Seq(Event), q # <<>>, queue # <<>>, Head(q) = Head(queue),
           Len(q) <= QueueCap, Head(queue) \in {"agw", "connect"}, Opened(q)
    PROVE  /\ queue' \in Seq(Event)
           /\ Len(queue') <= QueueCap
           /\ pc' \in {"poll", "send"}
           /\ pc' = "send" => queue' # <<>> /\ Head(queue') = "agw"
           /\ Queued(q) => Queued(queue')
<1>0. Len(q) \in Nat /\ QueueCap \in Nat
  BY QueueCapAssumption
<1>1. CASE Head(queue) = "connect"
  <2>1. queue' = Tail(q) /\ pc' = "poll"
    BY <1>1 DEF Opened
  <2> QED
    BY <1>0, <1>1, <2>1, TailEvents, TailQueued
<1>2. CASE Head(queue) = "agw"
  BY <1>2 DEF Opened
<1> QED
  BY <1>1, <1>2

LEMMA ConsumedKeepsQueue ==
    ASSUME TypeOK, queue # <<>>, Consumed
    PROVE  /\ queue' \in Seq(Event)
           /\ Len(queue') <= QueueCap
           /\ pc' = "poll"
           /\ Head(queue) # "agw" /\ Queued(queue) => Queued(queue')
<1>0. queue \in Seq(Event) /\ Len(queue) \in Nat /\ Len(queue) <= QueueCap /\ QueueCap \in Nat
  BY QueueCapAssumption DEF TypeOK
<1> QED
  BY <1>0, TailEvents, TailQueued DEF Consumed

LEMMA AppendKeepsQueue ==
    ASSUME TypeOK, HasRoom, NEW e \in Event
    PROVE  /\ Append(queue, e) \in Seq(Event)
           /\ Len(Append(queue, e)) <= QueueCap
           /\ Append(queue, e) # <<>>
           /\ queue # <<>> => Head(Append(queue, e)) = Head(queue)
           /\ Queued(queue) => Queued(Append(queue, e))
           /\ Queued(Append(queue, "agw"))
<1>0. queue \in Seq(Event) /\ Len(queue) \in Nat /\ QueueCap \in Nat
  BY QueueCapAssumption DEF TypeOK
<1> QED
  BY <1>0, AppendEvent, AppendQueued DEF HasRoom

-----------------------------------------------------------------------------
(* Steps of user threads and of the timer. *)

LEMMA UserKeeps ==
    ASSUME IInv, NEW u \in Users, UserStep(u)
    PROVE  IInv'
<1> USE DEF IInv
<1>0. QueueCap \in Nat
  BY QueueCapAssumption
<1>1. CASE LoginCall(u)
  BY <1>1 DEF LoginCall, At, linkVars, TypeOK, EngineInv, SessionIsLive, ClaimIsBacked, Requested
<1>2. CASE Claim(u)
  <2>1. TypeOK'
    BY <1>2 DEF Claim, At, linkVars, TypeOK
  <2>2. EngineInv' /\ SessionIsLive'
    BY <1>2 DEF Claim, linkVars, EngineInv, SessionIsLive
  <2>3. upc'[u] = "check"
    BY <1>2 DEF Claim, At, TypeOK
  <2> QED
    BY <2>1, <2>2, <2>3 DEF ClaimIsBacked
<1>3. CASE NoClaim(u)
  BY <1>3 DEF NoClaim, At, linkVars, TypeOK, EngineInv, SessionIsLive, ClaimIsBacked, Requested
<1>4. CASE Check(u)
  <2>1. TypeOK'
    BY <1>4 DEF Check, At, linkVars, TypeOK
  <2>2. EngineInv' /\ SessionIsLive'
    BY <1>4 DEF Check, linkVars, EngineInv, SessionIsLive
  <2>3. agw' = 1 => upc'[u] = "deliver"
    BY <1>4 DEF Check, At, TypeOK
  <2> QED
    BY <2>1, <2>2, <2>3 DEF ClaimIsBacked
<1>5. CASE Deliver(u)
  <2>1. /\ queue' = Append(queue, "agw")
        /\ queue' \in Seq(Event) /\ Len(queue') <= QueueCap /\ queue' # <<>>
        /\ queue # <<>> => Head(queue') = Head(queue)
        /\ Queued(queue')
    BY <1>5, AppendKeepsQueue DEF Deliver, Event
  <2>2. TypeOK'
    BY <1>5, <2>1 DEF Deliver, At, linkVars, TypeOK
  <2>3. EngineInv' /\ SessionIsLive'
    BY <1>5, <2>1 DEF Deliver, linkVars, EngineInv, SessionIsLive
  <2> QED
    BY <2>1, <2>2, <2>3 DEF ClaimIsBacked, Requested, Queued
<1>6. CASE DeliverFull(u)
  <2>1. TypeOK'
    BY <1>6 DEF DeliverFull, At, linkVars, TypeOK
  <2>2. EngineInv' /\ SessionIsLive'
    BY <1>6 DEF DeliverFull, linkVars, EngineInv, SessionIsLive
  <2>3. upc'[u] = "full"
    BY <1>6 DEF DeliverFull, At, TypeOK
  <2> QED
    BY <2>1, <2>2, <2>3 DEF ClaimIsBacked
<1>7. CASE GiveUp(u)
  BY <1>7 DEF GiveUp, At, linkVars, TypeOK, EngineInv, SessionIsLive, ClaimIsBacked
<1>8. CASE WaitEnds(u)
  BY <1>8 DEF WaitEnds, At, linkVars, TypeOK, EngineInv, SessionIsLive, ClaimIsBacked
<1> QED
  BY <1>1, <1>2, <1>3, <1>4, <1>5, <1>6, <1>7, <1>8 DEF UserStep

LEMMA TimerKeeps == IInv /\ Timer => IInv'
<1> SUFFICES ASSUME IInv, Timer PROVE IInv'
  OBVIOUS
<1> USE DEF IInv
<1>1. PICK e \in Event : queue' = Append(queue, e)
  BY DEF Timer, Event
<1>2. /\ queue' \in Seq(Event) /\ Len(queue') <= QueueCap /\ queue' # <<>>
      /\ queue # <<>> => Head(queue') = Head(queue)
      /\ Queued(queue) => Queued(queue')
  BY <1>1, AppendKeepsQueue DEF Timer
<1>3. TypeOK' /\ EngineInv' /\ SessionIsLive'
  BY <1>2 DEF Timer, linkVars, TypeOK, EngineInv, SessionIsLive
<1> QED
  BY <1>2, <1>3 DEF Timer, linkVars, ClaimIsBacked, Requested, Queued

-----------------------------------------------------------------------------
(* Steps of the engine that open the link. *)

LEMMA OpenKeeps ==
    ASSUME IInv, OpenClaims \/ Opens \/ Relogin \/ ReloginFull \/ OpenFailed
    PROVE  IInv'
<1> USE DEF IInv
<1>0. /\ queue \in Seq(Event) /\ Len(queue) \in Nat /\ Len(queue) <= QueueCap
      /\ QueueCap \in Nat
  BY QueueCapAssumption DEF TypeOK
<1>1. CASE OpenClaims
  <2>1. Head(queue) \in {"agw", "connect"}
    BY <1>1 DEF OpenClaims, AtHead
  <2>2. TypeOK'
    BY <1>1 DEF OpenClaims, Connected, TypeOK
  <2> QED
    BY <1>1, <2>1, <2>2
    DEF OpenClaims, AtHead, Connected, EngineInv, SessionIsLive, ClaimIsBacked
<1>2. CASE Opens
  <2>1. queue # <<>> /\ Head(queue) \in {"agw", "connect"} /\ Opened(queue)
    BY <1>2 DEF Opens, AtHead
  <2>2. /\ queue' \in Seq(Event) /\ Len(queue') <= QueueCap
        /\ pc' \in {"poll", "send"}
        /\ pc' = "send" => queue' # <<>> /\ Head(queue') = "agw"
        /\ Queued(queue) => Queued(queue')
    BY <1>0, <2>1, OpenedKeepsQueue
  <2>3. TypeOK'
    BY <1>2, <2>2 DEF Opens, Connected, TypeOK
  <2>4. agw # 2
    BY <1>2 DEF Opens, SessionIsLive
  <2>5. EngineInv' /\ SessionIsLive'
    BY <1>2, <2>2, <2>4 DEF Opens, Connected, EngineInv, SessionIsLive
  <2>6. ClaimIsBacked'
    BY <1>2, <2>2 DEF Opens, AtHead, ClaimIsBacked, Requested, Queued
  <2> QED
    BY <2>3, <2>5, <2>6
<1>3. CASE Relogin
  <2>1. queue # <<>> /\ Head(queue) \in {"agw", "connect"} /\ link \in {"up", "dead"}
    BY <1>3 DEF Relogin, EngineInv
  <2>2. /\ queue' \in Seq(Event) /\ Len(queue') <= QueueCap
        /\ pc' \in {"poll", "send"}
        /\ pc' = "send" => queue' # <<>> /\ Head(queue') = "agw"
        /\ agw # 2 => Queued(queue')
    <3>1. CASE agw = 2
      BY <1>0, <1>3, <2>1, <3>1, OpenedKeepsQueue DEF Relogin
    <3>2. CASE agw # 2
      <4>1. HasRoom /\ Opened(Append(queue, "agw"))
        BY <1>3, <3>2 DEF Relogin
      <4>2. /\ Append(queue, "agw") \in Seq(Event)
            /\ Len(Append(queue, "agw")) <= QueueCap
            /\ Append(queue, "agw") # <<>>
            /\ Head(Append(queue, "agw")) = Head(queue)
            /\ Queued(Append(queue, "agw"))
        BY <2>1, <4>1, AppendKeepsQueue DEF Event
      <4> QED
        BY <2>1, <4>1, <4>2, OpenedKeepsQueue
    <3> QED
      BY <3>1, <3>2
  <2>3. TypeOK'
    BY <1>3, <2>2 DEF Relogin, linkVars, TypeOK
  <2>4. EngineInv' /\ SessionIsLive'
    BY <1>3, <2>1, <2>2 DEF Relogin, linkVars, EngineInv, SessionIsLive
  <2>5. ClaimIsBacked'
    BY <1>3, <2>2 DEF Relogin, ClaimIsBacked, Requested, Queued
  <2> QED
    BY <2>3, <2>4, <2>5
<1>4. CASE ReloginFull
  <2>1. CASE Head(queue) = "connect"
    <3>1. queue # <<>> /\ Consumed
      BY <1>4, <2>1 DEF ReloginFull, EngineInv
    <3> QED
      BY <1>4, <3>1, ConsumedKeepsQueue
      DEF ReloginFull, TypeOK, EngineInv, SessionIsLive, ClaimIsBacked
  <2>2. CASE Head(queue) # "connect"
    BY <1>4, <2>2 DEF ReloginFull, TypeOK, EngineInv, SessionIsLive, ClaimIsBacked
  <2> QED
    BY <2>1, <2>2
<1>5. CASE OpenFailed
  <2>1. queue # <<>> /\ Consumed /\ link = "closing"
    BY <1>5 DEF OpenFailed, EngineInv
  <2>2. agw' \in 0 .. 2 /\ agw' # 1 /\ link' = "closing" /\ (agw' = 2 => agw = 2)
    BY <1>5, <2>1 DEF OpenFailed, ErrorAgwuser, Closing, TypeOK
  <2> QED
    BY <1>5, <2>1, <2>2, ConsumedKeepsQueue
    DEF OpenFailed, TypeOK, EngineInv, SessionIsLive, ClaimIsBacked
<1> QED
  BY <1>1, <1>2, <1>3, <1>4, <1>5

-----------------------------------------------------------------------------
(* The other steps of the engine. *)

LEMMA FailureEndsClaim ==
    ASSUME TypeOK, ErrorAgwuser
    PROVE  /\ agw' \in 0 .. 2 /\ agw' # 1
           /\ agw' = 2 => agw = 2 /\ link' = link
           /\ link' \in {link, "closing"}
           /\ link = "free" => link' = "free"
  BY DEF ErrorAgwuser, Closing, TypeOK

LEMMA SendingIsLogin ==
    ASSUME TypeOK, EngineInv, Sending
    PROVE  queue # <<>> /\ Head(queue) = "agw" /\ link # "free"
  BY DEF Sending, AtHead, EngineInv

LEMMA EventKeeps ==
    ASSUME IInv,
           \/ ConnectFails \/ ConnectIdle \/ CloseEvent \/ MsgEvent
           \/ LoginSent \/ LoginSendFails
    PROVE  IInv'
<1> USE DEF IInv
<1>1. CASE ConnectFails
  <2>1. queue # <<>> /\ Consumed /\ link = "free"
    BY <1>1 DEF ConnectFails, AtHead
  <2>2. /\ agw' \in 0 .. 2 /\ link' = "free" /\ agw' # 2
        /\ Head(queue) = "agw" => agw' # 1
        /\ Head(queue) # "agw" => agw' = agw
    <3>1. agw \in 0 .. 2 /\ agw # 2
      BY <2>1 DEF TypeOK, SessionIsLive
    <3>2. CASE Head(queue) = "agw"
      BY <1>1, <2>1, <3>1, <3>2, FailureEndsClaim DEF ConnectFails
    <3>3. CASE Head(queue) # "agw"
      BY <1>1, <2>1, <3>1, <3>3 DEF ConnectFails
    <3> QED
      BY <3>2, <3>3
  <2>3. queue' \in Seq(Event) /\ Len(queue') <= QueueCap /\ pc' = "poll"
    BY <2>1, ConsumedKeepsQueue
  <2>4. TypeOK'
    BY <1>1, <2>2, <2>3 DEF ConnectFails, TypeOK
  <2>5. EngineInv' /\ SessionIsLive'
    BY <2>2, <2>3 DEF EngineInv, SessionIsLive
  <2>6. ClaimIsBacked'
    <3> SUFFICES ASSUME agw' = 1 PROVE ClaimIsBacked'
      BY DEF ClaimIsBacked
    <3>1. agw = 1 /\ Head(queue) # "agw"
      BY <2>2
    <3>2. Queued(queue) => Queued(queue')
      BY <2>1, <3>1, ConsumedKeepsQueue
    <3> QED
      BY <1>1, <2>1, <3>1, <3>2
      DEF ConnectFails, AtHead, ClaimIsBacked, Requested, Queued
  <2> QED
    BY <2>4, <2>5, <2>6
<1>2. CASE ConnectIdle \/ MsgEvent
  <2>1. /\ queue # <<>> /\ Consumed /\ Head(queue) # "agw" /\ pc = "poll"
        /\ UNCHANGED <<agw, okOnce, flag, link, out, session, upc>>
    BY <1>2 DEF ConnectIdle, MsgEvent, AtHead, linkVars
  <2>2. /\ queue' \in Seq(Event) /\ Len(queue') <= QueueCap /\ pc' = "poll"
        /\ Queued(queue) => Queued(queue')
    BY <2>1, ConsumedKeepsQueue
  <2>3. TypeOK' /\ EngineInv' /\ SessionIsLive'
    BY <2>1, <2>2 DEF TypeOK, EngineInv, SessionIsLive
  <2> QED
    BY <2>1, <2>2, <2>3 DEF ClaimIsBacked, Requested, Queued
<1>3. CASE CloseEvent
  <2>1. /\ queue # <<>> /\ Consumed /\ Head(queue) # "agw" /\ pc = "poll"
        /\ link' = IF link = "free" THEN "free" ELSE "closing"
        /\ UNCHANGED <<agw, okOnce, flag, out, session, upc>>
    BY <1>3 DEF CloseEvent, AtHead, Closing
  <2>2. /\ queue' \in Seq(Event) /\ Len(queue') <= QueueCap /\ pc' = "poll"
        /\ Queued(queue) => Queued(queue')
    BY <2>1, ConsumedKeepsQueue
  <2>3. TypeOK' /\ EngineInv' /\ SessionIsLive'
    BY <2>1, <2>2 DEF TypeOK, EngineInv, SessionIsLive
  <2> QED
    BY <2>1, <2>2, <2>3 DEF ClaimIsBacked, Requested, Queued
<1>4. CASE LoginSent
  <2>1. queue # <<>> /\ Consumed
    BY <1>4, SendingIsLogin DEF LoginSent
  <2>2. queue' \in Seq(Event) /\ Len(queue') <= QueueCap /\ pc' = "poll"
    BY <2>1, ConsumedKeepsQueue
  <2>3. out' \in Nat /\ (link = "up" => out' > 0)
    BY <1>4 DEF LoginSent, TypeOK
  <2>4. TypeOK' /\ EngineInv' /\ SessionIsLive'
    BY <1>4, <2>2, <2>3 DEF LoginSent, TypeOK, EngineInv, SessionIsLive
  <2> QED
    BY <1>4, <2>3, <2>4 DEF LoginSent, ClaimIsBacked, Requested
<1>5. CASE LoginSendFails
  <2>1. queue # <<>> /\ Consumed /\ link # "free"
    BY <1>5, SendingIsLogin DEF LoginSendFails
  <2>2. queue' \in Seq(Event) /\ Len(queue') <= QueueCap /\ pc' = "poll"
    BY <2>1, ConsumedKeepsQueue
  <2>3. /\ agw' \in 0 .. 2 /\ agw' # 1
        /\ agw' = 2 => agw = 2 /\ link' = link
        /\ link' \in {link, "closing"}
    BY <1>5, FailureEndsClaim DEF LoginSendFails
  <2>4. TypeOK'
    BY <1>5, <2>2, <2>3 DEF LoginSendFails, TypeOK
  <2> QED
    BY <1>5, <2>1, <2>2, <2>3, <2>4
    DEF LoginSendFails, EngineInv, SessionIsLive, ClaimIsBacked
<1> QED
  BY <1>1, <1>2, <1>3, <1>4, <1>5

-----------------------------------------------------------------------------
(* Receiving and closing. *)

LEMMA AnswerKeeps == IInv /\ Answer => IInv'
<1> SUFFICES ASSUME IInv, Answer PROVE IInv'
  OBVIOUS
<1> USE DEF IInv
<1>0. link \in {"up", "closing"} /\ flag = 1 /\ out > 0 /\ out - 1 \in Nat
  BY DEF Answer, AnswerOk, AnswerSyncFails, Receiving, EngineInv, TypeOK
<1>1. CASE AnswerOk
  <2>1. /\ queue' \in Seq(Event) /\ Len(queue') <= QueueCap
        /\ queue # <<>> => queue' # <<>> /\ Head(queue') = Head(queue)
    <3>1. CASE Sync
      BY <1>1, <3>1, AppendKeepsQueue DEF AnswerOk, Event
    <3>2. CASE ~Sync
      BY <1>1, <3>2 DEF AnswerOk, TypeOK
    <3> QED
      BY <3>1, <3>2
  <2>2. TypeOK'
    BY <1>0, <1>1, <2>1 DEF AnswerOk, TypeOK
  <2> QED
    BY <1>0, <1>1, <2>1, <2>2
    DEF AnswerOk, EngineInv, SessionIsLive, ClaimIsBacked
<1>2. CASE AnswerSyncFails
  <2>1. TypeOK'
    BY <1>0, <1>2 DEF AnswerSyncFails, TypeOK
  <2> QED
    BY <1>0, <1>2, <2>1
    DEF AnswerSyncFails, EngineInv, SessionIsLive, ClaimIsBacked, TypeOK
<1> QED
  BY <1>1, <1>2 DEF Answer

LEMMA LinkKeeps ==
    ASSUME IInv, PeerLogout \/ BufferEnds \/ Breaks \/ BreakSeen \/ LinkClosed
    PROVE  IInv'
<1> USE DEF IInv
<1>1. CASE PeerLogout
  <2>1. link \in {"up", "closing"} /\ flag = 1
    BY <1>1 DEF PeerLogout, Receiving, EngineInv
  <2> QED
    BY <1>1, <2>1 DEF PeerLogout, TypeOK, EngineInv, SessionIsLive, ClaimIsBacked
<1>2. CASE BufferEnds
  BY <1>2 DEF BufferEnds, linkVars, TypeOK, EngineInv, SessionIsLive, ClaimIsBacked
<1>3. CASE Breaks
  BY <1>3 DEF Breaks, TypeOK, EngineInv, SessionIsLive, ClaimIsBacked
<1>4. CASE BreakSeen
  BY <1>4 DEF BreakSeen, TypeOK, EngineInv, SessionIsLive, ClaimIsBacked
<1>5. CASE LinkClosed
  BY <1>5 DEF LinkClosed, TypeOK, EngineInv, SessionIsLive, ClaimIsBacked
<1> QED
  BY <1>1, <1>2, <1>3, <1>4, <1>5

LEMMA StutterKeeps == IInv /\ UNCHANGED vars => IInv'
  BY DEF vars, IInv, TypeOK, EngineInv, SessionIsLive, ClaimIsBacked, Requested

LEMMA NextKeeps == IInv /\ [Next]_vars => IInv'
<1> SUFFICES ASSUME IInv, [Next]_vars PROVE IInv'
  OBVIOUS
<1>1. ASSUME NEW u \in Users, UserStep(u) PROVE IInv'
  BY <1>1, UserKeeps
<1>2. CASE Engine
  BY <1>2, OpenKeeps, EventKeeps, LinkKeeps DEF Engine
<1> QED
  BY <1>1, <1>2, TimerKeeps, AnswerKeeps, LinkKeeps, StutterKeeps DEF Next

-----------------------------------------------------------------------------
(* The position of the engine and the link fit together in every reachable *)
(* state, and every variable keeps its type.                               *)
THEOREM InvariantHolds == Spec => []IInv
  BY InitHolds, NextKeeps, PTL DEF Spec

THEOREM TypeCorrect == Spec => []TypeOK
<1>1. IInv => TypeOK
  BY DEF IInv
<1> QED
  BY <1>1, InvariantHolds, PTL

(* counter98 lets an order through on agw_login_state = 2: the counter has *)
(* then accepted a login on the connection the link has now.               *)
THEOREM SessionLives == Spec => []SessionIsLive
<1>1. IInv => SessionIsLive
  BY DEF IInv
<1> QED
  BY <1>1, InvariantHolds, PTL

(* A state left in flight by whatever mix of users, timeouts, late answers *)
(* and reconnections still has something that will end it.                 *)
THEOREM ClaimsAreBacked == Spec => []ClaimIsBacked
<1>1. IInv => ClaimIsBacked
  BY DEF IInv
<1> QED
  BY <1>1, InvariantHolds, PTL
=============================================================================
