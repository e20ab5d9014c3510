------------------------ MODULE EngineDuties_proofs ------------------------
(***************************************************************************)
(* What the threads of EngineLinks owe each other, proved on the invariant *)
(* of EngineLinks_proofs: the counter is told of every link that opened    *)
(* and of every one that is gone, a closing link's removal is queued and   *)
(* the engine will see it, and a thread that is joined has been told to    *)
(* end.  These are the safety halves of ClosingEnds and ChargeEnds.        *)
(***************************************************************************)
EXTENDS EngineLinks_proofs, FiniteSetTheorems, Integers

USE ThreadAssumption, LinkAssumption, BoundAssumption

-----------------------------------------------------------------------------
(* Reports: a polled link is one the counter has been told of, or is about *)
(* to be told of; del_wake reports the end of such links only.             *)

Telling(l) == \E x \in Threads : pc[x] = "tell" /\ At(x) = l

Reports ==
    /\ \A x \in Threads : pc[x] = "tell" => ~linked[At(x)]
    /\ \A l \in Links : InEntry(l) => linked[l] /\ ~polled[l]
    /\ \A l \in Links : polled[l] => linked[l] \/ Telling(l)

LEMMA OneOpener ==
    ASSUME Control, NEW x \in Threads, pc[x] \in OpenPcs \/ (x = Engine /\ pc[x] # "off")
    PROVE  \A y \in Threads \ {x} : pc[y] \notin OpenPcs
<1> TAKE y \in Threads \ {x}
<1>1. CASE x = Engine
  BY <1>1 DEF Control, PhaseInv, PhaseOf, QuietPcs, Threads, OpenPcs
<1>2. CASE x \in Users
  <2>1. PhaseOf(x) /\ pc[x] \in OpenPcs
    BY <1>2 DEF Control, PhaseInv
  <2>2. pc[Engine] = "off" /\ pc[x] # "idle"
    BY <2>1 DEF PhaseOf, QuietPcs, OpenPcs
  <2>3. Alone(x)
    BY <1>2, <2>2, InChargeAlone
  <2> QED
    BY <2>2, <2>3 DEF Alone, Threads, OpenPcs
<1> QED
  BY <1>1, <1>2 DEF Threads

(* A step that tells the counter nothing and adds nothing to the set. *)
LEMMA ReportsKept ==
    ASSUME Reports, UNCHANGED linked, \A k \in Links : polled'[k] => polled[k],
           \A k \in Links : InEntry(k)' => InEntry(k),
           \A y \in Threads : /\ pc'[y] = "tell" <=> pc[y] = "tell"
                              /\ pc[y] = "tell" => job'[y] = job[y]
    PROVE  Reports'
<1>1. \A y \in Threads : pc[y] = "tell" => At(y)' = At(y)
  BY DEF At
<1>2. \A k \in Links : Telling(k) => Telling(k)'
  BY <1>1 DEF Telling
<1> QED
  BY <1>1, <1>2 DEF Reports

(* A step of one thread that is not at "tell" before or afterwards. *)
LEMMA ReportsKeptBy ==
    ASSUME Reports, UNCHANGED linked, \A k \in Links : polled'[k] => polled[k],
           \A k \in Links : InEntry(k)' => InEntry(k),
           NEW x \in Threads, Keeps(x), pc[x] # "tell", pc'[x] # "tell"
    PROVE  Reports'
<1>1. \A y \in Threads : /\ pc'[y] = "tell" <=> pc[y] = "tell"
                         /\ pc[y] = "tell" => job'[y] = job[y]
  BY DEF Keeps
<1> QED
  BY <1>1, ReportsKept

(* Opening and removing links takes del_wake into no entry. *)
LEMMA LinkStepEntry ==
    ASSUME Control, NEW x \in Threads, LinkStep(x)
    PROVE  \A k \in Links : InEntry(k)' => InEntry(k)
<1>1. /\ Keeps(x) /\ MovedOn(x) /\ pc[x] \in LinkPcs /\ DelsKept
      /\ UNCHANGED <<done, known>>
  BY LinkStepMoves
<1>2. AtEntry => dels'[done + 1] = dels[done + 1]
  BY <1>1, EntryInBounds DEF DelsKept
<1>3. AtEntry' => AtEntry
  <2>1. CASE x = Engine
    <3>1. After(Engine, TRUE) = "round" /\ After(Engine, FALSE) = "round"
      BY DEF After
    <3> QED
      BY <1>1, <2>1, <3>1 DEF MovedOn, AtEntry, LinkPcs, OpenPcs, ClosePcs, Control, EntryInv
  <2>2. CASE x \in Users
    BY <1>1, <2>2, UserKeeps DEF AtEntry
  <2> QED
    BY <2>1, <2>2 DEF Threads
<1> QED
  BY <1>1, <1>2, <1>3 DEF InEntry

(* Only the end of add_wake leads to the report of a new link. *)
LEMMA NotToTell ==
    ASSUME Control, NEW x \in Threads, LinkStep(x), ~AddWake(x), ~Tell(x)
    PROVE  pc[x] # "tell" /\ pc'[x] # "tell"
<1>1. ControlOK /\ At(x) \in Links
  BY DEF Control, ControlOK, At, Job
<1>2. ASSUME NEW from, NEW to \in PcsOf(x), Goes(x, from, to) PROVE pc[x] = from /\ pc'[x] = to
  BY <1>1, <1>2, GoesOK
<1>3. /\ \A ok \in BOOLEAN : After(x, ok) \in PcsOf(x) /\ After(x, ok) \notin LinkPcs
      /\ {"socket", "end_init", "add_ref", "add", "fail"} \subseteq PcsOf(x)
  BY AfterIs DEF PcsOf, LinkPcs, OpenPcs
<1>5. \A ok \in BOOLEAN : After(x, ok) \in UserPcs \cup EnginePcs /\ After(x, ok) # "tell"
  BY <1>3 DEF PcsOf, LinkPcs, OpenPcs
<1>4. ASSUME NEW l \in Links, Begins(x, "destroy", l, After(x, FALSE), FALSE)
      PROVE  pc'[x] # "tell"
  <2>1. /\ ControlOK' /\ Keeps(x) /\ pc'[x] = "destroy" /\ job'[x].link = l
        /\ job'[x].back = After(x, FALSE)
    BY <1>1, <1>4, <1>5, TurnsTo
  <2> QED
    BY <2>1
<1>a. ASSUME NEW from, from # "tell",
             \/ Goes(x, from, After(x, TRUE)) \/ Goes(x, from, After(x, FALSE))
             \/ Goes(x, from, "socket")
      PROVE  pc[x] # "tell" /\ pc'[x] # "tell"
  <2>1. After(x, TRUE) \in PcsOf(x) /\ After(x, FALSE) \in PcsOf(x) /\ "socket" \in PcsOf(x)
    BY <1>3
  <2> QED
    BY <1>2, <1>5, <1>a, <2>1
<1>6. CASE Remove(x) \/ DropRemoval(x) \/ Destroy(x)
  <2>1. pc[x] \in ClosePcs /\ MovedOn(x)
    BY <1>6, LinkStepMoves DEF Remove, DropRemoval, Destroy, Goes, ClosePcs
  <2>2. job[x].back \notin LinkPcs
    BY <2>1, BackIs DEF Control
  <2> QED
    BY <2>1, <2>2 DEF MovedOn, ClosePcs, OpenPcs, LinkPcs
<1>7. CASE Connect(x)
  BY <1>7, <1>a DEF Connect
<1>8. CASE Socket(x)
  <2>1. CASE Goes(x, "socket", "end_init")
    BY <1>2, <1>3, <2>1
  <2> QED
    BY <1>8, <1>a, <2>1 DEF Socket
<1>9. CASE EndOfInit(x)
  <2>1. CASE Goes(x, "end_init", "add_ref")
    BY <1>2, <1>3, <2>1
  <2>2. CASE Begins(x, "destroy", At(x), After(x, FALSE), FALSE)
    BY <1>1, <1>4, <1>9, <2>2 DEF EndOfInit
  <2> QED
    BY <1>9, <2>1, <2>2 DEF EndOfInit
<1>10. CASE TakeRef(x)
  BY <1>2, <1>3, <1>10 DEF TakeRef
<1>11. CASE AddFailed(x)
  <2>1. CASE Goes(x, "sub_ref", "fail")
    BY <1>2, <1>3, <2>1
  <2>2. CASE Begins(x, "destroy", At(x), After(x, FALSE), FALSE)
    BY <1>1, <1>4, <1>11, <2>2 DEF AddFailed, GiveUpRef
  <2> QED
    BY <1>11, <2>1, <2>2 DEF AddFailed, GiveUpRef
<1>12. CASE Fail(x)
  <2>1. pc[x] = "fail" /\ Closes(x, At(x), After(x, FALSE))
    BY <1>1, <1>3, <1>12, CloseChOK DEF Fail
  <2> QED
    BY <1>5, <2>1 DEF Closes
<1> QED
  BY <1>6, <1>7, <1>8, <1>9, <1>10, <1>11, <1>12 DEF LinkStep

LEMMA LinkStepReports ==
    ASSUME Control, Refs, Reports, NEW x \in Threads, LinkStep(x)
    PROVE  Reports'
<1>0. PICK l \in Links : l = At(x)
  BY DEF Control, ControlOK, At, Job
<1>1. Keeps(x) /\ \A k \in Links : InEntry(k)' => InEntry(k)
  BY LinkStepMoves, LinkStepEntry
<1>2. LinksOK
  BY DEF Refs
<1>3. CASE AddWake(x)
  <2>0. pc[x] = "add" /\ UNCHANGED linked
    BY <1>3 DEF AddWake, Goes
  <2>1. CASE Goes(x, "add", "tell") /\ polled' = [polled EXCEPT ![l] = TRUE]
    <3>1. pc'[x] = "tell" /\ job'[x] = job[x]
      BY <2>1, GoesOK DEF Control, PcsOf, LinkPcs, OpenPcs
    <3>2. ~linked[l] /\ ~InEntry(l) /\ \A y \in Threads \ {x} : pc'[y] # "tell"
      <4>1. pc[x] \in OpenPcs
        BY <2>0 DEF OpenPcs
      <4> QED
        BY <1>0, <1>1, <2>0, <4>1, OneOpener, OpenerNoEntry
           DEF Refs, OpenerRef, InEntry, OpenPcs, Keeps
    <3>3. At(x)' = l /\ Telling(l)'
      BY <1>0, <3>1 DEF At, Telling
    <3>4. \A k \in Links \ {l} : polled'[k] = polled[k] /\ ~Telling(k)
      BY <1>0, <1>1, <1>2, <2>0, <2>1, <3>2 DEF LinksOK, Telling, Keeps
    <3> QED
      BY <1>0, <1>1, <2>0, <3>1, <3>2, <3>3, <3>4 DEF Reports
  <2>2. CASE Goes(x, "add", "sub_ref") /\ UNCHANGED polled
    <3>1. pc'[x] = "sub_ref"
      BY <2>2, GoesOK DEF Control, PcsOf, LinkPcs, OpenPcs
    <3> QED
      BY <1>1, <2>0, <2>2, <3>1, ReportsKeptBy
  <2> QED
    BY <1>0, <1>3, <2>1, <2>2 DEF AddWake
<1>4. CASE Tell(x)
  <2>1. pc[x] = "tell" /\ UNCHANGED polled /\ linked' = [linked EXCEPT ![l] = TRUE]
    BY <1>0, <1>4 DEF Tell, Goes
  <2>2. \A y \in Threads \ {x} : pc[y] # "tell" /\ pc'[y] # "tell"
    <3>1. pc[x] \in OpenPcs
      BY <2>1 DEF OpenPcs
    <3> QED
      BY <1>1, <3>1, OneOpener DEF OpenPcs, Keeps
  <2>3. pc'[x] # "tell"
    <3>1. /\ \A ok \in BOOLEAN : After(x, ok) \in PcsOf(x) /\ After(x, ok) \notin LinkPcs
          /\ "fail" \in PcsOf(x)
      BY AfterIs DEF PcsOf, LinkPcs, OpenPcs
    <3>2. \A ok \in BOOLEAN : After(x, ok) # "tell"
      BY <3>1 DEF LinkPcs, OpenPcs
    <3>3. Goes(x, "tell", After(x, TRUE)) \/ Goes(x, "tell", "fail")
      BY <1>4 DEF Tell
    <3>4. pc'[x] \in {After(x, TRUE), "fail"}
      BY <3>1, <3>3, GoesOK DEF Control
    <3> QED
      BY <3>2, <3>4
  <2>4. linked'[l] /\ \A k \in Links \ {l} : linked'[k] = linked[k]
    BY <1>2, <2>1 DEF LinksOK
  <2>5. \A k \in Links \ {l} : ~Telling(k)
    BY <1>0, <2>2 DEF Telling
  <2> QED
    BY <1>1, <2>1, <2>2, <2>3, <2>4, <2>5 DEF Reports
<1>5. CASE ~AddWake(x) /\ ~Tell(x)
  <2>1. UNCHANGED linked /\ \A k \in Links : polled'[k] => polled[k]
    BY <1>2, <1>5 DEF LinkStep, Remove, DropRemoval, Destroy, Connect, Socket, EndOfInit, TakeRef,
           AddFailed, GiveUpRef, Fail, CloseCh, linkVars, LinksOK
  <2> QED
    BY <1>1, <1>5, <2>1, NotToTell, ReportsKeptBy
<1> QED
  BY <1>3, <1>4, <1>5

LEMMA EngineReports == ASSUME Control, Refs, Reports, EngineStep PROVE Reports'
<1>1. /\ Engine \in Threads /\ Keeps(Engine) /\ ControlOK /\ ControlOK' /\ pc[Engine] # "off"
  BY EngineMoves DEF Threads, Control
<1>2. LinksOK
  BY DEF Refs
<1>3. \A y \in Threads : pc[y] = "tell" => y = Engine
  BY <1>1, OneOpener DEF OpenPcs
<1>4. ASSUME UNCHANGED linked, \A k \in Links : polled'[k] => polled[k], ~AtEntry',
             pc[Engine] # "tell", pc'[Engine] # "tell"
      PROVE  Reports'
  <2>1. \A k \in Links : ~InEntry(k)'
    BY <1>4 DEF InEntry
  <2> QED
    BY <1>1, <1>4, <2>1, ReportsKeptBy
<1>5. CASE \/ ToStop \/ EpollWait \/ QueueEvent \/ RoundDone \/ ChangeEvent
           \/ MoreEntries \/ NoMoreEntries \/ Reset
  <2>1. UNCHANGED linkVars
    BY <1>5 DEF ToStop, EpollWait, QueueEvent, RoundDone, ChangeEvent, MoreEntries, NoMoreEntries, Reset
  <2>2. /\ pc[Engine] \in {"batch", "round", "entry", "reset"}
        /\ pc'[Engine] \in {"batch", "round", "entry", "reset", "off"}
    BY <1>1, <1>5 DEF ToStop, EpollWait, QueueEvent, RoundDone, ChangeEvent, MoreEntries,
       NoMoreEntries, Reset, Goes, ControlOK, ctlVars
  <2> QED
    BY <1>4, <2>1, <2>2 DEF AtEntry, linkVars
<1>6. CASE \E l \in Links : LinkEvent(l) \/ Event(l)
  <2>1. PICK l \in Links : LinkEvent(l) \/ Event(l)
    BY <1>6
  <2>2. pc[Engine] \in {"batch", "round"} /\ UNCHANGED <<polled, linked>>
    BY <2>1 DEF LinkEvent, Event, CloseCh, linkVars
  <2>3. pc'[Engine] # "tell" /\ ~AtEntry'
    <3>1. ASSUME NEW b \in {"batch", "round"}, pc[Engine] = b, CloseCh(Engine, l, b)
          PROVE  pc'[Engine] # "tell" /\ ~AtEntry'
      BY <3>1, EngineClose DEF AtEntry, ClosePcs
    <3>2. CASE UNCHANGED ctlVars \/ Begins(Engine, "connect", l, "round", FALSE)
      BY <1>1, <2>2, <3>2 DEF Begins, ControlOK, ctlVars, AtEntry
    <3> QED
      BY <2>1, <3>1, <3>2 DEF LinkEvent, Event
  <2> QED
    BY <1>4, <2>2, <2>3
<1>7. CASE Entry
  <2>0. pc[Engine] = "entry" /\ done < known /\ UNCHANGED <<linked, dels>>
    BY <1>7 DEF Entry
  <2>1. PICK l \in Links : l = dels[done + 1]
    BY <2>0, EntryInBounds
  <2>2. CASE polled[l] /\ Goes(Engine, "entry", "end_poll") /\ polled' = [polled EXCEPT ![l] = FALSE] /\ UNCHANGED done
    <3>1. pc'[Engine] = "end_poll"
      BY <1>1, <2>2 DEF Goes, ControlOK
    <3>2. ~polled'[l] /\ \A j \in Links \ {l} : polled'[j] = polled[j]
      BY <1>2, <2>2 DEF LinksOK
    <3>3. \A y \in Threads : pc[y] # "tell" /\ pc'[y] # "tell"
      BY <1>1, <1>3, <2>0, <3>1 DEF Keeps
    <3>4. linked[l]
      BY <2>2, <3>3 DEF Reports, Telling
    <3>5. \A j \in Links : InEntry(j)' => j = l
      BY <2>0, <2>1, <2>2 DEF InEntry
    <3> QED
      BY <2>0, <3>2, <3>3, <3>4, <3>5 DEF Reports, Telling
  <2>3. CASE UNCHANGED <<polled, ctlVars>>
    BY <1>4, <2>0, <2>3 DEF ctlVars, AtEntry
  <2> QED
    BY <1>7, <2>1, <2>2, <2>3 DEF Entry
<1>8. CASE EndPoll
  <2>0. pc[Engine] = "end_poll" /\ UNCHANGED <<polled, linked, dels, done>>
    BY <1>8 DEF EndPoll, GiveUpRef, pollVars
  <2>1. PICK l \in Links : l = dels[done + 1]
    BY <2>0, EntryInBounds DEF AtEntry
  <2>2. pc'[Engine] \in {"recv_stop", "destroy"}
    <3>1. CASE Begins(Engine, "destroy", l, "recv_stop", FALSE)
      BY <1>1, <3>1 DEF Begins, ControlOK
    <3> QED
      BY <1>1, <1>8, <2>1, <3>1 DEF EndPoll, GiveUpRef, Goes, ControlOK
  <2>3. \A j \in Links : InEntry(j)' => InEntry(j)
    BY <2>0 DEF InEntry, AtEntry
  <2> QED
    BY <1>1, <2>0, <2>2, <2>3, ReportsKeptBy
<1>9. CASE RecvStop
  <2>0. /\ pc[Engine] = "recv_stop" /\ pc'[Engine] = "entry" /\ UNCHANGED polled
        /\ linked' = [linked EXCEPT ![dels[done + 1]] = FALSE]
    BY <1>1, <1>9 DEF RecvStop, Goes, ControlOK
  <2>1. PICK l \in Links : l = dels[done + 1]
    BY <2>0, EntryInBounds DEF AtEntry
  <2>2. ~polled[l]
    BY <2>0, <2>1 DEF Reports, InEntry, AtEntry
  <2>3. \A y \in Threads : pc[y] # "tell" /\ pc'[y] # "tell"
    BY <1>1, <1>3, <2>0 DEF Keeps
  <2>4. \A j \in Links \ {l} : linked'[j] = linked[j]
    BY <1>2, <2>0, <2>1 DEF LinksOK
  <2>5. \A j \in Links : ~InEntry(j)'
    BY <2>0 DEF InEntry, AtEntry
  <2> QED
    BY <2>0, <2>2, <2>3, <2>4, <2>5 DEF Reports, Telling
<1>10. CASE LinkStep(Engine)
  BY <1>1, <1>10, LinkStepReports
<1> QED
  BY <1>5, <1>6, <1>7, <1>8, <1>9, <1>10 DEF EngineStep

LEMMA UserReports ==
    ASSUME Control, Refs, Reports, NEW u \in Users, Start(u) \/ Stop(u) \/ UserStep(u)
    PROVE  Reports'
<1>0. u \in Threads /\ u # Engine /\ ControlOK
  BY DEF Threads, Control
<1>1. CASE LinkStep(u)
  BY <1>0, <1>1, LinkStepReports
<1>2. CASE Run(u)
  <2>1. /\ pc[u] = "run" /\ UNCHANGED linked /\ \A k \in Links : polled'[k] => polled[k]
    BY <1>2 DEF Run, Goes
  <2>2. pc[Engine] = "off" /\ pc'[Engine] \in {"off", "batch"} /\ Alone(u) /\ pc'[u] \in {"fast", "undo"}
    BY <1>0, <1>2, <2>1, InChargeAlone
       DEF Control, PhaseInv, PhaseOf, QuietPcs, Run, Goes, ControlOK, Threads
  <2>3. \A v \in Users \ {u} : pc[v] = "idle" /\ pc'[v] = "idle"
    BY <1>0, <1>2, <2>2 DEF Alone, Run, Goes, ControlOK, Threads
  <2>4. \A y \in Threads : pc[y] # "tell" /\ pc'[y] # "tell"
    BY <2>1, <2>2, <2>3 DEF Threads
  <2>5. \A k \in Links : ~InEntry(k)'
    BY <2>2 DEF InEntry, AtEntry
  <2> QED
    BY <2>1, <2>4, <2>5, ReportsKept
<1>3. CASE ~LinkStep(u) /\ ~Run(u)
  <2>1. ControlOK' /\ Keeps(u) /\ UNCHANGED <<dels, done>>
    BY <1>3, UserMoves
  <2>2. \A k \in Links : InEntry(k)' => InEntry(k)
    BY <2>1, UserKeeps DEF InEntry, AtEntry
  <2>3. CASE UndoClose(u) \/ StopClose(u)
    <3>1. PICK l \in Links, b \in {"undo_fgw", "undone", "stop_fgw", "halt"} : CloseCh(u, l, b)
      BY <2>3 DEF UndoClose, StopClose, Links
    <3>2. UNCHANGED <<polled, linked>> /\ pc'[u] # "tell"
      BY <3>1, UserClose DEF CloseCh, ClosePcs
    <3>3. pc[u] # "tell"
      BY <2>3 DEF UndoClose, StopClose
    <3> QED
      BY <1>0, <2>1, <2>2, <3>2, <3>3, ReportsKeptBy
  <2>4. CASE ~UndoClose(u) /\ ~StopClose(u)
    <3>1. UNCHANGED <<polled, linked>>
      BY <1>3, <2>4 DEF UserStep, Start, Stop, Prepare, Dial, Fast, Undo, Undone, Halt, Join, CallUnchanged, linkVars
    <3>2. pc[u] # "tell" /\ pc'[u] # "tell"
      <4>1. CASE Dial(u)
        BY <1>0, <4>1 DEF Dial, Goes, Begins, ControlOK
      <4>2. CASE ~Dial(u)
        BY <1>0, <1>3, <2>4, <4>2
           DEF UserStep, Start, Stop, Prepare, Fast, Undo, Undone, Halt, Join, Goes, ControlOK
      <4> QED
        BY <4>1, <4>2
    <3> QED
      BY <1>0, <2>1, <2>2, <3>1, <3>2, ReportsKeptBy
  <2> QED
    BY <2>3, <2>4
<1> QED
  BY <1>1, <1>2, <1>3

LEMMA InitReports == Init => Reports
<1> SUFFICES ASSUME Init PROVE Reports
  OBVIOUS
<1>1. \A x \in Threads : pc[x] \in {"off", "idle"}
  BY DEF Init
<1>2. pc[Engine] # "end_poll" /\ pc[Engine] # "recv_stop" /\ pc[Engine] # "destroy"
  BY <1>1 DEF Threads
<1> QED
  BY <1>1, <1>2 DEF Init, Reports, InEntry, AtEntry

LEMMA NextReports == Control /\ Refs /\ Reports /\ [Next]_vars => Reports'
<1> SUFFICES ASSUME Control, Refs, Reports, [Next]_vars PROVE Reports'
  OBVIOUS
<1>1. CASE UNCHANGED vars
  BY <1>1 DEF vars, linkVars, pollVars, callVars, ctlVars, Reports, Telling, InEntry, AtEntry, At
<1>2. CASE EngineStep
  BY <1>2, EngineReports
<1>3. CASE \E u \in Users : Start(u) \/ Stop(u) \/ UserStep(u)
  BY <1>3, UserReports
<1> QED
  BY <1>1, <1>2, <1>3 DEF Next, ReturnAtOnce

(* The counter hears by turns that a link is up and that it is gone, and   *)
(* when a link is free again the engine is about to tell it so.            *)
THEOREM FlagsFollowLinks == Spec => []FlagFollowsLink
<1>1. Init => Reports
  BY InitReports
<1>2. IInv /\ Reports /\ [Next]_vars => Reports'
  BY NextReports DEF IInv
<1>3. IInv /\ Reports => FlagFollowsLink
  <2> SUFFICES ASSUME IInv, Reports PROVE FlagFollowsLink
    OBVIOUS
  <2>1. ASSUME NEW l \in Links, IsFree(word[l]), linked[l] PROVE GivenUp
    <3>1. LinkRef(l)
      BY DEF IInv, Refs
    <3>2. word[l].ref = 0 /\ ~Open(word[l])
      BY <2>1, ClosedWord DEF IsFree
    <3>3. InEntry(l) /\ ~Removing(l)
      BY <2>1, <3>1, <3>2 DEF LinkRef
    <3> QED
      BY <3>3 DEF InEntry, AtEntry, Removing, GivenUp
  <2>2. ASSUME GivenUp PROVE linked[dels[done + 1]]
    <3>1. AtEntry
      BY <2>2 DEF GivenUp, AtEntry
    <3>2. dels[done + 1] \in Links
      BY <3>1, EntryInBounds DEF IInv
    <3> QED
      BY <3>1, <3>2 DEF Reports, InEntry
  <2> QED
    BY <2>1, <2>2 DEF FlagFollowsLink, Reports
<1> QED
  BY <1>1, <1>2, <1>3, Invariant, PTL DEF Spec

(* A link in use has a socket and a free one has none until stop(), and    *)
(* the counter's flag does not outlive the link, in stop() neither.        *)
THEOREM LinksFollowWords == Spec => []LinkFollowsWord
  BY SocketsFollowWords, FlagsFollowLinks, PTL DEF LinkFollowsWord

-----------------------------------------------------------------------------
(* Joins: a thread that runs has its state to say so, hence to_stop gets   *)
(* through to it. *)

Joiners == {"undo_join", "join"}

Joins ==
    /\ pc[Engine] # "off" => mstate \in {"running", "tostop"}
    /\ StopIsHeard

(* A step that leaves the engine running or off, and sends nobody to join. *)
LEMMA JoinsKept ==
    ASSUME Joins, UNCHANGED mstate, pc'[Engine] = "off" <=> pc[Engine] = "off",
           \A u \in Users : pc'[u] \in Joiners => pc[u] \in Joiners
    PROVE  Joins'
  BY DEF Joins, StopIsHeard, Joiners

LEMMA EngineJoins == ASSUME Control, Joins, EngineStep PROVE Joins'
<1>1. /\ pc[Engine] # "off" /\ \A u \in Users : pc'[u] = pc[u]
  BY EngineMoves DEF Keeps, Threads
<1>2. CASE ToStop
  BY <1>1, <1>2 DEF ToStop, Goes, Control, ControlOK, Threads, Joins, StopIsHeard
<1>3. CASE ~ToStop
  <2>1. UNCHANGED mstate
    <3>1. CASE LinkStep(Engine)
      BY <3>1, LinkStepMoves DEF Threads
    <3> QED
      BY <1>3, <3>1 DEF EngineStep, EpollWait, QueueEvent, RoundDone, ChangeEvent, LinkEvent, Event, Entry,
         EndPoll, GiveUpRef, RecvStop, MoreEntries, NoMoreEntries, Reset, callVars
  <2>2. pc'[Engine] # "off"
    <3>1. ControlOK /\ Engine \in Threads
      BY DEF Control, Threads
    <3>2. CASE LinkStep(Engine)
      BY <3>2, EngineLinkStep
    <3>3. CASE \E l \in Links : LinkEvent(l) \/ Event(l)
      <4>1. PICK l \in Links : LinkEvent(l) \/ Event(l)
        BY <3>3
      <4>2. pc[Engine] \in {"batch", "round"}
        BY <4>1 DEF LinkEvent, Event
      <4>3. ASSUME NEW b \in {"batch", "round"}, pc[Engine] = b, CloseCh(Engine, l, b)
            PROVE  pc'[Engine] # "off"
        BY <4>3, EngineClose DEF ClosePcs
      <4>4. CASE UNCHANGED ctlVars \/ Begins(Engine, "connect", l, "round", FALSE)
        BY <3>1, <4>2, <4>4 DEF Begins, ControlOK, ctlVars
      <4> QED
        BY <4>1, <4>3, <4>4 DEF LinkEvent, Event
    <3>4. CASE EndPoll
      BY <3>1, <3>4 DEF EndPoll, GiveUpRef, Goes, Begins, ControlOK
    <3>5. CASE EpollWait \/ QueueEvent \/ RoundDone \/ ChangeEvent \/ Entry \/ RecvStop
               \/ MoreEntries \/ NoMoreEntries \/ Reset
      BY <1>1, <3>1, <3>5 DEF EpollWait, QueueEvent, RoundDone, ChangeEvent, Entry, RecvStop,
         MoreEntries, NoMoreEntries, Reset, Goes, ctlVars, ControlOK
    <3> QED
      BY <1>3, <3>2, <3>3, <3>4, <3>5 DEF EngineStep
  <2> QED
    BY <1>1, <2>1, <2>2, JoinsKept
<1> QED
  BY <1>2, <1>3

LEMMA UserJoins ==
    ASSUME Control, Joins, NEW u \in Users, Start(u) \/ Stop(u) \/ UserStep(u)
    PROVE  Joins'
<1>0. u \in Threads /\ u # Engine /\ ControlOK
  BY DEF Threads, Control
<1>1. ASSUME Keeps(u), UNCHANGED mstate, pc'[u] \notin Joiners PROVE Joins'
  BY <1>1, UserKeeps, JoinsKept
<1>2. CASE LinkStep(u)
  <2>1. Keeps(u) /\ MovedOn(u) /\ UNCHANGED mstate /\ pc[u] \in LinkPcs
    BY <1>0, <1>2, LinkStepMoves
  <2>2. After(u, TRUE) = "run" /\ After(u, FALSE) = "undo"
    BY <1>0 DEF After
  <2>3. pc[u] \in ClosePcs => job[u].back \notin Joiners
    BY <1>0, BackIs DEF Control, Joiners
  <2>4. pc'[u] \notin Joiners
    BY <2>1, <2>2, <2>3 DEF MovedOn, Joiners, OpenPcs, ClosePcs
  <2> QED
    BY <1>1, <2>1, <2>4
<1>3. CASE Run(u)
  <2>1. pc[u] = "run"
    BY <1>3 DEF Run, Goes
  <2>2. pc[Engine] = "off" /\ Alone(u)
    BY <2>1, InChargeAlone DEF Control, PhaseInv, PhaseOf, QuietPcs
  <2>3. /\ \A v \in Users : pc'[v] \notin Joiners
        /\ pc'[Engine] = "off" \/ mstate' = "running"
    BY <1>0, <1>3, <2>2 DEF Alone, Run, Goes, ControlOK, Threads, Joiners
  <2> QED
    BY <2>3 DEF Joins, StopIsHeard, Joiners
<1>4. CASE ~LinkStep(u) /\ ~Run(u)
  <2>1. Keeps(u) /\ pc'[Engine] = pc[Engine] /\ \A v \in Users \ {u} : pc'[v] = pc[v]
    BY <1>4, UserMoves, UserKeeps
  <2>2. CASE Undo(u) \/ Halt(u)
    <3>1. mstate' = IF mstate = "running" THEN "tostop" ELSE mstate
      BY <2>2 DEF Undo, Halt, StopThread
    <3>2. pc[Engine] = "off" \/ mstate' = "tostop"
      BY <3>1 DEF Joins
    <3> QED
      BY <2>1, <3>1, <3>2 DEF Joins, StopIsHeard
  <2>3. CASE UndoClose(u) \/ StopClose(u)
    <3>1. PICK l \in Links, b \in {"undo_fgw", "undone", "stop_fgw", "halt"} : CloseCh(u, l, b)
      BY <2>3 DEF UndoClose, StopClose, Links
    <3>2. UNCHANGED mstate /\ pc'[u] \notin Joiners
      BY <2>3, <3>1, UserClose DEF UndoClose, StopClose, callVars, ClosePcs, Joiners
    <3> QED
      BY <1>1, <2>1, <3>2
  <2>4. CASE Dial(u)
    BY <1>0, <1>1, <2>1, <2>4 DEF Dial, Goes, Begins, ControlOK, callVars, Joiners
  <2>5. CASE Start(u) \/ Stop(u) \/ Prepare(u) \/ Fast(u) \/ Undone(u) \/ Join(u)
    BY <1>0, <1>1, <2>1, <2>5
       DEF Start, Stop, Prepare, Fast, Undone, Join, Goes, ControlOK, callVars, Joiners
  <2> QED
    BY <1>4, <2>2, <2>3, <2>4, <2>5 DEF UserStep
<1> QED
  BY <1>2, <1>3, <1>4

LEMMA InitJoins == Init => Joins
  BY DEF Init, Joins, StopIsHeard, Threads

LEMMA NextJoins == Control /\ Joins /\ [Next]_vars => Joins'
<1> SUFFICES ASSUME Control, Joins, [Next]_vars PROVE Joins'
  OBVIOUS
<1>1. CASE UNCHANGED vars
  BY <1>1 DEF vars, callVars, ctlVars, Joins, StopIsHeard
<1>2. CASE EngineStep
  BY <1>2, EngineJoins
<1>3. CASE \E u \in Users : Start(u) \/ Stop(u) \/ UserStep(u)
  BY <1>3, UserJoins
<1> QED
  BY <1>1, <1>2, <1>3 DEF Next, ReturnAtOnce

(* No start() or stop() waits for nobody: while have_start is 1 the one    *)
(* call that will reset it is under way, and the epoll thread it may have  *)
(* to join has ended or been told to.                                      *)
THEOREM NobodyWaitsForNothing == Spec => []CallsGoOn
<1>1. Init => Joins
  BY InitJoins
<1>2. IInv /\ Joins /\ [Next]_vars => Joins'
  BY NextJoins DEF IInv
<1>3. IInv /\ Joins => CallsGoOn
  BY DEF IInv, Control, Joins, CallsGoOn
<1> QED
  BY <1>1, <1>2, <1>3, Invariant, PTL DEF Spec

-----------------------------------------------------------------------------
(* Duties: until stop(), what is still to be done for a link is written    *)
(* down somewhere, and the list of removals has room for it.               *)

Active == BeforeStop /\ mstate # "none"

Queued(l) == \E i \in done + 1 .. Len(dels) : dels[i] = l
Opening(l) == \E x \in Threads : pc[x] \in {"socket", "end_init"} /\ At(x) = l
Starting(l) == \E x \in Threads : pc[x] = "add_ref" /\ At(x) = l
RemovesNow(l) == \E x \in Threads : pc[x] = "remove" /\ At(x) = l

DutyLink(l) ==
    /\ word[l].closing => (polled[l] \/ Removing(l)) /\ (Queued(l) \/ RemovesNow(l))
    /\ word[l].st = "initing" => Opening(l)
    /\ Open(word[l]) => started[l] \/ Starting(l)

DutyThread(x) == pc[x] = "add_ref" => Open(word[At(x)])

ListOK ==
    /\ ~InDelWake => done = 0 /\ (dels # <<>> => change)
    /\ InDelWake => known = Len(dels) /\ done <= known
    /\ pc[Engine] = "reset" => dels = <<>>

(* Room for the removals: a closing link has its entry in the list already, *)
(* an open one that is not polled may come to need one, and so may one     *)
(* that epoll_ctl has just refused.  Only refusals add to the sum.         *)
Weight(w) == IF w.closing THEN -1 ELSE IF Open(w) /\ w.ref = 0 THEN 1 ELSE 0
OwedAt(p) == IF p \in {"remove", "sub_ref"} THEN 1 ELSE IF p = "add_ref" THEN -1 ELSE 0
Spent == IF GivenUp THEN 1 ELSE 0
Needed == Len(dels) - done - Spent + Weight(word[G98]) + Weight(word[Fgw])

Slack ==
    /\ (\A x \in Threads : OwedAt(pc[x]) = 0) => Needed <= faults
    /\ \A x \in Threads : OwedAt(pc[x]) # 0 => Needed + OwedAt(pc[x]) <= faults

Duties ==
    Active =>
        /\ \A l \in Links : DutyLink(l)
        /\ \A x \in Threads : DutyThread(x)
        /\ ListOK /\ Slack

LEMMA Weights ==
    ASSUME NEW w, LegalWord(w)
    PROVE  /\ w.closing => Weight(w) = -1
           /\ ~w.closing /\ Open(w) /\ w.ref = 0 => Weight(w) = 1
           /\ ~w.closing /\ (w.ref # 0 \/ ~Open(w)) => Weight(w) = 0
           /\ w.ref = 0 => ~w.closing
           /\ w = Closed \/ w.st = "initing" \/ Open(w)
           /\ Weight(Closed) = 0 /\ ~Closed.closing
<1>1. w.ref = 0 => ~w.closing
  BY DEF LegalWord
<1>2. w = Closed \/ w.st = "initing" \/ Open(w)
  BY DEF LegalWord, Word, Open
<1>3. Weight(Closed) = 0 /\ ~Closed.closing
  BY DEF Weight, Closed, Open
<1> QED
  BY <1>1, <1>2, <1>3 DEF Weight

LEMMA NeededInt == CountsOK => Needed \in Int /\ faults \in Int
  BY DEF CountsOK, Needed, Weight, Spent

(* While x alone deals with links, the sum is its own. *)
SlackOf(x) == Needed + OwedAt(pc[x]) <= faults

LEMMA SoleSlack ==
    ASSUME CountsOK, CountsOK', NEW x \in Threads, Sole(x), Keeps(x)
    PROVE  (Slack <=> SlackOf(x)) /\ (SlackOf(x)' => Slack')
<1>1. \A y \in Threads \ {x} : OwedAt(pc[y]) = 0 /\ OwedAt(pc'[y]) = 0
  BY DEF Sole, Keeps, OwedAt, LinkPcs, OpenPcs, ClosePcs
<1>a. (CountsOK => Needed \in Int /\ faults \in Int)'
  BY NeededInt, PTL
<1>2. Needed \in Int /\ Needed' \in Int
  BY <1>a, NeededInt
<1>3. OwedAt(pc[x]) \in Int /\ OwedAt(pc'[x]) \in Int
  BY DEF OwedAt
<1>4. Slack <=> SlackOf(x)
  BY <1>1, <1>2, <1>3 DEF Slack, SlackOf
<1>5. SlackOf(x)' => Slack'
  BY <1>1, <1>2, <1>3 DEF Slack, SlackOf
<1> QED
  BY <1>4, <1>5

(* A link nobody is about to do anything for. *)
DutyPcs == {"remove", "socket", "end_init", "add_ref"}

Settled(l) ==
    /\ word[l].closing => (polled[l] \/ Removing(l)) /\ Queued(l)
    /\ word[l].st # "initing"
    /\ Open(word[l]) => started[l]

LEMMA SettledIs ==
    ASSUME NEW x \in Threads, Sole(x), NEW l \in Links, DutyLink(l), pc[x] \in DutyPcs => At(x) # l
    PROVE  Settled(l)
<1>1. \A y \in Threads \ {x} : pc[y] \notin DutyPcs
  BY DEF Sole, DutyPcs, LinkPcs, OpenPcs, ClosePcs
<1>2. ~Opening(l) /\ ~Starting(l) /\ ~RemovesNow(l)
  BY <1>1 DEF Opening, Starting, RemovesNow, DutyPcs
<1> QED
  BY <1>2 DEF DutyLink, Settled

LEMMA Swap == ASSUME NEW a \in Int, NEW v \in Int, NEW w \in Int PROVE a + v + w = a + w + v
  OBVIOUS

LEMMA SumMoves ==
    ASSUME NEW a \in Int, NEW b \in Int, NEW v \in Int, NEW w \in Int, NEW n \in Int,
           NEW o \in Int, NEW p \in Int, NEW f \in Int, NEW g \in Int,
           b + w + p - g <= a + v + o - f, a + v + n + o <= f
    PROVE  b + w + n + p <= g
  OBVIOUS

(* A step of x on link l, the only one in hand. *)
LEMMA ActingDuties ==
    ASSUME Control, Control', Active, Duties, NEW x \in Threads, Sole(x), Keeps(x), NEW l \in Links,
           pc[x] \in LinkPcs => At(x) = l,
           \A k \in Links \ {l} : /\ word'[k] = word[k] /\ polled'[k] = polled[k]
                                  /\ started'[k] = started[k]
                                  /\ Removing(k) => Removing(k)'
                                  /\ word[k].closing /\ Queued(k) => Queued(k)',
           DutyLink(l)', DutyThread(x)', ListOK',
           Len(dels') - done' - Spent' + Weight(word'[l]) + OwedAt(pc'[x]) - faults'
             <= Len(dels) - done - Spent + Weight(word[l]) + OwedAt(pc[x]) - faults
    PROVE  Duties'
<1>1. ASSUME NEW k \in Links \ {l} PROVE DutyLink(k)'
  <2>1. pc[x] \in DutyPcs => At(x) # k
    BY <1>1 DEF DutyPcs, LinkPcs, OpenPcs, ClosePcs
  <2>2. Settled(k)
    BY <1>1, <2>1, SettledIs DEF Duties
  <2> QED
    BY <1>1, <2>2 DEF Settled, DutyLink
<1>2. \A y \in Threads : DutyThread(y)'
  BY DEF Sole, Keeps, DutyThread, LinkPcs, OpenPcs, ClosePcs
<1>3. CountsOK /\ CountsOK' /\ Slack
  BY DEF Control, Duties
<1>4. SlackOf(x)
  BY <1>3, SoleSlack
<1>5. /\ Len(dels) \in Int /\ Len(dels') \in Int /\ done \in Int /\ done' \in Int
      /\ Spent \in Int /\ Spent' \in Int /\ faults \in Int /\ faults' \in Int
  BY <1>3 DEF CountsOK, Spent
<1>7. PICK m \in Links : m # l /\ Links = {l, m} /\ word'[m] = word[m]
  BY DEF Links
<1>6. /\ Weight(word[l]) \in Int /\ Weight(word'[l]) \in Int
      /\ Weight(word[m]) \in Int /\ Weight(word'[m]) \in Int
      /\ OwedAt(pc[x]) \in Int /\ OwedAt(pc'[x]) \in Int
  BY DEF Weight, OwedAt
<1>8. SlackOf(x)'
  <2> DEFINE A == Len(dels) - done - Spent
             B == Len(dels') - done' - Spent'
  <2>1. A \in Int /\ B \in Int
    BY <1>5
  <2>2. /\ Needed = A + Weight(word[G98]) + Weight(word[Fgw])
        /\ Needed' = B + Weight(word'[G98]) + Weight(word'[Fgw])
    BY DEF Needed
  <2>3. B + Weight(word'[l]) + OwedAt(pc'[x]) - faults' <= A + Weight(word[l]) + OwedAt(pc[x]) - faults
    OBVIOUS
  <2> HIDE DEF A, B
  <2>4. Needed = A + Weight(word[l]) + Weight(word[m]) /\ Needed' = B + Weight(word'[l]) + Weight(word'[m])
    <3>1. CASE l = G98 /\ m = Fgw
      BY <2>2, <3>1
    <3>2. CASE l = Fgw /\ m = G98
      BY <1>6, <2>1, <2>2, <3>2, Swap
    <3> QED
      BY <1>7, <3>1, <3>2 DEF Links
  <2>5. A + Weight(word[l]) + Weight(word[m]) + OwedAt(pc[x]) <= faults /\ word'[m] = word[m]
    BY <1>4, <1>7, <2>4 DEF SlackOf
  <2>6. B + Weight(word'[l]) + Weight(word[m]) + OwedAt(pc'[x]) <= faults'
    BY <1>5, <1>6, <2>1, <2>3, <2>5, SumMoves
  <2> QED
    BY <2>4, <2>5, <2>6 DEF SlackOf
<1>10. Slack'
  BY <1>3, <1>8, SoleSlack
<1> QED
  BY <1>1, <1>2, <1>10 DEF Duties

(* A step that has no link in hand, or takes one up to connect it. *)
LEMMA NoDuty ==
    ASSUME Duties, Active, UNCHANGED <<word, polled, started, dels, faults, done>>,
           \A y \in Threads : /\ pc[y] \in LinkPcs => Same(y)
                              /\ pc'[y] \in LinkPcs => Same(y) \/ pc'[y] = "connect",
           \A k \in Links : Removing(k) => Removing(k)',
           GivenUp' <=> GivenUp, ListOK'
    PROVE  Duties'
<1>1. \A y \in Threads : /\ pc[y] \in DutyPcs => Same(y)
                         /\ pc'[y] \in DutyPcs => Same(y)
  BY DEF DutyPcs, LinkPcs, OpenPcs, ClosePcs
<1>2. ASSUME NEW k \in Links PROVE DutyLink(k)'
  <2>1. DutyLink(k)
    BY DEF Duties
  <2>2. (Opening(k) => Opening(k)') /\ (Starting(k) => Starting(k)') /\ (RemovesNow(k) => RemovesNow(k)')
    BY <1>1 DEF Opening, Starting, RemovesNow, Same, At, DutyPcs
  <2>3. Queued(k)' <=> Queued(k)
    BY DEF Queued
  <2> QED
    BY <2>1, <2>2, <2>3 DEF DutyLink
<1>3. \A y \in Threads : DutyThread(y)'
  BY <1>1 DEF Duties, DutyThread, Same, At, DutyPcs
<1>4. \A y \in Threads : OwedAt(pc'[y]) = OwedAt(pc[y])
  BY DEF Same, OwedAt, LinkPcs, OpenPcs, ClosePcs
<1>5. Needed' = Needed
  BY DEF Needed, Spent
<1>6. Slack'
  BY <1>4, <1>5 DEF Duties, Slack
<1> QED
  BY <1>2, <1>3, <1>6 DEF Duties

(* Outside del_wake the list only grows. *)
LEMMA ListKept ==
    ASSUME ListOK, ~InDelWake, ~InDelWake', pc'[Engine] # "reset",
           UNCHANGED <<dels, done, change>>
    PROVE  ListOK' /\ Spent = 0 /\ Spent' = 0
<1>1. ~GivenUp /\ ~GivenUp'
  BY DEF InDelWake
<1> QED
  BY <1>1 DEF ListOK, Spent

(* A link that is opened or closed lies outside del_wake, but for the      *)
(* destroy that belongs to it. *)
LEMMA LinkStepWake ==
    ASSUME Control, BeforeStop, NEW x \in Threads, LinkStep(x)
    PROVE  /\ pc'[Engine] # "reset"
           /\ \/ ~InDelWake /\ ~InDelWake'
              \/ x = Engine /\ pc[x] = "destroy" /\ GivenUp /\ GivenUp' /\ InDelWake /\ InDelWake'
<1>1. /\ Keeps(x) /\ MovedOn(x) /\ pc[x] \in LinkPcs
  BY LinkStepMoves
<1>2. CASE x \in Users
  <2>1. pc[Engine] = "off" /\ pc'[Engine] = "off"
    BY <1>1, <1>2, SoleActor, UserKeeps
  <2> QED
    BY <2>1 DEF InDelWake, GivenUp
<1>3. CASE x = Engine
  <2>1. After(Engine, TRUE) = "round" /\ After(Engine, FALSE) = "round"
    BY DEF After
  <2>2. /\ pc[Engine] \in ClosePcs => job[Engine].back \in {"batch", "round", "recv_stop"}
        /\ pc[Engine] = "remove" => job[Engine].back # "recv_stop"
    BY DEF Control, EntryInv
  <2> QED
    BY <1>1, <1>3, <2>1, <2>2 DEF MovedOn, InDelWake, GivenUp, LinkPcs, OpenPcs, ClosePcs
<1> QED
  BY <1>2, <1>3 DEF Threads

(* The thread that closes a link that was started goes on to queue its     *)
(* removal. *)
LEMMA CloseTold ==
    ASSUME ControlOK, NEW x \in Threads, NEW l \in Links, NEW b \in PcsOf(x) \ LinkPcs,
           CloseCh(x, l, b), CloseAllowed(word[l]), started[l]
    PROVE  pc'[x] = "remove" /\ At(x)' = l /\ word' = [word EXCEPT ![l] = ToClose(@)]
<1> DEFINE o == word[l].ref = 0
<1>1. /\ Begins(x, "remove", l, b, o) /\ word' = [word EXCEPT ![l] = ToClose(@)]
  BY DEF CloseCh
<1>2. "remove" \in LinkPcs /\ b \in UserPcs \cup EnginePcs /\ o \in BOOLEAN
  BY DEF LinkPcs, ClosePcs, PcsOf
<1> HIDE DEF o
<1>3. pc'[x] = "remove" /\ job'[x] = [link |-> l, back |-> b, last |-> o]
  BY <1>1, <1>2, BeginsOK
<1> QED
  BY <1>1, <1>3, JobFields DEF At

LEMMA CloseDuties ==
    ASSUME Control, Control', Refs, Calm, Active, Duties, NEW x \in Threads, Sole(x), NEW l \in Links,
           NEW b \in PcsOf(x) \ LinkPcs, CloseCh(x, l, b),
           pc[x] \in LinkPcs => pc[x] = "fail" /\ At(x) = l,
           ~InDelWake, ~InDelWake', pc'[Engine] # "reset",
           UNCHANGED <<dels, done, change, faults>>
    PROVE  Duties'
<1>1. /\ ControlOK' /\ Keeps(x) /\ Closes(x, l, b) /\ UNCHANGED <<fd, started, polled, linked>>
  BY CloseChOK DEF Control
<1>2. ListOK' /\ Spent = 0 /\ Spent' = 0
  BY ListKept DEF Duties
<1>3. \A k \in Links : ~Removing(k) /\ (Queued(k)' <=> Queued(k))
  BY DEF Removing, InDelWake, Queued
<1>4. pc[x] \notin DutyPcs /\ OwedAt(pc[x]) = 0
  BY DEF DutyPcs, OwedAt, LinkPcs, OpenPcs, ClosePcs
<1>5. Settled(l) /\ LegalWord(word[l]) /\ LinkRef(l) /\ CalmLink(l) /\ LinksOK
  BY <1>4, SettledIs DEF Duties, Refs, LinksOK, Calm, Active
<1>6. /\ CountsOK /\ Len(dels) \in Int /\ done \in Int /\ faults \in Int
  BY DEF Control, CountsOK
<1>7. CASE word' = word /\ pc'[x] = b
  <2>1. OwedAt(pc'[x]) = 0 /\ pc'[x] # "add_ref"
    BY <1>7 DEF OwedAt, LinkPcs, OpenPcs, ClosePcs
  <2>2. Settled(l)'
    BY <1>1, <1>3, <1>5, <1>7 DEF Settled
  <2>3. DutyLink(l)' /\ DutyThread(x)'
    BY <2>1, <2>2 DEF Settled, DutyLink, DutyThread
  <2>4. Weight(word[l]) \in Int
    BY DEF Weight
  <2> QED
    BY <1>1, <1>2, <1>3, <1>4, <1>6, <1>7, <2>1, <2>3, <2>4, ActingDuties
<1>8. CASE CloseAllowed(word[l])
  <2>1. Open(word[l]) /\ started[l] /\ ~word[l].closing
    BY <1>5, <1>8, Weights DEF CloseAllowed, Settled, Closed
  <2>2. pc'[x] = "remove" /\ At(x)' = l /\ word' = [word EXCEPT ![l] = ToClose(@)]
    BY <1>8, <2>1, CloseTold DEF Control
  <2>3. word'[l] = ToClose(word[l]) /\ \A k \in Links \ {l} : word'[k] = word[k]
    BY <1>5, <2>2 DEF LinksOK
  <2>4. OwedAt(pc'[x]) = 1 /\ DutyThread(x)'
    BY <2>2 DEF OwedAt, DutyThread
  <2>5. CASE word[l].ref = 0
    <3>1. word'[l] = Closed
      BY <1>5, <2>3, <2>5, CloseWords
    <3>2. Weight(word[l]) = 1 /\ Weight(word'[l]) = 0
      BY <1>5, <2>1, <2>5, <3>1, Weights
    <3>3. DutyLink(l)'
      BY <1>5, <3>1, ClosedWord, Weights DEF DutyLink
    <3> QED
      BY <1>1, <1>2, <1>3, <1>4, <1>6, <2>3, <2>4, <3>2, <3>3, ActingDuties
  <2>6. CASE word[l].ref # 0
    <3>1. word[l].ref = 1 /\ word[l].ref > 0
      BY <1>5, <2>6, RefWords DEF LinkRef
    <3>2. word'[l].st = word[l].st /\ word'[l].ref = 1 /\ word'[l].closing /\ LegalWord(word'[l])
      BY <1>5, <2>3, <3>1, CloseWords
    <3>3. polled[l]
      <4>1. \A y \in Threads : ~Holds(y, l)
        BY DEF Holds, Sole, LinkPcs, OpenPcs, ClosePcs
      <4> QED
        BY <1>3, <1>5, <3>1, <4>1 DEF CalmLink, Kept, Settled, Active
    <3>4. Weight(word[l]) = 0 /\ Weight(word'[l]) = -1
      BY <1>5, <2>1, <3>1, <3>2, Weights
    <3>5. RemovesNow(l)'
      BY <2>2 DEF RemovesNow
    <3>6. DutyLink(l)'
      BY <1>1, <1>5, <2>1, <3>2, <3>3, <3>5 DEF DutyLink, Settled
    <3> QED
      BY <1>1, <1>2, <1>3, <1>4, <1>6, <2>3, <2>4, <3>4, <3>6, ActingDuties
  <2> QED
    BY <2>5, <2>6
<1>9. CASE ~CloseAllowed(word[l])
  BY <1>1, <1>7, <1>9 DEF Closes
<1> QED
  BY <1>8, <1>9

LEMMA RemovalDuties ==
    ASSUME Control, Control', Refs, Calm, Active, Duties, NEW x \in Threads,
           Faults + 2 <= Slots, Remove(x) \/ DropRemoval(x) \/ Destroy(x)
    PROVE  Duties'
<1>0. PICK l \in Links : l = At(x)
  BY DEF Control, ControlOK, At, Job
<1>1. /\ Keeps(x) /\ MovedOn(x) /\ pc[x] \in ClosePcs /\ pc[x] \in LinkPcs /\ job[x].back \notin LinkPcs
  BY LinkStepMoves, BackIs
     DEF LinkStep, Remove, DropRemoval, Destroy, Goes, ClosePcs, LinkPcs, Control
<1>2. Sole(x)
  BY <1>1, SoleActor DEF Active
<1>3. /\ pc'[Engine] # "reset"
      /\ \/ ~InDelWake /\ ~InDelWake'
         \/ pc[x] = "destroy" /\ GivenUp /\ GivenUp' /\ InDelWake /\ InDelWake'
  BY LinkStepWake DEF LinkStep, Active
<1>4. \A k \in Links : ~Removing(k)
  BY <1>1, SoleActor DEF Active, Removing, ClosePcs, Threads
<1>5. CountsOK /\ Len(dels) \in Int /\ done \in Int /\ faults \in Int /\ ListOK
  BY DEF Control, CountsOK, Duties
<1>6. CASE Destroy(x)
  <2>1. /\ pc[x] = "destroy" /\ UNCHANGED <<word, started, dels, done, known, change, faults>>
        /\ polled' = [polled EXCEPT ![l] = FALSE]
    BY <1>0, <1>6 DEF Destroy, Goes, pollVars, callVars
  <2>2. word[l] = Closed
    BY <1>0, <2>1 DEF Calm, CalmThread, Active
  <2>3. DutyLink(l)'
    BY <2>1, <2>2, ClosedWord, Weights DEF DutyLink
  <2>4. OwedAt(pc[x]) = 0 /\ OwedAt(pc'[x]) = 0 /\ DutyThread(x)'
    BY <1>1, <2>1 DEF MovedOn, OwedAt, DutyThread, LinkPcs, OpenPcs, ClosePcs
  <2>5. ListOK' /\ Spent' = Spent
    BY <1>3, <1>5, <2>1 DEF ListOK, Spent, InDelWake
  <2>6. \A k \in Links : Queued(k)' <=> Queued(k)
    BY <2>1 DEF Queued
  <2>7. \A k \in Links \ {l} : polled'[k] = polled[k]
    BY <2>1 DEF Refs, LinksOK
  <2>8. Weight(word[l]) \in Int /\ Spent \in Int
    BY DEF Weight, Spent
  <2>9. Len(dels') - done' - Spent' + Weight(word'[l]) + OwedAt(pc'[x]) - faults'
          <= Len(dels) - done - Spent + Weight(word[l]) + OwedAt(pc[x]) - faults
    BY <1>5, <2>1, <2>4, <2>5, <2>8
  <2> QED
    BY <1>0, <1>1, <1>2, <1>4, <2>1, <2>3, <2>4, <2>5, <2>6, <2>7, <2>9, ActingDuties
<1>7. CASE Remove(x) \/ DropRemoval(x)
  <2>1. pc[x] = "remove" /\ UNCHANGED <<word, started, polled, done, faults, mstate>>
    BY <1>7 DEF Remove, DropRemoval, Goes, linkVars, pollVars, callVars
  <2>2. ~InDelWake /\ ~InDelWake' /\ done = 0 /\ ~GivenUp /\ ~GivenUp'
    BY <1>3, <1>5, <2>1 DEF ListOK, InDelWake
  <2>3. Spent = 0 /\ Spent' = 0 /\ OwedAt(pc[x]) = 1
    BY <2>1, <2>2 DEF Spent, OwedAt
  <2>4. OwedAt(pc'[x]) = 0 /\ DutyThread(x)'
    BY <1>1, <2>1 DEF MovedOn, OwedAt, DutyThread, LinkPcs, OpenPcs, ClosePcs
  <2>5. RoomToRemove
    <3>1. SlackOf(x)
      BY <1>2, <1>1, <1>5, SoleSlack DEF Control, Duties
    <3>2. Weight(word[G98]) \in {-1, 0, 1} /\ Weight(word[Fgw]) \in {-1, 0, 1}
      BY DEF Weight
    <3>3. Len(dels) + Weight(word[G98]) + Weight(word[Fgw]) + 1 <= faults
      BY <1>5, <2>2, <2>3, <3>1, <3>2 DEF SlackOf, Needed
    <3>4. faults <= Faults /\ Faults \in Int /\ Slots \in Int
      BY <1>5 DEF CountsOK
    <3>5. Len(dels) < Slots
      BY <1>5, <3>2, <3>3, <3>4
    <3> QED
      BY <3>5 DEF RoomToRemove, Active
  <2>6. dels' = Append(dels, l) /\ change'
    BY <1>0, <1>7, <2>5 DEF Remove, DropRemoval
  <2>7. /\ Len(dels') = Len(dels) + 1 /\ dels'[Len(dels) + 1] = l
        /\ \A i \in 1 .. Len(dels) : dels'[i] = dels[i]
    BY <1>5, <2>6 DEF CountsOK
  <2>8. ListOK'
    BY <1>3, <2>1, <2>2, <2>6 DEF ListOK
  <2>9. Queued(l)' /\ \A k \in Links : Queued(k) => Queued(k)'
    <3>1. done' = done /\ done = 0 /\ Len(dels) \in Nat
      BY <1>5, <2>1, <2>2 DEF CountsOK
    <3>2. Queued(l)'
      BY <2>7, <3>1 DEF Queued
    <3>3. ASSUME NEW k \in Links, Queued(k) PROVE Queued(k)'
      <4>1. PICK i \in done + 1 .. Len(dels) : dels[i] = k
        BY <3>3 DEF Queued
      <4>2. i \in done' + 1 .. Len(dels') /\ dels'[i] = k
        BY <2>7, <3>1, <4>1
      <4> QED
        BY <4>2 DEF Queued
    <3> QED
      BY <3>2, <3>3
  <2>10. DutyLink(l)'
    <3>1. ~Opening(l) /\ ~Starting(l)
      BY <1>2, <2>1 DEF Opening, Starting, Sole, LinkPcs, OpenPcs
    <3> QED
      BY <1>4, <2>1, <2>9, <3>1 DEF Duties, DutyLink
  <2>11. Weight(word[l]) \in Int
    BY DEF Weight
  <2>12. Len(dels') - done' - Spent' + Weight(word'[l]) + OwedAt(pc'[x]) - faults'
           <= Len(dels) - done - Spent + Weight(word[l]) + OwedAt(pc[x]) - faults
    BY <1>5, <2>1, <2>2, <2>3, <2>4, <2>7, <2>11
  <2> QED
    BY <1>0, <1>1, <1>2, <1>4, <2>1, <2>4, <2>8, <2>9, <2>10, <2>12, ActingDuties
<1> QED
  BY <1>6, <1>7

LEMMA OpeningDuties ==
    ASSUME Control, Control', Refs, Calm, Active, Duties, NEW x \in Threads,
           \/ Connect(x) \/ Socket(x) \/ EndOfInit(x) \/ TakeRef(x)
           \/ AddWake(x) \/ AddFailed(x) \/ Tell(x) \/ Fail(x)
    PROVE  Duties'
<1>0. PICK l \in Links : l = At(x)
  BY DEF Control, ControlOK, At, Job
<1> DEFINE w == word[l]
<1>1. /\ LinkStep(x) /\ ControlOK /\ Keeps(x) /\ pc[x] \in OpenPcs /\ pc[x] \in LinkPcs
  BY OpeningStep DEF Control, LinkStep, LinkPcs
<1>2. Sole(x) /\ (x \in Users => pc[Engine] = "off")
  BY <1>1, SoleActor DEF Active
<1>3. \A k \in Links : ~Removing(k)
  BY <1>1, OpenerNoEntry
<1>4. /\ LegalWord(w) /\ LinkRef(l) /\ OpenerRef(x) /\ LinksOK /\ CalmLink(l)
      /\ DutyLink(l) /\ DutyThread(x) /\ ListOK
  BY DEF Refs, LinksOK, Calm, Active, Duties
<1>5. ~InDelWake /\ ~InDelWake' /\ pc'[Engine] # "reset"
  BY <1>1, LinkStepWake DEF Active, OpenPcs
<1>6. \A ok \in BOOLEAN : After(x, ok) \notin LinkPcs /\ After(x, ok) \in PcsOf(x) \ LinkPcs
  BY AfterIs
<1>7. OpenPcs \subseteq PcsOf(x) \cap LinkPcs
  BY DEF PcsOf, LinkPcs
<1>8. ASSUME NEW from, NEW to \in OpenPcs, Goes(x, from, to)
      PROVE  pc[x] = from /\ pc'[x] = to /\ At(x)' = l
  BY <1>0, <1>1, <1>7, <1>8, GoesOK DEF At
<1>9. ASSUME NEW from, NEW ok \in BOOLEAN, Goes(x, from, After(x, ok))
      PROVE  pc[x] = from /\ pc'[x] \notin LinkPcs
  BY <1>1, <1>6, <1>9, GoesOK
<1>10. ASSUME pc'[x] \notin LinkPcs PROVE DutyThread(x)' /\ OwedAt(pc'[x]) = 0
  BY <1>10 DEF DutyThread, OwedAt, LinkPcs, OpenPcs, ClosePcs
(* A link that is being opened is not closing. *)
<1>11. pc[x] \in {"socket", "end_init", "add_ref", "add", "sub_ref"} => ~w.closing
  BY <1>0, <1>3, <1>4 DEF OpenerRef, DutyLink
<1>12. pc[x] \in OpenPcs \ DutyPcs => Settled(l)
  BY <1>2, <1>4, SettledIs
<1>13. /\ CountsOK /\ Len(dels) \in Int /\ done \in Int /\ faults \in Int /\ Spent = 0
  BY <1>5 DEF Control, CountsOK, Spent, InDelWake
<1>14. ASSUME UNCHANGED <<dels, done, change>>,
              \A k \in Links \ {l} : /\ word'[k] = word[k] /\ polled'[k] = polled[k]
                                     /\ started'[k] = started[k],
              DutyLink(l)', DutyThread(x)',
              Weight(word'[l]) + OwedAt(pc'[x]) - faults' <= Weight(w) + OwedAt(pc[x]) - faults
       PROVE  Duties'
  <2>1. ListOK' /\ Spent' = 0
    BY <1>4, <1>5, <1>14, ListKept
  <2>2. \A k \in Links : Queued(k) => Queued(k)'
    BY <1>14 DEF Queued
  <2>3. /\ Weight(word'[l]) \in Int /\ Weight(w) \in Int
        /\ OwedAt(pc'[x]) \in Int /\ OwedAt(pc[x]) \in Int /\ faults' \in Int
    BY DEF Weight, OwedAt, Control, CountsOK
  <2>4. Len(dels') - done' - Spent' + Weight(word'[l]) + OwedAt(pc'[x]) - faults'
          <= Len(dels) - done - Spent + Weight(w) + OwedAt(pc[x]) - faults
    BY <1>13, <1>14, <2>1, <2>3
  <2> QED
    BY <1>0, <1>1, <1>2, <1>3, <1>14, <2>1, <2>2, <2>4, ActingDuties
(* The link is left as it is. *)
<1>15. ASSUME UNCHANGED <<word, started, polled, dels, done, change, faults>>,
              pc[x] \in OpenPcs \ DutyPcs, OwedAt(pc[x]) = 0, OwedAt(pc'[x]) = 0
       PROVE  Duties'
  <2>1. Settled(l)'
    <3>1. Queued(l) => Queued(l)'
      BY <1>15 DEF Queued
    <3> QED
      BY <1>3, <1>12, <1>15, <3>1 DEF Settled
  <2>2. DutyLink(l)' /\ DutyThread(x)'
    BY <1>15, <2>1 DEF Settled, DutyLink, DutyThread, OwedAt
  <2>3. Weight(w) \in Int
    BY DEF Weight
  <2> QED
    BY <1>13, <1>14, <1>15, <2>2, <2>3
<1>16. CASE Connect(x)
  <2>0. UNCHANGED <<started, polled, dels, done, change, faults>> /\ pc[x] = "connect"
    BY <1>16 DEF Connect, Goes, pollVars, callVars
  <2>a. pc[x] \in OpenPcs \ DutyPcs /\ OwedAt(pc[x]) = 0
    BY <2>0 DEF OpenPcs, DutyPcs, OwedAt
  <2>1. CASE IsFree(w) /\ Goes(x, "connect", "socket") /\ word' = [word EXCEPT ![l] = ToInit(w)]
    <3>1. pc'[x] = "socket" /\ At(x)' = l
      BY <1>8, <2>1 DEF OpenPcs
    <3>2. word'[l] = ToInit(w) /\ \A k \in Links \ {l} : word'[k] = word[k]
      BY <1>4, <2>1 DEF LinksOK
    <3>3. ToInit(w).st = "initing" /\ ~ToInit(w).closing /\ ToInit(w).ref = 1
      BY DEF ToInit
    <3>4. Weight(word'[l]) = 0 /\ Weight(w) = 0
      BY <1>4, <2>1, <3>2, <3>3, Weights DEF IsFree, Weight
    <3>5. Opening(l)'
      BY <3>1 DEF Opening
    <3>6. DutyLink(l)' /\ DutyThread(x)' /\ OwedAt(pc'[x]) = 0
      BY <3>1, <3>2, <3>3, <3>5 DEF DutyLink, DutyThread, OwedAt, Open
    <3> QED
      BY <1>13, <1>14, <2>0, <2>a, <3>2, <3>4, <3>6
  <2>2. CASE /\ Goes(x, "connect", After(x, TRUE)) \/ Goes(x, "connect", After(x, FALSE))
             /\ UNCHANGED word
    <3>1. pc'[x] \notin LinkPcs
      BY <1>9, <2>2
    <3> QED
      BY <1>10, <1>15, <2>0, <2>2, <2>a, <3>1
  <2> QED
    BY <1>0, <1>16, <2>1, <2>2 DEF Connect
<1>17. CASE Socket(x)
  <2>0. UNCHANGED <<started, polled, dels, done, change, faults>> /\ pc[x] = "socket"
    BY <1>17 DEF Socket, Goes, pollVars, callVars
  <2>a. OwedAt(pc[x]) = 0 /\ w.st = "initing" /\ ~w.closing /\ Weight(w) = 0
    BY <1>0, <1>4, <1>11, <2>0 DEF OpenerRef, OwedAt, Weight, Open
  <2>1. CASE Goes(x, "socket", "end_init") /\ UNCHANGED word
    <3>1. pc'[x] = "end_init" /\ At(x)' = l
      BY <1>8, <2>1 DEF OpenPcs
    <3>2. Opening(l)'
      BY <3>1 DEF Opening
    <3>3. DutyLink(l)' /\ DutyThread(x)' /\ OwedAt(pc'[x]) = 0
      BY <2>1, <2>a, <3>1, <3>2 DEF DutyLink, DutyThread, OwedAt, Open
    <3> QED
      BY <1>13, <1>14, <2>0, <2>1, <2>a, <3>3
  <2>2. CASE Goes(x, "socket", After(x, FALSE)) /\ word' = [word EXCEPT ![l] = EndInit(@, FALSE)]
    <3>1. pc'[x] \notin LinkPcs
      BY <1>9, <2>2
    <3>2. word'[l] = Closed /\ \A k \in Links \ {l} : word'[k] = word[k]
      BY <1>4, <2>2, InitWords DEF LinksOK
    <3>3. DutyLink(l)' /\ Weight(word'[l]) = 0
      BY <1>4, <3>2, ClosedWord, Weights DEF DutyLink
    <3> QED
      BY <1>10, <1>13, <1>14, <2>0, <2>a, <3>1, <3>2, <3>3
  <2> QED
    BY <1>0, <1>17, <2>1, <2>2 DEF Socket
<1>18. CASE EndOfInit(x)
  <2>0. /\ UNCHANGED <<started, polled, dels, done, change, faults>> /\ pc[x] = "end_init"
        /\ word' = [word EXCEPT ![l] = SetWork(EndInit(@, TRUE))]
    BY <1>0, <1>18 DEF EndOfInit, pollVars, callVars
  <2>a. OwedAt(pc[x]) = 0 /\ w.st = "initing" /\ ~w.closing /\ Weight(w) = 0
    BY <1>0, <1>4, <1>11, <2>0 DEF OpenerRef, OwedAt, Weight, Open
  <2>1. EndInitWorks(w, TRUE) /\ Goes(x, "end_init", "add_ref")
    BY <1>0, <1>18, <2>a DEF EndOfInit, EndInitWorks
  <2>2. pc'[x] = "add_ref" /\ At(x)' = l
    BY <1>8, <2>1 DEF OpenPcs
  <2>3. word'[l] = SetWork(EndInit(w, TRUE)) /\ \A k \in Links \ {l} : word'[k] = word[k]
    BY <1>4, <2>0 DEF LinksOK
  <2>4. LegalWord(word'[l]) /\ Open(word'[l]) /\ word'[l].ref = 0
    BY <1>4, <2>1, <2>3, InitWords
  <2>5. ~word'[l].closing /\ Weight(word'[l]) = 1 /\ OwedAt(pc'[x]) = -1
    BY <2>2, <2>4, Weights DEF OwedAt
  <2>6. Starting(l)'
    BY <2>2 DEF Starting
  <2>7. DutyLink(l)' /\ DutyThread(x)'
    BY <2>2, <2>4, <2>5, <2>6 DEF DutyLink, DutyThread, Open
  <2>8. Weight(word'[l]) + OwedAt(pc'[x]) - faults' <= Weight(w) + OwedAt(pc[x]) - faults
    <3>1. Weight(word'[l]) = 1 /\ OwedAt(pc'[x]) = -1 /\ faults' = faults /\ faults \in Int
      BY <1>13, <2>0, <2>5
    <3>2. Weight(w) = 0 /\ OwedAt(pc[x]) = 0
      BY <2>a
    <3> HIDE DEF w
    <3> QED
      BY <3>1, <3>2
  <2> QED
    BY <1>14, <2>0, <2>3, <2>7, <2>8
<1>19. CASE TakeRef(x)
  <2>0. /\ UNCHANGED <<polled, dels, done, change, faults>> /\ pc[x] = "add_ref"
        /\ started' = [started EXCEPT ![l] = TRUE]
    BY <1>0, <1>19 DEF TakeRef, Goes, pollVars, callVars
  <2>a. OwedAt(pc[x]) = -1 /\ ~w.closing /\ w.ref = 0 /\ Open(w)
    BY <1>0, <1>4, <1>11, <2>0 DEF OpenerRef, OwedAt, DutyThread
  <2>1. RefAllowed(w) /\ Weight(w) = 1
    BY <1>4, <2>a, Weights DEF RefAllowed, Open
  <2>2. Goes(x, "add_ref", "add") /\ word' = [word EXCEPT ![l] = AddRef(@)]
    BY <1>0, <1>19, <2>1 DEF TakeRef
  <2>3. pc'[x] = "add" /\ At(x)' = l
    BY <1>8, <2>2 DEF OpenPcs
  <2>4. word'[l] = AddRef(w) /\ started'[l] /\ \A k \in Links \ {l} : word'[k] = word[k] /\ started'[k] = started[k]
    BY <1>4, <2>0, <2>2 DEF LinksOK
  <2>5. LegalWord(word'[l]) /\ Open(word'[l]) /\ word'[l].ref = 1
    BY <1>4, <2>1, <2>4, <2>a, RefWords
  <2>6. ~word'[l].closing
    BY <1>4, <2>4, <2>a DEF AddRef, LegalWord, Word
  <2>7. Weight(word'[l]) = 0 /\ OwedAt(pc'[x]) = 0 /\ DutyThread(x)'
    BY <2>3, <2>5, <2>6, Weights DEF OwedAt, DutyThread
  <2>8. DutyLink(l)'
    BY <2>4, <2>5, <2>6 DEF DutyLink, Open
  <2> QED
    BY <1>13, <1>14, <2>0, <2>1, <2>a, <2>4, <2>7, <2>8
<1>20. CASE AddWake(x)
  <2>0. UNCHANGED <<word, started, dels, done, change>> /\ pc[x] = "add"
    BY <1>20 DEF AddWake, Goes, pollVars
  <2>a. /\ OwedAt(pc[x]) = 0 /\ pc[x] \in OpenPcs \ DutyPcs /\ ~w.closing /\ Open(w)
        /\ Weight(w) \in Int
    BY <1>0, <1>4, <1>11, <2>0 DEF OpenerRef, OwedAt, OpenPcs, DutyPcs, Weight
  <2>b. DutyLink(l)'
    BY <1>12, <2>0, <2>a DEF Settled, DutyLink
  <2>1. CASE Goes(x, "add", "tell") /\ polled' = [polled EXCEPT ![l] = TRUE] /\ UNCHANGED faults
    <3>1. pc'[x] = "tell"
      BY <1>8, <2>1 DEF OpenPcs
    <3>2. OwedAt(pc'[x]) = 0 /\ DutyThread(x)' /\ \A k \in Links \ {l} : polled'[k] = polled[k]
      BY <1>4, <2>1, <3>1 DEF OwedAt, DutyThread, LinksOK
    <3> QED
      BY <1>13, <1>14, <2>0, <2>1, <2>a, <2>b, <3>2
  <2>2. CASE Goes(x, "add", "sub_ref") /\ UNCHANGED polled
    <3>1. pc'[x] = "sub_ref"
      BY <1>8, <2>2 DEF OpenPcs
    <3>2. faults' = faults + 1
      BY <1>0, <1>4, <1>20, <2>2, <2>a, <3>1 DEF AddWake, Goes, CalmLink, Active
    <3>3. OwedAt(pc'[x]) = 1 /\ DutyThread(x)'
      BY <3>1 DEF OwedAt, DutyThread
    <3> QED
      BY <1>13, <1>14, <2>0, <2>2, <2>a, <2>b, <3>2, <3>3
  <2> QED
    BY <1>0, <1>20, <2>1, <2>2 DEF AddWake
<1>21. CASE AddFailed(x)
  <2>0. /\ UNCHANGED <<started, polled, dels, done, change, faults>> /\ pc[x] = "sub_ref"
        /\ word' = [word EXCEPT ![l] = SubRef(@)]
    BY <1>0, <1>21 DEF AddFailed, GiveUpRef, pollVars, callVars
  <2>a. /\ OwedAt(pc[x]) = 1 /\ pc[x] \in OpenPcs \ DutyPcs /\ ~w.closing /\ Open(w) /\ w.ref = 1
        /\ ~LastRef(w) /\ Weight(w) = 0
    BY <1>0, <1>4, <1>11, <2>0, Weights DEF OpenerRef, OwedAt, OpenPcs, DutyPcs, LastRef
  <2>1. Goes(x, "sub_ref", "fail")
    BY <1>0, <1>21, <2>a DEF AddFailed, GiveUpRef
  <2>2. pc'[x] = "fail"
    BY <1>8, <2>1 DEF OpenPcs
  <2>3. word'[l] = SubRef(w) /\ \A k \in Links \ {l} : word'[k] = word[k]
    BY <1>4, <2>0 DEF LinksOK
  <2>4. LegalWord(word'[l]) /\ word'[l].ref = 0 /\ Open(word'[l])
    BY <1>4, <2>3, <2>a, RefWords
  <2>5. ~word'[l].closing /\ Weight(word'[l]) = 1 /\ OwedAt(pc'[x]) = 0 /\ DutyThread(x)'
    BY <2>2, <2>4, Weights DEF OwedAt, DutyThread
  <2>6. DutyLink(l)'
    BY <1>12, <2>0, <2>4, <2>5, <2>a DEF Settled, DutyLink, Open
  <2> QED
    BY <1>13, <1>14, <2>0, <2>3, <2>5, <2>6, <2>a
<1>22. CASE Tell(x)
  <2>0. UNCHANGED <<word, started, polled, dels, done, change, faults>> /\ pc[x] = "tell"
    BY <1>22 DEF Tell, Goes, pollVars, callVars
  <2>1. pc[x] \in OpenPcs \ DutyPcs /\ OwedAt(pc[x]) = 0
    BY <2>0 DEF OpenPcs, DutyPcs, OwedAt
  <2>2. OwedAt(pc'[x]) = 0
    <3>1. CASE Goes(x, "tell", "fail")
      <4>1. pc'[x] = "fail"
        BY <1>8, <3>1 DEF OpenPcs
      <4> QED
        BY <4>1 DEF OwedAt
    <3>2. CASE Goes(x, "tell", After(x, TRUE))
      BY <1>9, <1>10, <3>2
    <3> QED
      BY <1>22, <3>1, <3>2 DEF Tell
  <2> QED
    BY <1>15, <2>0, <2>1, <2>2
<1>23. CASE Fail(x)
  <2>1. /\ CloseCh(x, l, After(x, FALSE)) /\ After(x, FALSE) \in PcsOf(x) \ LinkPcs
        /\ pc[x] = "fail" /\ UNCHANGED <<dels, done, change, faults>>
    BY <1>0, <1>6, <1>23 DEF Fail, pollVars, callVars
  <2> QED
    BY <1>0, <1>2, <1>5, <2>1, CloseDuties
<1> QED
  BY <1>16, <1>17, <1>18, <1>19, <1>20, <1>21, <1>22, <1>23

LEMMA LinkStepDuties ==
    ASSUME Control, Control', Refs, Calm, Active, Duties, NEW x \in Threads,
           Faults + 2 <= Slots, LinkStep(x)
    PROVE  Duties'
  BY RemovalDuties, OpeningDuties DEF LinkStep

(* Between two batches or rounds the engine has no link in hand. *)
LEMMA EngineNoDuty ==
    ASSUME Control, Duties, Active, Keeps(Engine), UNCHANGED <<word, polled, started, dels, faults, done>>,
           pc[Engine] \in {"batch", "round", "reset"},
           pc'[Engine] \in {"batch", "round", "entry", "off", "connect"}, ListOK'
    PROVE  Duties'
<1>1. \A y \in Threads : /\ pc[y] \in LinkPcs => Same(y)
                         /\ pc'[y] \in LinkPcs => Same(y) \/ pc'[y] = "connect"
  BY DEF Keeps, Same, LinkPcs, OpenPcs, ClosePcs
<1>2. \A k \in Links : ~Removing(k)
  BY DEF Removing
<1>3. GivenUp' <=> GivenUp
  BY DEF GivenUp
<1> QED
  BY <1>1, <1>2, <1>3, NoDuty

(* del_wake, step by step. *)
LEMMA DelWakeDuties ==
    ASSUME Control, Control', Refs, Calm, Reports, Active, Duties,
           Entry \/ EndPoll \/ RecvStop \/ NoMoreEntries
    PROVE  Duties'
<1>1. /\ Engine \in Threads /\ Keeps(Engine) /\ ControlOK /\ ControlOK' /\ pc[Engine] # "off"
  BY EngineMoves DEF Threads, Control, EngineStep
<1>2. Sole(Engine) /\ LinksOK /\ ListOK
  BY <1>1, SoleActor DEF Active, Refs, Duties
<1>3. /\ pc[Engine] \in {"entry", "end_poll", "recv_stop"} /\ UNCHANGED <<started, faults>>
      /\ InDelWake
  BY DEF Entry, EndPoll, GiveUpRef, RecvStop, NoMoreEntries, Goes, linkVars, callVars, InDelWake, GivenUp
<1>4. /\ OwedAt(pc[Engine]) = 0 /\ pc[Engine] \notin LinkPcs
  BY <1>3 DEF OwedAt, LinkPcs, OpenPcs, ClosePcs
<1>5. \A k \in Links : Settled(k)
  BY <1>1, <1>2, <1>4, SettledIs DEF Duties, DutyPcs, LinkPcs, OpenPcs, ClosePcs
<1>6. /\ Len(dels) \in Int /\ done \in Int /\ faults \in Int /\ known = Len(dels) /\ done <= known
      /\ done \in Nat /\ dels \in Seq(Links)
  BY <1>2, <1>3 DEF Control, CountsOK, ListOK
(* The close of the step: what is left to show of a step on link l. *)
<1>7. ASSUME NEW l \in Links,
             \A k \in Links \ {l} : /\ word'[k] = word[k] /\ polled'[k] = polled[k]
                                    /\ Removing(k) => Removing(k)'
                                    /\ word[k].closing /\ Queued(k) => Queued(k)',
             Settled(l)' \/ word'[l] = Closed, ListOK',
             pc'[Engine] \in {"entry", "end_poll", "recv_stop", "destroy", "reset"},
             Len(dels') - done' - Spent' + Weight(word'[l])
               <= Len(dels) - done - Spent + Weight(word[l])
      PROVE  Duties'
  <2>1. OwedAt(pc'[Engine]) = 0 /\ DutyThread(Engine)'
    BY <1>7 DEF OwedAt, DutyThread
  <2>2. DutyLink(l)'
    BY <1>7, ClosedWord, Weights DEF Settled, DutyLink
  <2>3. /\ Spent \in Int /\ Spent' \in Int /\ Weight(word[l]) \in Int /\ Weight(word'[l]) \in Int
        /\ Len(dels') \in Int /\ done' \in Int
    BY DEF Spent, Weight, Control, CountsOK
  <2>4. Len(dels') - done' - Spent' + Weight(word'[l]) + OwedAt(pc'[Engine]) - faults'
          <= Len(dels) - done - Spent + Weight(word[l]) + OwedAt(pc[Engine]) - faults
    <3> DEFINE A == Len(dels) - done - Spent + Weight(word[l])
               B == Len(dels') - done' - Spent' + Weight(word'[l])
    <3>1. A \in Int /\ B \in Int
      BY <1>6, <2>3
    <3>2. B <= A
      BY <1>7
    <3> HIDE DEF A, B
    <3>3. B + OwedAt(pc'[Engine]) - faults' <= A + OwedAt(pc[Engine]) - faults
      BY <1>3, <1>4, <1>6, <2>1, <3>1, <3>2
    <3> QED
      BY <3>3 DEF A, B
  <2> QED
    BY <1>1, <1>2, <1>3, <1>4, <1>7, <2>1, <2>2, <2>4, ActingDuties
<1>8. CASE Entry
  <2>0. pc[Engine] = "entry" /\ done < known /\ UNCHANGED <<word, dels, known, change>>
    BY <1>8 DEF Entry
  <2>1. PICK l \in Links : l = dels[done + 1]
    BY <2>0, EntryInBounds
  <2>2. ~GivenUp /\ Spent = 0 /\ \A k \in Links : ~Removing(k)
    BY <2>0 DEF GivenUp, Spent, Removing
  <2>w. Weight(word[l]) \in Int
    BY DEF Weight
  <2>3. CASE Goes(Engine, "entry", "end_poll") /\ polled' = [polled EXCEPT ![l] = FALSE] /\ UNCHANGED done
    <3>1. pc'[Engine] = "end_poll"
      BY <1>1, <2>3 DEF Goes, ControlOK
    <3>2. InDelWake' /\ ~GivenUp' /\ Spent' = 0 /\ Removing(l)'
      BY <2>0, <2>1, <2>3, <3>1 DEF InDelWake, GivenUp, Spent, Removing
    <3>3. \A k \in Links : Queued(k)' <=> Queued(k)
      BY <2>0, <2>3 DEF Queued
    <3>4. ListOK'
      BY <1>6, <2>0, <2>3, <3>1, <3>2 DEF ListOK
    <3>5. Settled(l)'
      BY <1>3, <1>5, <2>0, <3>2, <3>3 DEF Settled
    <3>6. \A k \in Links \ {l} : polled'[k] = polled[k]
      BY <1>2, <2>3 DEF LinksOK
    <3>7. Len(dels') - done' - Spent' + Weight(word'[l]) <= Len(dels) - done - Spent + Weight(word[l])
      BY <1>6, <2>0, <2>2, <2>3, <2>w, <3>2
    <3> QED
      BY <1>7, <2>0, <2>2, <3>1, <3>3, <3>4, <3>5, <3>6, <3>7
  <2>4. CASE ~polled[l] /\ done' = done + 1 /\ UNCHANGED <<polled, ctlVars>>
    <3>1. pc'[Engine] = "entry"
      BY <2>0, <2>4 DEF ctlVars
    <3>2. InDelWake' /\ ~GivenUp' /\ Spent' = 0
      BY <3>1 DEF InDelWake, GivenUp, Spent
    <3>3. ~word[l].closing
      BY <1>5, <2>2, <2>4 DEF Settled
    <3>4. ASSUME NEW k \in Links \ {l}, Queued(k) PROVE Queued(k)'
      <4>1. PICK i \in done + 1 .. Len(dels) : dels[i] = k
        BY <3>4 DEF Queued
      <4>2. i # done + 1
        BY <2>1, <3>4, <4>1
      <4>3. i \in done' + 1 .. Len(dels')
        BY <1>6, <2>0, <2>4, <4>1, <4>2
      <4> QED
        BY <2>0, <4>1, <4>3 DEF Queued
    <3>5. ListOK'
      BY <1>6, <2>0, <2>4, <3>1, <3>2 DEF ListOK
    <3>6. Settled(l)'
      BY <1>3, <1>5, <2>0, <3>3 DEF Settled
    <3>7. Len(dels') - done' - Spent' + Weight(word'[l]) <= Len(dels) - done - Spent + Weight(word[l])
      BY <1>6, <2>0, <2>2, <2>4, <2>w, <3>2
    <3> QED
      BY <1>7, <2>0, <2>2, <2>4, <3>1, <3>4, <3>5, <3>6, <3>7
  <2> QED
    BY <1>8, <2>1, <2>3, <2>4 DEF Entry
<1>9. CASE EndPoll
  <2>0. /\ pc[Engine] = "end_poll" /\ UNCHANGED <<polled, dels, done, known, change>>
        /\ word' = [word EXCEPT ![dels[done + 1]] = SubRef(@)]
    BY <1>9 DEF EndPoll, GiveUpRef, pollVars
  <2>1. PICK l \in Links : l = dels[done + 1]
    BY <2>0, EntryInBounds DEF AtEntry
  <2>2. LegalWord(word[l]) /\ Open(word[l]) /\ word[l].ref = 1
    BY <1>2, <2>0, <2>1 DEF Refs, LinksOK, LinkRef, Removing
  <2>3. word'[l] = SubRef(word[l]) /\ \A j \in Links \ {l} : word'[j] = word[j] /\ ~Removing(j)
    BY <1>2, <2>0, <2>1 DEF LinksOK, Removing
  <2>4. \/ pc'[Engine] = "recv_stop"
        \/ pc'[Engine] = "destroy" /\ job'[Engine].back = "recv_stop"
    <3>1. CASE Begins(Engine, "destroy", l, "recv_stop", FALSE)
      <4>1. "recv_stop" \in UserPcs \cup EnginePcs /\ FALSE \in BOOLEAN
        BY DEF EnginePcs
      <4> QED
        BY <1>1, <3>1, <4>1, TurnsTo
    <3> QED
      BY <1>1, <1>9, <2>1, <3>1 DEF EndPoll, GiveUpRef, Goes, ControlOK
  <2>5. InDelWake' /\ GivenUp' /\ ~GivenUp /\ Spent' = 1 /\ Spent = 0
    BY <2>0, <2>4 DEF InDelWake, GivenUp, Spent
  <2>6. ListOK' /\ \A k \in Links : Queued(k)' <=> Queued(k)
    BY <1>6, <2>0, <2>4, <2>5 DEF ListOK, Queued
  <2>7. CASE word[l].closing
    <3>1. word'[l] = Closed
      BY <2>2, <2>3, <2>7, RefWords DEF LastRef
    <3>2. Weight(word[l]) = -1 /\ Weight(word'[l]) = 0
      BY <2>2, <2>7, <3>1, Weights
    <3>3. Len(dels') - done' - Spent' + Weight(word'[l]) <= Len(dels) - done - Spent + Weight(word[l])
      BY <1>6, <2>0, <2>5, <3>2
    <3> QED
      BY <1>7, <2>0, <2>3, <2>4, <2>6, <3>1, <3>3
  <2>8. CASE ~word[l].closing
    <3>1. LegalWord(word'[l]) /\ word'[l].ref = 0 /\ Open(word'[l])
      BY <2>2, <2>3, <2>8, RefWords DEF LastRef
    <3>2. ~word'[l].closing /\ Weight(word[l]) = 0 /\ Weight(word'[l]) = 1
      BY <2>2, <2>8, <3>1, Weights
    <3>3. Len(dels') - done' - Spent' + Weight(word'[l]) <= Len(dels) - done - Spent + Weight(word[l])
      BY <1>6, <2>0, <2>5, <3>2
    <3>4. Settled(l)'
      BY <1>3, <1>5, <2>2, <3>1, <3>2 DEF Settled, Open
    <3> QED
      BY <1>7, <2>0, <2>3, <2>4, <2>6, <3>3, <3>4
  <2> QED
    BY <2>7, <2>8
<1>10. CASE RecvStop
  <2>0. /\ pc[Engine] = "recv_stop" /\ pc'[Engine] = "entry" /\ UNCHANGED <<word, polled, dels, known, change>>
        /\ done' = done + 1
    BY <1>1, <1>10 DEF RecvStop, Goes, ControlOK
  <2>1. PICK l \in Links : l = dels[done + 1] /\ done < known
    BY <2>0, EntryInBounds DEF AtEntry
  <2>2. Spent = 1 /\ Spent' = 0 /\ InDelWake' /\ \A k \in Links : ~Removing(k)
    BY <2>0 DEF Spent, GivenUp, InDelWake, Removing
  <2>3. ~word[l].closing
    <3>1. ~polled[l]
      BY <2>0, <2>1 DEF Reports, InEntry, AtEntry
    <3> QED
      BY <1>5, <2>2, <3>1 DEF Settled
  <2>4. ASSUME NEW k \in Links \ {l}, Queued(k) PROVE Queued(k)'
    <3>1. PICK i \in done + 1 .. Len(dels) : dels[i] = k
      BY <2>4 DEF Queued
    <3>2. i # done + 1
      BY <2>1, <2>4, <3>1
    <3>3. i \in done' + 1 .. Len(dels')
      BY <1>6, <2>0, <3>1, <3>2
    <3> QED
      BY <2>0, <3>1, <3>3 DEF Queued
  <2>5. ListOK'
    BY <1>6, <2>0, <2>1, <2>2 DEF ListOK
  <2>6. Settled(l)'
    BY <1>3, <1>5, <2>0, <2>3 DEF Settled
  <2>7. Len(dels') - done' - Spent' + Weight(word'[l]) <= Len(dels) - done - Spent + Weight(word[l])
    <3>1. Weight(word[l]) \in Int
      BY DEF Weight
    <3> QED
      BY <1>6, <2>0, <2>2, <3>1
  <2> QED
    BY <1>7, <2>0, <2>2, <2>4, <2>5, <2>6, <2>7
<1>11. CASE NoMoreEntries
  <2>0. /\ pc[Engine] = "entry" /\ pc'[Engine] = "reset" /\ UNCHANGED <<word, polled, change>>
        /\ dels' = <<>> /\ done' = 0 /\ done >= known
    BY <1>1, <1>11 DEF NoMoreEntries, Goes, ControlOK, linkVars
  <2>1. Spent = 0 /\ Spent' = 0 /\ ~InDelWake' /\ \A k \in Links : ~Removing(k)
    BY <2>0 DEF Spent, GivenUp, InDelWake, Removing
  <2>2. \A k \in Links : ~Queued(k)
    BY <1>6, <2>0 DEF Queued
  <2>3. \A k \in Links : ~word[k].closing
    BY <1>5, <2>2 DEF Settled
  <2>4. ListOK'
    BY <2>0, <2>1 DEF ListOK
  <2>5. G98 \in Links
    BY DEF Links
  <2>6. Settled(G98)'
    BY <1>3, <1>5, <2>0, <2>3, <2>5 DEF Settled
  <2>7. Len(dels') - done' - Spent' + Weight(word'[G98]) <= Len(dels) - done - Spent + Weight(word[G98])
    <3>1. Weight(word[G98]) \in Int /\ Len(dels') = 0
      BY <2>0 DEF Weight
    <3> QED
      BY <1>6, <2>0, <2>1, <3>1
  <2> QED
    BY <1>7, <2>0, <2>1, <2>3, <2>4, <2>5, <2>6, <2>7
<1> QED
  BY <1>8, <1>9, <1>10, <1>11

LEMMA EngineDuties ==
    ASSUME Control, Refs, Calm, Reports, Active, Duties, Faults + 2 <= Slots, EngineStep
    PROVE  Duties'
<1>1. /\ Engine \in Threads /\ Keeps(Engine) /\ ControlOK /\ ControlOK' /\ Control' /\ pc[Engine] # "off"
  BY EngineMoves, EngineControl DEF Threads, Control
<1>2. ListOK
  BY DEF Duties
<1>3. CASE ToStop \/ EpollWait \/ QueueEvent \/ RoundDone \/ ChangeEvent \/ Reset
  <2>1. UNCHANGED <<word, polled, started, dels, faults>>
    BY <1>3 DEF ToStop, EpollWait, QueueEvent, RoundDone, ChangeEvent, Reset, linkVars, pollVars, callVars
  <2>2. /\ pc[Engine] \in {"batch", "round", "reset"}
        /\ pc'[Engine] \in {"batch", "round", "entry", "off"}
    BY <1>1, <1>3 DEF ToStop, EpollWait, QueueEvent, RoundDone, ChangeEvent, Reset, Goes, ControlOK, ctlVars
  <2>3. ~InDelWake /\ done = 0
    BY <1>2, <2>2 DEF InDelWake, GivenUp, ListOK
  <2>4. done' = 0
    BY <1>3, <2>3 DEF ToStop, EpollWait, QueueEvent, RoundDone, ChangeEvent, Reset, pollVars
  <2>5. ListOK'
    <3>1. CASE ChangeEvent
      <4>1. pc'[Engine] = "entry" /\ known' = Len(dels) /\ done' = 0
        BY <1>1, <3>1 DEF ChangeEvent, Goes, ControlOK
      <4>2. Len(dels) \in Nat
        BY DEF Control, CountsOK
      <4> QED
        BY <2>1, <4>1, <4>2 DEF ListOK, InDelWake
    <3>2. CASE Reset
      <4>1. pc[Engine] = "reset" /\ pc'[Engine] = "batch"
        BY <1>1, <3>2 DEF Reset, Goes, ControlOK
      <4> QED
        BY <1>2, <2>1, <2>4, <4>1 DEF ListOK, InDelWake, GivenUp
    <3>3. CASE ToStop \/ EpollWait \/ QueueEvent \/ RoundDone
      <4>1. pc'[Engine] \in {"batch", "round", "off"} /\ UNCHANGED change
        BY <1>1, <3>3 DEF ToStop, EpollWait, QueueEvent, RoundDone, Goes, ControlOK, ctlVars, pollVars
      <4> QED
        BY <1>2, <2>1, <2>3, <2>4, <4>1 DEF ListOK, InDelWake, GivenUp
    <3> QED
      BY <1>3, <3>1, <3>2, <3>3
  <2> QED
    BY <1>1, <2>1, <2>2, <2>3, <2>4, <2>5, EngineNoDuty
<1>4. CASE \E l \in Links : LinkEvent(l) \/ Event(l)
  <2>1. PICK l \in Links : LinkEvent(l) \/ Event(l)
    BY <1>4
  <2>2. /\ pc[Engine] \in {"batch", "round"} /\ UNCHANGED <<dels, change, done, known, faults>>
    BY <2>1 DEF LinkEvent, Event, callVars
  <2>3. ~InDelWake
    BY <2>2 DEF InDelWake, GivenUp
  <2>4. ASSUME NEW b \in {"batch", "round"}, pc[Engine] = b, CloseCh(Engine, l, b) PROVE Duties'
    <3>1. b \in PcsOf(Engine) \ LinkPcs /\ pc[Engine] \notin LinkPcs
      BY <2>4 DEF PcsOf, LinkPcs, OpenPcs, ClosePcs, EnginePcs
    <3>2. ~InDelWake' /\ pc'[Engine] # "reset"
      BY <2>4, EngineClose DEF InDelWake, GivenUp, ClosePcs
    <3>3. Sole(Engine)
      BY <1>1, SoleActor DEF Active
    <3> QED
      BY <1>1, <2>2, <2>3, <2>4, <3>1, <3>2, <3>3, CloseDuties
  <2>5. CASE UNCHANGED linkVars /\ (UNCHANGED ctlVars \/ Begins(Engine, "connect", l, "round", FALSE))
    <3>1. pc'[Engine] \in {"batch", "round", "connect"}
      BY <1>1, <2>2, <2>5 DEF Begins, ControlOK, ctlVars
    <3>2. ListOK'
      BY <1>2, <2>2, <2>3, <3>1 DEF ListOK, InDelWake, GivenUp
    <3>3. UNCHANGED <<word, polled, started>>
      BY <2>5 DEF linkVars
    <3> QED
      BY <1>1, <2>2, <3>1, <3>2, <3>3, EngineNoDuty
  <2> QED
    BY <2>1, <2>4, <2>5 DEF LinkEvent, Event
<1>5. CASE Entry \/ EndPoll \/ RecvStop \/ NoMoreEntries
  BY <1>1, <1>5, DelWakeDuties
<1>6. ~MoreEntries
  BY <1>2 DEF MoreEntries, ListOK, InDelWake
<1>7. CASE LinkStep(Engine)
  BY <1>1, <1>7, LinkStepDuties
<1> QED
  BY <1>3, <1>4, <1>5, <1>6, <1>7 DEF EngineStep

LEMMA UserDuties ==
    ASSUME Control, Refs, Calm, Active, Active', Duties, Faults + 2 <= Slots,
           NEW u \in Users, Start(u) \/ Stop(u) \/ UserStep(u)
    PROVE  Duties'
<1>0. u \in Threads /\ u # Engine /\ ControlOK /\ ListOK /\ Control'
  BY UserControl DEF Threads, Control, Duties
<1>1. CASE LinkStep(u)
  BY <1>0, <1>1, LinkStepDuties
<1>2. CASE Run(u)
  <2>1. /\ pc[u] = "run" /\ UNCHANGED <<word, started, dels, change, done, known, faults>>
        /\ UNCHANGED polled
    BY <1>2 DEF Run, Goes, pollVars, Active
  <2>2. pc[Engine] = "off" /\ Alone(u)
    BY <2>1, InChargeAlone DEF Control, PhaseInv, PhaseOf, QuietPcs
  <2>3. /\ pc'[u] \in {"fast", "undo"} /\ pc'[Engine] \in {"off", "batch"}
        /\ \A v \in Users \ {u} : pc'[v] = "idle" /\ pc[v] = "idle"
    BY <1>0, <1>2, <2>2 DEF Alone, Run, Goes, ControlOK, Threads
  <2>4. \A y \in Threads : /\ pc[y] \in {"run", "off", "idle"}
                           /\ pc'[y] \in {"fast", "undo", "off", "batch", "idle"}
    BY <2>1, <2>2, <2>3 DEF Threads
  <2>5. \A y \in Threads : pc[y] \notin LinkPcs /\ pc'[y] \notin LinkPcs
    BY <2>4 DEF LinkPcs, OpenPcs, ClosePcs
  <2>6. (GivenUp' <=> GivenUp) /\ \A k \in Links : ~Removing(k)
    BY <2>2, <2>3 DEF GivenUp, Removing
  <2>7. ListOK'
    BY <1>0, <2>1, <2>2, <2>3 DEF ListOK, InDelWake, GivenUp
  <2> QED
    BY <2>1, <2>5, <2>6, <2>7, NoDuty
<1>3. CASE ~LinkStep(u) /\ ~Run(u)
  <2>1. ControlOK' /\ Keeps(u) /\ UNCHANGED <<dels, done>>
    BY <1>3, UserMoves
  <2>2. UNCHANGED <<known, change, faults>>
    BY <1>3 DEF UserStep, Start, Stop, Prepare, Dial, Fast, Undo, UndoClose, Undone, StopClose, Halt, Join,
       CallUnchanged, pollVars, callVars
  <2>3. /\ pc'[Engine] = pc[Engine] /\ job'[Engine] = job[Engine]
        /\ InDelWake' <=> InDelWake
        /\ GivenUp' <=> GivenUp
        /\ \A k \in Links : Removing(k) <=> Removing(k)'
    BY <2>1, UserKeeps DEF InDelWake, GivenUp, Removing
  <2>4. CASE UndoClose(u)
    <3>1. PICK l \in Links, b \in {"undo_fgw", "undone"} : CloseCh(u, l, b)
      BY <2>4 DEF UndoClose, Links
    <3>2. b \in PcsOf(u) \ LinkPcs
      BY <1>0 DEF PcsOf, LinkPcs, OpenPcs, ClosePcs, UserPcs
    <3>3. pc[u] \in {"undo_join", "undo_fgw"} /\ pc[Engine] = "off"
      BY <2>4 DEF UndoClose, Control, PhaseInv, PhaseOf, QuietPcs
    <3>4. pc[u] \notin LinkPcs /\ pc[u] # "idle"
      BY <3>3 DEF LinkPcs, OpenPcs, ClosePcs
    <3>5. Sole(u)
      BY <1>0, <3>3, <3>4, SoleActor DEF Active
    <3>6. ~InDelWake /\ ~InDelWake' /\ pc'[Engine] # "reset"
      BY <2>3, <3>3 DEF InDelWake, GivenUp
    <3> QED
      BY <1>0, <2>1, <2>2, <3>1, <3>2, <3>4, <3>5, <3>6, CloseDuties
  <2>5. CASE Dial(u) \/ Start(u) \/ Prepare(u) \/ Fast(u) \/ Undo(u) \/ Undone(u) \/ Halt(u) \/ Join(u)
    <3>1. UNCHANGED <<word, polled, started>>
      BY <2>5 DEF Dial, Start, Prepare, Fast, Undo, Undone, Halt, Join, CallUnchanged, linkVars
    <3>2. /\ pc[u] \in {"dial", "idle", "prepare", "fast", "undo", "undone", "halt", "join"}
          /\ pc'[u] \in {"connect", "run", "undo", "prepare", "dial", "idle", "undo_join", "join"}
      <4>1. CASE Dial(u)
        BY <1>0, <4>1 DEF Dial, Goes, Begins, ControlOK
      <4>2. CASE ~Dial(u)
        BY <1>0, <2>5, <4>2 DEF Start, Prepare, Fast, Undo, Undone, Halt, Join, Goes, ControlOK
      <4> QED
        BY <4>1, <4>2
    <3>3. pc[u] \notin LinkPcs /\ (pc'[u] \in LinkPcs => pc'[u] = "connect")
      BY <3>2 DEF LinkPcs, OpenPcs, ClosePcs
    <3>4. \A y \in Threads : /\ pc[y] \in LinkPcs => Same(y)
                             /\ pc'[y] \in LinkPcs => Same(y) \/ pc'[y] = "connect"
      BY <2>1, <3>3 DEF Keeps, Same
    <3>5. ListOK'
      BY <1>0, <2>1, <2>2, <2>3 DEF ListOK
    <3> QED
      BY <2>1, <2>2, <2>3, <3>1, <3>4, <3>5, NoDuty
  <2>6. ~StopClose(u) /\ ~Stop(u)
    <3>1. PhaseOf(u)
      BY DEF Control, PhaseInv
    <3> QED
      BY <3>1 DEF StopClose, Stop, Active, BeforeStop, PhaseOf, StopPcs
  <2> QED
    BY <1>3, <2>4, <2>5, <2>6 DEF UserStep
<1> QED
  BY <1>1, <1>2, <1>3

(* The engine stays stopped, and an epoll set destroyed stays so.          *)
LEMMA WasActive == ASSUME Control, Next, Active' PROVE Active
<1>1. CASE EngineStep
  <2>1. have' = have
    BY <1>1, EngineMoves
  <2>2. mstate' # "none" => mstate # "none"
    <3>1. CASE LinkStep(Engine)
      BY <3>1, LinkStepMoves DEF Threads
    <3>2. CASE ~LinkStep(Engine)
      BY <1>1, <3>2 DEF EngineStep, ToStop, EpollWait, QueueEvent, RoundDone, ChangeEvent, LinkEvent, Event,
         Entry, EndPoll, GiveUpRef, RecvStop, MoreEntries, NoMoreEntries, Reset, callVars
    <3> QED
      BY <3>1, <3>2
  <2> QED
    BY <2>1, <2>2 DEF Active, BeforeStop
<1>2. CASE \E u \in Users : Start(u) \/ Stop(u) \/ UserStep(u)
  <2>1. PICK u \in Users : Start(u) \/ Stop(u) \/ UserStep(u)
    BY <1>2
  <2>2. CASE LinkStep(u)
    BY <2>2, LinkStepMoves DEF Active, BeforeStop, Threads
  <2>3. CASE Fast(u) \/ Undone(u)
    <3>1. have = 1 /\ UNCHANGED mstate
      BY <2>3 DEF Fast, Undone, Goes, Control, PhaseInv, PhaseOf, StartPcs
    <3> QED
      BY <3>1 DEF Active, BeforeStop
  <2>4. CASE Start(u) \/ Stop(u)
    BY <2>4 DEF Start, Stop, Active, BeforeStop
  <2>5. CASE \/ Prepare(u) \/ Dial(u) \/ Run(u) \/ Undo(u) \/ UndoClose(u)
             \/ StopClose(u) \/ Halt(u) \/ Join(u)
    <3>1. have' = have /\ (mstate' # "none" => mstate # "none")
      BY <2>5 DEF Prepare, Dial, Run, Undo, UndoClose, StopClose, Halt, Join, StopThread, callVars
    <3> QED
      BY <3>1 DEF Active, BeforeStop
  <2> QED
    BY <2>1, <2>2, <2>3, <2>4, <2>5 DEF UserStep
<1>3. CASE \E u \in Users : ReturnAtOnce(u)
  BY <1>3 DEF ReturnAtOnce, vars, callVars, Active, BeforeStop
<1> QED
  BY <1>1, <1>2, <1>3 DEF Next

LEMMA InitDuties == Init => Duties
<1> SUFFICES ASSUME Init PROVE Duties
  OBVIOUS
<1>1. \A x \in Threads : pc[x] \in {"off", "idle"}
  BY DEF Init
<1>2. pc[Engine] \in {"off", "idle"}
  BY <1>1 DEF Threads
<1>3. ~InDelWake /\ ~GivenUp
  BY <1>2 DEF InDelWake, GivenUp
<1>4. \A l \in Links : word[l] = Closed
  BY DEF Init
<1>5. \A l \in Links : DutyLink(l)
  BY <1>4, ClosedWord, Weights DEF DutyLink
<1>6. \A x \in Threads : DutyThread(x) /\ OwedAt(pc[x]) = 0
  BY <1>1 DEF DutyThread, OwedAt
<1>7. ListOK
  BY <1>2, <1>3 DEF Init, ListOK
<1>8. Needed = 0
  <2>1. Weight(word[G98]) = 0 /\ Weight(word[Fgw]) = 0
    BY <1>4, ClosedWord, Weights DEF Links
  <2>2. dels = <<>> /\ done = 0 /\ Spent = 0
    BY <1>3 DEF Init, Spent
  <2> QED
    BY <2>1, <2>2 DEF Needed
<1>9. Slack
  BY <1>6, <1>8 DEF Slack, Init
<1> QED
  BY <1>5, <1>6, <1>7, <1>9 DEF Duties

LEMMA NextDuties ==
    ASSUME Faults + 2 <= Slots, Control, Refs, Calm, Reports, Duties, [Next]_vars
    PROVE  Duties'
<1>1. ASSUME UNCHANGED vars PROVE Duties'
  BY <1>1 DEF vars, linkVars, pollVars, callVars, ctlVars, Duties, Active, BeforeStop, DutyLink, DutyThread,
              ListOK, Slack, Needed, Spent, Queued, Opening, Starting, RemovesNow, Removing, InDelWake, GivenUp, At
<1>2. CASE Next /\ Active'
  <2>1. Active
    BY <1>2, WasActive
  <2>2. CASE EngineStep
    BY <1>2, <2>1, <2>2, EngineDuties DEF Duties
  <2>3. CASE \E u \in Users : Start(u) \/ Stop(u) \/ UserStep(u)
    <3>1. PICK u \in Users : Start(u) \/ Stop(u) \/ UserStep(u)
      BY <2>3
    <3> QED
      BY <1>2, <2>1, <3>1, UserDuties DEF Duties
  <2>4. CASE \E u \in Users : ReturnAtOnce(u)
    <3>1. UNCHANGED vars
      BY <2>4 DEF ReturnAtOnce
    <3> QED
      BY <3>1, <1>1
  <2> QED
    BY <1>2, <2>2, <2>3, <2>4 DEF Next
<1>3. CASE ~Active'
  BY <1>3 DEF Duties
<1> QED
  BY <1>1, <1>2, <1>3

(* A closing link weighs -1, no other does. *)
LEMMA WeighClosing ==
    ASSUME \A l \in Links : LegalWord(word[l])
    PROVE  LET C == {l \in Links : word[l].closing}
           IN  /\ IsFiniteSet(C) /\ Cardinality(C) \in Nat
               /\ 0 <= Cardinality(C) + Weight(word[G98]) + Weight(word[Fgw])
<1> DEFINE C == {l \in Links : word[l].closing}
<1>0. G98 \in Links /\ Fgw \in Links /\ Links = {G98, Fgw}
  BY DEF Links
<1>1. ASSUME NEW l \in Links
      PROVE  Weight(word[l]) = IF l \in C THEN -1 ELSE IF Weight(word[l]) = 1 THEN 1 ELSE 0
  BY DEF Weight
<1>2. CASE C = {}
  <2>1. IsFiniteSet(C) /\ Cardinality(C) = 0
    BY <1>2, FS_EmptySet
  <2> QED
    BY <1>0, <1>1, <1>2, <2>1
<1>3. CASE \E l \in Links : C = {l}
  <2>1. PICK l \in Links : C = {l}
    BY <1>3
  <2>2. IsFiniteSet(C) /\ Cardinality(C) = 1
    <3>1. IsFiniteSet({l}) /\ Cardinality({l}) = 1
      BY FS_Singleton
    <3> QED
      BY <2>1, <3>1
  <2>3. G98 \notin C \/ Fgw \notin C
    BY <2>1
  <2> QED
    BY <1>0, <1>1, <2>2, <2>3
<1>4. CASE C = {G98, Fgw}
  <2>1. IsFiniteSet({G98}) /\ Cardinality({G98}) = 1
    BY FS_Singleton
  <2>2. IsFiniteSet({G98} \cup {Fgw}) /\ Cardinality({G98} \cup {Fgw}) = 2
    BY <2>1, FS_AddElement
  <2>3. C = {G98} \cup {Fgw}
    BY <1>4
  <2>4. IsFiniteSet(C) /\ Cardinality(C) = 2
    BY <2>2, <2>3
  <2> QED
    BY <1>0, <1>1, <2>4
<1>5. C = {} \/ (\E l \in Links : C = {l}) \/ C = {G98, Fgw}
  BY <1>0
<1> QED
  BY <1>2, <1>3, <1>4, <1>5

(* Every closing link has a removal, and the slack is the refusals: the    *)
(* other removals are no more than these.                                  *)
LEMMA FewStale == Control /\ Refs /\ Joins /\ Duties => StaleIsRefused
<1> SUFFICES ASSUME Control, Refs, Joins, Duties, BeforeStop, pc[Engine] \in {"entry", "end_poll"}
             PROVE  Cardinality(Stale) <= faults
  BY DEF StaleIsRefused
<1> DEFINE C == {l \in Links : word[l].closing}
           D == done + 1 .. Len(dels)
           R == D \ Stale
<1>1. Active /\ ~GivenUp /\ InDelWake
  BY DEF Active, Joins, GivenUp, InDelWake
<1>2. (\A l \in Links : DutyLink(l)) /\ ListOK /\ Slack
  BY <1>1 DEF Duties
<1>3. \A x \in Threads : OwedAt(pc[x]) = 0 /\ pc[x] # "remove"
  <2>1. ASSUME NEW u \in Users PROVE pc[u] \notin LinkPcs
    BY DEF Control, PhaseInv, PhaseOf, BeforeStop, QuietPcs, LinkPcs
  <2> QED
    BY <2>1 DEF Threads, OwedAt, LinkPcs, OpenPcs, ClosePcs
<1>4. Needed <= faults
  BY <1>2, <1>3 DEF Slack
<1>5. /\ dels \in Seq(Links) /\ Len(dels) \in Nat /\ done \in Nat /\ done <= Len(dels)
      /\ faults \in Nat
  BY <1>1, <1>2 DEF Control, CountsOK, ListOK
<1>6. IsFiniteSet(D) /\ Cardinality(D) = Len(dels) - done
  <2>1. /\ IsFiniteSet(D)
        /\ Cardinality(D) = IF done + 1 > Len(dels) THEN 0 ELSE Len(dels) - (done + 1) + 1
    <3>1. done + 1 \in Int /\ Len(dels) \in Int
      BY <1>5
    <3> QED
      BY <3>1, FS_Interval
  <2> HIDE DEF D
  <2> QED
    BY <1>5, <2>1
<1>7. IsFiniteSet(R) /\ Cardinality(R) \in Nat
  BY <1>6, FS_Subset, FS_CardinalityType
<1>8. Cardinality(Stale) = Cardinality(D) - Cardinality(R)
  <2>1. D \ R = Stale /\ D \cap R = R
    BY DEF Stale
  <2> HIDE DEF D, R
  <2>2. Cardinality(D \ R) = Cardinality(D) - Cardinality(D \cap R)
    BY <1>6, FS_Difference
  <2> QED
    BY <2>1, <2>2
<1>9. Cardinality(C) <= Cardinality(R)
  <2> DEFINE f == [i \in R |-> dels[i]]
  <2>1. \A i \in R : dels[i] \in C
    BY <1>5 DEF Stale
  <2>2. \A l \in C : \E i \in R : f[i] = l
    BY <1>2, <1>3 DEF DutyLink, RemovesNow, Queued, Stale
  <2>3. f \in Surjection(R, C)
    BY <2>1, <2>2 DEF Surjection
  <2> HIDE DEF f
  <2> QED
    BY <1>7, <2>3, FS_Surjection
<1>10. /\ Cardinality(C) \in Nat
       /\ 0 <= Cardinality(C) + Weight(word[G98]) + Weight(word[Fgw])
  <2>1. \A l \in Links : LegalWord(word[l])
    BY DEF Refs, LinksOK
  <2> QED
    BY <2>1, WeighClosing
<1>11. Needed = Len(dels) - done + Weight(word[G98]) + Weight(word[Fgw])
       /\ Weight(word[G98]) \in Int /\ Weight(word[Fgw]) \in Int
  BY <1>1, <1>5 DEF Needed, Spent, Weight
<1> HIDE DEF C, D, R
<1> QED
  BY <1>4, <1>5, <1>6, <1>7, <1>8, <1>9, <1>10, <1>11

(* A step in an entry of del_wake whose reference is given up: nobody else *)
(* may touch a link, and the entry stays the one at hand.                  *)
LEMMA GivenUpStays ==
    ASSUME Control, Joins, Next, GivenUp, GivenUp', BeforeStop
    PROVE  UNCHANGED word /\ dels'[done' + 1] = dels[done + 1]
<1>1. pc[Engine] \in {"recv_stop", "destroy"} /\ (pc[Engine] = "destroy" => job[Engine].back = "recv_stop")
  BY DEF GivenUp
<1>2. CASE EngineStep
  <2>1. \/ pc[Engine] = "recv_stop" /\ RecvStop
        \/ pc[Engine] = "destroy" /\ Destroy(Engine)
    <3>1. LinkStep(Engine) => Destroy(Engine)
      BY <1>1 DEF LinkStep, Remove, DropRemoval, Connect, Socket, EndOfInit, TakeRef, AddWake, AddFailed,
         GiveUpRef, Tell, Fail, Goes
    <3>2. ~ToStop /\ ~EpollWait /\ ~QueueEvent /\ ~RoundDone /\ ~ChangeEvent
      BY <1>1 DEF ToStop, EpollWait, QueueEvent, RoundDone, ChangeEvent, Goes
    <3>3. ~Entry /\ ~EndPoll /\ ~MoreEntries /\ ~NoMoreEntries /\ ~Reset
      BY <1>1 DEF Entry, EndPoll, GiveUpRef, MoreEntries, NoMoreEntries, Reset, Goes
    <3>4. \A l \in Links : ~LinkEvent(l) /\ ~Event(l)
      BY <1>1 DEF LinkEvent, Event
    <3>5. LinkStep(Engine) => pc[Engine] \in LinkPcs
      BY LinkStepMoves DEF Threads
    <3> QED
      BY <1>1, <1>2, <3>1, <3>2, <3>3, <3>4, <3>5 DEF EngineStep, Destroy, RecvStop, Goes
  <2>2. ~RecvStop
    <3>1. RecvStop => pc'[Engine] = "entry"
      BY DEF RecvStop, Goes, Control, ControlOK, Threads
    <3> QED
      BY <3>1 DEF GivenUp
  <2> QED
    BY <2>1, <2>2 DEF Destroy, pollVars
<1>3. CASE \E u \in Users : Start(u) \/ Stop(u) \/ UserStep(u)
  <2>1. PICK u \in Users : Start(u) \/ Stop(u) \/ UserStep(u)
    BY <1>3
  <2>2. pc[u] \notin LinkPcs \cup {"run", "dial", "stop_g98", "stop_fgw", "undo_fgw"}
    BY <1>1 DEF Control, PhaseInv, PhaseOf, BeforeStop, QuietPcs, LinkPcs, StopPcs
  <2>3. ~LinkStep(u) /\ ~Run(u)
    <3>1. u \in Threads
      BY DEF Threads
    <3> QED
      BY <2>2, <3>1, LinkStepMoves DEF Run, Goes
  <2>4. UNCHANGED <<dels, done>>
    BY <2>1, <2>3, UserMoves
  <2>5. ~UndoClose(u) /\ ~StopClose(u)
    BY <1>1, <2>2 DEF UndoClose, StopClose
  <2>6. UNCHANGED word
    BY <2>1, <2>3, <2>5 DEF UserStep, Start, Stop, Prepare, Dial, Fast, Undo, Undone, Halt, Join,
       CallUnchanged, linkVars
  <2> QED
    BY <2>4, <2>6
<1>4. CASE \E u \in Users : ReturnAtOnce(u)
  BY <1>4 DEF ReturnAtOnce, vars, linkVars, pollVars
<1> QED
  BY <1>2, <1>3, <1>4 DEF Next

(* Only the end of a polling begins one. *)
LEMMA GivenUpBegins ==
    ASSUME Control, Next, ~GivenUp, GivenUp'
    PROVE  EndPoll
<1>1. AtEntry' /\ pc'[Engine] # "end_poll" /\ Engine \in Threads
  BY DEF GivenUp, AtEntry, Threads
<1>2. ASSUME NEW u \in Users, Start(u) \/ Stop(u) \/ UserStep(u) PROVE FALSE
  <2>1. CASE LinkStep(u)
    <3>1. u \in Threads /\ Keeps(u)
      BY <2>1, LinkStepMoves DEF Threads
    <3> QED
      BY <3>1, UserKeeps DEF GivenUp
  <2>2. CASE Run(u)
    BY <2>2 DEF Run, Goes, GivenUp, Control, ControlOK, PhaseInv, PhaseOf, QuietPcs, Threads
  <2>3. CASE ~LinkStep(u) /\ ~Run(u)
    <3>1. Keeps(u)
      BY <1>2, <2>3, UserMoves
    <3> QED
      BY <3>1, UserKeeps DEF GivenUp
  <2> QED
    BY <2>1, <2>2, <2>3
<1>3. CASE EngineStep
  <2>1. Keeps(Engine) /\ ControlOK /\ ControlOK'
    BY <1>3, EngineMoves DEF Control
  <2>2. CASE \/ ToStop \/ EpollWait \/ QueueEvent \/ RoundDone \/ ChangeEvent
             \/ MoreEntries \/ NoMoreEntries \/ Reset \/ Entry \/ RecvStop
    <3>1. pc'[Engine] \in {"batch", "round", "entry", "end_poll", "reset", "off"}
      BY <1>1, <2>1, <2>2 DEF ToStop, EpollWait, QueueEvent, RoundDone, ChangeEvent, MoreEntries,
         NoMoreEntries, Reset, Entry, RecvStop, Goes, ControlOK, ctlVars
    <3> QED
      BY <3>1 DEF GivenUp
  <2>3. CASE \E l \in Links : LinkEvent(l) \/ Event(l)
    <3>1. PICK l \in Links : LinkEvent(l) \/ Event(l)
      BY <2>3
    <3>2. ASSUME NEW b \in {"batch", "round"}, pc[Engine] = b, CloseCh(Engine, l, b)
          PROVE  ~AtEntry'
      BY <3>2, EngineClose DEF AtEntry, ClosePcs
    <3>3. CASE UNCHANGED ctlVars \/ Begins(Engine, "connect", l, "round", FALSE)
      BY <1>1, <2>1, <3>1, <3>3 DEF LinkEvent, Event, Begins, ControlOK, ctlVars, GivenUp
    <3> QED
      BY <1>1, <3>1, <3>2, <3>3 DEF LinkEvent, Event
  <2>4. CASE LinkStep(Engine)
    <3>1. MovedOn(Engine)
      BY <1>1, <2>4, LinkStepMoves
    <3>2. After(Engine, TRUE) = "round" /\ After(Engine, FALSE) = "round"
      BY DEF After
    <3> QED
      BY <3>1, <3>2 DEF MovedOn, GivenUp, LinkPcs, OpenPcs, ClosePcs, Control, EntryInv
  <2> QED
    BY <1>3, <2>2, <2>3, <2>4 DEF EngineStep
<1>4. CASE \E u \in Users : ReturnAtOnce(u)
  BY <1>4 DEF ReturnAtOnce, vars, ctlVars, GivenUp
<1> QED
  BY <1>2, <1>3, <1>4 DEF Next

(* The engine stays stopped, and refusals are counted.                     *)
LEMMA Histories == ASSUME Control, Next, BeforeStop' PROVE BeforeStop /\ faults <= faults'
<1>0. faults \in Nat
  BY DEF Control, CountsOK
<1>1. ASSUME NEW x \in Threads, LinkStep(x) PROVE BeforeStop /\ faults <= faults'
  <2>1. BeforeStop
    BY <1>1, LinkStepMoves DEF BeforeStop
  <2>2. CASE AddWake(x)
    BY <1>0, <2>1, <2>2 DEF AddWake
  <2>3. CASE ~AddWake(x)
    <3>1. UNCHANGED faults
      BY <1>1, <2>3 DEF LinkStep, Remove, DropRemoval, Destroy, Connect, Socket, EndOfInit, TakeRef,
         AddFailed, GiveUpRef, Tell, Fail, callVars
    <3> QED
      BY <1>0, <2>1, <3>1
  <2> QED
    BY <2>2, <2>3
<1>2. CASE EngineStep
  <2>1. have' = have
    BY <1>2, EngineMoves
  <2>2. CASE ~LinkStep(Engine)
    <3>1. UNCHANGED faults
      BY <1>2, <2>2 DEF EngineStep, ToStop, EpollWait, QueueEvent, RoundDone, ChangeEvent,
         LinkEvent, Event, Entry, EndPoll, GiveUpRef, RecvStop, MoreEntries, NoMoreEntries, Reset, callVars
    <3> QED
      BY <1>0, <2>1, <3>1 DEF BeforeStop
  <2> QED
    BY <1>1, <2>2 DEF Threads
<1>3. CASE \E u \in Users : Start(u) \/ Stop(u) \/ UserStep(u)
  <2>1. PICK u \in Users : Start(u) \/ Stop(u) \/ UserStep(u)
    BY <1>3
  <2>2. CASE Fast(u) \/ Undone(u)
    <3>1. have = 1 /\ UNCHANGED faults
      BY <2>2 DEF Fast, Undone, Goes, Control, PhaseInv, PhaseOf, StartPcs
    <3> QED
      BY <1>0, <3>1 DEF BeforeStop
  <2>3. CASE Start(u) \/ Stop(u)
    BY <1>0, <2>3 DEF Start, Stop, BeforeStop
  <2>4. CASE \/ Prepare(u) \/ Dial(u) \/ Run(u) \/ Undo(u) \/ UndoClose(u)
             \/ StopClose(u) \/ Halt(u) \/ Join(u)
    <3>1. UNCHANGED <<have, faults>>
      BY <2>4 DEF Prepare, Dial, Run, Undo, UndoClose, StopClose, Halt, Join, callVars
    <3> QED
      BY <1>0, <3>1 DEF BeforeStop
  <2> QED
    BY <1>1, <2>1, <2>2, <2>3, <2>4 DEF UserStep, Threads
<1>4. CASE \E u \in Users : ReturnAtOnce(u)
  BY <1>0, <1>4 DEF ReturnAtOnce, vars, callVars, BeforeStop
<1> QED
  BY <1>2, <1>3, <1>4 DEF Next

(* Without refusals del_wake gives up references of closing links only,    *)
(* and each is the last of its link.                                       *)
LEMMA NextGone ==
    ASSUME Control, Refs, Joins, Duties, GoneIsFree, [Next]_vars
    PROVE  GoneIsFree'
<1> SUFFICES ASSUME (BeforeStop /\ faults = 0 /\ GivenUp)'
             PROVE  IsFree(word[dels[done + 1]])'
  BY DEF GoneIsFree
<1>1. CASE UNCHANGED vars
  BY <1>1 DEF vars, linkVars, pollVars, callVars, ctlVars, GoneIsFree, BeforeStop, GivenUp
<1>2. CASE Next
  <2>1. BeforeStop /\ faults = 0
    BY <1>2, Histories DEF Control, CountsOK
  <2>2. CASE GivenUp
    BY <1>2, <2>1, <2>2, GivenUpStays DEF GoneIsFree
  <2>3. CASE ~GivenUp
    <3>1. EndPoll /\ pc[Engine] = "end_poll"
      BY <1>2, <2>3, GivenUpBegins DEF EndPoll, GiveUpRef
    <3>2. /\ done + 1 \in 1 .. Len(dels) /\ dels[done + 1] \in Links
          /\ done \in Nat /\ Len(dels) \in Nat
      BY <3>1, EntryInBounds DEF AtEntry, Control, CountsOK
    <3>3. Stale = {}
      <4>1. Cardinality(Stale) <= 0
        BY <2>1, <3>1, FewStale DEF StaleIsRefused
      <4>2. IsFiniteSet(done + 1 .. Len(dels))
        <5>1. done + 1 \in Int /\ Len(dels) \in Int
          BY <3>2
        <5> QED
          BY <5>1, FS_Interval
      <4>3. IsFiniteSet(Stale) /\ Cardinality(Stale) \in Nat
        BY <4>2, FS_Subset, FS_CardinalityType DEF Stale
      <4> QED
        BY <4>1, <4>3, FS_EmptySet
    <3>4. PICK l \in Links : l = dels[done + 1]
      BY <3>2
    <3>5. word[l].closing
      BY <3>2, <3>3, <3>4 DEF Stale
    <3>6. word[l].ref = 1
      BY <3>1, <3>4 DEF Refs, LinkRef, Removing
    <3>7. /\ word' = [word EXCEPT ![l] = SubRef(@)] /\ UNCHANGED <<dels, done>>
      BY <3>1, <3>4 DEF EndPoll, GiveUpRef, pollVars
    <3>8. word'[l] = Closed
      BY <3>5, <3>6, <3>7 DEF SubRef, LastRef, Refs, LinksOK
    <3> QED
      BY <3>4, <3>7, <3>8 DEF IsFree
  <2> QED
    BY <2>2, <2>3
<1> QED
  BY <1>1, <1>2

(* Until stop() no closing link is forgotten, provided the list has room   *)
(* for one removal of each link and of each connect that epoll_ctl has     *)
(* refused: its removal is queued or about to be, its events still reach   *)
(* the engine, and the engine is at the list or will be woken for it.  And *)
(* del_wake takes no link out of the epoll set that is not closing, unless *)
(* a refused connect has left its removal: the counter is told that a link *)
(* is gone when it is.                                                     *)
THEOREM RemovalsMatchClosings ==
    ASSUME Faults + 2 <= Slots
    PROVE  Spec => []RemovalsMatch
<1>1. Init => Reports /\ Joins /\ Duties /\ GoneIsFree
  <2>1. Init => ~GivenUp
    BY DEF Init, GivenUp, Threads
  <2> QED
    BY <2>1, InitReports, InitJoins, InitDuties DEF GoneIsFree
<1>2. IInv /\ (Reports /\ Joins /\ Duties /\ GoneIsFree) /\ [Next]_vars
        => (Reports /\ Joins /\ Duties /\ GoneIsFree)'
  BY NextReports, NextJoins, NextDuties, NextGone DEF IInv
<1>3. Duties => ClosingIsQueued
  <2> SUFFICES ASSUME Duties, Active, NEW l \in Links, word[l].closing
               PROVE  /\ polled[l] \/ Removing(l)
                      /\ \/ RemovesNow(l)
                         \/ Queued(l) /\ (change \/ InDelWake)
    BY DEF ClosingIsQueued, Active, RemovesNow, Queued
  <2>1. DutyLink(l) /\ ListOK
    BY DEF Duties
  <2>2. Queued(l) => change \/ InDelWake
    BY <2>1 DEF ListOK, Queued
  <2> QED
    BY <2>1, <2>2 DEF DutyLink
<1>4. IInv /\ Joins /\ Duties /\ GoneIsFree => RemovalsMatch
  BY <1>3, FewStale DEF RemovalsMatch, IInv
<1> QED
  BY <1>1, <1>2, <1>4, Invariant, PTL DEF Spec

-----------------------------------------------------------------------------
(* The life of a link, as its counter sees it: LinkLife is implemented.    *)

(* While a thread deals with a link, and nobody has stopped the engine, no  *)
(* other thread changes the word of any link.                              *)
LEMMA OnlyActor ==
    ASSUME Control, BeforeStop, Next, NEW x \in Threads, pc[x] \in LinkPcs
    PROVE  LinkStep(x) \/ (Same(x) /\ UNCHANGED word)
<1>0. Sole(x) /\ (x \in Users => pc[Engine] = "off") /\ pc[x] \notin {"off", "idle"}
  BY SoleActor DEF LinkPcs, OpenPcs, ClosePcs
<1>1. CASE EngineStep
  <2>1. pc[Engine] # "off"
    BY <1>1, EngineMoves
  <2>2. x = Engine
    BY <1>0, <2>1 DEF Threads
  <2>3. pc[Engine] \notin EnginePcs
    BY <2>2 DEF LinkPcs, OpenPcs, ClosePcs, EnginePcs
  <2> QED
    BY <1>1, <2>2, <2>3 DEF EngineStep, ToStop, EpollWait, QueueEvent, RoundDone, ChangeEvent, LinkEvent, Event,
       Entry, EndPoll, GiveUpRef, RecvStop, MoreEntries, NoMoreEntries, Reset, Goes, EnginePcs
<1>2. ASSUME NEW u \in Users, Start(u) \/ Stop(u) \/ UserStep(u)
      PROVE  LinkStep(x) \/ (Same(x) /\ UNCHANGED word)
  <2>1. CASE u = x
    <3>1. pc[u] \notin UserPcs
      BY <2>1 DEF LinkPcs, OpenPcs, ClosePcs, UserPcs
    <3> QED
      BY <1>2, <2>1, <3>1 DEF Start, Stop, UserStep, Prepare, Dial, Run, Fast, Undo, UndoClose, Undone,
         StopClose, Halt, Join, Goes, UserPcs
  <2>2. CASE u # x
    <3>1. u \in Threads /\ pc[u] \notin LinkPcs /\ PhaseOf(u)
      BY <1>0, <2>2 DEF Sole, Threads, Control, PhaseInv
    <3>2. pc[u] = "idle" \/ x = Engine
      BY <1>0, <2>2 DEF Control, OneInCharge, InCharge, Threads
    <3>3. pc[u] \notin {"run", "undo_fgw", "stop_g98", "stop_fgw"}
      BY <1>0, <3>1, <3>2 DEF PhaseOf, QuietPcs, StopPcs, BeforeStop
    <3>4. ~LinkStep(u) /\ ~Run(u) /\ ~StopClose(u)
      BY <3>1, <3>3, LinkStepMoves DEF Run, Goes, StopClose
    <3>7. ~UndoClose(u)
      BY <1>0, <3>2, <3>3 DEF UndoClose
    <3>5. Same(x)
      BY <1>2, <2>2, <3>4, UserMoves DEF Keeps, Same
    <3>6. UNCHANGED word
      BY <1>2, <3>4, <3>7 DEF UserStep, Start, Stop, Prepare, Dial, Fast, Undo, Undone, Halt, Join, CallUnchanged, linkVars
    <3> QED
      BY <3>5, <3>6
  <2> QED
    BY <2>1, <2>2
<1>3. CASE \E u \in Users : ReturnAtOnce(u)
  BY <1>3 DEF ReturnAtOnce, vars, linkVars, ctlVars, Same
<1> QED
  BY <1>1, <1>2, <1>3 DEF Next

RegisterPcs == {"add", "tell"}

(* Registering a link begins with add_ref. *)
LEMMA LinkStepRegisters ==
    ASSUME Control, NEW x \in Threads, LinkStep(x), pc'[x] \in RegisterPcs
    PROVE  (TakeRef(x) /\ pc[x] = "add_ref" /\ RefAllowed(word[At(x)])) \/ (AddWake(x) /\ pc[x] = "add")
<1>0. ControlOK /\ At(x) \in Links
  BY DEF Control, ControlOK, At, Job
<1>1. \A from, to : Goes(x, from, to) => pc[x] = from /\ pc'[x] = to
  BY <1>0 DEF Goes, ControlOK
<1>2. \A p, l, b, o : Begins(x, p, l, b, o) => pc'[x] = p
  BY <1>0 DEF Begins, ControlOK
<1>3. \A ok \in BOOLEAN : After(x, ok) \notin RegisterPcs /\ After(x, ok) \in PcsOf(x) \ LinkPcs
  BY AfterIs DEF LinkPcs, OpenPcs, RegisterPcs
<1>4. CASE Remove(x) \/ DropRemoval(x) \/ Destroy(x)
  <2>1. pc[x] \in ClosePcs /\ MovedOn(x)
    BY <1>4, LinkStepMoves DEF Remove, DropRemoval, Destroy, Goes, ClosePcs
  <2>2. job[x].back \notin LinkPcs
    BY <2>1, BackIs DEF Control
  <2> QED
    BY <2>1, <2>2 DEF MovedOn, ClosePcs, OpenPcs, LinkPcs, RegisterPcs
<1>5. CASE Fail(x)
  <2>1. Closes(x, At(x), After(x, FALSE))
    BY <1>0, <1>3, <1>5, CloseChOK DEF Fail
  <2> QED
    BY <1>3, <2>1 DEF Closes, RegisterPcs
<1>6. ~Connect(x) /\ ~Socket(x) /\ ~Tell(x)
  <2>1. pc'[x] \notin {"socket", "end_init", "fail", After(x, TRUE), After(x, FALSE)}
    BY <1>3 DEF RegisterPcs
  <2> QED
    BY <1>0, <2>1 DEF Connect, Socket, Tell, Goes, ControlOK
<1>7. ~EndOfInit(x) /\ ~AddFailed(x)
  <2>1. pc'[x] \notin {"add_ref", "fail", "destroy"}
    BY DEF RegisterPcs
  <2> QED
    BY <1>0, <2>1 DEF EndOfInit, AddFailed, GiveUpRef, Goes, Begins, ControlOK
<1>8. TakeRef(x) => pc[x] = "add_ref" /\ RefAllowed(word[At(x)])
  BY <1>1 DEF TakeRef, RegisterPcs
<1>9. AddWake(x) => pc[x] = "add"
  BY DEF AddWake, Goes
<1> QED
  BY <1>4, <1>5, <1>6, <1>7, <1>8, <1>9 DEF LinkStep

(* A thread that has no link in hand takes one up to open or to close it.  *)
LEMMA NobodyRegisters ==
    ASSUME Control, Next, NEW x \in Threads, pc[x] \notin LinkPcs
    PROVE  pc'[x] \notin RegisterPcs
<1>0. ControlOK /\ x \in Threads
  BY DEF Control
<1>1. \A from, to : Goes(x, from, to) => pc'[x] = to
  BY <1>0 DEF Goes, ControlOK
<1>2. \A p, l, b, o : Begins(x, p, l, b, o) => pc'[x] = p
  BY <1>0 DEF Begins, ControlOK
<1>3. ~LinkStep(x)
  BY LinkStepMoves
<1>4. ASSUME pc'[x] = pc[x] PROVE pc'[x] \notin RegisterPcs
  BY <1>4 DEF LinkPcs, OpenPcs, RegisterPcs
<1>5. ASSUME NEW l \in Links, NEW b \in PcsOf(x) \ LinkPcs, CloseCh(x, l, b)
      PROVE  pc'[x] \notin RegisterPcs
  BY <1>0, <1>5, CloseChOK DEF Closes, LinkPcs, OpenPcs, RegisterPcs
<1>6. CASE EngineStep
  <2>1. CASE x = Engine
    <3>1. CASE \E l \in Links : LinkEvent(l) \/ Event(l)
      <4>1. PICK l \in Links : LinkEvent(l) \/ Event(l)
        BY <3>1
      <4>2. "batch" \in PcsOf(x) \ LinkPcs /\ "round" \in PcsOf(x) \ LinkPcs
        BY <2>1 DEF PcsOf, LinkPcs, OpenPcs, ClosePcs, EnginePcs
      <4> QED
        BY <1>2, <1>4, <1>5, <2>1, <4>1, <4>2 DEF LinkEvent, Event, ctlVars, RegisterPcs
    <3>2. CASE ~\E l \in Links : LinkEvent(l) \/ Event(l)
      BY <1>1, <1>2, <1>3, <1>4, <1>6, <2>1, <3>2
         DEF EngineStep, ToStop, EpollWait, QueueEvent, RoundDone, ChangeEvent, Entry, EndPoll, GiveUpRef,
             RecvStop, MoreEntries, NoMoreEntries, Reset, ctlVars, RegisterPcs
    <3> QED
      BY <3>1, <3>2
  <2>2. CASE x # Engine
    BY <1>4, <1>6, <2>2, EngineMoves DEF Keeps
  <2> QED
    BY <2>1, <2>2
<1>7. ASSUME NEW u \in Users, Start(u) \/ Stop(u) \/ UserStep(u)
      PROVE  pc'[x] \notin RegisterPcs
  <2>0. u \in Threads /\ u # Engine
    BY DEF Threads
  <2>1. CASE x = u
    <3>1. CASE UndoClose(u) \/ StopClose(u)
      <4>1. PICK l \in Links, b \in {"undo_fgw", "undone", "stop_fgw", "halt"} : CloseCh(u, l, b)
        BY <3>1 DEF UndoClose, StopClose, Links
      <4>2. b \in PcsOf(x) \ LinkPcs
        BY <2>0, <2>1 DEF PcsOf, LinkPcs, OpenPcs, ClosePcs, UserPcs
      <4> QED
        BY <1>5, <2>1, <4>1, <4>2
    <3>2. CASE Run(u)
      <4>1. pc'[x] \in {"fast", "undo"}
        BY <1>0, <1>1, <2>0, <2>1, <3>2 DEF Run, ControlOK
      <4> QED
        BY <4>1 DEF RegisterPcs
    <3>3. CASE ~UndoClose(u) /\ ~StopClose(u) /\ ~Run(u)
      BY <1>1, <1>2, <1>3, <1>7, <2>1, <3>3
         DEF Start, Stop, UserStep, Prepare, Dial, Fast, Undo, Undone, Halt, Join, RegisterPcs
    <3> QED
      BY <3>1, <3>2, <3>3
  <2>2. CASE x # u
    <3>1. CASE LinkStep(u)
      BY <1>4, <2>0, <2>2, <3>1, LinkStepMoves DEF Keeps
    <3>2. CASE Run(u)
      BY <1>0, <1>1, <1>4, <2>0, <2>2, <3>2 DEF Run, Goes, ControlOK, RegisterPcs
    <3>3. CASE ~LinkStep(u) /\ ~Run(u)
      BY <1>4, <1>7, <2>2, <3>3, UserMoves DEF Keeps
    <3> QED
      BY <3>1, <3>2, <3>3
  <2> QED
    BY <2>1, <2>2
<1>8. CASE \E u \in Users : ReturnAtOnce(u)
  BY <1>4, <1>8 DEF ReturnAtOnce, vars, ctlVars
<1> QED
  BY <1>6, <1>7, <1>8 DEF Next

(* A link that is being registered is not closed meanwhile. *)
Undisturbed ==
    BeforeStop => \A x \in Threads : pc[x] \in RegisterPcs => ~word[At(x)].closing

LEMMA NextUndisturbed ==
    ASSUME Control, Refs, Undisturbed, [Next]_vars
    PROVE  Undisturbed'
<1>1. CASE UNCHANGED vars
  BY <1>1 DEF vars, linkVars, callVars, ctlVars, Undisturbed, BeforeStop, At
<1>2. CASE Next /\ BeforeStop'
  <2>0. BeforeStop
    BY <1>2, Histories
  <2> SUFFICES ASSUME NEW x \in Threads, pc'[x] \in RegisterPcs PROVE ~word'[At(x)'].closing
    BY <1>2 DEF Undisturbed
  <2>1. pc[x] \in LinkPcs
    BY <1>2, NobodyRegisters
  <2>2. CASE Same(x) /\ UNCHANGED word
    BY <2>0, <2>2 DEF Undisturbed, Same, At
  <2>3. CASE LinkStep(x)
    <3>0. ControlOK /\ At(x) \in Links /\ LinksOK
      BY DEF Control, ControlOK, At, Job, Refs
    <3>1. At(x)' = At(x)
      BY <3>0, <2>3, LinkStepRegisters DEF TakeRef, AddWake, Goes, ControlOK, At, LinkPcs, OpenPcs
    <3>2. CASE TakeRef(x) /\ RefAllowed(word[At(x)])
      <4>1. word' = [word EXCEPT ![At(x)] = AddRef(@)]
        BY <3>2 DEF TakeRef
      <4>2. word'[At(x)] = AddRef(word[At(x)])
        BY <3>0, <4>1 DEF LinksOK
      <4> QED
        BY <3>0, <3>1, <3>2, <4>2 DEF AddRef, RefAllowed, LinksOK, Word
    <3>3. CASE AddWake(x) /\ pc[x] = "add"
      BY <2>0, <3>1, <3>3 DEF AddWake, Undisturbed, RegisterPcs
    <3> QED
      BY <2>3, <3>2, <3>3, LinkStepRegisters
  <2> QED
    BY <1>2, <2>0, <2>1, <2>2, <2>3, OnlyActor
<1>3. CASE ~BeforeStop'
  BY <1>3 DEF Undisturbed
<1> QED
  BY <1>1, <1>2, <1>3

(* What may happen to the word of a link the counter knows of.             *)
Moved(l) ==
    \/ word'[l] = word[l]
    \/ CloseAllowed(word[l]) /\ word'[l] = ToClose(word[l])
    \/ Removing(l) /\ word'[l] = SubRef(word[l])

LEMMA ClosesMoves ==
    ASSUME Control, Refs, NEW x \in Threads, NEW k \in Links, NEW b \in PcsOf(x) \ LinkPcs,
           CloseCh(x, k, b), NEW l \in Links
    PROVE  Moved(l)
<1>1. word' = word \/ (CloseAllowed(word[k]) /\ word' = [word EXCEPT ![k] = ToClose(@)])
  BY DEF CloseCh
<1> QED
  BY <1>1 DEF Moved, Refs, LinksOK

LEMMA LinkStepMovesWord ==
    ASSUME Control, Refs, NEW x \in Threads, LinkStep(x), NEW l \in Links, linked[l]
    PROVE  Moved(l)
<1>0. At(x) \in Links /\ LinksOK
  BY DEF Control, ControlOK, At, Job, Refs
<1>1. CASE Fail(x)
  <2>1. After(x, FALSE) \in PcsOf(x) \ LinkPcs
    BY AfterIs
  <2> QED
    BY <1>0, <1>1, <2>1, ClosesMoves DEF Fail
<1>2. CASE Remove(x) \/ DropRemoval(x) \/ Destroy(x) \/ AddWake(x) \/ Tell(x)
  BY <1>2 DEF Remove, DropRemoval, Destroy, AddWake, Tell, linkVars, Moved
<1>3. CASE Connect(x) \/ Socket(x) \/ EndOfInit(x) \/ TakeRef(x) \/ AddFailed(x)
  <2>1. pc[x] \in {"connect", "socket", "end_init", "add_ref", "sub_ref"}
    BY <1>3 DEF Connect, Socket, EndOfInit, TakeRef, AddFailed, GiveUpRef, Goes
  <2>2. pc[x] = "connect" => Connect(x)
    BY <1>3 DEF Socket, EndOfInit, TakeRef, AddFailed, GiveUpRef, Goes
  <2>3. ~InEntry(l)
    BY <2>1, OpenerNoEntry DEF OpenPcs, InEntry
  <2>4. Open(word[l])
    BY <2>3 DEF Refs, LinkRef
  <2>5. ~IsFree(word[l])
    BY <2>4, ClosedWord DEF IsFree
  <2>6. CASE At(x) = l
    <3>1. pc[x] = "connect"
      BY <2>1, <2>6 DEF Refs, OpenerRef
    <3> QED
      BY <2>2, <2>5, <2>6, <3>1 DEF Connect, Moved
  <2>7. CASE At(x) # l
    BY <1>0, <1>3, <2>7 DEF Connect, Socket, EndOfInit, TakeRef, AddFailed, GiveUpRef, Moved, LinksOK
  <2> QED
    BY <2>6, <2>7
<1> QED
  BY <1>1, <1>2, <1>3 DEF LinkStep

LEMMA WordMoved ==
    ASSUME Control, Refs, Next, NEW l \in Links, linked[l]
    PROVE  Moved(l)
<1>1. CASE EngineStep
  <2>1. CASE LinkStep(Engine)
    BY <2>1, LinkStepMovesWord DEF Threads
  <2>2. CASE \E k \in Links : LinkEvent(k) \/ Event(k)
    <3>1. PICK k \in Links : LinkEvent(k) \/ Event(k)
      BY <2>2
    <3>2. {"batch", "round"} \subseteq PcsOf(Engine) \ LinkPcs
      BY DEF PcsOf, EnginePcs, LinkPcs, OpenPcs, ClosePcs
    <3>3. CASE CloseCh(Engine, k, "batch") \/ CloseCh(Engine, k, "round")
      BY <3>2, <3>3, ClosesMoves DEF Threads
    <3> QED
      BY <3>1, <3>3 DEF LinkEvent, Event, linkVars, Moved
  <2>3. CASE EndPoll
    <3>1. pc[Engine] = "end_poll" /\ word' = [word EXCEPT ![dels[done + 1]] = SubRef(@)]
      BY <2>3 DEF EndPoll, GiveUpRef
    <3>2. dels[done + 1] \in Links
      BY <3>1, EntryInBounds DEF AtEntry
    <3> QED
      BY <3>1, <3>2 DEF Moved, Removing, Refs, LinksOK
  <2>4. CASE \/ ToStop \/ EpollWait \/ QueueEvent \/ RoundDone \/ ChangeEvent
             \/ Entry \/ RecvStop \/ MoreEntries \/ NoMoreEntries \/ Reset
    BY <2>4 DEF ToStop, EpollWait, QueueEvent, RoundDone, ChangeEvent, Entry, RecvStop,
                MoreEntries, NoMoreEntries, Reset, linkVars, Moved
  <2> QED
    BY <1>1, <2>1, <2>2, <2>3, <2>4 DEF EngineStep
<1>2. ASSUME NEW u \in Users, Start(u) \/ Stop(u) \/ UserStep(u)
      PROVE  Moved(l)
  <2>1. CASE LinkStep(u)
    BY <2>1, LinkStepMovesWord DEF Threads
  <2>2. CASE UndoClose(u) \/ StopClose(u)
    <3>1. PICK k \in Links, b \in {"undo_fgw", "undone", "stop_fgw", "halt"} : CloseCh(u, k, b)
      BY <2>2 DEF UndoClose, StopClose, Links
    <3>2. b \in PcsOf(u) \ LinkPcs
      BY DEF PcsOf, LinkPcs, OpenPcs, ClosePcs, UserPcs
    <3> QED
      BY <3>1, <3>2, ClosesMoves DEF Threads
  <2>3. CASE ~LinkStep(u) /\ ~UndoClose(u) /\ ~StopClose(u)
    BY <1>2, <2>3 DEF Start, Stop, UserStep, Prepare, Dial, Run, Fast, Undo, Undone, Halt, Join,
                      CallUnchanged, linkVars, Moved
  <2> QED
    BY <2>1, <2>2, <2>3
<1>3. CASE \E u \in Users : ReturnAtOnce(u)
  BY <1>3 DEF ReturnAtOnce, vars, linkVars, Moved
<1> QED
  BY <1>1, <1>2, <1>3 DEF Next

(* Two events of a link, and nothing else, change the counter's flag.      *)
LEMMA FlagMoved ==
    ASSUME Control, Refs, Next, NEW l \in Links
    PROVE  \/ linked'[l] = linked[l]
           \/ \E x \in Threads : Tell(x) /\ At(x) = l
           \/ RecvStop /\ dels[done + 1] = l
<1>0. LinksOK
  BY DEF Refs
<1>1. ASSUME NEW x \in Threads, LinkStep(x)
      PROVE  linked'[l] = linked[l] \/ (Tell(x) /\ At(x) = l)
  <2>1. At(x) \in Links
    BY DEF Control, ControlOK, At, Job
  <2>2. CASE Tell(x)
    BY <1>0, <2>1, <2>2 DEF Tell, LinksOK
  <2>3. CASE ~Tell(x)
    BY <1>1, <2>3 DEF LinkStep, Remove, DropRemoval, Destroy, Connect, Socket, EndOfInit, TakeRef,
                      AddWake, AddFailed, GiveUpRef, Fail, CloseCh, linkVars
  <2> QED
    BY <2>2, <2>3
<1>2. CASE EngineStep
  <2>1. CASE LinkStep(Engine)
    BY <1>1, <2>1 DEF Threads
  <2>2. CASE RecvStop
    <3>1. dels[done + 1] \in Links
      BY <2>2, EntryInBounds DEF RecvStop, Goes, AtEntry
    <3> QED
      BY <1>0, <2>2, <3>1 DEF RecvStop, LinksOK
  <2>3. CASE ~LinkStep(Engine) /\ ~RecvStop
    BY <1>2, <2>3 DEF EngineStep, ToStop, EpollWait, QueueEvent, RoundDone, ChangeEvent, LinkEvent, Event,
                      CloseCh, Entry, EndPoll, GiveUpRef, MoreEntries, NoMoreEntries, Reset, linkVars
  <2> QED
    BY <2>1, <2>2, <2>3
<1>3. ASSUME NEW u \in Users, Start(u) \/ Stop(u) \/ UserStep(u)
      PROVE  linked'[l] = linked[l] \/ \E x \in Threads : Tell(x) /\ At(x) = l
  <2>1. CASE LinkStep(u)
    BY <1>1, <2>1 DEF Threads
  <2>2. CASE ~LinkStep(u)
    BY <1>3, <2>2 DEF Start, Stop, UserStep, Prepare, Dial, Run, Fast, Undo, UndoClose, Undone, StopClose,
                      Halt, Join, CloseCh, CallUnchanged, linkVars
  <2> QED
    BY <2>1, <2>2
<1>4. CASE \E u \in Users : ReturnAtOnce(u)
  BY <1>4 DEF ReturnAtOnce, vars, linkVars
<1> QED
  BY <1>2, <1>3, <1>4 DEF Next

Turns(from, to) ==
    from = to \/ <<from, to>> \in {<<"gone", "up">>, <<"up", "closing">>, <<"closing", "gone">>}

LEMMA ViewStep ==
    ASSUME Control, Refs, Reports, GoneIsFree, Undisturbed, Next, Sound, NEW l \in Links
    PROVE  Turns(View(l), View(l)')
<1>0. LinksOK /\ LegalWord(word[l])
  BY DEF Refs, LinksOK
<1>1. CASE linked'[l] = linked[l] /\ ~linked[l]
  BY <1>1 DEF View, Turns
<1>2. CASE linked'[l] = linked[l] /\ linked[l]
  <2>0. Moved(l)
    BY <1>2, WordMoved
  <2>1. CASE word'[l] = word[l]
    BY <1>2, <2>1 DEF View, Turns
  <2>2. CASE CloseAllowed(word[l]) /\ word'[l] = ToClose(word[l])
    <3>1. View(l) = "up"
      BY <1>2, <2>2, ClosedWord DEF View, CloseAllowed, IsFree
    <3>2. IsFree(word'[l]) \/ word'[l].closing
      BY <1>0, <2>2, CloseWords DEF IsFree, LegalWord, Word
    <3>3. View(l)' = "closing"
      BY <1>2, <3>2 DEF View
    <3> QED
      BY <3>1, <3>3 DEF Turns
  <2>3. CASE Removing(l) /\ word'[l] = SubRef(word[l])
    <3>1. Open(word[l]) /\ word[l].ref = 1
      BY <2>3 DEF Refs, LinkRef
    <3>2. CASE word[l].closing
      <4>1. View(l) = "closing" /\ word'[l] = Closed
        BY <1>2, <2>3, <3>1, <3>2 DEF View, SubRef, LastRef
      <4> QED
        BY <1>2, <4>1 DEF View, IsFree, Turns
    <3>3. CASE ~word[l].closing
      <4>1. Open(word'[l]) /\ ~word'[l].closing
        BY <1>0, <2>3, <3>1, <3>3 DEF SubRef, LastRef, Open, LegalWord, Word
      <4>2. ~IsFree(word[l]) /\ ~IsFree(word'[l])
        BY <3>1, <4>1, ClosedWord DEF IsFree
      <4> QED
        BY <1>2, <3>3, <4>1, <4>2 DEF View, Turns
    <3> QED
      BY <3>2, <3>3
  <2> QED
    BY <2>0, <2>1, <2>2, <2>3 DEF Moved
<1>3. ASSUME NEW x \in Threads, Tell(x), At(x) = l PROVE Turns(View(l), View(l)')
  <2>1. pc[x] = "tell" /\ word' = word /\ linked' = [linked EXCEPT ![l] = TRUE]
    BY <1>3 DEF Tell, Goes
  <2>2. ~linked[l] /\ linked'[l]
    BY <1>0, <1>3, <2>1 DEF Reports, LinksOK
  <2>3. ~word'[l].closing /\ ~IsFree(word'[l])
    BY <1>3, <2>1, ClosedWord DEF Refs, OpenerRef, Undisturbed, RegisterPcs, Sound, IsFree
  <2> QED
    BY <2>2, <2>3 DEF View, Turns
<1>4. CASE RecvStop /\ dels[done + 1] = l
  <2>1. pc[Engine] = "recv_stop" /\ linked' = [linked EXCEPT ![l] = FALSE]
    BY <1>4 DEF RecvStop, Goes
  <2>2. linked[l] /\ ~linked'[l]
    BY <1>0, <1>4, <2>1 DEF Reports, InEntry, AtEntry, LinksOK
  <2>3. IsFree(word[l])
    BY <1>4, <2>1 DEF GoneIsFree, GivenUp, Sound
  <2> QED
    BY <2>2, <2>3 DEF View, Turns
<1>5. \/ linked'[l] = linked[l]
      \/ \E x \in Threads : Tell(x) /\ At(x) = l
      \/ RecvStop /\ dels[done + 1] = l
  BY FlagMoved
<1> QED
  BY <1>1, <1>2, <1>3, <1>4, <1>5

(* Until stop(), and while epoll_ctl refuses nothing, what the counter is  *)
(* told of a link is its life: it comes up, is closed, is gone, and only   *)
(* then comes up again.                                                    *)
THEOREM LinksTakeTurns ==
    ASSUME Faults + 2 <= Slots
    PROVE  Spec => LinkIsTold
<1> DEFINE Duty == Reports /\ Joins /\ Duties /\ GoneIsFree /\ Undisturbed
<1>1. Init => Duty /\ Life98!Init /\ LifeFgw!Init
  <2>1. Init => ~GivenUp /\ Undisturbed /\ Sound /\ \A l \in Links : View(l) = "gone"
    BY DEF Init, GivenUp, Threads, Undisturbed, RegisterPcs, Sound, BeforeStop, View
  <2> QED
    BY <2>1, InitReports, InitJoins, InitDuties DEF GoneIsFree, Life98!Init, LifeFgw!Init, Links
<1>2. IInv /\ Duty /\ [Next]_vars => Duty'
  BY NextReports, NextJoins, NextDuties, NextGone, NextUndisturbed DEF IInv
<1>3. IInv /\ Duty /\ [Next]_vars =>
        [Life98!Next]_Life98!vars /\ [LifeFgw!Next]_LifeFgw!vars
  <2> SUFFICES ASSUME IInv, Duty, [Next]_vars
               PROVE  [Life98!Next]_Life98!vars /\ [LifeFgw!Next]_LifeFgw!vars
    OBVIOUS
  <2>1. CASE UNCHANGED vars
    BY <2>1 DEF vars, linkVars, callVars, Life98!vars, LifeFgw!vars, View, Sound, BeforeStop
  <2>2. CASE Next /\ ~Sound'
    <3>1. \A l \in Links : View(l)' \in {"gone", "up", "closing"}
      <4>1. LinksOK'
        BY NextRefs DEF IInv, Refs
      <4> QED
        BY <4>1 DEF View, LinksOK
    <3>2. Sound' = FALSE
      BY <2>2 DEF Sound
    <3> QED
      BY <3>1, <3>2 DEF Life98!Next, Life98!Disturbed, LifeFgw!Next, LifeFgw!Disturbed, Links
  <2>3. CASE Next /\ Sound'
    <3>1. Sound /\ Sound' = Sound
      BY <2>3, Histories DEF Sound, IInv, Control, CountsOK
    <3>2. \A l \in Links : Turns(View(l), View(l)')
      BY <2>3, <3>1, ViewStep DEF IInv
    <3> QED
      BY <3>1, <3>2 DEF Turns, Links, Life98!Next, Life98!ComesUp, Life98!IsClosed, Life98!IsGone, Life98!vars,
         LifeFgw!Next, LifeFgw!ComesUp, LifeFgw!IsClosed, LifeFgw!IsGone, LifeFgw!vars
  <2> QED
    BY <2>1, <2>2, <2>3
<1> QED
  BY <1>1, <1>2, <1>3, Invariant, PTL DEF Spec, LinkIsTold, Life98!Spec, LifeFgw!Spec
=============================================================================
