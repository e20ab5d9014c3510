------------------------- MODULE EngineLinks_proofs -------------------------
(***************************************************************************)
(* Proofs about EngineLinks, for any number of calling threads, removals,  *)
(* rounds and refusals.  The invariant has three layers, proved one on the *)
(* other: who may be where (Control), what a reference to a link stands    *)
(* for (Refs), and, until stop() closes links under the running engine,    *)
(* what a socket and a fetched event stand for (Calm).                     *)
(***************************************************************************)
EXTENDS EngineLinks, SequenceTheorems, TLAPS

USE ThreadAssumption, LinkAssumption, BoundAssumption

-----------------------------------------------------------------------------
(* Layer one: control. *)

StartPcs == {"prepare", "dial", "run", "fast", "undo", "undo_join", "undo_fgw", "undone"}
QuietPcs == OpenPcs \cup {"prepare", "dial", "run", "undo_fgw", "undone"}
StopPcs == {"stop_g98", "stop_fgw", "halt", "join"}

(* A call that opens links, or closes them on the way back, has the engine *)
(* off; only stop() closes links while the engine runs. *)
PhaseOf(u) ==
    /\ pc[u] \in StartPcs \cup OpenPcs => have = 1
    /\ pc[u] \in StopPcs => have = 3
    /\ pc[u] \in ClosePcs =>
        \/ have = 1 /\ job[u].back \in {"undo", "undo_fgw", "undone"} /\ pc[Engine] = "off"
        \/ have = 3 /\ job[u].back \in {"stop_fgw", "halt"}
    /\ pc[u] \in QuietPcs => pc[Engine] = "off"

PhaseInv == \A u \in Users : PhaseOf(u)

(* The engine is off with nothing to dispatch. *)
DownInv ==
    /\ have = 0 => pc[Engine] = "off"
    /\ pc[Engine] = "off" => batch = {}

(* del_wake is inside the entry at hand: after the removal from the set    *)
(* and before the next entry. *)
AtEntry ==
    \/ pc[Engine] \in {"end_poll", "recv_stop"}
    \/ pc[Engine] = "destroy" /\ job[Engine].back = "recv_stop"

EntryInv ==
    /\ pc[Engine] = "entry" => known <= Len(dels)
    /\ AtEntry => done < known /\ known <= Len(dels)
    /\ pc[Engine] \in ClosePcs => job[Engine].back \in {"batch", "round", "recv_stop"}
    /\ pc[Engine] = "remove" => job[Engine].back # "recv_stop"
    /\ pc[Engine] = "destroy" /\ job[Engine].back = "recv_stop" => At(Engine) = dels[done + 1]

CountsOK ==
    /\ dels \in Seq(Links) /\ Len(dels) <= Slots
    /\ change \in BOOLEAN
    /\ mstate \in {"none", "init", "running", "tostop"}
    /\ have \in 0 .. 3
    /\ faults \in 0 .. Faults
    /\ batch \subseteq Links \cup {"change", "queue"}
    /\ round \in 0 .. Rounds
    /\ done \in Nat /\ known \in Nat /\ known <= Slots

Control == ControlOK /\ CountsOK /\ OneInCharge /\ PhaseInv /\ DownInv /\ EntryInv

LEMMA GoesOK ==
    ASSUME ControlOK, NEW x \in Threads, NEW from, NEW to \in PcsOf(x), Goes(x, from, to)
    PROVE  /\ ControlOK'
           /\ pc[x] = from /\ pc'[x] = to
           /\ job'[x] = IF to \in LinkPcs THEN job[x] ELSE NoJob
           /\ \A y \in Threads \ {x} : pc'[y] = pc[y] /\ job'[y] = job[y]
<1>1. NoJob \in Job
  BY DEF NoJob, Job, EnginePcs, Links
<1>2. to \in LinkPcs \cup EnginePcs \cup UserPcs
  BY DEF PcsOf
<1> QED
  BY <1>1, <1>2 DEF ControlOK, Goes

LEMMA BeginsOK ==
    ASSUME ControlOK, NEW x \in Threads, NEW p \in LinkPcs, NEW l \in Links,
           NEW b \in UserPcs \cup EnginePcs, NEW o \in BOOLEAN, Begins(x, p, l, b, o)
    PROVE  /\ ControlOK'
           /\ pc'[x] = p /\ job'[x] = [link |-> l, back |-> b, last |-> o]
           /\ \A y \in Threads \ {x} : pc'[y] = pc[y] /\ job'[y] = job[y]
<1>1. p \in PcsOf(x) /\ p \in LinkPcs \cup EnginePcs \cup UserPcs
  BY DEF PcsOf
<1> QED
  BY <1>1 DEF ControlOK, Begins, Job

Keeps(x) == \A y \in Threads \ {x} : pc'[y] = pc[y] /\ job'[y] = job[y]

LEMMA TurnsTo ==
    ASSUME ControlOK, NEW x \in Threads, NEW p \in {"destroy", "connect"}, NEW l \in Links,
           NEW b \in UserPcs \cup EnginePcs, NEW o \in BOOLEAN, Begins(x, p, l, b, o)
    PROVE  ControlOK' /\ Keeps(x) /\ pc'[x] = p /\ job'[x].link = l /\ job'[x].back = b
<1>1. p \in LinkPcs
  BY DEF LinkPcs, ClosePcs, OpenPcs
<1>2. /\ ControlOK' /\ pc'[x] = p /\ job'[x] = [link |-> l, back |-> b, last |-> o]
      /\ \A y \in Threads \ {x} : pc'[y] = pc[y] /\ job'[y] = job[y]
  BY <1>1, BeginsOK
<1> QED
  BY <1>2 DEF Keeps

LEMMA JobFields ==
    ASSUME NEW l, NEW b, NEW o
    PROVE  /\ [link |-> l, back |-> b, last |-> o].link = l
           /\ [link |-> l, back |-> b, last |-> o].back = b
           /\ [link |-> l, back |-> b, last |-> o].last = o
  OBVIOUS

(* What a close does to the word of its link and to its thread. *)
Closes(x, l, b) ==
    \/ pc'[x] = b /\ word' = word
    \/ /\ CloseAllowed(word[l]) /\ word' = [word EXCEPT ![l] = ToClose(@)]
       /\ \/ pc'[x] = b /\ word[l].ref # 0
          \/ /\ \/ pc'[x] = "remove"
                \/ pc'[x] = "destroy" /\ word[l].ref = 0
             /\ job'[x].link = l /\ job'[x].back = b
             /\ job'[x].last <=> word[l].ref = 0

LEMMA CloseChOK ==
    ASSUME ControlOK, NEW x \in Threads, NEW l \in Links,
           NEW b \in PcsOf(x) \ LinkPcs, CloseCh(x, l, b)
    PROVE  /\ ControlOK' /\ Keeps(x) /\ Closes(x, l, b)
           /\ UNCHANGED <<fd, started, polled, linked>>
<1>1. b \in UserPcs \cup EnginePcs /\ b \in PcsOf(x)
  BY DEF PcsOf, LinkPcs
<1>2. CASE Goes(x, pc[x], b)
  <2>1. ControlOK' /\ Keeps(x) /\ pc'[x] = b
    BY <1>1, <1>2, GoesOK DEF Keeps
  <2>2. \/ word' = word
        \/ /\ CloseAllowed(word[l]) /\ word' = [word EXCEPT ![l] = ToClose(@)]
           /\ word[l].ref # 0 \/ Begins(x, IF started[l] THEN "remove" ELSE "destroy", l, b, TRUE)
    BY DEF CloseCh
  <2>3. ~Begins(x, IF started[l] THEN "remove" ELSE "destroy", l, b, TRUE)
    <3>1. (IF started[l] THEN "remove" ELSE "destroy") \in LinkPcs
      BY DEF LinkPcs, ClosePcs
    <3> QED
      BY <1>1, <2>1, <3>1, BeginsOK
  <2> QED
    BY <2>1, <2>2, <2>3 DEF CloseCh, Closes
<1>3. CASE /\ CloseAllowed(word[l]) /\ word' = [word EXCEPT ![l] = ToClose(@)]
           /\ started[l] \/ word[l].ref = 0
           /\ Begins(x, IF started[l] THEN "remove" ELSE "destroy", l, b, word[l].ref = 0)
  <2> DEFINE p == IF started[l] THEN "remove" ELSE "destroy"
             o == word[l].ref = 0
  <2>1. p \in LinkPcs /\ o \in BOOLEAN
    BY DEF LinkPcs, ClosePcs
  <2>2. Begins(x, p, l, b, o)
    BY <1>3
  <2>3. p \in {"remove", "destroy"} /\ (p = "destroy" => o)
    BY <1>3
  <2> HIDE DEF p, o
  <2>4. ControlOK' /\ pc'[x] = p /\ job'[x] = [link |-> l, back |-> b, last |-> o]
        /\ \A y \in Threads \ {x} : pc'[y] = pc[y] /\ job'[y] = job[y]
    BY <1>1, <2>1, <2>2, BeginsOK
  <2>5. job'[x].link = l /\ job'[x].back = b /\ job'[x].last = o
    BY <2>4, JobFields
  <2> USE DEF o
  <2> QED
    BY <1>3, <2>3, <2>4, <2>5 DEF CloseCh, Closes, Keeps
<1> QED
  BY <1>2, <1>3 DEF CloseCh

(* Where a close may go on afterwards. *)
LEMMA BackIs ==
    ASSUME ControlOK, PhaseInv, EntryInv, NEW x \in Threads, pc[x] \in ClosePcs
    PROVE  /\ job[x].back \in PcsOf(x) \ LinkPcs
           /\ x = Engine => job[x].back \in {"batch", "round", "recv_stop"}
           /\ x \in Users => job[x].back \in {"undo", "undo_fgw", "undone", "stop_fgw", "halt"}
  BY DEF ControlOK, PhaseInv, PhaseOf, EntryInv, PcsOf, UserPcs, EnginePcs, LinkPcs, OpenPcs,
         ClosePcs, Threads

LEMMA AfterIs ==
    ASSUME NEW x \in Threads, NEW ok \in BOOLEAN
    PROVE  /\ After(x, ok) \in PcsOf(x) \ LinkPcs
           /\ x = Engine => After(x, ok) = "round"
           /\ x \in Users => After(x, ok) \in {"run", "undo"}
           /\ x \in Users => After(x, FALSE) = "undo"
  BY DEF After, PcsOf, UserPcs, EnginePcs, LinkPcs, OpenPcs, ClosePcs, Threads

(* How a thread goes on when it opens or closes a link. *)
MovedOn(x) ==
    \/ pc[x] \in OpenPcs /\ pc'[x] \in OpenPcs \cup {After(x, TRUE), After(x, FALSE)}
    \/ pc[x] \in OpenPcs /\ pc'[x] \in ClosePcs /\ job'[x].back = After(x, FALSE)
    \/ pc[x] = "remove" /\ pc'[x] = "destroy" /\ job'[x] = job[x]
    \/ pc[x] \in ClosePcs /\ pc'[x] = job[x].back

DelsKept ==
    /\ Len(dels) <= Len(dels')
    /\ \A i \in 1 .. Len(dels) : dels'[i] = dels[i]

LEMMA RemovalStep ==
    ASSUME ControlOK, PhaseInv, EntryInv, NEW x \in Threads,
           Remove(x) \/ DropRemoval(x) \/ Destroy(x)
    PROVE  ControlOK' /\ Keeps(x) /\ MovedOn(x)
<1>1. CASE Destroy(x)
  <2>1. pc[x] = "destroy" /\ job[x].back \in PcsOf(x) \ LinkPcs /\ Goes(x, "destroy", job[x].back)
    BY <1>1, BackIs DEF Destroy, Goes, ClosePcs
  <2>2. ControlOK' /\ Keeps(x) /\ pc'[x] = job[x].back
    BY <2>1, GoesOK DEF Keeps
  <2> QED
    BY <2>1, <2>2 DEF MovedOn, ClosePcs
<1>2. CASE Remove(x) \/ DropRemoval(x)
  <2>1. /\ pc[x] = "remove" /\ Goes(x, "remove", AfterTold(x))
        /\ job[x].back \in PcsOf(x) \ LinkPcs
    BY <1>2, BackIs DEF Remove, DropRemoval, Goes, ClosePcs
  <2>2. AfterTold(x) \in PcsOf(x)
    BY <2>1 DEF AfterTold, PcsOf, LinkPcs, ClosePcs
  <2>3. /\ ControlOK' /\ Keeps(x) /\ pc'[x] = AfterTold(x)
        /\ AfterTold(x) \in LinkPcs => job'[x] = job[x]
    BY <2>1, <2>2, GoesOK DEF Keeps
  <2> QED
    BY <2>1, <2>3 DEF MovedOn, ClosePcs, LinkPcs, AfterTold
<1> QED
  BY <1>1, <1>2

LEMMA OpeningStep ==
    ASSUME ControlOK, NEW x \in Threads,
           \/ Connect(x) \/ Socket(x) \/ EndOfInit(x) \/ TakeRef(x)
           \/ AddWake(x) \/ AddFailed(x) \/ Tell(x) \/ Fail(x)
    PROVE  ControlOK' /\ Keeps(x) /\ MovedOn(x) /\ pc[x] \in OpenPcs
<1>l. At(x) \in Links /\ FALSE \in BOOLEAN /\ OpenPcs \subseteq PcsOf(x) /\ "destroy" \in LinkPcs
  BY DEF ControlOK, At, Job, PcsOf, LinkPcs, ClosePcs
<1>a. /\ After(x, TRUE) \in PcsOf(x) \ LinkPcs /\ After(x, FALSE) \in PcsOf(x) \ LinkPcs
      /\ After(x, FALSE) \in UserPcs \cup EnginePcs
  BY AfterIs DEF PcsOf, LinkPcs
<1>1. ASSUME NEW from \in OpenPcs, NEW to \in OpenPcs \cup {After(x, TRUE), After(x, FALSE)},
             Goes(x, from, to)
      PROVE  ControlOK' /\ Keeps(x) /\ MovedOn(x) /\ pc[x] \in OpenPcs
  <2>1. to \in PcsOf(x)
    BY <1>l, <1>a, <1>1
  <2> QED
    BY <1>1, <2>1, GoesOK DEF Keeps, MovedOn
<1>2. ASSUME NEW l \in Links, NEW b \in UserPcs \cup EnginePcs, NEW o \in BOOLEAN,
             pc[x] \in OpenPcs, b = After(x, FALSE), Begins(x, "destroy", l, b, o)
      PROVE  ControlOK' /\ Keeps(x) /\ MovedOn(x)
  <2>1. ControlOK' /\ Keeps(x) /\ pc'[x] = "destroy" /\ job'[x].back = b
    <3>1. Begins(x, "destroy", l, b, o)
      BY <1>2
    <3> QED
      BY <3>1, TurnsTo
  <2> QED
    BY <1>2, <2>1 DEF MovedOn, ClosePcs
<1>3. CASE Fail(x)
  <2>1. pc[x] \in OpenPcs /\ CloseCh(x, At(x), After(x, FALSE))
    BY <1>3 DEF Fail, OpenPcs
  <2>2. ControlOK' /\ Keeps(x) /\ Closes(x, At(x), After(x, FALSE))
    BY <1>l, <1>a, <2>1, CloseChOK
  <2> QED
    BY <2>1, <2>2 DEF Closes, MovedOn, ClosePcs
<1>4. CASE AddFailed(x)
  <2>1. CASE Begins(x, "destroy", At(x), After(x, FALSE), FALSE)
    BY <1>l, <1>a, <1>2, <1>4, <2>1 DEF AddFailed, GiveUpRef, OpenPcs
  <2>2. CASE Goes(x, "sub_ref", "fail")
    BY <1>1, <2>2 DEF OpenPcs
  <2> QED
    BY <1>4, <2>1, <2>2 DEF AddFailed, GiveUpRef
<1>5. CASE EndOfInit(x)
  <2>1. CASE Begins(x, "destroy", At(x), After(x, FALSE), FALSE)
    BY <1>l, <1>a, <1>2, <1>5, <2>1 DEF EndOfInit, OpenPcs
  <2>2. CASE Goes(x, "end_init", "add_ref")
    BY <1>1, <2>2 DEF OpenPcs
  <2> QED
    BY <1>5, <2>1, <2>2 DEF EndOfInit
<1>6. CASE Connect(x) \/ Socket(x) \/ TakeRef(x) \/ AddWake(x) \/ Tell(x)
  BY <1>1, <1>6 DEF Connect, Socket, TakeRef, AddWake, Tell, OpenPcs
<1> QED
  BY <1>3, <1>4, <1>5, <1>6

LEMMA LinkStepMoves ==
    ASSUME Control, NEW x \in Threads, LinkStep(x)
    PROVE  /\ ControlOK' /\ Keeps(x) /\ MovedOn(x) /\ pc[x] \in LinkPcs
           /\ UNCHANGED <<mstate, have, batch, round, done, known>>
           /\ DelsKept /\ CountsOK'
<1>1. ControlOK' /\ Keeps(x) /\ MovedOn(x)
  BY RemovalStep, OpeningStep DEF Control, LinkStep
<1>2. pc[x] \in LinkPcs
  BY <1>1 DEF MovedOn, LinkPcs, ClosePcs
<1>3. UNCHANGED <<mstate, have, batch, round, done, known>>
  BY DEF LinkStep, Remove, DropRemoval, Destroy, Connect, Socket, EndOfInit, TakeRef, AddWake,
         AddFailed, GiveUpRef, Tell, Fail, pollVars, callVars
<1>4. CASE Remove(x)
  <2>1. At(x) \in Links
    BY DEF Control, ControlOK, At, Job
  <2> QED
    BY <1>1, <1>2, <1>3, <1>4, <2>1 DEF Control, CountsOK, Remove, RoomToRemove, DelsKept, callVars
<1>5. CASE AddWake(x)
  BY <1>1, <1>2, <1>3, <1>5 DEF Control, CountsOK, AddWake, DelsKept, pollVars
<1>6. CASE ~Remove(x) /\ ~AddWake(x)
  <2>1. UNCHANGED <<dels, change, faults>>
    BY <1>6 DEF LinkStep, DropRemoval, Destroy, Connect, Socket, EndOfInit, TakeRef,
             AddFailed, GiveUpRef, Tell, Fail, pollVars, callVars
  <2> QED
    BY <1>1, <1>2, <1>3, <2>1 DEF Control, CountsOK, DelsKept
<1> QED
  BY <1>4, <1>5, <1>6

-----------------------------------------------------------------------------
(* Steps of the engine keep the calls where they are. *)

LEMMA EntryInBounds ==
    Control /\ (AtEntry \/ (pc[Engine] = "entry" /\ done < known)) =>
        /\ done + 1 \in 1 .. Len(dels) /\ dels[done + 1] \in Links
        /\ done < known /\ known <= Len(dels)
  BY DEF Control, CountsOK, EntryInv

LEMMA EngineGoes ==
    ASSUME ControlOK, NEW from, NEW to \in EnginePcs, Goes(Engine, from, to)
    PROVE  ControlOK' /\ Keeps(Engine) /\ pc[Engine] = from /\ pc'[Engine] = to
<1>1. to \in PcsOf(Engine) /\ Engine \in Threads
  BY DEF PcsOf, Threads
<1> QED
  BY <1>1, GoesOK DEF Keeps

LEMMA EngineLinkStep ==
    ASSUME Control, LinkStep(Engine)
    PROVE  /\ ControlOK' /\ Keeps(Engine) /\ CountsOK' /\ have' = have
           /\ pc[Engine] # "off" /\ pc'[Engine] # "off"
           /\ EntryInv'
<1>1. /\ ControlOK' /\ Keeps(Engine) /\ MovedOn(Engine) /\ pc[Engine] \in LinkPcs
      /\ UNCHANGED <<mstate, have, batch, round, done, known>>
      /\ DelsKept /\ CountsOK'
  BY LinkStepMoves DEF Threads
<1>2. After(Engine, TRUE) = "round" /\ After(Engine, FALSE) = "round"
  BY DEF After
<1>3. pc[Engine] \in ClosePcs => job[Engine].back \in {"batch", "round", "recv_stop"}
  BY DEF Control, EntryInv
<1>4. /\ pc[Engine] # "off" /\ pc'[Engine] # "off"
      /\ pc'[Engine] \notin {"entry", "end_poll"}
      /\ pc'[Engine] = "recv_stop" => AtEntry
      /\ pc'[Engine] \in ClosePcs =>
            \/ job'[Engine].back = "round"
            \/ pc[Engine] = "remove" /\ pc'[Engine] = "destroy" /\ job'[Engine] = job[Engine]
  BY <1>1, <1>2, <1>3 DEF MovedOn, OpenPcs, ClosePcs, LinkPcs, AtEntry, Control, EntryInv
<1>5. EntryInv'
  BY <1>1, <1>3, <1>4 DEF EntryInv, AtEntry, Control, CountsOK, DelsKept, ClosePcs
<1> QED
  BY <1>1, <1>4, <1>5

LEMMA EngineClose ==
    ASSUME Control, NEW l \in Links, NEW b \in {"batch", "round"}, pc[Engine] = b,
           CloseCh(Engine, l, b)
    PROVE  /\ ControlOK' /\ Keeps(Engine) /\ pc'[Engine] \in {b} \cup ClosePcs
           /\ pc'[Engine] \in ClosePcs => job'[Engine].back = b
<1>1. b \in PcsOf(Engine) \ LinkPcs /\ Engine \in Threads
  BY DEF PcsOf, LinkPcs, OpenPcs, ClosePcs, EnginePcs, Threads
<1>2. ControlOK' /\ Keeps(Engine) /\ Closes(Engine, l, b)
  BY <1>1, CloseChOK DEF Control
<1> QED
  BY <1>2 DEF Closes, ClosePcs

LEMMA EngineMoves ==
    ASSUME Control, EngineStep
    PROVE  /\ ControlOK' /\ Keeps(Engine) /\ CountsOK' /\ have' = have
           /\ pc[Engine] # "off" /\ (pc'[Engine] = "off" => batch' = {})
           /\ EntryInv'
<1> USE DEF Control
<1>0. Engine \in Threads /\ {"off", "batch", "round", "entry", "end_poll", "recv_stop", "reset"} \subseteq EnginePcs
  BY DEF Threads, EnginePcs
<1>1. CASE ToStop
  BY <1>0, <1>1, EngineGoes
     DEF ToStop, CountsOK, EntryInv, AtEntry, ClosePcs, pollVars
<1>2. CASE EpollWait
  <2>1. batch' \subseteq Links \cup {"change", "queue"}
    BY <1>2 DEF EpollWait
  <2> QED
    BY <1>2, <2>1 DEF EpollWait, CountsOK, EntryInv, AtEntry, ClosePcs, callVars, ctlVars, Keeps,
                      ControlOK, At
<1>3. CASE QueueEvent \/ RoundDone
  BY <1>0, <1>3, EngineGoes
     DEF QueueEvent, RoundDone, CountsOK, EntryInv, AtEntry, ClosePcs, callVars
<1>4. CASE \E l \in Links : LinkEvent(l)
  <2>1. PICK l \in Links : LinkEvent(l)
    BY <1>4
  <2>2. CountsOK' /\ have' = have /\ UNCHANGED <<dels, done, known>> /\ pc[Engine] = "batch"
    BY <2>1 DEF LinkEvent, CountsOK, callVars
  <2>3. CASE UNCHANGED ctlVars
    BY <2>2, <2>3 DEF ctlVars, EntryInv, AtEntry, ClosePcs, Keeps, ControlOK
  <2>4. CASE CloseCh(Engine, l, "batch")
    <3>1. /\ ControlOK' /\ Keeps(Engine) /\ pc'[Engine] \in {"batch"} \cup ClosePcs
          /\ pc'[Engine] \in ClosePcs => job'[Engine].back = "batch"
      BY <2>2, <2>4, EngineClose
    <3> QED
      BY <2>2, <3>1 DEF EntryInv, AtEntry, ClosePcs
  <2> QED
    BY <2>1, <2>3, <2>4 DEF LinkEvent
<1>5. CASE \E l \in Links : Event(l)
  <2>1. PICK l \in Links : Event(l)
    BY <1>5
  <2>2. CountsOK' /\ have' = have /\ UNCHANGED <<dels, done, known>> /\ pc[Engine] = "round"
    BY <2>1 DEF Event, CountsOK, callVars
  <2>3. CASE Begins(Engine, "connect", l, "round", FALSE)
    <3>1. "round" \in UserPcs \cup EnginePcs /\ FALSE \in BOOLEAN
      BY DEF EnginePcs
    <3>2. ControlOK' /\ Keeps(Engine) /\ pc'[Engine] = "connect"
      BY <1>0, <2>3, <3>1, TurnsTo
    <3> QED
      BY <2>2, <3>2 DEF EntryInv, AtEntry, ClosePcs
  <2>4. CASE CloseCh(Engine, l, "round")
    <3>1. /\ ControlOK' /\ Keeps(Engine) /\ pc'[Engine] \in {"round"} \cup ClosePcs
          /\ pc'[Engine] \in ClosePcs => job'[Engine].back = "round"
      BY <2>2, <2>4, EngineClose
    <3> QED
      BY <2>2, <3>1 DEF EntryInv, AtEntry, ClosePcs
  <2> QED
    BY <2>1, <2>3, <2>4 DEF Event
<1>6. CASE ChangeEvent
  BY <1>0, <1>6, EngineGoes
     DEF ChangeEvent, CountsOK, EntryInv, AtEntry, ClosePcs, callVars
<1>7. CASE Entry
  <2>1. have' = have /\ UNCHANGED <<dels, known>> /\ pc[Engine] = "entry" /\ done < known
    BY <1>7 DEF Entry, callVars
  <2>2. CASE Goes(Engine, "entry", "end_poll") /\ done' = done
    <3>1. ControlOK' /\ Keeps(Engine) /\ pc'[Engine] = "end_poll"
      BY <1>0, <2>2, EngineGoes
    <3> QED
      BY <1>7, <2>1, <2>2, <3>1 DEF Entry, CountsOK, EntryInv, AtEntry, ClosePcs, callVars
  <2>3. CASE done' = done + 1 /\ UNCHANGED ctlVars
    BY <1>7, <2>1, <2>3 DEF Entry, CountsOK, EntryInv, AtEntry, ClosePcs, ctlVars, callVars, Keeps, ControlOK
  <2> QED
    BY <1>7, <2>2, <2>3 DEF Entry
<1>8. CASE EndPoll
  <2> DEFINE l == dels[done + 1]
  <2>1. pc[Engine] = "end_poll" /\ UNCHANGED <<dels, done, known>> /\ have' = have /\ CountsOK'
    BY <1>8 DEF EndPoll, GiveUpRef, pollVars, callVars, CountsOK
  <2>2. l \in Links
    BY <2>1, EntryInBounds DEF AtEntry
  <2>3. CASE Goes(Engine, "end_poll", "recv_stop")
    <3>1. ControlOK' /\ Keeps(Engine) /\ pc'[Engine] = "recv_stop"
      BY <1>0, <2>3, EngineGoes
    <3> QED
      BY <2>1, <3>1 DEF EntryInv, AtEntry, ClosePcs
  <2>4. CASE Begins(Engine, "destroy", l, "recv_stop", FALSE)
    <3>1. "recv_stop" \in UserPcs \cup EnginePcs /\ FALSE \in BOOLEAN
      BY DEF EnginePcs
    <3> HIDE DEF l
    <3>2. /\ ControlOK' /\ Keeps(Engine) /\ pc'[Engine] = "destroy"
          /\ job'[Engine].link = l /\ job'[Engine].back = "recv_stop"
      BY <1>0, <2>2, <2>4, <3>1, TurnsTo
    <3> QED
      BY <2>1, <3>2 DEF EntryInv, AtEntry, ClosePcs, At, l
  <2> QED
    BY <1>8, <2>3, <2>4 DEF EndPoll, GiveUpRef
<1>9. CASE RecvStop
  <2>1. ControlOK' /\ Keeps(Engine) /\ pc[Engine] = "recv_stop" /\ pc'[Engine] = "entry"
    BY <1>0, <1>9, EngineGoes DEF RecvStop
  <2> QED
    BY <1>9, <2>1 DEF RecvStop, CountsOK, EntryInv, AtEntry, ClosePcs, callVars
<1>10. CASE MoreEntries
  BY <1>10 DEF MoreEntries, CountsOK, EntryInv, AtEntry, ClosePcs, callVars, ctlVars, Keeps, ControlOK
<1>11. CASE NoMoreEntries
  <2>1. ControlOK' /\ Keeps(Engine) /\ pc[Engine] = "entry" /\ pc'[Engine] = "reset"
    BY <1>0, <1>11, EngineGoes DEF NoMoreEntries
  <2> QED
    BY <1>11, <2>1 DEF NoMoreEntries, CountsOK, EntryInv, AtEntry, ClosePcs, callVars
<1>12. CASE Reset
  <2>1. ControlOK' /\ Keeps(Engine) /\ pc[Engine] = "reset" /\ pc'[Engine] = "batch"
    BY <1>0, <1>12, EngineGoes DEF Reset
  <2> QED
    BY <1>12, <2>1 DEF Reset, CountsOK, EntryInv, AtEntry, ClosePcs, callVars
<1>13. CASE LinkStep(Engine)
  BY <1>13, EngineLinkStep
<1> QED
  BY <1>1, <1>2, <1>3, <1>4, <1>5, <1>6, <1>7, <1>8, <1>9, <1>10, <1>11, <1>12, <1>13 DEF EngineStep

LEMMA EngineControl ==
    ASSUME Control, EngineStep
    PROVE  Control'
<1>1. /\ ControlOK' /\ Keeps(Engine) /\ CountsOK' /\ have' = have
      /\ pc[Engine] # "off" /\ (pc'[Engine] = "off" => batch' = {})
      /\ EntryInv'
  BY EngineMoves
<1>2. \A u \in Users : pc'[u] = pc[u] /\ job'[u] = job[u]
  BY <1>1 DEF Keeps, Threads
<1>3. OneInCharge'
  BY <1>1, <1>2 DEF Control, OneInCharge, InCharge
<1>4. PhaseInv'
  BY <1>1, <1>2 DEF Control, PhaseInv, PhaseOf
<1>5. DownInv'
  BY <1>1, <1>2 DEF Control, DownInv
<1> QED
  BY <1>1, <1>3, <1>4, <1>5 DEF Control

-----------------------------------------------------------------------------
(* Steps of a call keep the engine where it is, but for the one that runs  *)
(* it; while a call is under way every other thread of the application is  *)
(* idle.                                                                   *)

Alone(u) == \A v \in Users \ {u} : pc[v] = "idle"

LEMMA InChargeAlone ==
    ASSUME Control, NEW u \in Users, pc[u] # "idle" \/ have \in {0, 2}
    PROVE  Alone(u) /\ (pc[u] # "idle" => have \in {1, 3})
  BY DEF Control, OneInCharge, InCharge, Alone, CountsOK

LEMMA CallControl ==
    ASSUME Control, NEW u \in Users, Alone(u), ControlOK', CountsOK', EntryInv', DownInv',
           \A v \in Users \ {u} : pc'[v] = pc[v],
           PhaseOf(u)', pc'[u] = "idle" => have' # 1, pc'[u] # "idle" => have' \in {1, 3}
    PROVE  Control'
<1>1. \A v \in Users \ {u} : pc'[v] = "idle"
  BY DEF Alone
<1>2. ASSUME NEW v \in Users PROVE PhaseOf(v)'
  BY <1>1 DEF PhaseOf, StartPcs, StopPcs, QuietPcs, OpenPcs, ClosePcs
<1>3. OneInCharge'
  BY <1>1 DEF OneInCharge, InCharge, CountsOK
<1> QED
  BY <1>2, <1>3 DEF Control, PhaseInv

LEMMA EngineStill ==
    ASSUME Control, pc'[Engine] = pc[Engine], job'[Engine] = job[Engine],
           UNCHANGED <<batch, done, known>>, DelsKept, have' = 0 => pc[Engine] = "off",
           dels' \in Seq(Links)
    PROVE  EntryInv' /\ DownInv'
  BY DEF Control, CountsOK, EntryInv, DownInv, AtEntry, DelsKept, At, ClosePcs

LEMMA UserGoes ==
    ASSUME ControlOK, NEW u \in Users, NEW from, NEW to \in UserPcs, Goes(u, from, to)
    PROVE  ControlOK' /\ Keeps(u) /\ pc[u] = from /\ pc'[u] = to
<1>1. to \in PcsOf(u) /\ u \in Threads
  BY DEF PcsOf, Threads
<1> QED
  BY <1>1, GoesOK DEF Keeps

LEMMA UserKeeps ==
    ASSUME NEW u \in Users, Keeps(u)
    PROVE  /\ pc'[Engine] = pc[Engine] /\ job'[Engine] = job[Engine]
           /\ \A v \in Users \ {u} : pc'[v] = pc[v]
  BY DEF Keeps, Threads

LEMMA UserLinkStep == ASSUME Control, NEW u \in Users, LinkStep(u) PROVE Control'
<1>1. /\ ControlOK' /\ Keeps(u) /\ MovedOn(u) /\ pc[u] \in LinkPcs
      /\ UNCHANGED <<mstate, have, batch, round, done, known>>
      /\ DelsKept /\ CountsOK'
  BY LinkStepMoves DEF Threads
<1>2. pc[u] # "idle" /\ Alone(u)
  BY <1>1, InChargeAlone DEF LinkPcs, OpenPcs, ClosePcs
<1>3. PhaseOf(u) /\ (have = 0 => pc[Engine] = "off")
  BY DEF Control, PhaseInv, DownInv
<1>4. EntryInv' /\ DownInv'
  BY <1>1, <1>3, UserKeeps, EngineStill DEF CountsOK
<1>5. After(u, TRUE) = "run" /\ After(u, FALSE) = "undo"
  BY DEF After
<1>6. PhaseOf(u)' /\ pc'[u] # "idle" /\ have' \in {1, 3}
  <2>1. pc'[Engine] = pc[Engine] /\ have' = have
    BY <1>1, UserKeeps
  <2>2. CASE pc[u] \in OpenPcs
    BY <1>1, <1>3, <1>5, <2>1, <2>2
       DEF MovedOn, PhaseOf, StartPcs, StopPcs, QuietPcs, OpenPcs, ClosePcs
  <2>3. CASE pc[u] \in ClosePcs
    BY <1>1, <1>3, <2>1, <2>3
       DEF MovedOn, PhaseOf, StartPcs, StopPcs, QuietPcs, OpenPcs, ClosePcs
  <2> QED
    BY <1>1, <2>2, <2>3 DEF LinkPcs
<1> QED
  BY <1>1, <1>2, <1>4, <1>6, UserKeeps, CallControl

LEMMA UserClose ==
    ASSUME Control, NEW u \in Users, NEW l \in Links,
           NEW b \in {"undo_fgw", "undone", "stop_fgw", "halt"}, CloseCh(u, l, b)
    PROVE  /\ ControlOK' /\ Keeps(u) /\ pc'[u] \in {b} \cup ClosePcs
           /\ pc'[u] \in ClosePcs => job'[u].back = b
<1>1. b \in PcsOf(u) \ LinkPcs /\ u \in Threads
  BY DEF PcsOf, LinkPcs, OpenPcs, ClosePcs, UserPcs, Threads
<1>2. ControlOK' /\ Keeps(u) /\ Closes(u, l, b)
  BY <1>1, CloseChOK DEF Control
<1> QED
  BY <1>2 DEF Closes, ClosePcs

LEMMA UserMoves ==
    ASSUME Control, NEW u \in Users,
           Start(u) \/ Stop(u) \/ (UserStep(u) /\ ~LinkStep(u) /\ ~Run(u))
    PROVE  /\ ControlOK' /\ Keeps(u) /\ CountsOK'
           /\ UNCHANGED <<dels, batch, done, known>>
           /\ Alone(u) /\ PhaseOf(u)'
           /\ pc'[u] = "idle" => have' # 1
           /\ pc'[u] # "idle" => have' \in {1, 3}
           /\ have' = 0 => pc[Engine] = "off"
<1> USE DEF Control, CallUnchanged, callVars, pollVars, StartPcs, StopPcs, QuietPcs, OpenPcs, ClosePcs
<1>0. /\ {"idle", "prepare", "dial", "run", "fast", "undo", "undo_join", "undo_fgw", "undone",
           "stop_g98", "stop_fgw", "halt", "join"} \subseteq UserPcs
      /\ G98 \in Links /\ Fgw \in Links /\ u \in Threads
      /\ PhaseOf(u) /\ DownInv /\ CountsOK
  BY DEF UserPcs, Links, Threads, PhaseInv
<1>a. pc[u] # "idle" => Alone(u) /\ have \in {1, 3}
  BY InChargeAlone
<1>1. CASE Start(u)
  <2>1. Goes(u, "idle", "prepare") /\ have = 0 /\ have' = 1 /\ UNCHANGED <<mstate, faults>> /\ CallUnchanged
    BY <1>1 DEF Start
  <2>2. ControlOK' /\ Keeps(u) /\ pc'[u] = "prepare"
    BY <1>0, <2>1, UserGoes
  <2>3. PhaseOf(u)'
    BY <1>0, <2>1, <2>2, UserKeeps DEF DownInv, PhaseOf
  <2> QED
    BY <1>0, <2>1, <2>2, <2>3, InChargeAlone DEF CountsOK
<1>2. CASE Stop(u)
  <2>1. Goes(u, "idle", "stop_g98") /\ have = 2 /\ have' = 3 /\ UNCHANGED <<mstate, faults>> /\ CallUnchanged
    BY <1>2 DEF Stop
  <2>2. ControlOK' /\ Keeps(u) /\ pc'[u] = "stop_g98"
    BY <1>0, <2>1, UserGoes
  <2>3. PhaseOf(u)'
    BY <1>0, <2>1, <2>2 DEF PhaseOf
  <2> QED
    BY <1>0, <2>1, <2>2, <2>3, InChargeAlone DEF CountsOK
<1>3. CASE Prepare(u) \/ Fast(u)
  <2>1. UNCHANGED <<dels, batch, done, known>> /\ pc[u] \in {"prepare", "fast"}
    BY <1>3 DEF Prepare, Fast, Goes
  <2>2. have = 1 /\ (pc[u] = "prepare" => pc[Engine] = "off")
    BY <1>0, <2>1 DEF PhaseOf
  <2>3. CASE Goes(u, "prepare", "dial") /\ have' = have
    <3>1. ControlOK' /\ Keeps(u) /\ pc[u] = "prepare" /\ pc'[u] = "dial"
      BY <1>0, <2>3, UserGoes
    <3>2. CountsOK'
      BY <1>0, <1>3 DEF Prepare, Fast, CountsOK
    <3> QED
      BY <1>a, <2>1, <2>2, <2>3, <3>1, <3>2, UserKeeps DEF PhaseOf
  <2>4. CASE (Goes(u, "prepare", "undo") \/ Goes(u, "fast", "undo")) /\ have' = have
    <3>1. ControlOK' /\ Keeps(u) /\ pc'[u] = "undo"
      BY <1>0, <2>4, UserGoes
    <3>2. CountsOK'
      BY <1>0, <1>3 DEF Prepare, Fast, CountsOK
    <3> QED
      BY <1>a, <2>1, <2>2, <2>4, <3>1, <3>2, UserKeeps DEF PhaseOf
  <2>5. CASE Goes(u, "fast", "idle") /\ have' = 2
    <3>1. ControlOK' /\ Keeps(u) /\ pc'[u] = "idle"
      BY <1>0, <2>5, UserGoes
    <3>2. CountsOK'
      BY <1>0, <1>3, <2>5 DEF Prepare, Fast, CountsOK
    <3> QED
      BY <1>a, <2>1, <2>5, <3>1, <3>2 DEF PhaseOf
  <2> QED
    BY <1>3, <2>3, <2>4, <2>5 DEF Prepare, Fast
<1>4. CASE Undo(u) \/ Halt(u)
  <2>1. /\ UNCHANGED <<dels, batch, done, known, have>>
        /\ Goes(u, "undo", "undo_join") \/ Goes(u, "halt", "join")
    BY <1>4 DEF Undo, Halt
  <2>2. CountsOK'
    BY <1>0, <1>4 DEF Undo, Halt, StopThread, CountsOK
  <2>3. /\ ControlOK' /\ Keeps(u)
        /\ \/ pc[u] = "undo" /\ pc'[u] = "undo_join"
           \/ pc[u] = "halt" /\ pc'[u] = "join"
    BY <1>0, <2>1, UserGoes
  <2>4. PhaseOf(u)'
    BY <1>0, <2>1, <2>3 DEF PhaseOf
  <2> QED
    BY <1>a, <2>1, <2>2, <2>3, <2>4
<1>5. CASE Undone(u) \/ Join(u)
  <2>1. /\ UNCHANGED <<dels, batch, done, known>>
        /\ \/ Goes(u, "undone", "idle") /\ have' = 0
           \/ Goes(u, "join", "idle") /\ have' = have
    BY <1>5 DEF Undone, Join
  <2>2. CountsOK'
    BY <1>0, <1>5 DEF Undone, Join, CountsOK
  <2>3. /\ ControlOK' /\ Keeps(u) /\ pc'[u] = "idle"
        /\ \/ pc[u] = "undone" /\ have' = 0
           \/ pc[u] = "join" /\ have' = have
    BY <1>0, <2>1, UserGoes
  <2>4. /\ have' # 1
        /\ have' = 0 => pc[Engine] = "off"
    BY <1>0, <1>a, <2>3 DEF PhaseOf
  <2> QED
    BY <1>a, <2>1, <2>2, <2>3, <2>4 DEF PhaseOf
<1>6. CASE Dial(u)
  <2>0. pc[u] = "dial" /\ UNCHANGED <<dels, batch, done, known, have>> /\ CountsOK'
    BY <1>0, <1>6 DEF Dial, Goes, CountsOK
  <2>1. CASE Begins(u, "connect", G98, "run", FALSE)
    <3>1. "run" \in UserPcs \cup EnginePcs /\ FALSE \in BOOLEAN
      BY <1>0
    <3>2. ControlOK' /\ Keeps(u) /\ pc'[u] = "connect"
      BY <1>0, <2>1, <3>1, TurnsTo
    <3> QED
      BY <1>0, <1>a, <2>0, <3>2, UserKeeps DEF PhaseOf
  <2>2. CASE Goes(u, "dial", "run") \/ Goes(u, "dial", "undo")
    <3>1. ControlOK' /\ Keeps(u) /\ pc'[u] \in {"run", "undo"}
      BY <1>0, <2>2, UserGoes
    <3> QED
      BY <1>0, <1>a, <2>0, <3>1, UserKeeps DEF PhaseOf
  <2> QED
    BY <1>6, <2>1, <2>2 DEF Dial
<1>7. CASE UndoClose(u)
  <2>0. UNCHANGED <<dels, batch, done, known, have>> /\ CountsOK'
    BY <1>0, <1>7 DEF UndoClose, CountsOK
  <2>1. /\ ControlOK' /\ Keeps(u)
        /\ pc[u] \in {"undo_join", "undo_fgw"} /\ pc[Engine] = "off"
        /\ pc'[u] \in {"undo_fgw", "undone"} \cup ClosePcs
        /\ pc'[u] \in ClosePcs => job'[u].back \in {"undo_fgw", "undone"}
    BY <1>0, <1>7, UserClose DEF UndoClose, PhaseOf
  <2> QED
    BY <1>0, <1>a, <2>0, <2>1, UserKeeps DEF PhaseOf
<1>8. CASE StopClose(u)
  <2>0. UNCHANGED <<dels, batch, done, known, have>> /\ CountsOK'
    BY <1>0, <1>8 DEF StopClose, CountsOK
  <2>1. /\ ControlOK' /\ Keeps(u)
        /\ pc[u] \in {"stop_g98", "stop_fgw"}
        /\ pc'[u] \in {"stop_fgw", "halt"} \cup ClosePcs
        /\ pc'[u] \in ClosePcs => job'[u].back \in {"stop_fgw", "halt"}
    BY <1>0, <1>8, UserClose DEF StopClose
  <2> QED
    BY <1>0, <1>a, <2>0, <2>1, UserKeeps DEF PhaseOf
<1> QED
  BY <1>1, <1>2, <1>3, <1>4, <1>5, <1>6, <1>7, <1>8 DEF UserStep

LEMMA RunControl == ASSUME Control, NEW u \in Users, Run(u) PROVE Control'
<1>0. /\ pc[u] = "run" /\ PhaseOf(u) /\ u # Engine
      /\ UNCHANGED <<dels, batch, done, known, have>>
  BY DEF Control, PhaseInv, Run, Goes, pollVars
<1>1. have = 1 /\ pc[Engine] = "off" /\ Alone(u) /\ batch = {}
  BY <1>0, InChargeAlone DEF PhaseOf, StartPcs, QuietPcs, Control, DownInv
<1>2. CountsOK'
  BY <1>0 DEF Run, Control, CountsOK, pollVars
<1>3. CASE pc' = [pc EXCEPT ![u] = "fast", ![Engine] = "batch"] /\ UNCHANGED job
  <2>1. pc'[u] = "fast" /\ pc'[Engine] = "batch" /\ \A v \in Users \ {u} : pc'[v] = pc[v]
    BY <1>0, <1>3 DEF Control, ControlOK, Threads
  <2>2. ControlOK'
    BY <1>0, <1>3, <2>1 DEF Control, ControlOK, Threads, PcsOf, UserPcs, EnginePcs
  <2>3. EntryInv' /\ DownInv'
    BY <1>0, <1>1, <2>1 DEF EntryInv, DownInv, AtEntry, ClosePcs
  <2>4. PhaseOf(u)'
    BY <1>0, <1>1, <2>1 DEF PhaseOf, StartPcs, StopPcs, QuietPcs, OpenPcs, ClosePcs
  <2> QED
    BY <1>0, <1>1, <1>2, <2>1, <2>2, <2>3, <2>4, CallControl
<1>4. CASE Goes(u, "run", "undo")
  <2>1. ControlOK' /\ Keeps(u) /\ pc'[u] = "undo"
    BY <1>4, UserGoes DEF Control, UserPcs
  <2>2. EntryInv' /\ DownInv'
    BY <1>0, <1>1, <2>1, UserKeeps, EngineStill DEF Control, CountsOK, DelsKept
  <2>3. PhaseOf(u)'
    BY <1>0, <1>1, <2>1, UserKeeps DEF PhaseOf, StartPcs, StopPcs, QuietPcs, OpenPcs, ClosePcs
  <2> QED
    BY <1>0, <1>1, <1>2, <2>1, <2>2, <2>3, UserKeeps, CallControl
<1> QED
  BY <1>3, <1>4 DEF Run

LEMMA UserControl ==
    ASSUME Control, NEW u \in Users, Start(u) \/ Stop(u) \/ UserStep(u)
    PROVE  Control'
<1>1. CASE LinkStep(u)
  BY <1>1, UserLinkStep
<1>2. CASE Run(u)
  BY <1>2, RunControl
<1>3. CASE ~LinkStep(u) /\ ~Run(u)
  <2>1. /\ ControlOK' /\ Keeps(u) /\ CountsOK'
        /\ UNCHANGED <<dels, batch, done, known>>
        /\ Alone(u) /\ PhaseOf(u)'
        /\ pc'[u] = "idle" => have' # 1
        /\ pc'[u] # "idle" => have' \in {1, 3}
        /\ have' = 0 => pc[Engine] = "off"
    BY <1>3, UserMoves
  <2>2. EntryInv' /\ DownInv'
    BY <2>1, UserKeeps, EngineStill DEF Control, CountsOK, DelsKept
  <2> QED
    BY <2>1, <2>2, UserKeeps, CallControl
<1> QED
  BY <1>1, <1>2, <1>3

LEMMA InitControl == Init => Control
<1> SUFFICES ASSUME Init PROVE Control
  OBVIOUS
<1>1. NoJob \in Job
  BY DEF NoJob, Job, EnginePcs, Links
<1>2. ControlOK
  BY <1>1 DEF Init, ControlOK, PcsOf, UserPcs, EnginePcs, Threads
<1>3. CountsOK
  <2>1. <<>> \in Seq(Links) /\ Len(<<>>) = 0
    OBVIOUS
  <2>2. dels \in Seq(Links) /\ Len(dels) <= Slots
    BY <2>1 DEF Init
  <2>3. change \in BOOLEAN /\ mstate \in {"none", "init", "running", "tostop"}
    BY DEF Init
  <2>4. /\ have \in 0 .. 3 /\ faults \in 0 .. Faults /\ round \in 0 .. Rounds
        /\ done \in Nat /\ known \in Nat /\ known <= Slots
    BY DEF Init
  <2>5. batch \subseteq Links \cup {"change", "queue"}
    BY DEF Init
  <2> QED
    BY <2>2, <2>3, <2>4, <2>5 DEF CountsOK
<1>4. pc[Engine] = "off" /\ \A u \in Users : pc[u] = "idle"
  BY DEF Init, Threads
<1> QED
  BY <1>2, <1>3, <1>4 DEF Init, Control, OneInCharge, InCharge, PhaseInv, PhaseOf, DownInv,
     EntryInv, AtEntry, StartPcs, StopPcs, QuietPcs, OpenPcs, ClosePcs

LEMMA NextControl == Control /\ [Next]_vars => Control'
<1> SUFFICES ASSUME Control, [Next]_vars PROVE Control'
  OBVIOUS
<1>1. CASE UNCHANGED vars
  BY <1>1 DEF vars, linkVars, pollVars, callVars, ctlVars, Control, ControlOK, CountsOK, OneInCharge,
              InCharge, PhaseInv, PhaseOf, DownInv, EntryInv, AtEntry, At
<1>2. CASE EngineStep
  BY <1>2, EngineControl
<1>3. CASE \E u \in Users : Start(u) \/ Stop(u) \/ UserStep(u)
  BY <1>3, UserControl
<1> QED
  BY <1>1, <1>2, <1>3 DEF Next, ReturnAtOnce

-----------------------------------------------------------------------------
(* Layer two: references.  A link has at most one; a polled link has it,   *)
(* del_wake gives it up, and the counter's flag lasts no longer.           *)

Open(w) == w.st \in {"inited", "work"}

LinksOK ==
    /\ word \in [Links -> Word] /\ \A l \in Links : LegalWord(word[l])
    /\ fd \in [Links -> BOOLEAN] /\ started \in [Links -> BOOLEAN]
    /\ polled \in [Links -> BOOLEAN] /\ linked \in [Links -> BOOLEAN]

(* del_wake is inside an entry of link l. *)
InEntry(l) == AtEntry /\ dels[done + 1] = l

LinkRef(l) ==
    /\ word[l].ref <= 1
    /\ polled[l] => Open(word[l]) /\ word[l].ref = 1
    /\ Removing(l) => ~polled[l] /\ Open(word[l]) /\ word[l].ref = 1
    /\ linked[l] => (Open(word[l]) /\ word[l].ref = 1) \/ InEntry(l)

OpenerRef(x) ==
    /\ pc[x] \in {"socket", "end_init"} => word[At(x)].st = "initing"
    /\ pc[x] \in {"socket", "end_init", "add_ref", "add", "sub_ref"} =>
        ~linked[At(x)] /\ ~polled[At(x)]
    /\ pc[x] = "add_ref" => word[At(x)].ref = 0
    /\ pc[x] \in {"add", "sub_ref", "tell"} => Open(word[At(x)]) /\ word[At(x)].ref = 1

Refs == LinksOK /\ (\A l \in Links : LinkRef(l)) /\ (\A x \in Threads : OpenerRef(x))

(* The methods of the word keep it legal. *)
LEMMA ClosedWord ==
    LegalWord(Closed) /\ Closed.ref = 0 /\ ~Open(Closed) /\ Closed.st = "closed"
  BY DEF LegalWord, Word, Closed, Open

LEMMA InitWords ==
    ASSUME NEW w, LegalWord(w)
    PROVE  /\ LegalWord(ToInit(w)) /\ ToInit(w).st = "initing" /\ ToInit(w).ref = 1
           /\ EndInit(w, FALSE) = Closed
           /\ ~EndInitWorks(w, TRUE) => SetWork(EndInit(w, TRUE)) = Closed
           /\ EndInitWorks(w, TRUE) => /\ LegalWord(SetWork(EndInit(w, TRUE)))
                                       /\ Open(SetWork(EndInit(w, TRUE)))
                                       /\ SetWork(EndInit(w, TRUE)).ref = 0
<1>1. LegalWord(ToInit(w)) /\ ToInit(w).st = "initing" /\ ToInit(w).ref = 1
  BY DEF LegalWord, Word, Closed, ToInit
<1>2. EndInit(w, FALSE) = Closed
  BY DEF EndInit, EndInitWorks
<1>3. ASSUME ~EndInitWorks(w, TRUE) PROVE SetWork(EndInit(w, TRUE)) = Closed
  BY <1>3 DEF EndInit, SetWork, Closed
<1>4. ASSUME EndInitWorks(w, TRUE)
      PROVE  SetWork(EndInit(w, TRUE)) = [st |-> "work", closing |-> FALSE, ref |-> 0]
  BY <1>4 DEF EndInit, SetWork
<1>5. LET v == [st |-> "work", closing |-> FALSE, ref |-> 0]
      IN  LegalWord(v) /\ Open(v) /\ v.ref = 0
  BY DEF LegalWord, Word, Closed, Open
<1> QED
  BY <1>1, <1>2, <1>3, <1>4, <1>5

LEMMA RefWords ==
    ASSUME NEW w, LegalWord(w)
    PROVE  /\ w.ref \in Nat /\ (w.st = "initing" => w.ref = 1)
           /\ RefAllowed(w) => /\ LegalWord(AddRef(w)) /\ Open(AddRef(w))
                               /\ AddRef(w).ref = w.ref + 1
           /\ Open(w) /\ w.ref = 1 => /\ LegalWord(SubRef(w)) /\ SubRef(w).ref = 0
                                      /\ LastRef(w) => SubRef(w) = Closed
                                      /\ ~LastRef(w) => Open(SubRef(w))
<1>1. w.ref \in Nat /\ (w.st = "initing" => w.ref = 1)
  BY DEF LegalWord, Word
<1>2. ASSUME RefAllowed(w)
      PROVE  LegalWord(AddRef(w)) /\ Open(AddRef(w)) /\ AddRef(w).ref = w.ref + 1
  BY <1>2 DEF LegalWord, Word, Closed, Open, RefAllowed, AddRef
<1>3. ASSUME LastRef(w) PROVE SubRef(w) = Closed
  BY <1>3 DEF SubRef
<1>4. ASSUME Open(w), w.ref = 1, ~LastRef(w)
      PROVE  LegalWord(SubRef(w)) /\ SubRef(w).ref = 0 /\ Open(SubRef(w))
  BY <1>4 DEF LegalWord, Word, Closed, Open, SubRef, LastRef
<1> QED
  BY <1>1, <1>2, <1>3, <1>4, ClosedWord

LEMMA CloseWords ==
    ASSUME NEW w, LegalWord(w)
    PROVE  /\ LegalWord(ToClose(w))
           /\ w.ref = 0 => ToClose(w) = Closed
           /\ w.ref > 0 => /\ ToClose(w).st = w.st
                           /\ ToClose(w).ref = w.ref /\ ToClose(w).closing
<1>1. w.ref \in Nat
  BY DEF LegalWord, Word
<1>2. w.ref = 0 => ToClose(w) = Closed
  BY DEF ToClose
<1>3. ASSUME w.ref > 0
      PROVE  /\ LegalWord(ToClose(w)) /\ ToClose(w).st = w.st
             /\ ToClose(w).ref = w.ref /\ ToClose(w).closing
  <2>1. ToClose(w) = [w EXCEPT !.closing = TRUE] /\ w \in Word
    BY <1>3 DEF ToClose, LegalWord
  <2>2. /\ ToClose(w).st = w.st /\ ToClose(w).ref = w.ref /\ ToClose(w).closing
        /\ ToClose(w) \in Word
    BY <2>1 DEF Word
  <2>3. w.st # "closed" /\ (w.st = "initing" => w.ref = 1)
    BY <1>3 DEF LegalWord, Closed
  <2> QED
    BY <1>3, <2>2, <2>3 DEF LegalWord
<1> QED
  BY <1>1, <1>2, <1>3, ClosedWord

LEMMA LegalIsWord == ASSUME NEW w, LegalWord(w) PROVE w \in Word
  BY DEF LegalWord

(* A change of one link. *)
LEMMA OneLink ==
    ASSUME LinksOK, NEW l \in Links, NEW w, LegalWord(w), word' = [word EXCEPT ![l] = w],
           fd' \in [Links -> BOOLEAN], started' \in [Links -> BOOLEAN],
           polled' \in [Links -> BOOLEAN], linked' \in [Links -> BOOLEAN]
    PROVE  LinksOK' /\ word'[l] = w /\ \A k \in Links \ {l} : word'[k] = word[k]
  BY LegalIsWord DEF LinksOK

(* del_wake stays in the entry it is in, and enters none. *)
EntryKept == \A l \in Links : (Removing(l)' => Removing(l)) /\ (InEntry(l) => InEntry(l)')

(* The changes that the references of other links survive. *)
LEMMA OtherLinks ==
    ASSUME Refs, EntryKept, NEW l \in Links, NEW k \in Links, k # l,
           word'[k] = word[k], polled'[k] => polled[k], linked'[k] => linked[k]
    PROVE  LinkRef(k)'
  BY DEF Refs, LinkRef, EntryKept

(* The changes of a link that the thread opening it survives. *)
Gentle(k) ==
    /\ word[k].st = "initing" => word'[k].st = "initing"
    /\ word[k].ref = 0 => word'[k].ref = 0
    /\ Open(word[k]) /\ word[k].ref = 1 => Open(word'[k]) /\ word'[k].ref = 1
    /\ polled'[k] => polled[k]
    /\ linked'[k] => linked[k]

LEMMA OtherOpeners ==
    ASSUME Control, Refs, NEW x \in Threads, Keeps(x), \A k \in Links : Gentle(k)
    PROVE  \A y \in Threads \ {x} : OpenerRef(y)'
<1> TAKE y \in Threads \ {x}
<1>1. At(y) \in Links /\ At(y)' = At(y) /\ pc'[y] = pc[y]
  BY DEF Control, ControlOK, At, Job, Keeps
<1> QED
  BY <1>1 DEF Refs, OpenerRef, Gentle

LEMMA NoOtherOpener ==
    ASSUME Control, NEW x \in Threads, Keeps(x),
           pc[x] \in OpenPcs \/ (x = Engine /\ pc[x] # "off")
    PROVE  \A y \in Threads \ {x} : OpenerRef(y)'
<1> TAKE y \in Threads \ {x}
<1>1. pc[y] \notin OpenPcs
  <2>1. CASE x = Engine
    BY <2>1 DEF Control, PhaseInv, PhaseOf, QuietPcs, Threads, OpenPcs
  <2>2. CASE x \in Users
    <3>1. pc[Engine] = "off" /\ Alone(x)
      BY <2>2, InChargeAlone DEF Control, PhaseInv, PhaseOf, QuietPcs, OpenPcs
    <3> QED
      BY <3>1 DEF Alone, Threads, OpenPcs
  <2> QED
    BY <2>1, <2>2 DEF Threads
<1> QED
  BY <1>1 DEF Keeps, OpenerRef, OpenPcs

(* Closing a link, wherever it happens. *)
LEMMA CloseKeepsRefs ==
    ASSUME Control, Refs, EntryKept, NEW x \in Threads, Keeps(x), NEW l \in Links,
           NEW b \in PcsOf(x) \ LinkPcs, Closes(x, l, b), UNCHANGED <<fd, started, polled, linked>>
    PROVE  Refs'
<1>1. CASE word' = word
  <2>1. LinksOK' /\ \A k \in Links : LinkRef(k)'
    BY <1>1 DEF Refs, LinksOK, LinkRef, EntryKept
  <2>2. \A k \in Links : Gentle(k)
    BY <1>1 DEF Gentle
  <2>3. pc'[x] \notin OpenPcs
    BY DEF Closes, LinkPcs, OpenPcs, ClosePcs
  <2> QED
    BY <2>1, <2>2, <2>3, OtherOpeners DEF Refs, OpenerRef, OpenPcs
<1>2. CASE word' = [word EXCEPT ![l] = ToClose(@)]
  <2>1. LegalWord(word[l]) /\ LinkRef(l)
    BY DEF Refs, LinksOK
  <2>2. LegalWord(ToClose(word[l])) /\ word[l].ref \in Nat
    BY <2>1, CloseWords, RefWords
  <2>3. LinksOK' /\ word'[l] = ToClose(word[l]) /\ \A k \in Links \ {l} : word'[k] = word[k]
    BY <1>2, <2>2, OneLink DEF Refs, LinksOK
  <2>4. Gentle(l)
    <3>1. /\ word[l].ref = 0 => word'[l] = Closed /\ Closed.ref = 0
          /\ word[l].ref > 0 => word'[l].st = word[l].st /\ word'[l].ref = word[l].ref
          /\ word[l].st = "initing" => word[l].ref = 1
      BY <2>1, <2>3, CloseWords, RefWords, ClosedWord
    <3> QED
      BY <2>2, <3>1 DEF Gentle, Open
  <2>5. LinkRef(l)'
    <3>1. word'[l].ref <= 1
      BY <2>1, <2>2, <2>3, CloseWords, ClosedWord DEF LinkRef
    <3> QED
      BY <2>1, <2>4, <3>1 DEF LinkRef, EntryKept, Gentle
  <2>6. \A k \in Links : Gentle(k)
    BY <2>3, <2>4 DEF Gentle
  <2>7. \A k \in Links : LinkRef(k)'
    BY <2>3, <2>5, OtherLinks
  <2>8. pc'[x] \notin OpenPcs
    BY DEF Closes, LinkPcs, OpenPcs, ClosePcs
  <2> QED
    BY <2>3, <2>6, <2>7, <2>8, OtherOpeners DEF Refs, OpenerRef, OpenPcs
<1> QED
  BY <1>1, <1>2 DEF Closes

(* Opening and removing links leaves del_wake where it is. *)
LEMMA LinkEntryKept ==
    ASSUME Control, NEW x \in Threads, LinkStep(x)
    PROVE  EntryKept
<1>1. /\ Keeps(x) /\ MovedOn(x) /\ pc[x] \in LinkPcs /\ DelsKept
      /\ UNCHANGED <<done, known>>
  BY LinkStepMoves
<1>2. AtEntry => dels'[done + 1] = dels[done + 1]
  BY <1>1, EntryInBounds DEF DelsKept
<1>3. CASE x = Engine
  <2>1. After(Engine, TRUE) = "round" /\ After(Engine, FALSE) = "round"
    BY DEF After
  <2>2. pc[Engine] # "end_poll" /\ pc'[Engine] # "end_poll"
    BY <1>1, <1>3, <2>1 DEF MovedOn, LinkPcs, OpenPcs, ClosePcs, Control, EntryInv
  <2>3. AtEntry => AtEntry'
    BY <1>1, <1>3, <2>1 DEF MovedOn, AtEntry, LinkPcs, OpenPcs, ClosePcs, Control, EntryInv
  <2> QED
    BY <1>1, <1>2, <2>2, <2>3 DEF EntryKept, Removing, InEntry
<1>4. CASE x \in Users
  BY <1>1, <1>2, <1>4, UserKeeps DEF EntryKept, Removing, InEntry, AtEntry
<1> QED
  BY <1>3, <1>4 DEF Threads

LEMMA RemovalKeepsRefs ==
    ASSUME Control, Refs, NEW x \in Threads, Remove(x) \/ DropRemoval(x) \/ Destroy(x)
    PROVE  Refs'
<1>1. EntryKept /\ Keeps(x) /\ MovedOn(x)
  BY LinkEntryKept, LinkStepMoves DEF LinkStep
<1>2. pc[x] \in ClosePcs
  BY DEF Remove, DropRemoval, Destroy, Goes, ClosePcs
<1>3. pc'[x] \notin OpenPcs
  BY <1>1, <1>2, BackIs DEF Control, MovedOn, OpenPcs, ClosePcs, LinkPcs
<1>4. At(x) \in Links
  BY DEF Control, ControlOK, At, Job
<1>5. /\ LinksOK' /\ UNCHANGED <<word, linked>>
      /\ \A k \in Links : polled'[k] => polled[k]
  BY <1>4 DEF Remove, DropRemoval, Destroy, linkVars, Refs, LinksOK
<1>6. \A k \in Links : LinkRef(k)' /\ Gentle(k)
  BY <1>1, <1>5 DEF Refs, LinkRef, EntryKept, Gentle
<1> QED
  BY <1>1, <1>3, <1>5, <1>6, OtherOpeners DEF Refs, OpenerRef, OpenPcs

LEMMA Opened ==
    ASSUME Control, Refs, NEW x \in Threads, LinkStep(x), pc[x] \in OpenPcs,
           NEW l \in Links, LinksOK', LinkRef(l)', OpenerRef(x)',
           \A k \in Links \ {l} : word'[k] = word[k] /\ polled'[k] = polled[k] /\ linked'[k] = linked[k]
    PROVE  Refs'
<1>1. EntryKept /\ Keeps(x)
  BY LinkEntryKept, LinkStepMoves
<1>2. \A k \in Links : LinkRef(k)'
  BY <1>1, OtherLinks
<1> QED
  BY <1>1, <1>2, NoOtherOpener DEF Refs

(* While a link is opened del_wake is in no entry. *)
LEMMA OpenerNoEntry ==
    ASSUME Control, NEW x \in Threads, pc[x] \in OpenPcs
    PROVE  ~AtEntry /\ \A k \in Links : ~Removing(k)
<1>1. pc[Engine] \in OpenPcs \cup {"off"}
  BY DEF Control, PhaseInv, PhaseOf, QuietPcs, Threads
<1> QED
  BY <1>1 DEF AtEntry, Removing, OpenPcs

LEMMA OpeningKeepsRefs ==
    ASSUME Control, Refs, NEW x \in Threads,
           \/ Connect(x) \/ Socket(x) \/ EndOfInit(x) \/ TakeRef(x)
           \/ AddWake(x) \/ AddFailed(x) \/ Tell(x) \/ Fail(x)
    PROVE  Refs'
<1>0. PICK l \in Links : l = At(x)
  BY DEF Control, ControlOK, At, Job
<1> DEFINE w == word[l]
<1> USE <1>0
<1>1. /\ LinkStep(x) /\ ControlOK' /\ Keeps(x) /\ pc[x] \in OpenPcs /\ EntryKept
  BY OpeningStep, LinkEntryKept DEF Control, LinkStep
<1>2. LegalWord(w) /\ LinkRef(l) /\ OpenerRef(x) /\ LinksOK
  BY <1>1 DEF Refs, LinksOK
<1>3. ~AtEntry /\ ~Removing(l)' /\ ~Removing(l)
  BY <1>1, OpenerNoEntry DEF EntryKept
<1>4. \A ok \in BOOLEAN : After(x, ok) \notin OpenPcs /\ After(x, ok) \in PcsOf(x) \ LinkPcs
  BY AfterIs DEF LinkPcs
<1>5. OpenPcs \subseteq PcsOf(x)
  BY DEF PcsOf, LinkPcs
<1>6. ASSUME NEW from, NEW to \in OpenPcs, Goes(x, from, to)
      PROVE  pc[x] = from /\ pc'[x] = to /\ At(x)' = l
  <2>1. to \in LinkPcs /\ to \in PcsOf(x)
    BY <1>5, <1>6 DEF LinkPcs
  <2> QED
    BY <1>6, <2>1, GoesOK DEF At, Control
<1>7. ASSUME NEW from, NEW ok \in BOOLEAN, Goes(x, from, After(x, ok))
      PROVE  pc[x] = from /\ OpenerRef(x)'
  <2>1. pc[x] = from /\ pc'[x] = After(x, ok)
    BY <1>4, <1>7, GoesOK DEF Control
  <2> QED
    BY <1>4, <2>1 DEF OpenerRef, OpenPcs
<1>8. ASSUME NEW b \in UserPcs \cup EnginePcs, NEW o \in BOOLEAN, Begins(x, "destroy", l, b, o)
      PROVE  OpenerRef(x)'
  <2>1. pc'[x] = "destroy"
    BY <1>8, TurnsTo DEF Control
  <2> QED
    BY <2>1 DEF OpenerRef
<1>b. After(x, FALSE) \in UserPcs \cup EnginePcs /\ FALSE \in BOOLEAN
  BY <1>4 DEF PcsOf, LinkPcs
<1> HIDE DEF w
<1>9. CASE Connect(x)
  <2>1. CASE IsFree(w) /\ Goes(x, "connect", "socket") /\ word' = [word EXCEPT ![l] = ToInit(@)]
    <3>1. pc'[x] = "socket" /\ At(x)' = l
      BY <1>6, <2>1 DEF OpenPcs
    <3>2. ~polled[l] /\ ~linked[l]
      BY <1>2, <1>3, <2>1, ClosedWord DEF IsFree, LinkRef, InEntry, w
    <3>3. /\ LinksOK' /\ word'[l] = ToInit(w) /\ \A k \in Links \ {l} : word'[k] = word[k]
          /\ UNCHANGED <<polled, linked>>
      <4>1. fd' \in [Links -> BOOLEAN] /\ UNCHANGED <<started, polled, linked>>
        BY <1>9, <1>2 DEF Connect, LinksOK
      <4> QED
        BY <1>1, <1>2, <2>1, <4>1, OneLink, InitWords DEF LinksOK, w
    <3>4. word'[l].st = "initing" /\ word'[l].ref = 1
      BY <1>2, <3>3, InitWords
    <3>5. LinkRef(l)' /\ OpenerRef(x)'
      BY <1>3, <3>1, <3>2, <3>3, <3>4 DEF LinkRef, OpenerRef
    <3> QED
      BY <1>1, <3>3, <3>5, Opened
  <2>2. CASE /\ Goes(x, "connect", After(x, TRUE)) \/ Goes(x, "connect", After(x, FALSE))
             /\ UNCHANGED <<word, fd>>
    <3>1. OpenerRef(x)'
      BY <1>7, <2>2
    <3>2. LinksOK' /\ UNCHANGED <<word, polled, linked>>
      BY <1>2, <1>9, <2>2 DEF Connect, LinksOK
    <3>3. LinkRef(l)'
      BY <1>1, <1>2, <3>2 DEF LinkRef, EntryKept
    <3> QED
      BY <1>1, <3>1, <3>2, <3>3, Opened
  <2> QED
    BY <1>9, <2>1, <2>2 DEF Connect, w
<1>10. CASE Socket(x)
  <2>0. UNCHANGED <<started, polled, linked>> /\ pc[x] = "socket"
    BY <1>10 DEF Socket, Goes
  <2>1. CASE Goes(x, "socket", "end_init") /\ fd' = [fd EXCEPT ![l] = TRUE] /\ UNCHANGED word
    <3>1. pc'[x] = "end_init" /\ At(x)' = l
      BY <1>6, <2>1 DEF OpenPcs
    <3>2. LinksOK'
      BY <1>1, <1>2, <2>0, <2>1 DEF LinksOK
    <3>3. LinkRef(l)'
      BY <1>1, <1>2, <2>0, <2>1 DEF LinkRef, EntryKept
    <3>4. OpenerRef(x)'
      BY <1>2, <2>0, <2>1, <3>1 DEF OpenerRef
    <3> QED
      BY <1>1, <2>0, <2>1, <3>2, <3>3, <3>4, Opened
  <2>2. CASE /\ Goes(x, "socket", After(x, FALSE)) /\ UNCHANGED fd
             /\ word' = [word EXCEPT ![l] = EndInit(@, FALSE)]
    <3>1. OpenerRef(x)'
      BY <1>7, <2>2
    <3>2. EndInit(w, FALSE) = Closed
      BY <1>2, InitWords
    <3>3. LinksOK' /\ word'[l] = Closed /\ \A k \in Links \ {l} : word'[k] = word[k]
      BY <1>1, <1>2, <2>0, <2>2, <3>2, OneLink, ClosedWord DEF LinksOK, w
    <3>4. LinkRef(l)'
      BY <1>2, <1>3, <2>0, <3>3, ClosedWord DEF LinkRef, OpenerRef
    <3> QED
      BY <1>1, <2>0, <3>1, <3>3, <3>4, Opened
  <2> QED
    BY <1>10, <2>1, <2>2 DEF Socket
<1>11. CASE EndOfInit(x)
  <2> DEFINE v == SetWork(EndInit(w, TRUE))
  <2>0. /\ UNCHANGED <<fd, started, polled, linked>> /\ pc[x] = "end_init"
        /\ word' = [word EXCEPT ![l] = v]
    BY <1>11 DEF EndOfInit, w
  <2>1. LegalWord(v) /\ v.ref = 0
    BY <1>2, InitWords, ClosedWord
  <2> HIDE DEF v
  <2>2. LinksOK' /\ word'[l] = v /\ \A k \in Links \ {l} : word'[k] = word[k]
    BY <1>1, <1>2, <2>0, <2>1, OneLink DEF LinksOK
  <2>3. ~polled[l] /\ ~linked[l]
    BY <1>2, <2>0 DEF OpenerRef
  <2>4. LinkRef(l)'
    BY <1>3, <2>0, <2>1, <2>2, <2>3 DEF LinkRef
  <2>5. OpenerRef(x)'
    <3>1. CASE Goes(x, "end_init", "add_ref")
      <4>1. pc'[x] = "add_ref" /\ At(x)' = l
        BY <1>6, <3>1 DEF OpenPcs
      <4> QED
        BY <2>0, <2>1, <2>2, <2>3, <4>1 DEF OpenerRef
    <3>2. CASE Begins(x, "destroy", l, After(x, FALSE), FALSE)
      BY <1>8, <1>b, <3>2
    <3> QED
      BY <1>11, <3>1, <3>2 DEF EndOfInit
  <2> QED
    BY <1>1, <2>0, <2>2, <2>4, <2>5, Opened
<1>12. CASE TakeRef(x)
  <2>0. /\ UNCHANGED <<fd, polled, linked>> /\ pc[x] = "add_ref"
        /\ started' = [started EXCEPT ![l] = TRUE]
    BY <1>12 DEF TakeRef, Goes
  <2>1. ~polled[l] /\ ~linked[l] /\ w.ref = 0
    BY <1>2, <2>0 DEF OpenerRef, w
  <2>2. CASE RefAllowed(w) /\ Goes(x, "add_ref", "add") /\ word' = [word EXCEPT ![l] = AddRef(@)]
    <3>1. pc'[x] = "add" /\ At(x)' = l
      BY <1>6, <2>2 DEF OpenPcs
    <3>2. LegalWord(AddRef(w)) /\ Open(AddRef(w)) /\ AddRef(w).ref = 1
      BY <1>2, <2>1, <2>2, RefWords
    <3>3. LinksOK' /\ word'[l] = AddRef(w) /\ \A k \in Links \ {l} : word'[k] = word[k]
      BY <1>1, <1>2, <2>0, <2>2, <3>2, OneLink DEF LinksOK, w
    <3>4. LinkRef(l)' /\ OpenerRef(x)'
      BY <1>3, <2>0, <2>1, <3>1, <3>2, <3>3 DEF LinkRef, OpenerRef
    <3> QED
      BY <1>1, <2>0, <3>3, <3>4, Opened
  <2>3. CASE Goes(x, "add_ref", "fail") /\ UNCHANGED word
    <3>1. pc'[x] = "fail"
      BY <1>6, <2>3 DEF OpenPcs
    <3>2. LinksOK'
      BY <1>1, <1>2, <2>0, <2>3 DEF LinksOK
    <3>3. LinkRef(l)' /\ OpenerRef(x)'
      BY <1>1, <1>2, <2>0, <2>3, <3>1 DEF LinkRef, EntryKept, OpenerRef
    <3> QED
      BY <1>1, <2>0, <2>3, <3>2, <3>3, Opened
  <2> QED
    BY <1>12, <2>2, <2>3 DEF TakeRef, w
<1>13. CASE AddWake(x)
  <2>0. UNCHANGED <<word, fd, started, linked>> /\ pc[x] = "add"
    BY <1>13 DEF AddWake, Goes
  <2>1. ~polled[l] /\ ~linked[l] /\ Open(w) /\ w.ref = 1
    BY <1>2, <2>0 DEF OpenerRef, w
  <2>2. CASE Goes(x, "add", "tell") /\ polled' = [polled EXCEPT ![l] = TRUE]
    <3>1. pc'[x] = "tell" /\ At(x)' = l
      BY <1>6, <2>2 DEF OpenPcs
    <3>2. LinksOK'
      BY <1>1, <1>2, <2>0, <2>2 DEF LinksOK
    <3>3. LinkRef(l)' /\ OpenerRef(x)'
      BY <1>3, <2>0, <2>1, <3>1 DEF LinkRef, OpenerRef, w
    <3> QED
      BY <1>1, <1>2, <2>0, <2>2, <3>2, <3>3, Opened DEF LinksOK
  <2>3. CASE Goes(x, "add", "sub_ref") /\ UNCHANGED polled
    <3>1. pc'[x] = "sub_ref" /\ At(x)' = l
      BY <1>6, <2>3 DEF OpenPcs
    <3>2. LinksOK'
      BY <1>2, <2>0, <2>3 DEF LinksOK
    <3>3. LinkRef(l)' /\ OpenerRef(x)'
      BY <1>3, <2>0, <2>1, <2>3, <3>1 DEF LinkRef, OpenerRef, w
    <3> QED
      BY <1>1, <2>0, <2>3, <3>2, <3>3, Opened
  <2> QED
    BY <1>13, <2>2, <2>3 DEF AddWake
<1>14. CASE AddFailed(x)
  <2>0. /\ UNCHANGED <<fd, started, polled, linked>> /\ pc[x] = "sub_ref"
        /\ word' = [word EXCEPT ![l] = SubRef(@)]
    BY <1>14 DEF AddFailed, GiveUpRef
  <2>1. ~polled[l] /\ ~linked[l] /\ Open(w) /\ w.ref = 1
    BY <1>2, <2>0 DEF OpenerRef, w
  <2>2. LegalWord(SubRef(w)) /\ SubRef(w).ref = 0
    BY <1>2, <2>1, RefWords
  <2>3. LinksOK' /\ word'[l] = SubRef(w) /\ \A k \in Links \ {l} : word'[k] = word[k]
    BY <1>1, <1>2, <2>0, <2>2, OneLink DEF LinksOK, w
  <2>4. LinkRef(l)'
    BY <1>3, <2>0, <2>1, <2>2, <2>3 DEF LinkRef
  <2>5. OpenerRef(x)'
    <3>1. CASE Goes(x, "sub_ref", "fail")
      <4>1. pc'[x] = "fail"
        BY <1>6, <3>1 DEF OpenPcs
      <4> QED
        BY <4>1 DEF OpenerRef
    <3>2. CASE Begins(x, "destroy", l, After(x, FALSE), FALSE)
      BY <1>8, <1>b, <3>2
    <3> QED
      BY <1>14, <3>1, <3>2 DEF AddFailed, GiveUpRef
  <2> QED
    BY <1>1, <2>0, <2>3, <2>4, <2>5, Opened
<1>15. CASE Tell(x)
  <2>0. UNCHANGED <<word, fd, started, polled>> /\ linked' = [linked EXCEPT ![l] = TRUE] /\ pc[x] = "tell"
    BY <1>15 DEF Tell, Goes
  <2>1. Open(w) /\ w.ref = 1
    BY <1>2, <2>0 DEF OpenerRef, w
  <2>2. LinksOK'
    BY <1>1, <1>2, <2>0 DEF LinksOK
  <2>3. LinkRef(l)'
    BY <1>2, <1>3, <2>0, <2>1 DEF LinkRef, w
  <2>4. OpenerRef(x)'
    <3>1. CASE Goes(x, "tell", "fail")
      <4>1. pc'[x] = "fail"
        BY <1>6, <3>1 DEF OpenPcs
      <4> QED
        BY <4>1 DEF OpenerRef
    <3> QED
      BY <1>7, <1>15, <3>1 DEF Tell
  <2> QED
    BY <1>1, <1>2, <2>0, <2>2, <2>3, <2>4, Opened DEF LinksOK
<1>16. CASE Fail(x)
  <2>1. CloseCh(x, l, After(x, FALSE)) /\ After(x, FALSE) \in PcsOf(x) \ LinkPcs
    BY <1>4, <1>16 DEF Fail
  <2>2. Closes(x, l, After(x, FALSE)) /\ UNCHANGED <<fd, started, polled, linked>>
    BY <1>1, <2>1, CloseChOK DEF Control
  <2> QED
    BY <1>1, <2>1, <2>2, CloseKeepsRefs
<1> QED
  BY <1>9, <1>10, <1>11, <1>12, <1>13, <1>14, <1>15, <1>16

LEMMA LinkStepKeepsRefs ==
    ASSUME Control, Refs, NEW x \in Threads, LinkStep(x)
    PROVE  Refs'
  BY RemovalKeepsRefs, OpeningKeepsRefs DEF LinkStep

LEMMA OutsideEntries ==
    ASSUME pc[Engine] \in {"batch", "round", "entry", "reset"},
           pc'[Engine] \notin {"end_poll", "recv_stop"}
    PROVE  ~AtEntry /\ EntryKept
  BY DEF AtEntry, EntryKept, Removing, InEntry

LEMMA LinksUntouched ==
    ASSUME Control, Refs, UNCHANGED linkVars, EntryKept
    PROVE  LinksOK' /\ \A k \in Links : LinkRef(k)'
  BY DEF linkVars, Refs, LinksOK, LinkRef, EntryKept

LEMMA EngineKeepsRefs == ASSUME Control, Refs, EngineStep PROVE Refs'
<1>1. /\ Engine \in Threads /\ Keeps(Engine) /\ ControlOK /\ ControlOK' /\ Control'
      /\ pc[Engine] # "off"
  BY EngineMoves, EngineControl DEF Threads, Control
<1>2. \A y \in Threads \ {Engine} : OpenerRef(y)'
  BY <1>1, NoOtherOpener
<1>3. ASSUME LinksOK', \A k \in Links : LinkRef(k)', pc'[Engine] \notin OpenPcs \ {"connect"}
      PROVE  Refs'
  <2>1. OpenerRef(Engine)'
    BY <1>3 DEF OpenerRef, OpenPcs
  <2> QED
    BY <1>2, <1>3, <2>1 DEF Refs
<1>4. CASE \/ ToStop \/ EpollWait \/ QueueEvent \/ RoundDone \/ ChangeEvent
           \/ MoreEntries \/ NoMoreEntries \/ Reset
  <2>1. UNCHANGED linkVars
    BY <1>4 DEF ToStop, EpollWait, QueueEvent, RoundDone, ChangeEvent, MoreEntries, NoMoreEntries, Reset
  <2>2. /\ pc[Engine] \in {"batch", "round", "entry", "reset"}
        /\ pc'[Engine] \in {"batch", "round", "entry", "reset", "off"}
    BY <1>1, <1>4 DEF ToStop, EpollWait, QueueEvent, RoundDone, ChangeEvent, MoreEntries,
       NoMoreEntries, Reset, Goes, ControlOK, ctlVars
  <2>3. EntryKept
    BY <2>2, OutsideEntries
  <2> QED
    BY <1>3, <2>1, <2>2, <2>3, LinksUntouched DEF OpenPcs
<1>5. CASE \E l \in Links : LinkEvent(l) \/ Event(l)
  <2>1. PICK l \in Links : LinkEvent(l) \/ Event(l)
    BY <1>5
  <2>2. pc[Engine] \in {"batch", "round"}
    BY <2>1 DEF LinkEvent, Event
  <2>3. ASSUME NEW b \in {"batch", "round"}, pc[Engine] = b, CloseCh(Engine, l, b) PROVE Refs'
    <3>1. b \in PcsOf(Engine) \ LinkPcs
      BY DEF PcsOf, LinkPcs, OpenPcs, ClosePcs, EnginePcs
    <3>2. Closes(Engine, l, b) /\ UNCHANGED <<fd, started, polled, linked>>
      BY <1>1, <2>3, <3>1, CloseChOK
    <3>3. EntryKept
      BY <2>2, <3>2, OutsideEntries DEF Closes
    <3> QED
      BY <1>1, <3>1, <3>2, <3>3, CloseKeepsRefs
  <2>4. CASE UNCHANGED linkVars /\ (UNCHANGED ctlVars \/ Begins(Engine, "connect", l, "round", FALSE))
    <3>1. pc'[Engine] \in {"batch", "round", "connect"}
      BY <1>1, <2>2, <2>4 DEF Begins, ControlOK, ctlVars
    <3>2. EntryKept
      BY <2>2, <3>1, OutsideEntries
    <3> QED
      BY <1>3, <2>4, <3>1, <3>2, LinksUntouched DEF OpenPcs
  <2> QED
    BY <2>1, <2>3, <2>4 DEF LinkEvent, Event
<1>6. CASE Entry
  <2> DEFINE k == dels[done + 1]
  <2>0. pc[Engine] = "entry" /\ done < known /\ UNCHANGED <<word, fd, started, linked, dels>>
    BY <1>6 DEF Entry
  <2>1. PICK l \in Links : l = k
    BY <2>0, EntryInBounds
  <2>2. CASE polled[l] /\ Goes(Engine, "entry", "end_poll") /\ polled' = [polled EXCEPT ![l] = FALSE] /\ UNCHANGED done
    <3>1. pc'[Engine] = "end_poll"
      BY <1>1, <2>2 DEF Goes, ControlOK
    <3>2. LinksOK' /\ ~polled'[l] /\ \A j \in Links \ {l} : polled'[j] = polled[j]
      BY <2>0, <2>2 DEF Refs, LinksOK
    <3>3. LinkRef(l)'
      BY <2>0, <2>1, <2>2, <3>1, <3>2 DEF Refs, LinkRef, InEntry, AtEntry, Removing
    <3>4. \A j \in Links \ {l} : ~Removing(j)' /\ ~InEntry(j)
      BY <2>0, <2>1, <2>2, <3>1 DEF Removing, InEntry, AtEntry
    <3>5. \A j \in Links \ {l} : LinkRef(j)'
      BY <2>0, <3>2, <3>4 DEF Refs, LinkRef
    <3> QED
      BY <1>3, <3>1, <3>2, <3>3, <3>5 DEF OpenPcs
  <2>3. CASE UNCHANGED <<polled, ctlVars>>
    <3>1. pc'[Engine] = "entry" /\ UNCHANGED linkVars
      BY <2>0, <2>3 DEF ctlVars, linkVars
    <3>2. EntryKept
      BY <2>0, <3>1, OutsideEntries
    <3> QED
      BY <1>3, <3>1, <3>2, LinksUntouched DEF OpenPcs
  <2> QED
    BY <1>6, <2>1, <2>2, <2>3 DEF Entry
<1>7. CASE EndPoll
  <2> DEFINE k == dels[done + 1]
  <2>0. /\ pc[Engine] = "end_poll" /\ UNCHANGED <<fd, started, polled, linked, dels, done>>
        /\ word' = [word EXCEPT ![k] = SubRef(@)]
    BY <1>7 DEF EndPoll, GiveUpRef, pollVars
  <2>1. PICK l \in Links : l = k
    BY <2>0, EntryInBounds DEF AtEntry
  <2>2. LegalWord(word[l]) /\ Open(word[l]) /\ word[l].ref = 1 /\ ~polled[l]
    BY <2>0, <2>1 DEF Refs, LinksOK, LinkRef, Removing
  <2>3. LegalWord(SubRef(word[l])) /\ SubRef(word[l]).ref = 0
    BY <2>2, RefWords
  <2>4. LinksOK' /\ word'[l] = SubRef(word[l]) /\ \A j \in Links \ {l} : word'[j] = word[j]
    BY <2>0, <2>1, <2>3, OneLink DEF Refs, LinksOK
  <2>5. \/ pc'[Engine] = "recv_stop"
        \/ pc'[Engine] = "destroy" /\ job'[Engine].back = "recv_stop"
    <3>1. CASE Goes(Engine, "end_poll", "recv_stop")
      BY <1>1, <3>1 DEF Goes, ControlOK
    <3>2. CASE Begins(Engine, "destroy", l, "recv_stop", FALSE)
      <4>1. "recv_stop" \in UserPcs \cup EnginePcs /\ FALSE \in BOOLEAN
        BY DEF EnginePcs
      <4> QED
        BY <1>1, <3>2, <4>1, TurnsTo
    <3> QED
      BY <1>7, <2>1, <3>1, <3>2 DEF EndPoll, GiveUpRef
  <2>6. AtEntry' /\ ~Removing(l)' /\ InEntry(l)'
    BY <2>0, <2>1, <2>5 DEF AtEntry, Removing, InEntry
  <2>7. LinkRef(l)'
    BY <2>0, <2>2, <2>3, <2>4, <2>6 DEF LinkRef
  <2>8. \A j \in Links \ {l} : ~Removing(j)' /\ ~InEntry(j)
    BY <2>0, <2>1, <2>5 DEF Removing, InEntry
  <2>9. \A j \in Links \ {l} : LinkRef(j)'
    BY <2>0, <2>4, <2>8 DEF Refs, LinkRef
  <2> QED
    BY <1>3, <2>4, <2>5, <2>7, <2>9 DEF OpenPcs
<1>8. CASE RecvStop
  <2>0. /\ pc[Engine] = "recv_stop" /\ pc'[Engine] = "entry" /\ UNCHANGED <<word, fd, started, polled>>
        /\ linked' = [linked EXCEPT ![dels[done + 1]] = FALSE]
    BY <1>1, <1>8 DEF RecvStop, Goes, ControlOK
  <2>1. LinksOK'
    BY <2>0, EntryInBounds DEF AtEntry, Refs, LinksOK
  <2>2. ASSUME NEW j \in Links PROVE LinkRef(j)'
    <3>1. ~Removing(j)' /\ ~Removing(j)
      BY <2>0 DEF Removing
    <3>2. linked'[j] => linked[j] /\ ~InEntry(j)
      BY <2>0 DEF Refs, LinksOK, InEntry
    <3> QED
      BY <2>0, <3>1, <3>2 DEF Refs, LinkRef
  <2> QED
    BY <1>3, <2>0, <2>1, <2>2 DEF OpenPcs
<1>9. CASE LinkStep(Engine)
  BY <1>1, <1>9, LinkStepKeepsRefs
<1> QED
  BY <1>4, <1>5, <1>6, <1>7, <1>8, <1>9 DEF EngineStep

LEMMA UserKeepsRefs ==
    ASSUME Control, Refs, NEW u \in Users, Start(u) \/ Stop(u) \/ UserStep(u)
    PROVE  Refs'
<1>0. u \in Threads /\ u # Engine
  BY DEF Threads
<1>1. CASE LinkStep(u)
  BY <1>0, <1>1, LinkStepKeepsRefs
<1>2. CASE Run(u)
  <2>1. /\ pc[u] = "run" /\ UNCHANGED <<word, fd, started, linked, dels, done>>
        /\ \A k \in Links : polled'[k] => polled[k]
        /\ LinksOK'
    BY <1>2 DEF Run, Goes, pollVars, Refs, LinksOK
  <2>2. pc[Engine] = "off" /\ pc'[Engine] \in {"off", "batch"} /\ Alone(u) /\ pc'[u] \in {"fast", "undo"}
    BY <1>0, <1>2, <2>1, InChargeAlone
       DEF Control, PhaseInv, PhaseOf, QuietPcs, Run, Goes, ControlOK, Threads
  <2>3. \A v \in Users \ {u} : pc'[v] = "idle"
    BY <1>0, <1>2, <2>2 DEF Alone, Run, Goes, Control, ControlOK, Threads
  <2>4. \A k \in Links : ~Removing(k)' /\ ~InEntry(k)
    BY <2>2 DEF Removing, InEntry, AtEntry
  <2>5. \A k \in Links : LinkRef(k)'
    BY <2>1, <2>4 DEF Refs, LinkRef
  <2>6. \A y \in Threads : pc'[y] \in {"off", "batch", "fast", "undo", "idle"}
    BY <2>2, <2>3 DEF Threads
  <2>7. \A y \in Threads : OpenerRef(y)'
    BY <2>6 DEF OpenerRef
  <2> QED
    BY <2>1, <2>5, <2>7 DEF Refs
<1>3. CASE ~LinkStep(u) /\ ~Run(u)
  <2>1. ControlOK' /\ Keeps(u) /\ UNCHANGED <<dels, done>>
    BY <1>3, UserMoves
  <2>2. EntryKept
    BY <2>1, UserKeeps DEF EntryKept, Removing, InEntry, AtEntry
  <2>3. CASE UndoClose(u) \/ StopClose(u)
    <3>1. PICK l \in Links, b \in {"undo_fgw", "undone", "stop_fgw", "halt"} : CloseCh(u, l, b)
      BY <2>3 DEF UndoClose, StopClose, Links
    <3>2. b \in PcsOf(u) \ LinkPcs
      BY <1>0 DEF PcsOf, LinkPcs, OpenPcs, ClosePcs, UserPcs
    <3>3. Closes(u, l, b) /\ UNCHANGED <<fd, started, polled, linked>>
      BY <1>0, <3>1, <3>2, CloseChOK DEF Control
    <3> QED
      BY <1>0, <2>1, <2>2, <3>2, <3>3, CloseKeepsRefs
  <2>4. CASE ~UndoClose(u) /\ ~StopClose(u)
    <3>1. UNCHANGED linkVars
      BY <1>3, <2>4 DEF UserStep, Start, Stop, Prepare, Dial, Fast, Undo, Undone, Halt, Join, CallUnchanged
    <3>2. LinksOK' /\ \A k \in Links : LinkRef(k)' /\ Gentle(k)
      BY <2>2, <3>1, LinksUntouched DEF linkVars, Gentle
    <3>3. pc'[u] \notin OpenPcs \ {"connect"}
      <4>1. CASE Dial(u)
        BY <1>0, <4>1 DEF Dial, Goes, Begins, Control, ControlOK, OpenPcs
      <4>2. CASE ~Dial(u)
        BY <1>0, <1>3, <2>4, <4>2
           DEF UserStep, Start, Stop, Prepare, Fast, Undo, Undone, Halt, Join, Goes, Control, ControlOK, OpenPcs
      <4> QED
        BY <4>1, <4>2
    <3>4. OpenerRef(u)'
      BY <3>3 DEF OpenerRef, OpenPcs
    <3> QED
      BY <1>0, <2>1, <3>2, <3>4, OtherOpeners DEF Refs
  <2> QED
    BY <2>3, <2>4
<1> QED
  BY <1>1, <1>2, <1>3

LEMMA InitRefs == Init => Refs
<1> SUFFICES ASSUME Init PROVE Refs
  OBVIOUS
<1>1. \A l \in Links : word[l] = Closed /\ ~polled[l] /\ ~linked[l]
  BY DEF Init
<1>2. LinksOK
  BY <1>1, ClosedWord, LegalIsWord DEF Init, LinksOK
<1>3. \A x \in Threads : pc[x] \in {"off", "idle"}
  BY DEF Init
<1>4. \A l \in Links : ~Removing(l)
  BY <1>3 DEF Removing, Threads
<1>5. \A l \in Links : LinkRef(l)
  BY <1>1, <1>4, ClosedWord DEF LinkRef
<1>6. \A x \in Threads : OpenerRef(x)
  BY <1>3 DEF OpenerRef
<1> QED
  BY <1>2, <1>5, <1>6 DEF Refs

LEMMA NextRefs == Control /\ Refs /\ [Next]_vars => Refs'
<1> SUFFICES ASSUME Control, Refs, [Next]_vars PROVE Refs'
  OBVIOUS
<1>1. CASE UNCHANGED vars
  BY <1>1 DEF vars, linkVars, pollVars, callVars, ctlVars, Refs, LinksOK, LinkRef, OpenerRef,
              Removing, InEntry, AtEntry, At
<1>2. CASE EngineStep
  BY <1>2, EngineKeepsRefs
<1>3. CASE \E u \in Users : Start(u) \/ Stop(u) \/ UserStep(u)
  BY <1>3, UserKeepsRefs
<1> QED
  BY <1>1, <1>2, <1>3 DEF Next, ReturnAtOnce

-----------------------------------------------------------------------------
(* Layer three: until stop() one thread at a time has a link in hand, a    *)
(* socket goes with the word of its link, and a reference that is left is  *)
(* one that somebody will give up.                                         *)

Kept(l) ==
    word[l].st = "initing" \/ polled[l] \/ Removing(l) \/ \E x \in Threads : Holds(x, l)

CalmLink(l) ==
    /\ mstate # "none" /\ word[l].ref = 1 => Kept(l)
    /\ Open(word[l]) => fd[l]
    /\ IsFree(word[l]) /\ NotDestroying(l) => ~fd[l]

CalmThread(x) ==
    /\ pc[x] = "destroy" => word[At(x)] = Closed
    /\ pc[x] = "remove" => (job[x].last <=> word[At(x)] = Closed)
    /\ pc[x] = "socket" => ~fd[At(x)]
    /\ pc[x] = "end_init" => fd[At(x)]

CalmBatch == \A l \in batch \cap Links : polled[l]

Calm ==
    BeforeStop =>
        (\A l \in Links : CalmLink(l)) /\ (\A x \in Threads : CalmThread(x)) /\ CalmBatch

Sole(x) == \A y \in Threads \ {x} : pc[y] \notin LinkPcs

LEMMA SoleActor ==
    ASSUME Control, BeforeStop, NEW x \in Threads,
           \/ pc[x] \in LinkPcs
           \/ x = Engine /\ pc[x] # "off"
           \/ x \in Users /\ pc[x] # "idle" /\ pc[Engine] = "off"
    PROVE  Sole(x) /\ (x \in Users => pc[Engine] = "off")
<1>1. ASSUME NEW u \in Users, pc[u] \in LinkPcs PROVE pc[Engine] = "off"
  <2>1. PhaseOf(u)
    BY DEF Control, PhaseInv
  <2> QED
    BY <1>1, <2>1 DEF PhaseOf, BeforeStop, QuietPcs, LinkPcs
<1>2. CASE x = Engine
  <2>1. pc[Engine] # "off"
    BY <1>2 DEF LinkPcs, OpenPcs, ClosePcs
  <2> QED
    BY <1>1, <1>2, <2>1, ThreadAssumption DEF Sole, Threads
<1>3. CASE x \in Users
  <2>1. pc[x] # "idle" /\ pc[Engine] = "off"
    BY <1>1, <1>3, ThreadAssumption DEF LinkPcs, OpenPcs, ClosePcs
  <2>2. Alone(x)
    BY <1>3, <2>1, InChargeAlone
  <2>3. "idle" \notin LinkPcs /\ "off" \notin LinkPcs
    BY DEF LinkPcs, OpenPcs, ClosePcs
  <2> QED
    BY <2>1, <2>2, <2>3 DEF Sole, Alone, Threads
<1> QED
  BY <1>2, <1>3 DEF Threads

(* A step of thread x on link l, the only one in hand. *)
LEMMA OnlyLink ==
    ASSUME Control, Calm, BeforeStop, NEW x \in Threads, Sole(x), Keeps(x), NEW l \in Links,
           pc[x] \in LinkPcs => At(x) = l,
           \A k \in Links \ {l} : /\ word'[k] = word[k] /\ fd'[k] = fd[k]
                                  /\ polled'[k] = polled[k]
                                  /\ Removing(k) => Removing(k)',
           mstate' = mstate, CalmLink(l)', CalmThread(x)', CalmBatch'
    PROVE  Calm'
<1>1. \A y \in Threads \ {x} : pc[y] \notin LinkPcs /\ pc'[y] \notin LinkPcs
  BY DEF Sole, Keeps
<1>2. \A y \in Threads : CalmThread(y)'
  BY <1>1 DEF CalmThread, LinkPcs, OpenPcs, ClosePcs
<1>3. ASSUME NEW k \in Links \ {l} PROVE CalmLink(k)'
  <2>1. NotDestroying(k) /\ \A y \in Threads : ~Holds(y, k)
    BY <1>1, <1>3 DEF NotDestroying, Holds, LinkPcs, OpenPcs, ClosePcs
  <2>2. CalmLink(k)
    BY <1>3 DEF Calm
  <2>3. mstate # "none" /\ word[k].ref = 1 => word[k].st = "initing" \/ polled[k] \/ Removing(k)
    BY <2>1, <2>2 DEF CalmLink, Kept
  <2>4. mstate' # "none" /\ word'[k].ref = 1 => Kept(k)'
    BY <1>3, <2>3 DEF Kept
  <2> QED
    BY <1>3, <2>1, <2>2, <2>4 DEF CalmLink
<1> QED
  BY <1>2, <1>3 DEF Calm

(* A step that has no link in hand, or takes one up to connect it. *)
Same(y) == pc'[y] = pc[y] /\ job'[y] = job[y]

LEMMA NoLink ==
    ASSUME Control, Calm, BeforeStop, UNCHANGED <<word, fd>>,
           mstate' # "none" => mstate # "none" /\ polled' = polled,
           \A y \in Threads : /\ pc[y] \in LinkPcs => Same(y)
                              /\ pc'[y] \in LinkPcs => Same(y) \/ pc'[y] = "connect",
           \A k \in Links : Removing(k) => Removing(k)',
           CalmBatch'
    PROVE  Calm'
<1>1. ASSUME NEW y \in Threads PROVE CalmThread(y)'
  <2>1. CalmThread(y)
    BY DEF Calm
  <2>2. CASE Same(y)
    BY <2>1, <2>2 DEF CalmThread, Same, At
  <2>3. CASE pc'[y] \notin LinkPcs \/ pc'[y] = "connect"
    BY <2>3 DEF CalmThread, LinkPcs, OpenPcs, ClosePcs
  <2> QED
    BY <2>2, <2>3
<1>2. ASSUME NEW k \in Links PROVE CalmLink(k)'
  <2>1. CalmLink(k)
    BY DEF Calm
  <2>2. \A y \in Threads : Holds(y, k) => Holds(y, k)'
    BY DEF Holds, Same, At, LinkPcs, OpenPcs
  <2>3. ASSUME NotDestroying(k)' PROVE NotDestroying(k)
    BY <2>3 DEF NotDestroying, Same, At, LinkPcs
  <2>4. mstate' # "none" /\ word'[k].ref = 1 => Kept(k)'
    BY <2>1, <2>2 DEF CalmLink, Kept
  <2> QED
    BY <2>1, <2>3, <2>4 DEF CalmLink
<1> QED
  BY <1>1, <1>2 DEF Calm

(* While x alone deals with links, a kept reference and a close under way  *)
(* are its own. *)
LEMMA SoleKeeps ==
    ASSUME NEW x \in Threads, Sole(x), Keeps(x), NEW l \in Links
    PROVE  /\ \A y \in Threads : Holds(y, l) => y = x
           /\ \A y \in Threads : Holds(y, l)' => y = x
           /\ NotDestroying(l) <=> ~(pc[x] \in ClosePcs /\ At(x) = l)
           /\ NotDestroying(l)' <=> ~(pc'[x] \in ClosePcs /\ At(x)' = l)
<1>1. \A y \in Threads \ {x} : pc[y] \notin LinkPcs /\ pc'[y] \notin LinkPcs
  BY DEF Sole, Keeps
<1> QED
  BY <1>1 DEF Holds, NotDestroying, LinkPcs, OpenPcs, ClosePcs

LEMMA CloseCalm ==
    ASSUME Control, Refs, Calm, BeforeStop, NEW x \in Threads, Sole(x), Keeps(x), NEW l \in Links,
           NEW b \in PcsOf(x) \ LinkPcs, Closes(x, l, b), UNCHANGED <<fd, started, polled, linked>>,
           pc[x] \in LinkPcs => pc[x] = "fail" /\ At(x) = l,
           \A k \in Links : ~Removing(k), mstate' = mstate, CalmBatch'
    PROVE  Calm'
<1>0. LegalWord(word[l]) /\ LinkRef(l) /\ CalmLink(l)
  BY DEF Refs, LinksOK, Calm
<1>1. NotDestroying(l) /\ \A y \in Threads : ~Holds(y, l)
  BY SoleKeeps DEF Holds, ClosePcs, LinkPcs, OpenPcs
<1>2. pc'[x] \in {b, "remove", "destroy"} /\ b \notin {"remove", "destroy", "socket", "end_init"}
  BY DEF Closes, LinkPcs, ClosePcs, OpenPcs
<1>3. CASE word' = word /\ pc'[x] = b
  <2>1. CalmLink(l)'
    BY <1>0, <1>1, <1>3 DEF CalmLink, Kept
  <2>2. CalmThread(x)'
    BY <1>2, <1>3 DEF CalmThread
  <2> QED
    BY <1>3, <2>1, <2>2, OnlyLink
<1>4. CASE word' = [word EXCEPT ![l] = ToClose(@)] /\ word[l].ref = 0
  <2>1. word'[l] = Closed /\ \A k \in Links \ {l} : word'[k] = word[k]
    BY <1>0, <1>4, CloseWords DEF Refs, LinksOK
  <2>2. CASE word' = word /\ pc'[x] = b
    BY <1>3, <2>2
  <2>3. CASE /\ pc'[x] \in {"remove", "destroy"} /\ job'[x].link = l
             /\ job'[x].last <=> word[l].ref = 0
    <3>1. CalmThread(x)'
      BY <1>4, <2>1, <2>3 DEF CalmThread, At
    <3>2. ~NotDestroying(l)'
      BY <2>3, SoleKeeps DEF At, ClosePcs
    <3>3. CalmLink(l)'
      BY <2>1, <3>2, ClosedWord DEF CalmLink
    <3> QED
      BY <2>1, <3>1, <3>3, OnlyLink
  <2> QED
    BY <1>4, <2>2, <2>3 DEF Closes
<1>5. CASE word' = [word EXCEPT ![l] = ToClose(@)] /\ word[l].ref # 0
  <2>0. word[l].ref > 0
    BY <1>0, <1>5, RefWords
  <2>1. /\ word'[l].st = word[l].st /\ word'[l].ref = word[l].ref /\ word'[l].ref # 0
        /\ \A k \in Links \ {l} : word'[k] = word[k]
    BY <1>0, <1>5, <2>0, CloseWords DEF Refs, LinksOK
  <2>2. word'[l] # Closed
    BY <2>1, ClosedWord
  <2>3. CASE word' = word /\ pc'[x] = b
    BY <1>3, <2>3
  <2>4. CASE \/ pc'[x] = b
             \/ /\ pc'[x] = "remove" /\ job'[x].link = l
                /\ job'[x].last <=> word[l].ref = 0
    <3>1. CalmThread(x)'
      BY <1>2, <1>5, <2>2, <2>4 DEF CalmThread, At
    <3>2. CalmLink(l)'
      BY <1>0, <1>1, <2>1, <2>2 DEF CalmLink, Kept, Open, IsFree
    <3> QED
      BY <2>1, <3>1, <3>2, OnlyLink
  <2> QED
    BY <1>5, <2>3, <2>4 DEF Closes
<1> QED
  BY <1>3, <1>4, <1>5 DEF Closes

LEMMA RemovalCalm ==
    ASSUME Control, Refs, Calm, BeforeStop, NEW x \in Threads,
           Remove(x) \/ DropRemoval(x) \/ Destroy(x)
    PROVE  Calm'
<1>0. PICK l \in Links : l = At(x)
  BY DEF Control, ControlOK, At, Job
<1>1. /\ Keeps(x) /\ MovedOn(x) /\ EntryKept /\ UNCHANGED <<mstate, batch>>
      /\ pc[x] \in ClosePcs /\ pc[x] \in LinkPcs /\ job[x].back \notin LinkPcs
  BY LinkStepMoves, LinkEntryKept, BackIs
     DEF LinkStep, Remove, DropRemoval, Destroy, Goes, ClosePcs, LinkPcs, Control
<1>2. Sole(x)
  BY <1>1, SoleActor
<1>3. \A k \in Links : ~Removing(k)
  BY <1>1, <1>2, SoleActor DEF Removing, ClosePcs, Threads
<1>4. CalmLink(l) /\ CalmThread(x) /\ CalmBatch /\ LinkRef(l)
  BY DEF Calm, Refs
<1>5. ~NotDestroying(l) /\ \A y \in Threads : ~Holds(y, l)
  BY <1>0, <1>1, <1>2, SoleKeeps DEF Holds, ClosePcs
<1>6. CASE Destroy(x)
  <2>1. /\ pc[x] = "destroy" /\ UNCHANGED <<word>>
        /\ fd' = [fd EXCEPT ![l] = FALSE] /\ polled' = [polled EXCEPT ![l] = FALSE]
    BY <1>0, <1>6 DEF Destroy, Goes
  <2>2. pc'[x] \notin LinkPcs
    BY <1>1, <2>1 DEF MovedOn, OpenPcs
  <2>3. word[l] = Closed /\ ~polled[l]
    BY <1>0, <1>4, <2>1, ClosedWord DEF CalmThread, LinkRef
  <2>4. ~fd'[l] /\ polled' = polled /\ \A k \in Links \ {l} : fd'[k] = fd[k]
    BY <2>1, <2>3 DEF Refs, LinksOK
  <2>5. CalmLink(l)'
    BY <2>1, <2>3, <2>4, ClosedWord DEF CalmLink
  <2>6. CalmThread(x)'
    BY <2>2 DEF CalmThread, LinkPcs, OpenPcs, ClosePcs
  <2>7. CalmBatch'
    BY <1>1, <1>4, <2>4 DEF CalmBatch
  <2> QED
    BY <1>0, <1>1, <1>2, <1>3, <2>1, <2>4, <2>5, <2>6, <2>7, OnlyLink
<1>7. CASE Remove(x) \/ DropRemoval(x)
  <2>1. pc[x] = "remove" /\ UNCHANGED <<word, fd, polled>> /\ Goes(x, "remove", AfterTold(x))
    BY <1>7 DEF Remove, DropRemoval, Goes, linkVars
  <2>2. AfterTold(x) \in PcsOf(x)
    BY <1>1, BackIs DEF Control, AfterTold, PcsOf, LinkPcs, ClosePcs
  <2>3. pc'[x] = AfterTold(x) /\ (AfterTold(x) \in LinkPcs => job'[x] = job[x])
    BY <2>1, <2>2, GoesOK DEF Control
  <2>4. CASE job[x].last
    <3>1. word[l] = Closed /\ pc'[x] = "destroy" /\ At(x)' = l
      BY <1>0, <1>4, <2>1, <2>3, <2>4 DEF CalmThread, AfterTold, LinkPcs, ClosePcs, At
    <3>2. ~NotDestroying(l)'
      BY <1>1, <1>2, <3>1, SoleKeeps DEF ClosePcs
    <3>3. CalmLink(l)' /\ CalmThread(x)'
      BY <2>1, <3>1, <3>2, ClosedWord DEF CalmLink, CalmThread
    <3>4. CalmBatch'
      BY <1>1, <1>4, <2>1 DEF CalmBatch
    <3> QED
      BY <1>0, <1>1, <1>2, <1>3, <2>1, <3>3, <3>4, OnlyLink
  <2>5. CASE ~job[x].last
    <3>1. word[l] # Closed /\ pc'[x] \notin LinkPcs
      BY <1>0, <1>1, <1>4, <2>1, <2>3, <2>5 DEF CalmThread, AfterTold
    <3>2. CalmThread(x)'
      BY <3>1 DEF CalmThread, LinkPcs, OpenPcs, ClosePcs
    <3>3. CalmLink(l)'
      BY <1>1, <1>3, <1>4, <1>5, <2>1, <3>1 DEF CalmLink, Kept, IsFree
    <3>4. CalmBatch'
      BY <1>1, <1>4, <2>1 DEF CalmBatch
    <3> QED
      BY <1>0, <1>1, <1>2, <1>3, <2>1, <3>2, <3>3, <3>4, OnlyLink
  <2> QED
    BY <2>4, <2>5
<1> QED
  BY <1>6, <1>7

LEMMA OpeningCalm ==
    ASSUME Control, Refs, Calm, BeforeStop, NEW x \in Threads,
           \/ Connect(x) \/ Socket(x) \/ EndOfInit(x) \/ TakeRef(x)
           \/ AddWake(x) \/ AddFailed(x) \/ Tell(x) \/ Fail(x)
    PROVE  Calm'
<1>0. PICK l \in Links : l = At(x)
  BY DEF Control, ControlOK, At, Job
<1> DEFINE w == word[l]
<1> USE <1>0
<1>1. /\ LinkStep(x) /\ ControlOK /\ ControlOK' /\ Keeps(x) /\ pc[x] \in OpenPcs /\ EntryKept
      /\ UNCHANGED <<mstate, batch>>
  BY OpeningStep, LinkEntryKept, LinkStepMoves DEF Control, LinkStep
<1>2. pc[x] \in LinkPcs /\ Sole(x)
  BY <1>1, SoleActor DEF LinkPcs
<1>3. \A k \in Links : ~Removing(k) /\ ~Removing(k)'
  BY <1>1, OpenerNoEntry DEF EntryKept
<1>4. LegalWord(w) /\ LinkRef(l) /\ OpenerRef(x) /\ LinksOK /\ CalmLink(l) /\ CalmThread(x) /\ CalmBatch
  BY DEF Refs, LinksOK, Calm
<1>5. NotDestroying(l) /\ \A y \in Threads : Holds(y, l) => y = x
  BY <1>1, <1>2, SoleKeeps DEF OpenPcs, ClosePcs
<1>6. \A ok \in BOOLEAN : After(x, ok) \notin LinkPcs /\ After(x, ok) \in PcsOf(x) \ LinkPcs
  BY AfterIs
<1>7. OpenPcs \subseteq PcsOf(x) \cap LinkPcs
  BY DEF PcsOf, LinkPcs
<1>8. ASSUME NEW from, NEW to \in OpenPcs, Goes(x, from, to)
      PROVE  pc'[x] = to /\ At(x)' = l
  BY <1>1, <1>7, <1>8, GoesOK DEF At
<1>9. ASSUME NEW from, NEW ok \in BOOLEAN, Goes(x, from, After(x, ok))
      PROVE  pc'[x] \notin LinkPcs
  BY <1>1, <1>6, <1>9, GoesOK
<1>10. ASSUME NEW o, Begins(x, "destroy", l, After(x, FALSE), o), o = FALSE
       PROVE  pc'[x] = "destroy" /\ At(x)' = l
  <2>1. After(x, FALSE) \in UserPcs \cup EnginePcs /\ o \in BOOLEAN
    BY <1>6, <1>10 DEF PcsOf
  <2> QED
    BY <1>1, <1>10, <2>1, TurnsTo DEF At
<1>11. pc'[x] \notin LinkPcs => CalmThread(x)'
  BY DEF CalmThread, LinkPcs, OpenPcs, ClosePcs
<1>12. ASSUME \A k \in Links \ {l} : word'[k] = word[k] /\ fd'[k] = fd[k] /\ polled'[k] = polled[k],
              polled[l] => polled'[l], CalmLink(l)', CalmThread(x)'
       PROVE  Calm'
  <2>1. CalmBatch'
    BY <1>1, <1>4, <1>12 DEF CalmBatch
  <2> QED
    BY <1>1, <1>2, <1>3, <1>12, <2>1, OnlyLink
(* The link is left as it is. *)
<1>13. ASSUME UNCHANGED <<word, fd, polled>>, pc[x] \notin {"add", "sub_ref"}, CalmThread(x)'
       PROVE  Calm'
  <2>1. \A y \in Threads : ~Holds(y, l)
    BY <1>5, <1>13 DEF Holds
  <2>2. CalmLink(l)'
    BY <1>1, <1>3, <1>4, <1>5, <1>13, <2>1 DEF CalmLink, Kept
  <2> QED
    BY <1>12, <1>13, <2>2
<1> HIDE DEF w
<1>14. CASE Connect(x)
  <2>0. UNCHANGED polled /\ pc[x] = "connect"
    BY <1>14 DEF Connect, Goes
  <2>1. CASE IsFree(w) /\ Goes(x, "connect", "socket") /\ word' = [word EXCEPT ![l] = ToInit(@)]
             /\ fd' = [fd EXCEPT ![l] = FALSE]
    <3>1. pc'[x] = "socket" /\ At(x)' = l
      BY <1>8, <2>1 DEF OpenPcs
    <3>2. /\ word'[l] = ToInit(w) /\ ~fd'[l]
          /\ \A k \in Links \ {l} : word'[k] = word[k] /\ fd'[k] = fd[k]
      BY <1>4, <2>1 DEF LinksOK, w
    <3>3. word'[l].st = "initing"
      BY <1>4, <3>2, InitWords
    <3>4. CalmLink(l)' /\ CalmThread(x)'
      BY <3>1, <3>2, <3>3, ClosedWord DEF CalmLink, CalmThread, Kept, Open, IsFree
    <3> QED
      BY <1>12, <2>0, <3>2, <3>4
  <2>2. CASE /\ Goes(x, "connect", After(x, TRUE)) \/ Goes(x, "connect", After(x, FALSE))
             /\ UNCHANGED <<word, fd>>
    BY <1>9, <1>11, <1>13, <2>0, <2>2
  <2> QED
    BY <1>14, <2>1, <2>2 DEF Connect, w
<1>15. CASE Socket(x)
  <2>0. UNCHANGED polled /\ pc[x] = "socket" /\ w.st = "initing" /\ ~fd[l]
    BY <1>4, <1>15 DEF Socket, Goes, OpenerRef, CalmThread, w
  <2>1. CASE Goes(x, "socket", "end_init") /\ fd' = [fd EXCEPT ![l] = TRUE] /\ UNCHANGED word
    <3>1. pc'[x] = "end_init" /\ At(x)' = l
      BY <1>8, <2>1 DEF OpenPcs
    <3>2. fd'[l] /\ \A k \in Links \ {l} : fd'[k] = fd[k]
      BY <1>4, <2>1 DEF LinksOK
    <3>3. CalmLink(l)' /\ CalmThread(x)'
      BY <2>0, <2>1, <3>1, <3>2, ClosedWord DEF CalmLink, CalmThread, Kept, IsFree, w
    <3> QED
      BY <1>12, <2>0, <2>1, <3>2, <3>3
  <2>2. CASE /\ Goes(x, "socket", After(x, FALSE)) /\ UNCHANGED fd
             /\ word' = [word EXCEPT ![l] = EndInit(@, FALSE)]
    <3>1. CalmThread(x)'
      BY <1>9, <1>11, <2>2
    <3>2. word'[l] = Closed /\ \A k \in Links \ {l} : word'[k] = word[k]
      BY <1>4, <2>2, InitWords DEF LinksOK, w
    <3>3. ~fd'[l] /\ word'[l].ref = 0 /\ ~Open(word'[l])
      BY <2>0, <2>2, <3>2, ClosedWord
    <3>4. CalmLink(l)'
      BY <3>3 DEF CalmLink
    <3> QED
      BY <1>12, <2>0, <2>2, <3>1, <3>2, <3>4
  <2> QED
    BY <1>15, <2>1, <2>2 DEF Socket
<1>16. CASE EndOfInit(x)
  <2>0. /\ UNCHANGED <<fd, polled>> /\ pc[x] = "end_init" /\ fd[l]
        /\ word' = [word EXCEPT ![l] = SetWork(EndInit(@, TRUE))]
    BY <1>4, <1>16 DEF EndOfInit, CalmThread
  <2>1. word'[l] = SetWork(EndInit(w, TRUE)) /\ \A k \in Links \ {l} : word'[k] = word[k]
    BY <1>4, <2>0 DEF LinksOK, w
  <2>2. CASE EndInitWorks(w, TRUE) /\ Goes(x, "end_init", "add_ref")
    <3>1. pc'[x] = "add_ref"
      BY <1>8, <2>2 DEF OpenPcs
    <3>2. Open(word'[l]) /\ word'[l].ref = 0
      BY <1>4, <2>1, <2>2, InitWords
    <3>3. fd'[l]
      BY <2>0
    <3>4. word'[l] # Closed /\ word'[l].ref # 1
      BY <3>2, ClosedWord
    <3>5. CalmLink(l)' /\ CalmThread(x)'
      BY <3>1, <3>3, <3>4 DEF CalmLink, CalmThread, IsFree
    <3> QED
      BY <1>12, <2>0, <2>1, <3>5
  <2>3. CASE ~EndInitWorks(w, TRUE) /\ Begins(x, "destroy", l, After(x, FALSE), FALSE)
    <3>1. pc'[x] = "destroy" /\ At(x)' = l
      BY <1>10, <2>3
    <3>2. word'[l] = Closed
      BY <1>4, <2>1, <2>3, InitWords
    <3>3. ~NotDestroying(l)'
      BY <3>1 DEF NotDestroying, ClosePcs
    <3>4. CalmLink(l)' /\ CalmThread(x)'
      BY <3>1, <3>2, <3>3, ClosedWord DEF CalmLink, CalmThread
    <3> QED
      BY <1>12, <2>0, <2>1, <3>4
  <2> QED
    BY <1>16, <2>2, <2>3 DEF EndOfInit, w
<1>17. CASE TakeRef(x)
  <2>0. UNCHANGED <<fd, polled>> /\ pc[x] = "add_ref" /\ w.ref = 0
    BY <1>4, <1>17 DEF TakeRef, Goes, OpenerRef, w
  <2>1. CASE RefAllowed(w) /\ Goes(x, "add_ref", "add") /\ word' = [word EXCEPT ![l] = AddRef(@)]
    <3>1. pc'[x] = "add" /\ At(x)' = l
      BY <1>8, <2>1 DEF OpenPcs
    <3>2. word'[l] = AddRef(w) /\ \A k \in Links \ {l} : word'[k] = word[k]
      BY <1>4, <2>1 DEF LinksOK, w
    <3>3. Open(w) /\ Open(word'[l])
      BY <1>4, <2>1, <3>2, RefWords DEF RefAllowed, Open
    <3>4. Holds(x, l)'
      BY <3>1 DEF Holds
    <3>5. CalmLink(l)' /\ CalmThread(x)'
      BY <1>4, <2>0, <3>1, <3>3, <3>4, ClosedWord DEF CalmLink, CalmThread, Kept, IsFree, w
    <3> QED
      BY <1>12, <2>0, <3>2, <3>5
  <2>2. CASE Goes(x, "add_ref", "fail") /\ UNCHANGED word
    <3>1. pc'[x] = "fail"
      BY <1>8, <2>2 DEF OpenPcs
    <3> QED
      BY <1>13, <2>0, <2>2, <3>1 DEF CalmThread
  <2> QED
    BY <1>17, <2>1, <2>2 DEF TakeRef, w
<1>18. CASE AddWake(x)
  <2>0. UNCHANGED <<word, fd>> /\ pc[x] = "add" /\ Open(w)
    BY <1>4, <1>18 DEF AddWake, Goes, OpenerRef, w
  <2>1. CASE Goes(x, "add", "tell") /\ polled' = [polled EXCEPT ![l] = TRUE]
    <3>1. pc'[x] = "tell"
      BY <1>8, <2>1 DEF OpenPcs
    <3>2. polled'[l] /\ \A k \in Links \ {l} : polled'[k] = polled[k]
      BY <1>4, <2>1 DEF LinksOK
    <3>3. CalmLink(l)' /\ CalmThread(x)'
      BY <1>4, <2>0, <3>1, <3>2, ClosedWord DEF CalmLink, CalmThread, Kept, IsFree, w
    <3> QED
      BY <1>12, <2>0, <3>2, <3>3
  <2>2. CASE Goes(x, "add", "sub_ref") /\ UNCHANGED polled
    <3>1. pc'[x] = "sub_ref" /\ At(x)' = l
      BY <1>8, <2>2 DEF OpenPcs
    <3>2. Holds(x, l)'
      BY <3>1 DEF Holds
    <3>3. CalmLink(l)' /\ CalmThread(x)'
      BY <1>4, <2>0, <3>1, <3>2, ClosedWord DEF CalmLink, CalmThread, Kept, IsFree, w
    <3> QED
      BY <1>12, <2>0, <2>2, <3>3
  <2> QED
    BY <1>18, <2>1, <2>2 DEF AddWake
<1>19. CASE AddFailed(x)
  <2>0. /\ UNCHANGED <<fd, polled>> /\ pc[x] = "sub_ref" /\ Open(w) /\ w.ref = 1
        /\ word' = [word EXCEPT ![l] = SubRef(@)]
    BY <1>4, <1>19 DEF AddFailed, GiveUpRef, OpenerRef, w
  <2>1. word'[l] = SubRef(w) /\ word'[l].ref = 0 /\ \A k \in Links \ {l} : word'[k] = word[k]
    BY <1>4, <2>0, RefWords DEF LinksOK, w
  <2>2. CASE ~LastRef(w) /\ Goes(x, "sub_ref", "fail")
    <3>1. pc'[x] = "fail"
      BY <1>8, <2>2 DEF OpenPcs
    <3>2. Open(word'[l])
      BY <1>4, <2>0, <2>1, <2>2, RefWords
    <3>3. CalmLink(l)' /\ CalmThread(x)'
      BY <1>4, <2>0, <2>1, <3>1, <3>2, ClosedWord DEF CalmLink, CalmThread, IsFree, w
    <3> QED
      BY <1>12, <2>0, <2>1, <3>3
  <2>3. CASE LastRef(w) /\ Begins(x, "destroy", l, After(x, FALSE), FALSE)
    <3>1. pc'[x] = "destroy" /\ At(x)' = l
      BY <1>10, <2>3
    <3>2. word'[l] = Closed
      BY <1>4, <2>0, <2>1, <2>3, RefWords
    <3>3. ~NotDestroying(l)'
      BY <3>1 DEF NotDestroying, ClosePcs
    <3>4. CalmLink(l)' /\ CalmThread(x)'
      BY <3>1, <3>2, <3>3, ClosedWord DEF CalmLink, CalmThread
    <3> QED
      BY <1>12, <2>0, <2>1, <3>4
  <2> QED
    BY <1>19, <2>2, <2>3 DEF AddFailed, GiveUpRef, w
<1>20. CASE Tell(x)
  <2>0. UNCHANGED <<word, fd, polled>> /\ pc[x] = "tell"
    BY <1>20 DEF Tell, Goes
  <2>1. CASE Goes(x, "tell", "fail")
    <3>1. pc'[x] = "fail"
      BY <1>8, <2>1 DEF OpenPcs
    <3> QED
      BY <1>13, <2>0, <3>1 DEF CalmThread
  <2>2. CASE Goes(x, "tell", After(x, TRUE))
    BY <1>9, <1>11, <1>13, <2>0, <2>2
  <2> QED
    BY <1>20, <2>1, <2>2 DEF Tell
<1>21. CASE Fail(x)
  <2>1. /\ CloseCh(x, l, After(x, FALSE)) /\ After(x, FALSE) \in PcsOf(x) \ LinkPcs
        /\ pc[x] = "fail"
    BY <1>6, <1>21 DEF Fail
  <2>2. Closes(x, l, After(x, FALSE)) /\ UNCHANGED <<fd, started, polled, linked>>
    BY <1>1, <2>1, CloseChOK
  <2>3. CalmBatch'
    BY <1>1, <1>4, <2>2 DEF CalmBatch
  <2> QED
    BY <1>1, <1>2, <1>3, <2>1, <2>2, <2>3, CloseCalm
<1> QED
  BY <1>14, <1>15, <1>16, <1>17, <1>18, <1>19, <1>20, <1>21

LEMMA LinkStepCalm ==
    ASSUME Control, Refs, Calm, BeforeStop, NEW x \in Threads, LinkStep(x)
    PROVE  Calm'
  BY RemovalCalm, OpeningCalm DEF LinkStep

(* Between two batches, rounds or removals the engine has no link in hand. *)
LEMMA EngineNoLink ==
    ASSUME Control, Calm, BeforeStop, Keeps(Engine), UNCHANGED <<word, fd, polled>>,
           pc[Engine] \in {"batch", "round", "entry", "recv_stop", "reset"},
           pc'[Engine] \in {"batch", "round", "entry", "reset", "off", "connect"},
           mstate' # "none" => mstate # "none", CalmBatch'
    PROVE  Calm'
<1>1. \A y \in Threads : /\ pc[y] \in LinkPcs => Same(y)
                         /\ pc'[y] \in LinkPcs => Same(y) \/ pc'[y] = "connect"
  BY DEF Keeps, Same, LinkPcs, OpenPcs, ClosePcs
<1>2. \A k \in Links : ~Removing(k)
  BY DEF Removing
<1> QED
  BY <1>1, <1>2, NoLink

LEMMA EngineCalm == ASSUME Control, Refs, Calm, BeforeStop, EngineStep PROVE Calm'
<1>1. /\ Engine \in Threads /\ Keeps(Engine) /\ ControlOK /\ ControlOK'
      /\ pc[Engine] # "off" /\ pc'[Engine] \in PcsOf(Engine)
  BY EngineMoves DEF Threads, Control, ControlOK
<1>2. Sole(Engine) /\ CalmBatch /\ LinksOK
  BY <1>1, SoleActor DEF Calm, Refs
<1>3. CASE \/ ToStop \/ QueueEvent \/ RoundDone \/ ChangeEvent
           \/ RecvStop \/ MoreEntries \/ NoMoreEntries \/ Reset
  <2>1. UNCHANGED <<word, fd, polled>> /\ batch' \subseteq batch /\ (mstate' # "none" => mstate # "none")
    BY <1>3 DEF ToStop, QueueEvent, RoundDone, ChangeEvent, RecvStop, MoreEntries, NoMoreEntries, Reset,
       linkVars, pollVars, callVars
  <2>2. /\ pc[Engine] \in {"batch", "round", "entry", "recv_stop", "reset"}
        /\ pc'[Engine] \in {"batch", "round", "entry", "reset", "off"}
    BY <1>1, <1>3 DEF ToStop, QueueEvent, RoundDone, ChangeEvent, RecvStop, MoreEntries,
       NoMoreEntries, Reset, Goes, ControlOK, ctlVars
  <2>3. CalmBatch'
    BY <1>2, <2>1 DEF CalmBatch
  <2> QED
    BY <1>1, <2>1, <2>2, <2>3, EngineNoLink
<1>4. CASE EpollWait
  <2>1. /\ UNCHANGED <<word, fd, polled, mstate>> /\ UNCHANGED ctlVars /\ pc[Engine] = "batch"
        /\ batch' \subseteq {l \in Links : polled[l]} \cup {"queue", "change"}
    BY <1>4 DEF EpollWait, linkVars, callVars
  <2>2. pc'[Engine] = "batch"
    BY <2>1 DEF ctlVars
  <2>3. CalmBatch'
    <3> SUFFICES ASSUME NEW l \in batch' \cap Links PROVE polled'[l]
      BY DEF CalmBatch
    <3>1. l \notin {"queue", "change"}
      BY LinkAssumption
    <3> QED
      BY <2>1, <3>1
  <2> QED
    BY <1>1, <2>1, <2>2, <2>3, EngineNoLink
<1>5. CASE \E l \in Links : LinkEvent(l) \/ Event(l)
  <2>1. PICK l \in Links : LinkEvent(l) \/ Event(l)
    BY <1>5
  <2>2. pc[Engine] \in {"batch", "round"} /\ batch' \subseteq batch /\ UNCHANGED mstate
    BY <2>1 DEF LinkEvent, Event, callVars
  <2>3. \A k \in Links : ~Removing(k)
    BY <2>2 DEF Removing
  <2>4. ASSUME UNCHANGED polled PROVE CalmBatch'
    BY <1>2, <2>2, <2>4 DEF CalmBatch
  <2>5. ASSUME NEW b \in {"batch", "round"}, pc[Engine] = b, CloseCh(Engine, l, b) PROVE Calm'
    <3>1. b \in PcsOf(Engine) \ LinkPcs /\ pc[Engine] \notin LinkPcs
      BY <2>5 DEF PcsOf, LinkPcs, OpenPcs, ClosePcs, EnginePcs
    <3>2. Closes(Engine, l, b) /\ UNCHANGED <<fd, started, polled, linked>>
      BY <1>1, <2>5, <3>1, CloseChOK
    <3> QED
      BY <1>1, <1>2, <2>2, <2>3, <2>4, <3>1, <3>2, CloseCalm
  <2>6. CASE UNCHANGED linkVars /\ (UNCHANGED ctlVars \/ Begins(Engine, "connect", l, "round", FALSE))
    <3>1. pc'[Engine] \in {"batch", "round", "connect"}
      BY <1>1, <2>2, <2>6 DEF Begins, ControlOK, ctlVars
    <3>2. UNCHANGED <<word, fd, polled>>
      BY <2>6 DEF linkVars
    <3> QED
      BY <1>1, <2>2, <2>4, <3>1, <3>2, EngineNoLink
  <2> QED
    BY <2>1, <2>5, <2>6 DEF LinkEvent, Event
<1>6. CASE Entry
  <2>0. /\ pc[Engine] = "entry" /\ done < known
        /\ UNCHANGED <<word, fd, started, linked, dels, mstate>>
        /\ batch' = batch \ {dels[done + 1]}
    BY <1>6 DEF Entry, callVars
  <2>1. PICK l \in Links : l = dels[done + 1]
    BY <2>0, EntryInBounds
  <2>2. CASE polled[l] /\ Goes(Engine, "entry", "end_poll") /\ polled' = [polled EXCEPT ![l] = FALSE] /\ UNCHANGED done
    <3>1. pc'[Engine] = "end_poll"
      BY <1>1, <2>2 DEF Goes, ControlOK
    <3>2. \A j \in Links \ {l} : polled'[j] = polled[j]
      BY <1>2, <2>2 DEF LinksOK
    <3>3. Removing(l)' /\ \A k \in Links : ~Removing(k)
      BY <2>0, <2>1, <2>2, <3>1 DEF Removing
    <3>4. CalmBatch'
      BY <1>2, <2>0, <2>1, <3>2 DEF CalmBatch
    <3>5. NotDestroying(l)
      BY <1>1, <1>2, <2>0, SoleKeeps DEF ClosePcs
    <3>6. CalmLink(l)'
      BY <2>0, <3>3, <3>5 DEF CalmLink, Calm, Kept
    <3>7. CalmThread(Engine)' /\ pc[Engine] \notin LinkPcs
      BY <2>0, <3>1 DEF CalmThread, LinkPcs, OpenPcs, ClosePcs
    <3> QED
      BY <1>1, <1>2, <2>0, <3>2, <3>3, <3>4, <3>6, <3>7, OnlyLink
  <2>3. CASE UNCHANGED <<polled, ctlVars>>
    <3>1. pc'[Engine] = "entry" /\ UNCHANGED polled
      BY <2>0, <2>3 DEF ctlVars
    <3>2. CalmBatch'
      BY <1>2, <2>0, <3>1 DEF CalmBatch
    <3> QED
      BY <1>1, <2>0, <3>1, <3>2, EngineNoLink
  <2> QED
    BY <1>6, <2>1, <2>2, <2>3 DEF Entry
<1>7. CASE EndPoll
  <2>0. /\ pc[Engine] = "end_poll" /\ UNCHANGED <<fd, started, polled, linked, dels, done, batch, mstate>>
        /\ word' = [word EXCEPT ![dels[done + 1]] = SubRef(@)]
    BY <1>7 DEF EndPoll, GiveUpRef, pollVars, callVars
  <2>1. PICK l \in Links : l = dels[done + 1]
    BY <2>0, EntryInBounds DEF AtEntry
  <2>2. LegalWord(word[l]) /\ Open(word[l]) /\ word[l].ref = 1 /\ CalmLink(l)
    BY <2>0, <2>1 DEF Refs, LinksOK, LinkRef, Removing, Calm
  <2>3. /\ word'[l] = SubRef(word[l]) /\ word'[l].ref = 0
        /\ \A j \in Links \ {l} : word'[j] = word[j]
    BY <1>2, <2>0, <2>1, <2>2, RefWords DEF LinksOK
  <2>4. CalmBatch'
    BY <1>2, <2>0 DEF CalmBatch
  <2>5. \A j \in Links \ {l} : ~Removing(j)
    BY <2>1 DEF Removing
  <2>6. pc[Engine] \notin LinkPcs
    BY <2>0 DEF LinkPcs, OpenPcs, ClosePcs
  <2>7. ASSUME CalmLink(l)', CalmThread(Engine)' PROVE Calm'
    BY <1>1, <1>2, <2>0, <2>3, <2>4, <2>5, <2>6, <2>7, OnlyLink
  <2>8. CASE ~LastRef(word[l]) /\ Goes(Engine, "end_poll", "recv_stop")
    <3>1. pc'[Engine] = "recv_stop"
      BY <1>1, <2>8 DEF Goes, ControlOK
    <3>2. Open(word'[l])
      BY <2>2, <2>3, <2>8, RefWords
    <3>3. fd'[l]
      BY <2>0, <2>2 DEF CalmLink
    <3>4. word'[l] # Closed /\ word'[l].ref # 1
      BY <2>3, <3>2, ClosedWord
    <3>5. CalmLink(l)' /\ CalmThread(Engine)'
      BY <3>1, <3>3, <3>4 DEF CalmLink, CalmThread, IsFree
    <3> QED
      BY <2>7, <3>5
  <2>9. CASE LastRef(word[l]) /\ Begins(Engine, "destroy", l, "recv_stop", FALSE)
    <3>1. "recv_stop" \in UserPcs \cup EnginePcs /\ FALSE \in BOOLEAN
      BY DEF EnginePcs
    <3>2. pc'[Engine] = "destroy" /\ At(Engine)' = l
      BY <1>1, <2>9, <3>1, TurnsTo DEF At
    <3>3. word'[l] = Closed
      BY <2>2, <2>3, <2>9, RefWords
    <3>4. ~NotDestroying(l)'
      BY <1>1, <3>2 DEF NotDestroying, ClosePcs
    <3>5. CalmLink(l)' /\ CalmThread(Engine)'
      BY <3>2, <3>3, <3>4, ClosedWord DEF CalmLink, CalmThread
    <3> QED
      BY <2>7, <3>5
  <2> QED
    BY <1>7, <2>1, <2>8, <2>9 DEF EndPoll, GiveUpRef
<1>8. CASE LinkStep(Engine)
  BY <1>1, <1>8, LinkStepCalm
<1> QED
  BY <1>3, <1>4, <1>5, <1>6, <1>7, <1>8 DEF EngineStep

LEMMA UserCalm ==
    ASSUME Control, Refs, Calm, BeforeStop, NEW u \in Users, Start(u) \/ Stop(u) \/ UserStep(u), BeforeStop'
    PROVE  Calm'
<1>0. u \in Threads /\ u # Engine /\ CalmBatch /\ ControlOK
  BY ThreadAssumption DEF Threads, Calm, Control
<1>1. CASE LinkStep(u)
  BY <1>0, <1>1, LinkStepCalm
<1>2. CASE Run(u)
  <2>1. pc[u] = "run" /\ UNCHANGED <<word, fd, batch>> /\ (mstate' # "none" => (mstate # "none" /\ polled' = polled) \/ mstate' = mstate)
    BY <1>2 DEF Run, Goes, pollVars
  <2>2. pc[Engine] = "off" /\ Alone(u) /\ batch = {}
    BY <2>1, InChargeAlone DEF Control, PhaseInv, PhaseOf, QuietPcs, DownInv
  <2>3. /\ pc'[u] \in {"fast", "undo"} /\ pc'[Engine] \in {"off", "batch"}
        /\ \A v \in Users \ {u} : pc'[v] = "idle" /\ pc[v] = "idle"
    BY <1>0, <1>2, <2>2 DEF Alone, Run, Goes, ControlOK, Threads
  <2>4. \A y \in Threads : /\ pc[y] \in {"run", "off", "idle"}
                           /\ pc'[y] \in {"fast", "undo", "off", "batch", "idle"}
    BY <2>1, <2>2, <2>3 DEF Threads
  <2>5. \A y \in Threads : pc[y] \notin LinkPcs /\ pc'[y] \notin LinkPcs
    BY <2>4 DEF LinkPcs, OpenPcs, ClosePcs
  <2>6. \A k \in Links : ~Removing(k)
    BY <2>2 DEF Removing
  <2>7. CalmBatch'
    BY <2>1, <2>2 DEF CalmBatch
  <2>8. mstate' # "none" => mstate # "none" /\ polled' = polled
    BY <1>2 DEF Run
  <2> QED
    BY <2>1, <2>5, <2>6, <2>7, <2>8, NoLink
<1>3. CASE ~LinkStep(u) /\ ~Run(u)
  <2>1. ControlOK' /\ Keeps(u) /\ UNCHANGED <<dels, batch, done, known>>
    BY <1>3, UserMoves
  <2>2. pc'[Engine] = pc[Engine] /\ \A k \in Links : Removing(k)' <=> Removing(k)
    BY <2>1, UserKeeps DEF Removing
  <2>3. CASE UndoClose(u)
    <3>1. PICK l \in Links, b \in {"undo_fgw", "undone"} : CloseCh(u, l, b)
      BY <2>3 DEF UndoClose, Links
    <3>2. b \in PcsOf(u) \ LinkPcs
      BY <1>0 DEF PcsOf, LinkPcs, OpenPcs, ClosePcs, UserPcs
    <3>3. Closes(u, l, b) /\ UNCHANGED <<fd, started, polled, linked>>
      BY <1>0, <3>1, <3>2, CloseChOK
    <3>4. pc[u] \in {"undo_join", "undo_fgw"} /\ pc[Engine] = "off" /\ UNCHANGED mstate
      BY <2>3 DEF UndoClose, callVars, Control, PhaseInv, PhaseOf, QuietPcs
    <3>5. pc[u] \notin LinkPcs /\ pc[u] # "idle"
      BY <3>4 DEF LinkPcs, OpenPcs, ClosePcs
    <3>6. Sole(u)
      BY <1>0, <3>4, <3>5, SoleActor
    <3>7. \A k \in Links : ~Removing(k)
      BY <3>4 DEF Removing
    <3>8. CalmBatch'
      BY <1>0, <2>1, <3>3 DEF CalmBatch
    <3> QED
      BY <1>0, <2>1, <3>2, <3>3, <3>4, <3>5, <3>6, <3>7, <3>8, CloseCalm
  <2>4. CASE Dial(u) \/ Start(u) \/ Prepare(u) \/ Fast(u) \/ Undo(u) \/ Undone(u) \/ Halt(u) \/ Join(u)
    <3>1. UNCHANGED <<word, fd, polled>> /\ (mstate' # "none" => mstate # "none")
      BY <2>4 DEF Dial, Start, Prepare, Fast, Undo, Undone, Halt, Join, CallUnchanged, linkVars, callVars, StopThread
    <3>2. /\ pc[u] \in {"dial", "idle", "prepare", "fast", "undo", "undone", "halt", "join"}
          /\ pc'[u] \in {"connect", "run", "undo", "prepare", "dial", "idle", "undo_join", "join"}
      <4>1. CASE Dial(u)
        BY <1>0, <4>1 DEF Dial, Goes, Begins, ControlOK
      <4>2. CASE ~Dial(u)
        BY <1>0, <2>4, <4>2 DEF Start, Prepare, Fast, Undo, Undone, Halt, Join, Goes, ControlOK
      <4> QED
        BY <4>1, <4>2
    <3>3. pc[u] \notin LinkPcs /\ (pc'[u] \in LinkPcs => pc'[u] = "connect")
      BY <3>2 DEF LinkPcs, OpenPcs, ClosePcs
    <3>4. \A y \in Threads : /\ pc[y] \in LinkPcs => Same(y)
                             /\ pc'[y] \in LinkPcs => Same(y) \/ pc'[y] = "connect"
      BY <2>1, <3>3 DEF Keeps, Same
    <3>5. CalmBatch'
      BY <1>0, <2>1, <3>1 DEF CalmBatch
    <3> QED
      BY <2>2, <3>1, <3>4, <3>5, NoLink
  <2>5. ~StopClose(u) /\ ~Stop(u)
    <3>1. PhaseOf(u)
      BY DEF Control, PhaseInv
    <3> QED
      BY <3>1 DEF StopClose, Stop, BeforeStop, PhaseOf, StopPcs
  <2> QED
    BY <1>3, <2>3, <2>4, <2>5 DEF UserStep
<1> QED
  BY <1>1, <1>2, <1>3

LEMMA NextCalm == Control /\ Refs /\ Calm /\ [Next]_vars => Calm'
<1> SUFFICES ASSUME Control, Refs, Calm, [Next]_vars, BeforeStop' PROVE Calm'
  BY DEF Calm
<1>1. CASE UNCHANGED vars
  BY <1>1 DEF vars, linkVars, pollVars, callVars, ctlVars, Calm, CalmLink, CalmThread, CalmBatch, Kept,
              BeforeStop, Removing, Holds, NotDestroying, At
<1>2. CASE EngineStep
  <2>1. BeforeStop
    BY <1>2, EngineMoves DEF BeforeStop
  <2> QED
    BY <1>2, <2>1, EngineCalm
<1>3. CASE \E u \in Users : Start(u) \/ Stop(u) \/ UserStep(u)
  <2>1. PICK u \in Users : Start(u) \/ Stop(u) \/ UserStep(u)
    BY <1>3
  <2>2. BeforeStop
    <3>1. CASE LinkStep(u)
      BY <3>1, LinkStepMoves DEF BeforeStop, Threads
    <3>2. CASE ~LinkStep(u)
      <4>1. PhaseOf(u) /\ (pc[u] = "undone" => have = 1)
        BY DEF Control, PhaseInv, PhaseOf, StartPcs
      <4>2. CASE Fast(u)
        BY <4>1, <4>2 DEF Fast, Goes, PhaseOf, StartPcs, BeforeStop
      <4>3. CASE Start(u) \/ Stop(u) \/ Undone(u)
        BY <4>1, <4>3 DEF Start, Stop, Undone, Goes, BeforeStop
      <4>4. CASE \/ Prepare(u) \/ Dial(u) \/ Run(u) \/ Undo(u) \/ UndoClose(u)
                 \/ StopClose(u) \/ Halt(u) \/ Join(u)
        <5>1. have' = have
          BY <4>4 DEF Prepare, Dial, Run, Undo, UndoClose, StopClose, Halt, Join, callVars
        <5> QED
          BY <5>1 DEF BeforeStop
      <4> QED
        BY <2>1, <3>2, <4>2, <4>3, <4>4 DEF UserStep
    <3> QED
      BY <3>1, <3>2
  <2> QED
    BY <2>1, <2>2, UserCalm
<1> QED
  BY <1>1, <1>2, <1>3 DEF Next, ReturnAtOnce

LEMMA InitCalm == Init => Calm
<1> SUFFICES ASSUME Init PROVE Calm
  OBVIOUS
<1>1. \A x \in Threads : pc[x] \in {"off", "idle"}
  BY DEF Init
<1>2. \A x \in Threads : CalmThread(x)
  BY <1>1 DEF CalmThread
<1>3. \A l \in Links : word[l] = Closed /\ ~fd[l]
  BY DEF Init
<1>4. \A l \in Links : CalmLink(l)
  BY <1>3, ClosedWord DEF CalmLink
<1>5. CalmBatch
  BY DEF Init, CalmBatch
<1> QED
  BY <1>2, <1>4, <1>5 DEF Calm

-----------------------------------------------------------------------------
(* The theorems. *)

IInv == Control /\ Refs /\ Calm

LEMMA Invariant == Spec => []IInv
<1>1. Init => IInv
  BY InitControl, InitRefs, InitCalm DEF IInv
<1>2. IInv /\ [Next]_vars => IInv'
  BY NextControl, NextRefs, NextCalm DEF IInv
<1> QED
  BY <1>1, <1>2, PTL DEF Spec

(* The state keeps its types: in particular the word of a link is one the  *)
(* methods of src_stat_ref leave, a closing link has a reference, and the  *)
(* list of removals keeps to its room.                                     *)
THEOREM TypeCorrect == Spec => []TypeOK
<1>1. IInv => TypeOK
  BY DEF IInv, Control, CountsOK, Refs, LinksOK, TypeOK
<1> QED
  BY <1>1, Invariant, PTL

(* However many threads call start() and stop(), one at a time brings the  *)
(* engine up or down, and have_start tells the others.                     *)
THEOREM OneCallInCharge == Spec => []OneInCharge
<1>1. IInv => OneInCharge
  BY DEF IInv, Control
<1> QED
  BY <1>1, Invariant, PTL

(* No reference of a link is lost or given up twice, however connects and  *)
(* epoll_ctl fail and removals are queued or dropped: it has exactly one   *)
(* while it is initialised or polled.                                      *)
THEOREM ReferencesArePolls == Spec => []RefIsPoll
<1>1. ASSUME IInv, BeforeStop, mstate # "none", NEW l \in Links
      PROVE  word[l].ref = IF Kept(l) THEN 1 ELSE 0
  <2>1. LinkRef(l) /\ LegalWord(word[l]) /\ CalmLink(l)
    BY <1>1 DEF IInv, Refs, LinksOK, Calm
  <2>2. word[l].ref \in Nat /\ word[l].ref <= 1 /\ (word[l].st = "initing" => word[l].ref = 1)
    BY <2>1, RefWords DEF LinkRef
  <2>3. \A x \in Threads : Holds(x, l) => word[l].ref = 1
    BY <1>1 DEF IInv, Refs, OpenerRef, Holds
  <2>4. Kept(l) => word[l].ref = 1
    BY <2>1, <2>2, <2>3 DEF Kept, LinkRef
  <2>5. word[l].ref = 1 => Kept(l)
    BY <1>1, <2>1 DEF CalmLink
  <2> QED
    BY <2>2, <2>4, <2>5
<1>2. IInv => RefIsPoll
  BY <1>1 DEF RefIsPoll, Kept
<1> QED
  BY <1>2, Invariant, PTL

(* Until stop() a link in use has a socket and a free one has none.        *)
THEOREM SocketsFollowWords == Spec => []SocketFollowsWord
<1>1. IInv => SocketFollowsWord
  BY DEF IInv, Calm, CalmLink, SocketFollowsWord, Open
<1> QED
  BY <1>1, Invariant, PTL

(* Until stop() the engine dispatches no event of a link that del_wake has *)
(* taken out of the epoll set.                                             *)
THEOREM BatchesAreCurrent == Spec => []BatchIsCurrent
<1>1. IInv => BatchIsCurrent
  BY DEF IInv, Calm, CalmBatch, BatchIsCurrent
<1> QED
  BY <1>1, Invariant, PTL
=============================================================================
