------------------------------ MODULE MthQueue ------------------------------
(***************************************************************************)
(* que_mth_buf: the ring of messages of any length between the threads of  *)
(* the API, with many writers (write_get_mth, write_cmt_mth, write_mth)    *)
(* and one reader (read_get, read_cmt), and no lock.                       *)
(*                                                                         *)
(* Positions only grow; a cell of the buffer is a position modulo N.  A    *)
(* message lies in one piece: one that would reach the last cell before    *)
(* the end starts the next lap, and roundend tells where the lap ended.    *)
(*                                                                         *)
(* The unit is the alignment (8 or 64 bytes), so that lengths are aligned. *)
(* A reservation is one step: the swap on wrpos succeeds only if nothing   *)
(* was reserved since the room was checked, and reading only makes room.   *)
(* The positions do not overflow: 2^63 bytes are out of reach.             *)
(***************************************************************************)
EXTENDS Integers, Sequences

CONSTANTS
    Writers,    \* writer threads
    N,          \* size of the buffer, mask + 1
    Start,      \* first position (CACHE_ALIGN_SIZE)
    Lens,       \* lengths of the messages
    MaxPos      \* last position the writers reach (bound)

ASSUME SizeAssumption == N \in Nat /\ N > 1
ASSUME StartAssumption == Start \in 1 .. N - 1
ASSUME LensAssumption == Lens \subseteq 1 .. N
ASSUME MaxPosAssumption == MaxPos \in Nat

VARIABLES
    wrpos,      \* end of what is reserved
    wrcmt,      \* end of what is committed
    roundend,   \* where the last lap ended
    rdcmt,      \* end of what is read
    buf,        \* the message each cell belongs to
    wpc,        \* where each writer is
    wmsg,       \* the message each writer works on
    wold,       \* the position it waits for, or is about to store
    rpc,        \* where the reader is
    rwr,        \* wrcmt as the reader saw it
    held,       \* the message the reader works on
    sent        \* history: messages reserved and not taken, in order

writerVars == <<wpc, wmsg, wold>>
readerVars == <<rpc, rwr, held>>
vars == <<wrpos, wrcmt, roundend, rdcmt, buf, writerVars, readerVars, sent>>

(* A message is known by its position; its length is written in it. *)
Message == [at : 0 .. MaxPos, len : 0 .. N]
Nil == [at |-> 0, len |-> 0]

TypeOK ==
    /\ wrpos \in Nat /\ wrcmt \in Nat /\ roundend \in Nat /\ rdcmt \in Nat
    /\ rdcmt <= wrcmt /\ wrcmt <= wrpos /\ wrpos <= rdcmt + (N - 1)
    /\ buf \in [0 .. N - 1 -> Message]
    /\ wpc \in [Writers -> {"idle", "round", "fill", "reload", "commit"}]
    /\ wmsg \in [Writers -> Message]
    /\ wold \in [Writers -> Nat]
    /\ rpc \in {"idle", "round", "hold"}
    /\ rwr \in Nat
    /\ held \in Message
    /\ sent \in Seq(Message)

Init ==
    /\ wrpos = Start /\ wrcmt = Start /\ rdcmt = Start /\ roundend = 0
    /\ buf = [c \in 0 .. N - 1 |-> Nil]
    /\ wpc = [w \in Writers |-> "idle"]
    /\ wmsg = [w \in Writers |-> Nil]
    /\ wold = [w \in Writers |-> 0]
    /\ rpc = "idle" /\ rwr = 0 /\ held = Nil
    /\ sent = <<>>

-----------------------------------------------------------------------------
Cell(p) == p % N

NextLap(p) == p + (N - Cell(p))

(* Mistake: a message may end at the last cell, so that the next position  *)
(* has cell 0 without a new lap. *)
BugPlace(p, len) == IF Cell(p) + len <= N THEN p ELSE NextLap(p)

(* Where a message of this length goes when the ring is written up to p. *)
Place(p, len) == IF Cell(p) + len <= N - 1 THEN p ELSE NextLap(p)

(* Mistake: the cells skipped at the end of the lap are not counted. *)
BugFits(len) == wrpos + len <= rdcmt + (N - 1)

(* Mistake: room is asked for from the start of the next lap, always. *)
BugFitsLap(len) == NextLap(wrpos) + len <= rdcmt + (N - 1)

(* There is room for it, with the cells it skips. *)
Fits(len) == Place(wrpos, len) + len <= rdcmt + (N - 1)

WrapsAt(p) == Cell(p) = 0

-----------------------------------------------------------------------------
(* A writer.                                                               *)

To(w, from, to) == wpc[w] = from /\ wpc' = [wpc EXCEPT ![w] = to]

(* Mistake: a writer that wraps does not tell where the lap ended. *)
BugReserve(w) ==
    \E len \in Lens :
        LET m == [at |-> Place(wrpos, len), len |-> len] IN
            /\ Fits(len) /\ m.at + len <= MaxPos
            /\ wrpos' = m.at + len
            /\ wmsg' = [wmsg EXCEPT ![w] = m]
            /\ wold' = [wold EXCEPT ![w] = wrpos]
            /\ sent' = Append(sent, m)
            /\ To(w, "idle", "fill")
            /\ UNCHANGED <<wrcmt, roundend, rdcmt, buf, readerVars>>

(* write_get_mth; with no room it returns 0 and changes nothing. *)
Reserve(w) ==
    \E len \in Lens :
        LET m == [at |-> Place(wrpos, len), len |-> len] IN
            /\ Fits(len) /\ m.at + len <= MaxPos
            /\ wrpos' = m.at + len
            /\ wmsg' = [wmsg EXCEPT ![w] = m]
            /\ wold' = [wold EXCEPT ![w] = wrpos]
            /\ sent' = Append(sent, m)
            /\ To(w, "idle", IF WrapsAt(m.at) THEN "round" ELSE "fill")
            /\ UNCHANGED <<wrcmt, roundend, rdcmt, buf, readerVars>>

(* The winner of the swap that began a lap tells where the last one ended. *)
Round(w) ==
    /\ To(w, "round", "fill")
    /\ roundend' = wold[w]
    /\ UNCHANGED <<wrpos, wrcmt, rdcmt, buf, wmsg, wold, readerVars, sent>>

Fill(w) ==
    /\ To(w, "fill", IF WrapsAt(wmsg[w].at) THEN "reload" ELSE "commit")
    /\ buf' = [c \in 0 .. N - 1 |->
                  IF c - Cell(wmsg[w].at) \in 0 .. wmsg[w].len - 1
                  THEN wmsg[w] ELSE buf[c]]
    /\ UNCHANGED <<wrpos, wrcmt, roundend, rdcmt, wmsg, wold, readerVars, sent>>

(* write_cmt_mth of a message at the start of a lap: what comes before it  *)
(* ends at roundend, whoever stored that last. *)
Reload(w) ==
    /\ To(w, "reload", "commit")
    /\ wold' = [wold EXCEPT ![w] = roundend]
    /\ UNCHANGED <<wrpos, wrcmt, roundend, rdcmt, buf, wmsg, readerVars, sent>>

(* Mistake: the commit does not wait for the messages before it. *)
BugCommit(w) ==
    LET end == wmsg[w].at + wmsg[w].len IN
        /\ To(w, "commit", "idle")
        /\ wrcmt' = IF end <= wrcmt THEN wrcmt ELSE end
        /\ wmsg' = [wmsg EXCEPT ![w] = Nil]
        /\ wold' = [wold EXCEPT ![w] = 0]
        /\ UNCHANGED <<wrpos, roundend, rdcmt, buf, readerVars, sent>>

(* Mistake: the position before a new lap is taken for the lap's start. *)
BugCommitWaitsForStart(w) ==
    LET end == wmsg[w].at + wmsg[w].len IN
        /\ To(w, "commit", "idle")
        /\ end <= wrcmt \/ wmsg[w].at <= wrcmt
        /\ wrcmt' = IF end <= wrcmt THEN wrcmt ELSE end
        /\ wmsg' = [wmsg EXCEPT ![w] = Nil]
        /\ wold' = [wold EXCEPT ![w] = 0]
        /\ UNCHANGED <<wrpos, roundend, rdcmt, buf, readerVars, sent>>

(* The loop of write_cmt_mth: wait for what comes before, then swap. *)
Commit(w) ==
    LET end == wmsg[w].at + wmsg[w].len IN
        /\ To(w, "commit", "idle")
        /\ end <= wrcmt \/ wold[w] <= wrcmt
        /\ wrcmt' = IF end <= wrcmt THEN wrcmt ELSE end
        /\ wmsg' = [wmsg EXCEPT ![w] = Nil]
        /\ wold' = [wold EXCEPT ![w] = 0]
        /\ UNCHANGED <<wrpos, roundend, rdcmt, buf, readerVars, sent>>

-----------------------------------------------------------------------------
(* The reader.                                                             *)

TakeAt(p) ==
    /\ rdcmt' = p
    /\ held' = buf[Cell(p)]
    /\ sent' = SubSeq(sent, 2, Len(sent))
    /\ rpc' = "hold" /\ rwr' = 0

(* read_get, when what is committed is in the reader's lap. *)
ReadNext ==
    /\ rpc = "idle" /\ rdcmt < wrcmt
    /\ Cell(wrcmt) > Cell(rdcmt)
    /\ TakeAt(rdcmt)
    /\ UNCHANGED <<wrpos, wrcmt, roundend, buf, writerVars>>

(* Otherwise it has to look where the lap ended. *)
ReadLook ==
    /\ rpc = "idle" /\ rdcmt < wrcmt
    /\ Cell(wrcmt) <= Cell(rdcmt)
    /\ rpc' = "round" /\ rwr' = wrcmt
    /\ UNCHANGED <<wrpos, wrcmt, roundend, rdcmt, buf, writerVars, held, sent>>

(* The reader's place, once the lap is at its end. *)
LapStart == IF WrapsAt(rdcmt) THEN rdcmt ELSE NextLap(rdcmt)

ReadsEmpty ==
    \/ roundend >= rwr \/ roundend < rdcmt
    \/ roundend = rdcmt /\ LapStart >= rwr

(* Mistake: the lap is taken to be at its end. *)
BugReadRound ==
    /\ rpc = "round"
    /\ IF ReadsEmpty
       THEN rpc' = "idle" /\ rwr' = 0 /\ UNCHANGED <<rdcmt, held, sent>>
       ELSE TakeAt(LapStart)
    /\ UNCHANGED <<wrpos, wrcmt, roundend, buf, writerVars>>

ReadRound ==
    /\ rpc = "round"
    /\ IF ReadsEmpty
       THEN rpc' = "idle" /\ rwr' = 0 /\ UNCHANGED <<rdcmt, held, sent>>
       ELSE TakeAt(IF roundend > rdcmt THEN rdcmt ELSE LapStart)
    /\ UNCHANGED <<wrpos, wrcmt, roundend, buf, writerVars>>

(* read_cmt, with the length found in the message. *)
ReadCmt ==
    /\ rpc = "hold"
    /\ rpc' = "idle" /\ held' = Nil
    /\ rdcmt' = rdcmt + held.len
    /\ UNCHANGED <<wrpos, wrcmt, roundend, buf, writerVars, rwr, sent>>

-----------------------------------------------------------------------------
Writing(w) == Round(w) \/ Fill(w) \/ Reload(w) \/ Commit(w)

Reader == ReadNext \/ ReadLook \/ ReadRound \/ ReadCmt

Next ==
    \/ \E w \in Writers : Reserve(w) \/ Writing(w)
    \/ Reader

Spec == Init /\ [][Next]_vars

(* A writer goes on with what it has reserved (it never has to wait for    *)
(* anything but an earlier commit), and the reader comes back.             *)
Fairness ==
    /\ \A w \in Writers : WF_vars(Writing(w))
    /\ WF_vars(Reader)

FairSpec == Spec /\ Fairness

-----------------------------------------------------------------------------
(* Properties.                                                             *)

Committed(m) == m.at < wrcmt

Whole(m) == \A i \in 0 .. m.len - 1 : buf[Cell(m.at) + i] = m

(* What is committed, and what the reader works on, lies whole in the      *)
(* buffer: no writer, a lap ahead or in the middle of a message, touches   *)
(* it before the reader gives it back.                                     *)
WholeMessages ==
    /\ \A i \in DOMAIN sent : Committed(sent[i]) => Whole(sent[i])
    /\ Whole(held)

(* read_get does not answer "empty" when a message was committed before it *)
(* was called; a thread goes to sleep on that answer.  Its two positions   *)
(* tell exactly whether there is one, and the look at the lap's end does   *)
(* not take it back. *)
EmptyIsEmpty ==
    /\ rpc = "idle" => (rdcmt < wrcmt <=> \E i \in DOMAIN sent : Committed(sent[i]))
    /\ rpc = "round" => ~ReadsEmpty

(* An empty ring takes any message shorter than half of it, wherever its   *)
(* positions stand.  (Longer ones may be refused, and for ever.)           *)
EmptyTakesHalf ==
    sent = <<>> /\ held = Nil => \A len \in 1 .. N : 2 * len < N => Fits(len)

(* How many of the messages in sent are committed: commits come in order.  *)
Published == CHOOSE k \in 0 .. Len(sent) :
                 \A i \in DOMAIN sent : i <= k <=> Committed(sent[i])

(* Reserved messages become a FIFO by commits that publish exactly one     *)
(* message each, in the order of the reservations, and the reader takes    *)
(* them one by one: none is lost, repeated, split or joined.               *)
Ring == INSTANCE Fifo WITH
    Messages <- Message,
    None <- Nil,
    queue <- SubSeq(sent, 1, Published),
    held <- held

IsFifo == Ring!Spec

(* What of "nobody waits for ever" is seen in a state.  Who works on a      *)
(* message finds it reserved and not committed, every such message has     *)
(* somebody who works on it, and the first of them waits for nothing.      *)
TurnComes ==
    /\ \A w \in Writers : wpc[w] # "idle" =>
         \E i \in DOMAIN sent : wmsg[w] = sent[i] /\ ~Committed(sent[i])
    /\ \A i \in DOMAIN sent : ~Committed(sent[i]) =>
         \E w \in Writers :
            /\ wpc[w] # "idle" /\ wmsg[w] = sent[i]
            /\ wpc[w] = "commit" /\ (\A j \in 1 .. i - 1 : Committed(sent[j])) =>
                 wold[w] <= wrcmt

(* Nobody waits for ever: every commit gets its turn, every committed      *)
(* message its reader.                                                     *)
CommitEnds == \A w \in Writers : wpc[w] = "commit" ~> wpc[w] = "idle"

CommittedIsRead ==
    (\E i \in DOMAIN sent : Committed(sent[i])) ~> held # Nil
=============================================================================
