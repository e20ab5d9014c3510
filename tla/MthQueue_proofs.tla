--------------------------- MODULE MthQueue_proofs ---------------------------
(***************************************************************************)
(* Proofs about MthQueue, for any number of writers, any size of the       *)
(* buffer and any lengths of messages: the ring is a FIFO of whole         *)
(* messages.                                                               *)
(*                                                                         *)
(* The argument: what is reserved and not read lies between rdcmt and      *)
(* wrpos, less than N cells apart, one message after the other, so that no *)
(* two of them share a cell and at most one of them begins a lap.  That    *)
(* one keeps roundend at the end of the message before it.                 *)
(***************************************************************************)
EXTENDS MthQueue, SequenceTheorems, TLAPS

(* The first position of the lap p lies in. *)
Base(p) == p - Cell(p)

End(m) == m.at + m.len

(* A message that lies in one lap, and not at its very end. *)
Sound(m) == m \in Message /\ m.len > 0 /\ Cell(m.at) + m.len < N

(* Where the first message in sent may begin, and the i-th. *)
First == IF held = Nil THEN rdcmt ELSE End(held)
Before(i) == IF i = 1 THEN First ELSE End(sent[i - 1])

Placed(i) == sent[i].at = IF WrapsAt(sent[i].at) THEN NextLap(Before(i)) ELSE Before(i)

SentInv ==
    /\ \A i \in DOMAIN sent : Sound(sent[i]) /\ Placed(i)
    /\ \A i, j \in DOMAIN sent : i < j => End(sent[i]) <= sent[j].at
    /\ \A i \in DOMAIN sent : First <= sent[i].at /\ End(sent[i]) <= wrpos
    /\ wrpos = Before(Len(sent) + 1)
    /\ Cell(First) > 0

HeldInv ==
    /\ rpc = "hold" <=> held # Nil
    /\ held # Nil => Sound(held) /\ held.at = rdcmt

(* Until the wrap, messages lie in the reader's lap. *)
LapInv ==
    \A i \in DOMAIN sent :
        Base(sent[i].at) = Base(rdcmt) \/ \E j \in 1 .. i : WrapsAt(sent[j].at)

(* wrcmt is the end of a message. *)
CommitInv ==
    /\ First <= wrcmt
    /\ wrcmt = First \/ \E i \in DOMAIN sent : wrcmt = End(sent[i])

(* Writer w works on the i-th message.  It waits for the end of the one    *)
(* before it, which roundend tells if the message begins a lap.            *)
Works(w, i) ==
    /\ wmsg[w] = sent[i] /\ ~Committed(sent[i])
    /\ wpc[w] \in {"round", "reload"} => WrapsAt(sent[i].at)
    /\ wpc[w] # "round" /\ WrapsAt(sent[i].at) => roundend = Before(i)
    /\ wpc[w] \in {"round", "commit"} \/ ~WrapsAt(sent[i].at) => wold[w] = Before(i)
    /\ wpc[w] \in {"reload", "commit"} => Whole(sent[i])

WriterInv ==
    /\ \A w \in Writers : wpc[w] # "idle" => \E i \in DOMAIN sent : Works(w, i)
    /\ \A v, w \in Writers :
         v # w /\ wpc[v] # "idle" /\ wpc[w] # "idle" => wmsg[v] # wmsg[w]

RoundInv ==
    \A i \in DOMAIN sent : Committed(sent[i]) /\ WrapsAt(sent[i].at) => roundend = Before(i)

(* A reader that looks for the end of the lap has a message beyond it. *)
ReaderInv ==
    rpc = "round" =>
        /\ rdcmt < rwr /\ rwr <= wrcmt
        /\ \E i \in DOMAIN sent : WrapsAt(sent[i].at) /\ sent[i].at < rwr

Layout == TypeOK /\ SentInv /\ HeldInv /\ LapInv

IInv == Layout /\ CommitInv /\ WriterInv /\ RoundInv /\ ReaderInv /\ WholeMessages

-----------------------------------------------------------------------------
(* Cells and laps.                                                         *)

LEMMA Division ==
    ASSUME NEW p \in Nat
    PROVE  /\ p \div N \in Nat /\ Cell(p) \in Nat /\ Cell(p) < N
           /\ p = N * (p \div N) + Cell(p)
<1>1. Cell(p) \in 0 .. N - 1
  BY SizeAssumption DEF Cell
<1>2. p = N * (p \div N) + Cell(p) /\ p \div N \in Nat
  BY SizeAssumption DEF Cell
<1> QED
  BY <1>1, <1>2, SizeAssumption

LEMMA Quotient ==
    ASSUME NEW a \in Nat, NEW b \in Nat, NEW r \in Nat, NEW s \in Nat,
           r < N, s < N, N * a + r = N * b + s
    PROVE  a = b /\ r = s
<1>1. ASSUME NEW x \in Nat, NEW y \in Nat, x < y PROVE N * x + N <= N * y
  <2>1. y >= x + 1
    BY <1>1
  <2>2. N * y >= N * (x + 1)
    BY <2>1, SizeAssumption
  <2> QED
    BY <2>2, SizeAssumption
<1>2. N * a \in Nat /\ N * b \in Nat /\ N \in Nat
  BY SizeAssumption
<1>3. CASE a < b
  BY <1>1, <1>2, <1>3
<1>4. CASE b < a
  BY <1>1, <1>2, <1>4
<1> QED
  BY <1>2, <1>3, <1>4

LEMMA Laps ==
    ASSUME NEW p \in Nat
    PROVE  /\ Cell(p) \in Nat /\ Cell(p) < N /\ Base(p) \in Nat
           /\ p = Base(p) + Cell(p) /\ Base(p) = N * (p \div N)
           /\ NextLap(p) \in Nat /\ NextLap(p) = Base(p) + N
<1>1. p \div N \in Nat /\ Cell(p) \in Nat /\ Cell(p) < N /\ p = N * (p \div N) + Cell(p)
  BY Division
<1>2. N \in Nat /\ N * (p \div N) \in Nat
  BY <1>1, SizeAssumption
<1> QED
  BY <1>1, <1>2 DEF Base, NextLap

(* Positions of different laps are apart by a lap at least. *)
LEMMA LapsApart ==
    ASSUME NEW p \in Nat, NEW q \in Nat, Base(p) < Base(q)
    PROVE  Base(p) + N <= Base(q)
<1>1. /\ p \div N \in Nat /\ q \div N \in Nat
      /\ Base(p) = N * (p \div N) /\ Base(q) = N * (q \div N)
  BY Laps, Division
<1> DEFINE a == p \div N
           b == q \div N
<1>2. a \in Nat /\ b \in Nat /\ N * a < N * b
  BY <1>1
<1> HIDE DEF a, b
<1>3. b >= a + 1
  <2>1. CASE b <= a
    <3>1. N * b <= N * a
      BY <1>2, <2>1, SizeAssumption
    <3>2. N * a \in Nat /\ N * b \in Nat
      BY <1>2, SizeAssumption
    <3> QED
      BY <1>2, <3>1, <3>2
  <2> QED
    BY <1>2, <2>1
<1>4. N * b >= N * (a + 1)
  BY <1>2, <1>3, SizeAssumption
<1>5. N * b >= N * a + N
  BY <1>2, <1>4, SizeAssumption
<1> QED
  BY <1>1, <1>5 DEF a, b

(* Within a lap, cells follow each other. *)
LEMMA SameLap ==
    ASSUME NEW p \in Nat, NEW k \in Nat, Cell(p) + k < N
    PROVE  Cell(p + k) = Cell(p) + k /\ Base(p + k) = Base(p)
<1> DEFINE q == p + k
           a == p \div N
           b == q \div N
<1>1. /\ q \in Nat /\ a \in Nat /\ b \in Nat /\ Cell(p) \in Nat /\ Cell(q) \in Nat /\ Cell(q) < N
      /\ p = N * a + Cell(p) /\ q = N * b + Cell(q)
  BY Division
<1> HIDE DEF a, b
<1>2. N * a \in Nat /\ N * b \in Nat
  BY <1>1, SizeAssumption
<1>3. N * a + (Cell(p) + k) = N * b + Cell(q) /\ Cell(p) + k \in Nat
  BY <1>1, <1>2
<1>4. a = b /\ Cell(p) + k = Cell(q)
  BY <1>1, <1>3, Quotient
<1> QED
  BY <1>1, <1>4 DEF Base

LEMMA LapBegins ==
    ASSUME NEW p \in Nat
    PROVE  Cell(NextLap(p)) = 0 /\ Base(NextLap(p)) = NextLap(p)
<1> DEFINE q == NextLap(p)
           a == p \div N + 1
           b == q \div N
<1>1. q \in Nat /\ a \in Nat /\ q = N * (p \div N) + N /\ p \div N \in Nat
  BY Laps, Division
<1>2. b \in Nat /\ Cell(q) \in Nat /\ Cell(q) < N /\ q = N * b + Cell(q)
  BY <1>1, Division
<1>3. q = N * a
  BY <1>1, SizeAssumption
<1> HIDE DEF a, b, q
<1>4. N * a + 0 = N * b + Cell(q) /\ 0 < N /\ N * a \in Nat
  BY <1>1, <1>2, <1>3, SizeAssumption
<1>5. Cell(q) = 0
  BY <1>1, <1>2, <1>4, Quotient
<1> QED
  BY <1>1, <1>5 DEF Base, q

(* Positions less than N apart do not share a cell. *)
LEMMA CellsApart ==
    ASSUME NEW p \in Nat, NEW q \in Nat, p < q, q < p + N
    PROVE  Cell(p) # Cell(q)
<1>1. /\ Cell(p) \in Nat /\ Cell(q) \in Nat /\ Base(p) \in Nat /\ Base(q) \in Nat
      /\ p = Base(p) + Cell(p) /\ q = Base(q) + Cell(q)
  BY Laps
<1>2. SUFFICES ASSUME Cell(p) = Cell(q) PROVE FALSE
  OBVIOUS
<1>3. Base(p) < Base(q)
  BY <1>1, <1>2
<1>4. Base(p) + N <= Base(q)
  BY <1>3, LapsApart
<1> QED
  BY <1>1, <1>2, <1>4, SizeAssumption

LEMMA SoundMessage ==
    ASSUME NEW m, Sound(m)
    PROVE  /\ m \in Message /\ m.at \in Nat /\ m.len \in Nat \ {0} /\ End(m) \in Nat
           /\ m # Nil /\ m.at < End(m) /\ End(m) = m.at + m.len
           /\ Cell(m.at) \in Nat /\ Cell(m.at) + m.len < N
           /\ Cell(End(m)) > 0 /\ Base(End(m)) = Base(m.at)
<1>1. m \in Message /\ m.at \in Nat /\ m.len \in Nat /\ m.len > 0 /\ Cell(m.at) + m.len < N
  BY SizeAssumption, MaxPosAssumption DEF Sound, Message
<1>2. Cell(m.at) \in Nat
  BY <1>1, Laps
<1>3. Cell(End(m)) = Cell(m.at) + m.len /\ Base(End(m)) = Base(m.at)
  BY <1>1, SameLap DEF End
<1>4. m # Nil
  BY <1>1 DEF Nil
<1> QED
  BY <1>1, <1>2, <1>3, <1>4 DEF End

(* Two messages one after the other, within the room, share no cell. *)
LEMMA Disjoint ==
    ASSUME NEW m, NEW l, Sound(m), Sound(l), End(m) <= l.at, End(l) < m.at + N,
           NEW i \in 0 .. m.len - 1, NEW j \in 0 .. l.len - 1
    PROVE  Cell(m.at) + i # Cell(l.at) + j
<1>1. /\ m.at \in Nat /\ m.len \in Nat /\ Cell(m.at) \in Nat /\ Cell(m.at) + m.len < N
      /\ End(m) = m.at + m.len
  BY SoundMessage
<1>2. /\ l.at \in Nat /\ l.len \in Nat /\ Cell(l.at) \in Nat /\ Cell(l.at) + l.len < N
      /\ End(l) = l.at + l.len
  BY SoundMessage
<1>3. i \in Nat /\ j \in Nat /\ N \in Nat
  BY <1>1, <1>2, SizeAssumption
<1>4. Cell(m.at + i) = Cell(m.at) + i /\ Cell(l.at + j) = Cell(l.at) + j
  <2>1. Cell(m.at) + i < N /\ Cell(l.at) + j < N
    BY <1>1, <1>2, <1>3
  <2> QED
    BY <1>1, <1>2, <1>3, <2>1, SameLap
<1>5. m.at + i \in Nat /\ l.at + j \in Nat /\ m.at + i < l.at + j /\ l.at + j < (m.at + i) + N
  BY <1>1, <1>2, <1>3
<1> QED
  BY <1>4, <1>5, CellsApart

-----------------------------------------------------------------------------
(* What is in the ring.                                                    *)

LEMMA Numbers ==
    ASSUME Layout
    PROVE  /\ N \in Nat /\ N > 1
           /\ rdcmt \in Nat /\ wrcmt \in Nat /\ wrpos \in Nat /\ roundend \in Nat /\ rwr \in Nat
           /\ rdcmt <= wrcmt /\ wrcmt <= wrpos /\ wrpos < rdcmt + N
           /\ Len(sent) \in Nat /\ DOMAIN sent = 1 .. Len(sent)
BY SizeAssumption DEF Layout, TypeOK

LEMMA FirstPlace ==
    ASSUME Layout
    PROVE  First \in Nat /\ rdcmt <= First /\ Base(First) = Base(rdcmt) /\ Cell(First) > 0
<1>1. CASE held = Nil
  BY <1>1, Numbers DEF Layout, SentInv, First
<1>2. CASE held # Nil
  <2>1. Sound(held) /\ held.at = rdcmt
    BY <1>2 DEF Layout, HeldInv
  <2> QED
    BY <1>2, <2>1, SoundMessage, Numbers DEF First
<1> QED
  BY <1>1, <1>2

(* Where the i-th message lies. *)
LEMMA Spots ==
    ASSUME Layout, NEW i \in DOMAIN sent
    PROVE  /\ Sound(sent[i]) /\ Placed(i)
           /\ sent[i].at \in Nat /\ End(sent[i]) \in Nat /\ sent[i].at < End(sent[i])
           /\ rdcmt <= First /\ First <= sent[i].at /\ End(sent[i]) <= wrpos
           /\ i \in Nat /\ 1 <= i /\ i <= Len(sent)
<1>1. Sound(sent[i]) /\ Placed(i) /\ First <= sent[i].at /\ End(sent[i]) <= wrpos
  BY DEF Layout, SentInv
<1> QED
  BY <1>1, SoundMessage, Numbers, FirstPlace

LEMMA Order ==
    ASSUME Layout, NEW i \in DOMAIN sent, NEW j \in DOMAIN sent
    PROVE  /\ i < j => End(sent[i]) <= sent[j].at
           /\ i <= j => sent[i].at <= sent[j].at /\ End(sent[i]) <= End(sent[j])
           /\ sent[i].at <= sent[j].at => i <= j
           /\ sent[i] = sent[j] => i = j
           /\ End(sent[i]) <= sent[j].at => i < j
<1>1. i < j => End(sent[i]) <= sent[j].at
  BY DEF Layout, SentInv
<1>2. j < i => End(sent[j]) <= sent[i].at
  BY DEF Layout, SentInv
<1>3. /\ sent[i].at \in Nat /\ End(sent[i]) \in Nat /\ sent[i].at < End(sent[i]) /\ i \in Nat
      /\ sent[j].at \in Nat /\ End(sent[j]) \in Nat /\ sent[j].at < End(sent[j]) /\ j \in Nat
  BY Spots
<1>4. i = j \/ i < j \/ j < i
  BY <1>3
<1> QED
  BY <1>1, <1>2, <1>3, <1>4

(* Where the i-th message may begin, and the next one to reserve. *)
LEMMA Befores ==
    ASSUME Layout, NEW i \in 1 .. Len(sent) + 1
    PROVE  /\ Before(i) \in Nat /\ First <= Before(i) /\ Before(i) <= wrpos /\ Cell(Before(i)) > 0
           /\ i \in DOMAIN sent => Before(i) <= sent[i].at
<1>1. CASE i = 1
  <2>1. Before(i) = First
    BY <1>1 DEF Before
  <2>2. i \in DOMAIN sent => First <= sent[i].at
    BY Spots
  <2>3. First <= wrpos
    <3>1. CASE Len(sent) = 0
      BY <3>1, FirstPlace, Numbers DEF Layout, SentInv, Before
    <3>2. CASE Len(sent) # 0
      <4>1. 1 \in DOMAIN sent
        BY <3>2, Numbers
      <4>2. First <= sent[1].at /\ sent[1].at < End(sent[1]) /\ End(sent[1]) <= wrpos
        BY <4>1, Spots
      <4> QED
        BY <4>1, <4>2, Spots, FirstPlace, Numbers
    <3> QED
      BY <3>1, <3>2
  <2> QED
    BY <2>1, <2>2, <2>3, FirstPlace, Numbers
<1>2. CASE i # 1
  <2>1. i - 1 \in DOMAIN sent /\ Before(i) = End(sent[i - 1]) /\ i \in Nat
    BY <1>2, Numbers DEF Before
  <2>2. Cell(End(sent[i - 1])) > 0
    BY <2>1, Spots, SoundMessage
  <2>3. i \in DOMAIN sent => End(sent[i - 1]) <= sent[i].at
    BY <2>1, Order
  <2>4. /\ End(sent[i - 1]) \in Nat /\ sent[i - 1].at \in Nat /\ sent[i - 1].at < End(sent[i - 1])
        /\ First <= sent[i - 1].at /\ End(sent[i - 1]) <= wrpos
    BY <2>1, Spots
  <2> QED
    BY <2>1, <2>2, <2>3, <2>4, FirstPlace, Numbers
<1> QED
  BY <1>1, <1>2

(* A message at the start of a lap is at the reader's next lap. *)
LEMMA WrapPlace ==
    ASSUME Layout, NEW i \in DOMAIN sent, WrapsAt(sent[i].at)
    PROVE  sent[i].at = NextLap(rdcmt) /\ Before(i) < sent[i].at
<1> DEFINE p == sent[i].at
<1>1. p \in Nat /\ First <= p /\ First \in Nat /\ rdcmt \in Nat /\ N \in Nat /\ N > 1 /\ p < rdcmt + N
  BY Spots, FirstPlace, Numbers
<1>2. p = Base(p) /\ Base(p) \in Nat
  <2>1. Cell(p) = 0
    BY DEF WrapsAt
  <2> HIDE DEF p
  <2>2. p = Base(p) + Cell(p) /\ Base(p) \in Nat
    BY <1>1, Laps
  <2> QED
    BY <2>1, <2>2
<1>3. p # First /\ p # Before(i)
  <2>1. Cell(First) > 0 /\ Cell(Before(i)) > 0
    BY FirstPlace, Befores, Numbers
  <2> QED
    BY <2>1 DEF WrapsAt
<1>4. First < p /\ Before(i) < p
  BY <1>1, <1>3, Befores, Numbers
<1> HIDE DEF p
<1>5. /\ Base(First) = Base(rdcmt) /\ Base(rdcmt) \in Nat /\ Cell(rdcmt) \in Nat /\ Cell(rdcmt) < N
      /\ rdcmt = Base(rdcmt) + Cell(rdcmt) /\ NextLap(rdcmt) = Base(rdcmt) + N /\ NextLap(rdcmt) \in Nat
      /\ First = Base(rdcmt) + Cell(First) /\ Cell(First) \in Nat
  BY <1>1, FirstPlace, Laps
<1>6. Base(rdcmt) + N <= p
  BY <1>1, <1>2, <1>4, <1>5, LapsApart
<1>7. ~(NextLap(rdcmt) < p)
  <2>1. SUFFICES ASSUME NextLap(rdcmt) < p PROVE FALSE
    OBVIOUS
  <2>2. Base(NextLap(rdcmt)) = NextLap(rdcmt)
    BY <1>1, LapBegins
  <2>3. NextLap(rdcmt) + N <= p
    BY <1>1, <1>2, <1>5, <2>1, <2>2, LapsApart
  <2> QED
    BY <1>1, <1>5, <2>3
<1> QED
  BY <1>1, <1>4, <1>5, <1>6, <1>7 DEF p

LEMMA OneWrap ==
    ASSUME Layout, NEW i \in DOMAIN sent, NEW j \in DOMAIN sent,
           WrapsAt(sent[i].at), WrapsAt(sent[j].at)
    PROVE  i = j
<1>1. sent[i].at = sent[j].at
  BY WrapPlace
<1>2. i <= j /\ j <= i
  BY <1>1, Order, Spots
<1> QED
  BY <1>2, Spots

LEMMA InLap ==
    ASSUME NEW p \in Nat, NEW q \in Nat, Base(p) = p, p <= q, q < p + N
    PROVE  Base(q) = p
<1>1. /\ Base(q) \in Nat /\ Cell(q) \in Nat /\ Cell(q) < N /\ q = Base(q) + Cell(q) /\ N \in Nat
  BY Laps, SizeAssumption
<1>2. ~(Base(q) < p)
  BY <1>1, LapsApart
<1>3. ~(p < Base(q))
  BY <1>1, LapsApart
<1> QED
  BY <1>1, <1>2, <1>3

(* Everything after a wrap lies in the lap that begins there. *)
LEMMA Beyond ==
    ASSUME Layout, NEW i \in DOMAIN sent, NEW j \in DOMAIN sent, WrapsAt(sent[i].at), i <= j
    PROVE  /\ Base(sent[j].at) = sent[i].at /\ Base(End(sent[j])) = sent[i].at
           /\ Cell(End(sent[j])) < Cell(rdcmt)
<1> DEFINE p == NextLap(rdcmt)
<1>1. sent[i].at = p /\ p \in Nat /\ Base(p) = p
  BY WrapPlace, LapBegins, Laps, Numbers
<1>2. /\ sent[j].at \in Nat /\ End(sent[j]) \in Nat /\ sent[j].at < End(sent[j])
      /\ End(sent[j]) <= wrpos /\ Sound(sent[j])
  BY Spots
<1>3. p <= sent[j].at
  BY <1>1, Order
<1>4. wrpos < rdcmt + N /\ wrpos \in Nat /\ rdcmt \in Nat /\ N \in Nat
  BY Numbers
<1>5. /\ p = Base(rdcmt) + N /\ rdcmt = Base(rdcmt) + Cell(rdcmt)
      /\ Base(rdcmt) \in Nat /\ Cell(rdcmt) \in Nat /\ Cell(rdcmt) < N
  BY <1>4, Laps
<1> HIDE DEF p
<1>6. End(sent[j]) < p + N /\ sent[j].at < p + N
  BY <1>1, <1>2, <1>4, <1>5
<1>7. Base(sent[j].at) = p /\ Base(End(sent[j])) = p
  BY <1>1, <1>2, <1>3, <1>6, InLap, SoundMessage
<1>8. End(sent[j]) = p + Cell(End(sent[j])) /\ Cell(End(sent[j])) \in Nat
  BY <1>2, <1>7, Laps
<1> QED
  BY <1>1, <1>2, <1>4, <1>5, <1>7, <1>8

-----------------------------------------------------------------------------
(* The reader's steps.                                                     *)

(* The reader finds a message where it lies. *)
LEMMA FirstInBuffer ==
    ASSUME IInv, 1 \in DOMAIN sent, Committed(sent[1])
    PROVE  Sound(sent[1]) /\ Whole(sent[1]) /\ buf[Cell(sent[1].at)] = sent[1]
<1>1. Whole(sent[1]) /\ Sound(sent[1])
  BY Spots DEF IInv, WholeMessages
<1>2. 0 \in 0 .. sent[1].len - 1 /\ Cell(sent[1].at) \in Nat
  BY <1>1, SoundMessage
<1>3. buf[Cell(sent[1].at) + 0] = sent[1]
  BY <1>1, <1>2 DEF Whole
<1> QED
  BY <1>1, <1>2, <1>3

(* What the two ways to take a message have in common. *)
LEMMA TakeStep ==
    ASSUME IInv, rpc # "hold", sent # <<>>, Committed(sent[1]), TakeAt(sent[1].at),
           UNCHANGED <<wrpos, wrcmt, roundend, buf, writerVars>>
    PROVE  IInv'
<1> DEFINE first == sent[1]
<1>0. Layout
  BY DEF IInv
<1>1. /\ 1 \in DOMAIN sent /\ held' = first /\ rdcmt' = first.at /\ rpc' = "hold" /\ rwr' = 0
      /\ Sound(first) /\ Placed(1) /\ Whole(first)
  <2>1. 1 \in DOMAIN sent
    BY <1>0, Numbers
  <2>2. Whole(first) /\ Sound(first) /\ Placed(1) /\ buf[Cell(first.at)] = first
    BY <1>0, <2>1, Spots, FirstInBuffer
  <2> QED
    BY <2>1, <2>2 DEF TakeAt
<1>2. held = Nil /\ First = rdcmt /\ First' = End(held')
  <2>1. held = Nil
    BY DEF IInv, Layout, HeldInv
  <2>2. held' # Nil
    BY <1>1, SoundMessage
  <2> QED
    BY <2>1, <2>2 DEF First
<1> HIDE DEF first
<1>3. first = sent[1]
  BY DEF first
<1>4. /\ sent' \in Seq(Message) /\ Len(sent') = Len(sent) - 1 /\ DOMAIN sent' = 1 .. Len(sent) - 1
      /\ Len(sent) \in Nat \ {0} /\ DOMAIN sent = 1 .. Len(sent)
  <2>1. sent \in Seq(Message) /\ sent' = Tail(sent) /\ Len(sent) \in Nat \ {0}
    BY <1>0, <1>1, Numbers, TailIsSubSeq DEF TakeAt, Layout, TypeOK
  <2>2. Tail(sent) \in Seq(Message) /\ Len(Tail(sent)) = Len(sent) - 1
    BY <2>1, HeadTailProperties
  <2> QED
    BY <2>1, <2>2
<1>5. \A i \in DOMAIN sent' : i + 1 \in DOMAIN sent /\ sent'[i] = sent[i + 1] /\ i \in Nat
  <2>1. sent \in Seq(Message) /\ sent' = SubSeq(sent, 2, Len(sent))
    BY <1>0 DEF TakeAt, Layout, TypeOK
  <2> QED
    BY <1>4, <2>1
<1>6. \A i \in DOMAIN sent : i # 1 => i - 1 \in DOMAIN sent' /\ sent[i] = sent'[i - 1]
  BY <1>4, <1>5
<1>7. \A i \in 1 .. Len(sent) : Before(i)' = Before(i + 1)
  <2>1. TAKE i \in 1 .. Len(sent)
  <2>2. CASE i = 1
    BY <1>2, <1>1, <1>3, <2>2 DEF Before
  <2>3. CASE i # 1
    <3>1. i - 1 \in DOMAIN sent' /\ i \in DOMAIN sent /\ sent[i] = sent'[i - 1] /\ i \in Nat /\ i + 1 # 1
      BY <1>4, <1>6, <2>3
    <3>2. Before(i)' = End(sent'[i - 1])
      BY <2>3 DEF Before, End
    <3>3. Before(i + 1) = End(sent[i])
      BY <3>1 DEF Before
    <3> QED
      BY <3>1, <3>2, <3>3
  <2> QED
    BY <2>2, <2>3
<1>8. /\ wrpos' = wrpos /\ wrcmt' = wrcmt /\ roundend' = roundend /\ buf' = buf
      /\ wpc' = wpc /\ wmsg' = wmsg /\ wold' = wold
      /\ first.at \in Nat /\ End(first) \in Nat /\ first.at < End(first) /\ rdcmt <= first.at
      /\ End(first) <= wrpos /\ first.at < wrcmt /\ first \in Message
  BY <1>0, <1>1, <1>3, Spots, SoundMessage, Numbers, FirstPlace DEF writerVars, Committed
<1>9. TypeOK'
  <2>1. TypeOK
    BY <1>0 DEF Layout
  <2>2. rdcmt' <= wrcmt' /\ wrpos' <= rdcmt' + (N - 1) /\ rdcmt' \in Nat
    BY <1>0, <1>1, <1>8, Numbers DEF TypeOK
  <2> QED
    BY <1>1, <1>4, <1>8, <2>1, <2>2 DEF TypeOK
<1>10. SentInv'
  <2>1. \A i \in DOMAIN sent' : Sound(sent'[i]) /\ Placed(i)'
    <3>1. TAKE i \in DOMAIN sent'
    <3>2. i + 1 \in DOMAIN sent /\ sent'[i] = sent[i + 1] /\ Before(i)' = Before(i + 1)
      BY <1>4, <1>5, <1>7
    <3>3. Sound(sent[i + 1]) /\ Placed(i + 1)
      BY <1>0, <3>2, Spots
    <3> QED
      BY <3>2, <3>3 DEF Placed
  <2>2. \A i, j \in DOMAIN sent' : i < j => End(sent'[i]) <= sent'[j].at
    <3>1. TAKE i, j \in DOMAIN sent'
    <3>2. /\ i + 1 \in DOMAIN sent /\ sent'[i] = sent[i + 1] /\ j + 1 \in DOMAIN sent
          /\ sent'[j] = sent[j + 1] /\ i \in Nat /\ j \in Nat
      BY <1>5
    <3> QED
      BY <1>0, <3>2, Order
  <2>3. \A i \in DOMAIN sent' : First' <= sent'[i].at /\ End(sent'[i]) <= wrpos'
    <3>1. TAKE i \in DOMAIN sent'
    <3>2. i + 1 \in DOMAIN sent /\ sent'[i] = sent[i + 1] /\ i \in Nat /\ 1 < i + 1
      BY <1>4, <1>5
    <3>3. End(sent[1]) <= sent[i + 1].at /\ End(sent[i + 1]) <= wrpos
      BY <1>0, <1>1, <3>2, Order, Spots
    <3> QED
      BY <1>2, <1>1, <1>3, <1>8, <3>2, <3>3
  <2>4. wrpos' = Before(Len(sent) + 1)
    BY <1>0, <1>8 DEF Layout, SentInv
  <2>5. PICK n \in 1 .. Len(sent) : n = Len(sent)
    BY <1>4
  <2>6. n = Len(sent') + 1 /\ Before(n)' = wrpos'
    BY <1>4, <1>7, <2>4, <2>5
  <2>7. Cell(First') > 0
    BY <1>2, <1>1, SoundMessage
  <2> QED
    BY <2>1, <2>2, <2>3, <2>6, <2>7 DEF SentInv, Placed, Before, First, Sound, End, WrapsAt, Cell
<1>11. HeldInv'
  BY <1>1, SoundMessage DEF HeldInv, Nil
<1>12. LapInv'
  <2>1. SUFFICES ASSUME NEW i \in DOMAIN sent'
                 PROVE  Base(sent'[i].at) = Base(rdcmt') \/ \E j \in 1 .. i : WrapsAt(sent'[j].at)
    BY DEF LapInv, Base, Cell, WrapsAt
  <2>2. i + 1 \in DOMAIN sent /\ sent'[i] = sent[i + 1] /\ i \in Nat /\ 1 < i + 1
    BY <1>4, <1>5
  <2>3. CASE WrapsAt(first.at)
    <3>1. Base(sent[i + 1].at) = first.at /\ Base(first.at) = first.at
      BY <1>0, <1>1, <1>3, <2>2, <2>3, Beyond
    <3> QED
      BY <1>1, <2>2, <3>1
  <2>4. CASE ~WrapsAt(first.at)
    <3>1. first.at = rdcmt
      BY <1>2, <1>1, <1>3, <2>4 DEF Placed, Before
    <3>2. CASE Base(sent[i + 1].at) = Base(rdcmt)
      BY <1>1, <2>2, <3>1, <3>2
    <3>3. CASE \E j \in 1 .. i + 1 : WrapsAt(sent[j].at)
      <4>1. PICK j \in 1 .. i + 1 : WrapsAt(sent[j].at)
        BY <3>3
      <4>2. j # 1 /\ j \in Nat
        BY <1>3, <2>2, <2>4, <4>1
      <4>3. j - 1 \in 1 .. i /\ j - 1 \in DOMAIN sent'
        BY <1>4, <2>2, <4>1, <4>2
      <4>4. sent'[j - 1] = sent[j]
        BY <1>5, <4>2, <4>3
      <4> QED
        BY <4>1, <4>3, <4>4
    <3> QED
      BY <1>0, <2>2, <3>2, <3>3 DEF Layout, LapInv
  <2> QED
    BY <2>3, <2>4
<1>13. CommitInv'
  <2>1. wrcmt # First
    BY <1>0, <1>2, <1>8, Numbers
  <2>2. PICK i \in DOMAIN sent : wrcmt = End(sent[i])
    BY <2>1 DEF IInv, CommitInv
  <2>3. CASE i = 1
    BY <1>2, <1>1, <1>3, <1>8, <2>2, <2>3 DEF CommitInv
  <2>4. CASE i # 1
    <3>1. i - 1 \in DOMAIN sent' /\ sent[i] = sent'[i - 1] /\ 1 < i /\ i \in Nat
      BY <1>4, <1>6, <2>4
    <3>2. End(first) <= sent[i].at /\ sent[i].at < End(sent[i]) /\ sent[i].at \in Nat /\ End(sent[i]) \in Nat
      BY <1>0, <1>1, <1>3, <3>1, Order, Spots
    <3>3. First' <= wrcmt'
      BY <1>2, <1>1, <1>8, <2>2, <3>2
    <3> QED
      BY <1>8, <2>2, <3>1, <3>3 DEF CommitInv, End
  <2> QED
    BY <2>3, <2>4
<1>14. \A m : (Committed(m)' <=> Committed(m)) /\ (Whole(m)' <=> Whole(m))
  BY <1>8 DEF Committed, Whole
<1>15. WriterInv'
  <2>1. \A w \in Writers : wpc[w] # "idle" => \E i \in DOMAIN sent' : Works(w, i)'
    <3>1. TAKE w \in Writers
    <3>2. HAVE wpc[w] # "idle"
    <3>3. PICK i \in DOMAIN sent : Works(w, i)
      BY <3>2 DEF IInv, WriterInv
    <3>4. i # 1
      BY <3>3 DEF Works
    <3>5. i - 1 \in DOMAIN sent' /\ sent'[i - 1] = sent[i] /\ Before(i - 1)' = Before(i)
      BY <1>4, <1>6, <1>7, <3>4
    <3>6. Works(w, i - 1)'
      BY <1>8, <1>14, <3>3, <3>5 DEF Works
    <3> QED
      BY <3>5, <3>6
  <2> QED
    BY <1>8, <2>1 DEF IInv, WriterInv
<1>16. RoundInv'
  <2>1. SUFFICES ASSUME NEW i \in DOMAIN sent', Committed(sent[i])', WrapsAt(sent'[i].at)
                 PROVE  roundend' = Before(i)'
    BY DEF RoundInv, WrapsAt, Cell
  <2>2. i + 1 \in DOMAIN sent /\ sent'[i] = sent[i + 1] /\ Before(i)' = Before(i + 1)
    BY <1>4, <1>5, <1>7
  <2>3. Committed(sent[i + 1])
    BY <1>8, <2>1, <2>2 DEF Committed
  <2> QED
    BY <1>8, <2>1, <2>2, <2>3 DEF IInv, RoundInv
<1>17. ReaderInv'
  BY <1>1 DEF ReaderInv
<1>18. WholeMessages'
  <2>1. \A i \in DOMAIN sent' : Committed(sent[i])' => Whole(sent[i])'
    <3>1. TAKE i \in DOMAIN sent'
    <3>2. i + 1 \in DOMAIN sent /\ sent'[i] = sent[i + 1]
      BY <1>5
    <3> QED
      BY <1>8, <3>2 DEF IInv, WholeMessages, Committed, Whole
  <2>2. Whole(held)'
    BY <1>1, <1>8 DEF Whole
  <2> QED
    BY <2>1, <2>2 DEF WholeMessages
<1> QED
  BY <1>9, <1>10, <1>11, <1>12, <1>13, <1>15, <1>16, <1>17, <1>18 DEF IInv, Layout

(* read_get takes the first message, and nothing else. *)
LEMMA NextIsFirst ==
    ASSUME IInv, ReadNext
    PROVE  sent # <<>> /\ Committed(sent[1]) /\ sent[1].at = rdcmt
<1>0. Layout
  BY DEF IInv
<1>1. held = Nil /\ First = rdcmt /\ rdcmt < wrcmt /\ Cell(wrcmt) > Cell(rdcmt)
  BY DEF ReadNext, IInv, Layout, HeldInv, First
<1>2. PICK k \in DOMAIN sent : wrcmt = End(sent[k])
  BY <1>0, <1>1, Numbers DEF IInv, CommitInv
<1>3. 1 \in DOMAIN sent /\ sent # <<>> /\ 1 <= k
  BY <1>0, <1>2, Numbers
<1>4. Committed(sent[1])
  BY <1>0, <1>2, <1>3, Order, Spots DEF Committed
<1>5. ~WrapsAt(sent[1].at)
  <2>1. SUFFICES ASSUME WrapsAt(sent[1].at) PROVE FALSE
    OBVIOUS
  <2>2. Cell(wrcmt) < Cell(rdcmt)
    BY <1>0, <1>2, <1>3, <2>1, Beyond
  <2>3. Cell(wrcmt) \in Nat /\ Cell(rdcmt) \in Nat
    <3>1. wrcmt \in Nat /\ rdcmt \in Nat
      BY <1>0, Numbers
    <3> QED
      BY <3>1, Laps
  <2> QED
    BY <1>1, <2>2, <2>3
<1>6. sent[1].at = Before(1) /\ Before(1) = First
  BY <1>0, <1>3, <1>5, Spots DEF Placed, Before
<1> QED
  BY <1>1, <1>3, <1>4, <1>6

LEMMA ReadNextStep ==
    ASSUME IInv, ReadNext
    PROVE  IInv'
<1>1. sent # <<>> /\ Committed(sent[1]) /\ sent[1].at = rdcmt
  BY NextIsFirst
<1>2. TakeAt(sent[1].at)
  BY <1>1 DEF ReadNext
<1> QED
  BY <1>1, <1>2, TakeStep DEF ReadNext

(* So does a reader that has looked for the end of the lap. *)
LEMMA RoundIsFirst ==
    ASSUME IInv, rpc = "round"
    PROVE  /\ ~ReadsEmpty
           /\ sent # <<>> /\ Committed(sent[1])
           /\ sent[1].at = IF roundend > rdcmt THEN rdcmt ELSE LapStart
<1>0. Layout
  BY DEF IInv
<1>1. held = Nil /\ First = rdcmt
  BY DEF IInv, Layout, HeldInv, First
<1>2. PICK i \in DOMAIN sent : WrapsAt(sent[i].at) /\ sent[i].at < rwr /\ rwr <= wrcmt
  BY DEF IInv, ReaderInv
<1>3. /\ sent[i].at \in Nat /\ i \in 1 .. Len(sent) /\ Before(i) \in Nat /\ First <= Before(i)
      /\ Before(i) < sent[i].at /\ sent[i].at = NextLap(rdcmt) /\ Cell(rdcmt) > 0
  BY <1>0, <1>1, <1>2, Spots, Befores, WrapPlace, FirstPlace, Numbers
<1>4. Committed(sent[i]) /\ roundend = Before(i)
  <2>1. Committed(sent[i])
    BY <1>0, <1>2, <1>3, Numbers DEF Committed
  <2> QED
    BY <1>2, <2>1 DEF IInv, RoundInv
<1>5. LapStart = sent[i].at
  BY <1>0, <1>3, Numbers, Laps DEF LapStart, WrapsAt
<1>6. ~ReadsEmpty
  BY <1>0, <1>1, <1>2, <1>3, <1>4, <1>5, Numbers DEF ReadsEmpty
<1>7. 1 \in DOMAIN sent /\ sent # <<>> /\ 1 <= i
  BY <1>0, <1>2, Numbers
<1>8. Committed(sent[1])
  <2>1. sent[1].at <= sent[i].at /\ sent[1].at \in Nat
    BY <1>0, <1>2, <1>7, Order, Spots
  <2>2. sent[i].at < wrcmt /\ wrcmt \in Nat
    BY <1>0, <1>4, Numbers DEF Committed
  <2> QED
    BY <1>3, <2>1, <2>2 DEF Committed
<1>9. CASE i = 1
  <2>1. roundend = rdcmt
    BY <1>1, <1>4, <1>9 DEF Before
  <2> QED
    BY <1>0, <1>5, <1>6, <1>7, <1>8, <1>9, <2>1, Numbers
<1>10. CASE i # 1
  <2>1. ~WrapsAt(sent[1].at)
    BY <1>0, <1>2, <1>7, <1>10, OneWrap
  <2>2. sent[1].at = rdcmt
    BY <1>0, <1>1, <1>7, <2>1, Spots DEF Placed, Before
  <2>3. i - 1 \in DOMAIN sent /\ Before(i) = End(sent[i - 1])
    BY <1>0, <1>3, <1>10, Numbers DEF Before
  <2>4. roundend > rdcmt
    BY <1>0, <1>1, <1>4, <2>3, Spots, Numbers
  <2> QED
    BY <1>6, <1>7, <1>8, <2>2, <2>4
<1> QED
  BY <1>9, <1>10

LEMMA ReadRoundStep ==
    ASSUME IInv, ReadRound
    PROVE  IInv'
<1>1. rpc = "round"
  BY DEF ReadRound
<1>2. /\ ~ReadsEmpty /\ sent # <<>> /\ Committed(sent[1])
      /\ sent[1].at = IF roundend > rdcmt THEN rdcmt ELSE LapStart
  BY <1>1, RoundIsFirst
<1>3. TakeAt(sent[1].at)
  BY <1>2 DEF ReadRound
<1> QED
  BY <1>1, <1>2, <1>3, TakeStep DEF ReadRound

(* Steps that leave the writers and the messages alone. *)
LEMMA ReadLookStep ==
    ASSUME IInv, ReadLook
    PROVE  IInv'
<1>0. Layout
  BY DEF IInv
<1>1. /\ held = Nil /\ First = rdcmt /\ rdcmt < wrcmt /\ Cell(wrcmt) <= Cell(rdcmt)
      /\ rpc' = "round" /\ rwr' = wrcmt
  BY DEF ReadLook, IInv, Layout, HeldInv, First
<1>2. /\ wrpos' = wrpos /\ wrcmt' = wrcmt /\ roundend' = roundend /\ rdcmt' = rdcmt /\ buf' = buf
      /\ wpc' = wpc /\ wmsg' = wmsg /\ wold' = wold /\ held' = held /\ sent' = sent
  BY DEF ReadLook, writerVars
<1>3. PICK k \in DOMAIN sent : wrcmt = End(sent[k])
  BY <1>0, <1>1, Numbers DEF IInv, CommitInv
<1>4. Base(sent[k].at) # Base(rdcmt)
  <2>1. SUFFICES ASSUME Base(sent[k].at) = Base(rdcmt) PROVE FALSE
    OBVIOUS
  <2>2. Base(wrcmt) = Base(rdcmt)
    BY <1>0, <1>3, <2>1, Spots, SoundMessage
  <2>3. wrcmt = Base(rdcmt) + Cell(wrcmt) /\ Cell(wrcmt) \in Nat /\ Cell(rdcmt) \in Nat
        /\ rdcmt = Base(rdcmt) + Cell(rdcmt) /\ Base(rdcmt) \in Nat
    BY <1>0, <2>2, Numbers, Laps
  <2> QED
    BY <1>1, <2>3
<1>5. PICK j \in 1 .. k : WrapsAt(sent[j].at)
  BY <1>0, <1>4 DEF Layout, LapInv
<1>6. j \in DOMAIN sent /\ sent[j].at < wrcmt
  <2>1. j \in DOMAIN sent /\ j <= k
    BY <1>0, <1>3, <1>5, Numbers
  <2> QED
    BY <1>0, <1>3, <2>1, Order, Spots
<1>7. ReaderInv'
  BY <1>0, <1>1, <1>2, <1>5, <1>6, Numbers DEF ReaderInv, WrapsAt, Cell
<1>8. TypeOK'
  BY <1>0, <1>1, <1>2 DEF Layout, TypeOK
<1>9. HeldInv'
  BY <1>1, <1>2 DEF HeldInv
<1>10. (SentInv /\ LapInv /\ CommitInv /\ WriterInv /\ RoundInv /\ WholeMessages)'
  BY <1>2 DEF IInv, Layout, SentInv, LapInv, CommitInv, WriterInv, RoundInv, WholeMessages,
              Placed, First, Before, Works, Committed, Whole
<1> QED
  BY <1>7, <1>8, <1>9, <1>10 DEF IInv, Layout

LEMMA ReadCmtStep ==
    ASSUME IInv, ReadCmt
    PROVE  IInv'
<1>0. Layout
  BY DEF IInv
<1>1. held # Nil /\ Sound(held) /\ held.at = rdcmt /\ held' = Nil /\ rpc' = "idle"
  BY DEF ReadCmt, IInv, Layout, HeldInv
<1>2. /\ wrpos' = wrpos /\ wrcmt' = wrcmt /\ roundend' = roundend /\ buf' = buf
      /\ wpc' = wpc /\ wmsg' = wmsg /\ wold' = wold /\ rwr' = rwr /\ sent' = sent
  BY DEF ReadCmt, writerVars
<1>3. rdcmt' = End(held) /\ First = End(held) /\ First' = First
  BY <1>1 DEF ReadCmt, First, End
<1>4. Base(rdcmt') = Base(rdcmt) /\ rdcmt' \in Nat /\ rdcmt < rdcmt'
  BY <1>1, <1>3, SoundMessage
<1>5. First <= wrcmt
  BY DEF IInv, CommitInv
<1>6. TypeOK'
  <2>1. Nil \in Message
    BY SizeAssumption, MaxPosAssumption DEF Nil, Message
  <2>2. rdcmt' <= wrcmt' /\ wrpos' <= rdcmt' + (N - 1)
    BY <1>0, <1>2, <1>3, <1>4, <1>5, Numbers
  <2> QED
    BY <1>0, <1>1, <1>2, <1>4, <2>1, <2>2 DEF Layout, TypeOK
<1>7. HeldInv' /\ ReaderInv'
  BY <1>1 DEF HeldInv, ReaderInv
<1>8. \A i : Before(i)' = Before(i)
  BY <1>2, <1>3 DEF Before
<1>9. SentInv' /\ CommitInv'
  <2>1. wrpos' = Before(Len(sent) + 1)'
    BY <1>2, <1>8 DEF IInv, Layout, SentInv
  <2> QED
    BY <1>2, <1>3, <1>8, <2>1 DEF IInv, Layout, SentInv, Placed, CommitInv
<1>10. LapInv'
  BY <1>2, <1>4 DEF IInv, Layout, LapInv, Base, Cell, WrapsAt
<1>11. WriterInv' /\ RoundInv'
  BY <1>2, <1>8 DEF IInv, WriterInv, RoundInv, Works, Committed, Whole
<1>12. WholeMessages'
  <2>1. Whole(held)'
    BY <1>1 DEF Whole, Nil
  <2> QED
    BY <1>2, <2>1 DEF IInv, WholeMessages, Committed, Whole
<1> QED
  BY <1>6, <1>7, <1>9, <1>10, <1>11, <1>12 DEF IInv, Layout

-----------------------------------------------------------------------------
(* The writers' steps.                                                     *)

(* Where a new message goes. *)
LEMMA NewPlace ==
    ASSUME Layout, NEW len \in Lens, Fits(len), Place(wrpos, len) + len <= MaxPos,
           NEW m, m = [at |-> Place(wrpos, len), len |-> len]
    PROVE  /\ Sound(m) /\ wrpos <= m.at /\ End(m) = Place(wrpos, len) + len
           /\ End(m) <= rdcmt + (N - 1)
           /\ IF WrapsAt(m.at) THEN m.at = NextLap(wrpos) ELSE m.at = wrpos
<1>1. /\ wrpos \in Nat /\ rdcmt \in Nat /\ N \in Nat /\ N > 1 /\ rdcmt <= wrpos
      /\ len \in Nat /\ 0 < len /\ len <= N /\ MaxPos \in Nat
  BY Numbers, LensAssumption, MaxPosAssumption
<1>2. Cell(wrpos) > 0
  <2>1. wrpos = Before(Len(sent) + 1) /\ Len(sent) + 1 \in 1 .. Len(sent) + 1
    BY Numbers DEF Layout, SentInv
  <2> QED
    BY <2>1, Befores
<1>3. /\ Cell(wrpos) \in Nat /\ Cell(wrpos) < N /\ NextLap(wrpos) \in Nat
      /\ wrpos = Base(wrpos) + Cell(wrpos) /\ NextLap(wrpos) = Base(wrpos) + N
      /\ Base(wrpos) \in Nat /\ Cell(NextLap(wrpos)) = 0
  BY <1>1, Laps, LapBegins
<1>4. m.at = Place(wrpos, len) /\ m.len = len /\ End(m) = Place(wrpos, len) + len
  BY DEF End
<1>5. End(m) <= rdcmt + (N - 1)
  BY <1>4 DEF Fits
<1>6. CASE Cell(wrpos) + len <= N - 1
  <2>1. m.at = wrpos /\ ~WrapsAt(m.at)
    BY <1>2, <1>4, <1>6 DEF Place, WrapsAt
  <2>2. m \in Message
    BY <1>1, <1>4, <2>1 DEF Message
  <2> QED
    BY <1>1, <1>3, <1>4, <1>5, <1>6, <2>1, <2>2 DEF Sound
<1>7. CASE ~(Cell(wrpos) + len <= N - 1)
  <2>1. m.at = NextLap(wrpos) /\ WrapsAt(m.at)
    BY <1>3, <1>4, <1>7 DEF Place, WrapsAt
  <2>2. m \in Message
    BY <1>1, <1>3, <1>4, <2>1 DEF Message
  <2>3. wrpos < m.at
    BY <1>1, <1>3, <2>1
  <2>4. len < N
    BY <1>1, <1>3, <1>4, <1>5, <2>1, <2>3
  <2> QED
    BY <1>1, <1>3, <1>4, <1>5, <2>1, <2>2, <2>3, <2>4 DEF Sound
<1> QED
  BY <1>6, <1>7

LEMMA ReserveStep ==
    ASSUME IInv, NEW w \in Writers, Reserve(w)
    PROVE  IInv'
<1>0. Layout
  BY DEF IInv
<1>1. PICK len \in Lens :
        /\ Fits(len) /\ Place(wrpos, len) + len <= MaxPos
        /\ wrpos' = Place(wrpos, len) + len
        /\ wmsg' = [wmsg EXCEPT ![w] = [at |-> Place(wrpos, len), len |-> len]]
        /\ wold' = [wold EXCEPT ![w] = wrpos]
        /\ sent' = Append(sent, [at |-> Place(wrpos, len), len |-> len])
        /\ To(w, "idle", IF WrapsAt(Place(wrpos, len)) THEN "round" ELSE "fill")
        /\ UNCHANGED <<wrcmt, roundend, rdcmt, buf, readerVars>>
  BY DEF Reserve
<1>n. PICK n \in Nat : n = Len(sent) + 1
  BY <1>0, Numbers
<1> DEFINE m == [at |-> Place(wrpos, len), len |-> len]
<1>2. /\ Sound(m) /\ wrpos <= m.at /\ wrpos' = End(m) /\ End(m) <= rdcmt + (N - 1)
      /\ IF WrapsAt(m.at) THEN m.at = NextLap(wrpos) ELSE m.at = wrpos
  BY <1>0, <1>1, NewPlace
<1>3. /\ wmsg' = [wmsg EXCEPT ![w] = m] /\ wold' = [wold EXCEPT ![w] = wrpos]
      /\ wpc[w] = "idle" /\ wpc' = [wpc EXCEPT ![w] = IF WrapsAt(m.at) THEN "round" ELSE "fill"]
      /\ wrcmt' = wrcmt /\ roundend' = roundend /\ rdcmt' = rdcmt /\ buf' = buf
      /\ rpc' = rpc /\ rwr' = rwr /\ held' = held
  BY <1>1 DEF To, readerVars
<1>4. sent' = Append(sent, m)
  BY <1>1
<1> HIDE DEF m
<1>5. /\ m \in Message /\ m.at \in Nat /\ End(m) \in Nat /\ m.at < End(m)
  BY <1>2, SoundMessage
<1>6. /\ sent' \in Seq(Message) /\ Len(sent') = n /\ DOMAIN sent' = 1 .. n /\ n \in Nat
      /\ DOMAIN sent = 1 .. n - 1 /\ Len(sent) = n - 1 /\ sent'[n] = m
      /\ \A i \in DOMAIN sent : i \in Nat /\ i \in DOMAIN sent' /\ sent'[i] = sent[i] /\ i < n
  <2>1. sent \in Seq(Message) /\ Len(sent) \in Nat /\ DOMAIN sent = 1 .. Len(sent)
    BY <1>0, Numbers DEF Layout, TypeOK
  <2>2. /\ sent' \in Seq(Message) /\ Len(sent') = Len(sent) + 1
        /\ \A i \in 1 .. Len(sent) : sent'[i] = sent[i]
        /\ sent'[Len(sent) + 1] = m
    BY <1>4, <1>5, <2>1, AppendProperties
  <2> QED
    BY <1>n, <2>1, <2>2
<1>7. First' = First /\ wrpos = Before(n) /\ wrcmt <= wrpos
  BY <1>0, <1>3, <1>n, Numbers DEF First, Layout, SentInv
<1>8. \A i \in 1 .. n : Before(i)' = Before(i)
  BY <1>6, <1>7 DEF Before, End
<1>9. \A i \in DOMAIN sent : End(sent[i]) <= m.at /\ sent[i].at < m.at /\ sent[i] # m
  BY <1>0, <1>2, <1>5, Spots, Numbers
<1>10. \A i \in DOMAIN sent' : i \in DOMAIN sent \/ (i = n /\ sent'[i] = m)
  BY <1>6
<1>11. TypeOK'
  <2>1. wpc' \in [Writers -> {"idle", "round", "fill", "reload", "commit"}]
    BY <1>0, <1>3 DEF Layout, TypeOK
  <2>2. wmsg' \in [Writers -> Message] /\ wold' \in [Writers -> Nat]
    BY <1>0, <1>3, <1>5, Numbers DEF Layout, TypeOK
  <2>3. wrpos' \in Nat /\ wrcmt' <= wrpos' /\ wrpos' <= rdcmt' + (N - 1)
    BY <1>0, <1>2, <1>3, <1>5, Numbers
  <2> QED
    BY <1>0, <1>3, <1>6, <2>1, <2>2, <2>3 DEF Layout, TypeOK
<1>12. SentInv'
  <2>1. \A i \in DOMAIN sent' : Sound(sent'[i]) /\ Placed(i)'
    <3>1. TAKE i \in DOMAIN sent'
    <3>2. CASE i \in DOMAIN sent
      <4>1. Sound(sent[i]) /\ Placed(i) /\ sent'[i] = sent[i] /\ Before(i)' = Before(i)
        BY <1>0, <1>6, <1>8, <3>2, Spots
      <4> QED
        BY <4>1 DEF Placed
    <3>3. CASE i = n /\ sent'[i] = m
      <4>1. Before(i)' = wrpos
        BY <1>6, <1>7, <1>8, <3>3
      <4> QED
        BY <1>2, <3>3, <4>1 DEF Placed
    <3> QED
      BY <1>10, <3>2, <3>3
  <2>2. \A i, j \in DOMAIN sent' : i < j => End(sent'[i]) <= sent'[j].at
    <3>1. TAKE i, j \in DOMAIN sent'
    <3>2. HAVE i < j
    <3>3. i \in DOMAIN sent /\ sent'[i] = sent[i]
      BY <1>6, <3>2
    <3> QED
      BY <1>0, <1>6, <1>9, <1>10, <3>2, <3>3, Order
  <2>3. \A i \in DOMAIN sent' : First' <= sent'[i].at /\ End(sent'[i]) <= wrpos'
    <3>1. TAKE i \in DOMAIN sent'
    <3>2. CASE i \in DOMAIN sent
      BY <1>0, <1>2, <1>5, <1>6, <1>7, <1>9, <3>2, Spots
    <3>3. CASE i = n /\ sent'[i] = m
      <4>1. First <= wrpos /\ First \in Nat /\ wrpos \in Nat
        BY <1>0, <1>6, <1>7, Befores, FirstPlace, Numbers
      <4> QED
        BY <1>2, <1>5, <1>7, <3>3, <4>1
    <3> QED
      BY <1>10, <3>2, <3>3
  <2>4. (wrpos = Before(Len(sent) + 1))'
    <3>1. Len(sent') + 1 - 1 = n /\ Len(sent') + 1 # 1
      BY <1>6
    <3> QED
      BY <1>2, <1>6, <3>1 DEF Before
  <2>5. Cell(First') > 0
    BY <1>0, <1>7, FirstPlace
  <2> QED
    BY <2>1, <2>2, <2>3, <2>4, <2>5 DEF SentInv, Sound, End, Cell
<1>13. HeldInv'
  BY <1>0, <1>3 DEF Layout, HeldInv
<1>14. LapInv'
  <2>1. SUFFICES ASSUME NEW i \in DOMAIN sent'
                 PROVE  Base(sent'[i].at) = Base(rdcmt) \/ \E j \in 1 .. i : WrapsAt(sent'[j].at)
    BY <1>3 DEF LapInv, Base, Cell, WrapsAt
  <2>2. \A k \in DOMAIN sent :
            Base(sent[k].at) = Base(rdcmt) \/ \E j \in 1 .. k : WrapsAt(sent'[j].at)
    <3>1. TAKE k \in DOMAIN sent
    <3>2. CASE \E j \in 1 .. k : WrapsAt(sent[j].at)
      <4>1. PICK j \in 1 .. k : WrapsAt(sent[j].at)
        BY <3>2
      <4>2. sent'[j] = sent[j]
        BY <1>6, <4>1
      <4> QED
        BY <4>1, <4>2
    <3> QED
      BY <1>0, <3>2 DEF Layout, LapInv
  <2>3. CASE i \in DOMAIN sent
    BY <1>6, <2>2, <2>3
  <2>4. CASE i = n /\ WrapsAt(m.at)
    BY <1>6, <2>4
  <2>5. CASE i = n /\ ~WrapsAt(m.at)
    <3>1. m.at = Before(n) /\ sent'[i] = m
      BY <1>2, <1>6, <1>7, <2>5
    <3>2. CASE n = 1
      <4>1. m.at = First
        BY <3>1, <3>2 DEF Before
      <4> QED
        BY <1>0, <3>1, <4>1, FirstPlace
    <3>3. CASE n # 1
      <4>1. n - 1 \in DOMAIN sent /\ m.at = End(sent[n - 1])
        BY <1>6, <3>1, <3>3 DEF Before
      <4>2. Base(m.at) = Base(sent[n - 1].at)
        BY <1>0, <4>1, Spots, SoundMessage
      <4>3. \A j \in 1 .. n - 1 : j \in 1 .. i
        BY <1>6, <2>5
      <4> QED
        BY <2>2, <3>1, <4>1, <4>2, <4>3
    <3> QED
      BY <3>2, <3>3
  <2> QED
    BY <1>10, <2>3, <2>4, <2>5
<1>15. CommitInv'
  BY <1>3, <1>6, <1>7 DEF IInv, CommitInv, End
<1>16. \A l : (Committed(l)' <=> Committed(l)) /\ (Whole(l)' <=> Whole(l))
  BY <1>3 DEF Committed, Whole
<1>17. ~Committed(m)
  BY <1>0, <1>2, <1>5, Numbers DEF Committed
<1>18. WriterInv'
  <2>1. wmsg'[w] = m /\ wold'[w] = wrpos /\ wpc'[w] = IF WrapsAt(m.at) THEN "round" ELSE "fill"
    BY <1>0, <1>3 DEF Layout, TypeOK
  <2>2. \A v \in Writers \ {w} : wmsg'[v] = wmsg[v] /\ wold'[v] = wold[v] /\ wpc'[v] = wpc[v]
    BY <1>0, <1>3 DEF Layout, TypeOK
  <2>3. \A v \in Writers \ {w} : wpc[v] # "idle" => \E i \in DOMAIN sent : Works(v, i) /\ Works(v, i)'
    <3>1. TAKE v \in Writers \ {w}
    <3>2. HAVE wpc[v] # "idle"
    <3>3. PICK i \in DOMAIN sent : Works(v, i)
      BY <3>2 DEF IInv, WriterInv
    <3>4. sent'[i] = sent[i] /\ Before(i)' = Before(i)
      BY <1>6, <1>8, <3>3
    <3>5. Works(v, i)'
      BY <1>3, <1>16, <2>2, <3>3, <3>4 DEF Works
    <3> QED
      BY <3>3, <3>5
  <2>4. Works(w, n)'
    <3>1. sent'[n] = m /\ Before(n)' = wrpos
      BY <1>6, <1>7, <1>8
    <3> QED
      BY <1>16, <1>17, <2>1, <3>1 DEF Works
  <2>5. \A v \in Writers \ {w} : wpc[v] # "idle" => wmsg'[v] # m
    BY <1>9, <2>2, <2>3 DEF Works
  <2>6. \A v \in Writers : wpc'[v] # "idle" => \E i \in DOMAIN sent' : Works(v, i)'
    BY <1>6, <2>2, <2>3, <2>4
  <2>7. \A u, v \in Writers :
            u # v /\ wpc'[u] # "idle" /\ wpc'[v] # "idle" => wmsg'[u] # wmsg'[v]
    BY <2>1, <2>2, <2>5 DEF IInv, WriterInv
  <2> QED
    BY <2>6, <2>7 DEF WriterInv
<1>19. RoundInv'
  <2>1. SUFFICES ASSUME NEW i \in DOMAIN sent', Committed(sent[i])', WrapsAt(sent'[i].at)
                 PROVE  roundend' = Before(i)'
    BY DEF RoundInv, WrapsAt, Cell
  <2>2. i \in DOMAIN sent
    BY <1>3, <1>10, <1>17, <2>1 DEF Committed
  <2>3. sent'[i] = sent[i] /\ Before(i)' = Before(i) /\ Committed(sent[i])
    BY <1>3, <1>6, <1>8, <2>1, <2>2 DEF Committed
  <2> QED
    BY <1>3, <2>1, <2>2, <2>3 DEF IInv, RoundInv
<1>20. ReaderInv'
  BY <1>3, <1>6 DEF IInv, ReaderInv
<1>21. WholeMessages'
  <2>1. \A i \in DOMAIN sent' : Committed(sent[i])' => Whole(sent[i])'
    <3>1. TAKE i \in DOMAIN sent'
    <3>2. HAVE Committed(sent[i])'
    <3>3. i \in DOMAIN sent /\ sent'[i] = sent[i]
      BY <1>3, <1>6, <1>10, <1>17, <3>2 DEF Committed
    <3> QED
      BY <1>3, <3>2, <3>3 DEF IInv, WholeMessages, Committed, Whole
  <2> QED
    BY <1>3, <2>1 DEF IInv, WholeMessages, Whole
<1> QED
  BY <1>11, <1>12, <1>13, <1>14, <1>15, <1>18, <1>19, <1>20, <1>21 DEF IInv, Layout

(* Writers work on different messages. *)
LEMMA Workers ==
    ASSUME IInv, NEW v \in Writers, NEW w \in Writers, v # w, wpc[v] # "idle", wpc[w] # "idle",
           NEW i, NEW j, Works(v, i), Works(w, j)
    PROVE  i # j
BY DEF IInv, WriterInv, Works

(* A step that reserves, commits and reads nothing leaves the layout alone. *)
LEMMA LayoutKept ==
    ASSUME IInv, UNCHANGED <<wrpos, wrcmt, rdcmt, rpc, rwr, held, sent>>
    PROVE  (SentInv /\ HeldInv /\ LapInv /\ CommitInv /\ ReaderInv)'
BY DEF IInv, Layout, SentInv, Placed, Before, First, HeldInv, LapInv, CommitInv, ReaderInv

LEMMA RoundStep ==
    ASSUME IInv, NEW w \in Writers, Round(w)
    PROVE  IInv'
<1>0. Layout
  BY DEF IInv
<1>1. /\ wpc[w] = "round" /\ wpc' = [wpc EXCEPT ![w] = "fill"] /\ roundend' = wold[w]
      /\ wrpos' = wrpos /\ wrcmt' = wrcmt /\ rdcmt' = rdcmt /\ buf' = buf /\ wmsg' = wmsg
      /\ wold' = wold /\ rpc' = rpc /\ rwr' = rwr /\ held' = held /\ sent' = sent
  BY DEF Round, To, readerVars
<1>2. wpc'[w] = "fill" /\ \A v \in Writers : v # w => wpc'[v] = wpc[v]
  BY <1>0, <1>1 DEF Layout, TypeOK
<1>3. PICK i \in DOMAIN sent : Works(w, i)
  BY <1>1 DEF IInv, WriterInv
<1>4. WrapsAt(sent[i].at) /\ roundend' = Before(i) /\ ~Committed(sent[i])
  BY <1>1, <1>3 DEF Works
<1>5. TypeOK'
  <2>1. wpc' \in [Writers -> {"idle", "round", "fill", "reload", "commit"}]
    BY <1>0, <1>1 DEF Layout, TypeOK
  <2>2. roundend' \in Nat
    BY <1>0, <1>1 DEF Layout, TypeOK
  <2> QED
    BY <1>0, <1>1, <2>1, <2>2 DEF Layout, TypeOK
<1>6. (SentInv /\ HeldInv /\ LapInv /\ CommitInv /\ ReaderInv)'
  BY <1>1, LayoutKept
<1>7. /\ \A j : Before(j)' = Before(j)
      /\ \A l : (Committed(l)' <=> Committed(l)) /\ (Whole(l)' <=> Whole(l))
  BY <1>1 DEF Before, First, Committed, Whole
<1>8. WriterInv'
  <2>1. Works(w, i)'
    BY <1>1, <1>2, <1>3, <1>4, <1>7 DEF Works
  <2>2. \A v \in Writers : v # w /\ wpc[v] # "idle" => \E j \in DOMAIN sent : Works(v, j)'
    <3>1. TAKE v \in Writers
    <3>2. HAVE v # w /\ wpc[v] # "idle"
    <3>3. PICK j \in DOMAIN sent : Works(v, j)
      BY <3>2 DEF IInv, WriterInv
    <3>4. ~WrapsAt(sent[j].at)
      BY <1>0, <1>1, <1>3, <1>4, <3>2, <3>3, Workers, OneWrap
    <3>5. Works(v, j)'
      BY <1>1, <1>2, <1>7, <3>2, <3>3, <3>4 DEF Works
    <3> QED
      BY <3>5
  <2>3. \A v \in Writers : wpc'[v] # "idle" => \E j \in DOMAIN sent' : Works(v, j)'
    BY <1>1, <1>2, <2>1, <2>2
  <2>4. \A u, v \in Writers :
            u # v /\ wpc'[u] # "idle" /\ wpc'[v] # "idle" => wmsg'[u] # wmsg'[v]
    BY <1>1, <1>2 DEF IInv, WriterInv
  <2> QED
    BY <2>3, <2>4 DEF WriterInv
<1>9. RoundInv'
  <2>1. \A j \in DOMAIN sent : ~(Committed(sent[j]) /\ WrapsAt(sent[j].at))
    BY <1>0, <1>4, OneWrap
  <2> QED
    BY <1>1, <2>1 DEF RoundInv, Committed, WrapsAt, Cell
<1>10. WholeMessages'
  BY <1>1 DEF IInv, WholeMessages, Committed, Whole
<1> QED
  BY <1>5, <1>6, <1>8, <1>9, <1>10 DEF IInv, Layout

LEMMA ReloadStep ==
    ASSUME IInv, NEW w \in Writers, Reload(w)
    PROVE  IInv'
<1>0. Layout
  BY DEF IInv
<1>1. /\ wpc[w] = "reload" /\ wpc' = [wpc EXCEPT ![w] = "commit"]
      /\ wold' = [wold EXCEPT ![w] = roundend]
      /\ wrpos' = wrpos /\ wrcmt' = wrcmt /\ roundend' = roundend /\ rdcmt' = rdcmt /\ buf' = buf
      /\ wmsg' = wmsg /\ rpc' = rpc /\ rwr' = rwr /\ held' = held /\ sent' = sent
  BY DEF Reload, To, readerVars
<1>2. /\ wpc'[w] = "commit" /\ wold'[w] = roundend
      /\ \A v \in Writers : v # w => wpc'[v] = wpc[v] /\ wold'[v] = wold[v]
  BY <1>0, <1>1 DEF Layout, TypeOK
<1>3. TypeOK'
  <2>1. wpc' \in [Writers -> {"idle", "round", "fill", "reload", "commit"}]
    BY <1>0, <1>1 DEF Layout, TypeOK
  <2>2. wold' \in [Writers -> Nat]
    BY <1>0, <1>1 DEF Layout, TypeOK
  <2> QED
    BY <1>0, <1>1, <2>1, <2>2 DEF Layout, TypeOK
<1>4. (SentInv /\ HeldInv /\ LapInv /\ CommitInv /\ ReaderInv)'
  BY <1>1, LayoutKept
<1>5. /\ \A j : Before(j)' = Before(j)
      /\ \A l : (Committed(l)' <=> Committed(l)) /\ (Whole(l)' <=> Whole(l))
  BY <1>1 DEF Before, First, Committed, Whole
<1>6. WriterInv'
  <2>1. \A v \in Writers : wpc[v] # "idle" => \E j \in DOMAIN sent : Works(v, j)'
    <3>1. TAKE v \in Writers
    <3>2. HAVE wpc[v] # "idle"
    <3>3. PICK j \in DOMAIN sent : Works(v, j)
      BY <3>2 DEF IInv, WriterInv
    <3>4. Works(v, j)'
      BY <1>1, <1>2, <1>5, <3>3 DEF Works
    <3> QED
      BY <3>4
  <2>2. \A u, v \in Writers :
            u # v /\ wpc'[u] # "idle" /\ wpc'[v] # "idle" => wmsg'[u] # wmsg'[v]
    BY <1>1, <1>2 DEF IInv, WriterInv
  <2>3. \A v \in Writers : wpc'[v] # "idle" => wpc[v] # "idle"
    BY <1>1, <1>2
  <2> QED
    BY <1>1, <2>1, <2>2, <2>3 DEF WriterInv
<1>7. RoundInv' /\ WholeMessages'
  BY <1>1, <1>5 DEF IInv, RoundInv, WholeMessages, Committed, Whole
<1> QED
  BY <1>3, <1>4, <1>6, <1>7 DEF IInv, Layout

LEMMA FillStep ==
    ASSUME IInv, NEW w \in Writers, Fill(w)
    PROVE  IInv'
<1>0. Layout
  BY DEF IInv
<1> DEFINE m == wmsg[w]
<1>1. /\ wpc[w] = "fill"
      /\ wpc' = [wpc EXCEPT ![w] = IF WrapsAt(m.at) THEN "reload" ELSE "commit"]
      /\ buf' = [c \in 0 .. N - 1 |->
                    IF c - Cell(m.at) \in 0 .. m.len - 1 THEN m ELSE buf[c]]
      /\ wrpos' = wrpos /\ wrcmt' = wrcmt /\ roundend' = roundend /\ rdcmt' = rdcmt
      /\ wmsg' = wmsg /\ wold' = wold
      /\ rpc' = rpc /\ rwr' = rwr /\ held' = held /\ sent' = sent
  BY DEF Fill, To, readerVars
<1>2. PICK i \in DOMAIN sent : Works(w, i)
  BY <1>1 DEF IInv, WriterInv
<1>3. m = sent[i] /\ ~Committed(sent[i])
  BY <1>2 DEF Works
<1> HIDE DEF m
<1>4. /\ wpc'[w] = IF WrapsAt(m.at) THEN "reload" ELSE "commit"
      /\ \A v \in Writers : v # w => wpc'[v] = wpc[v]
  BY <1>0, <1>1 DEF Layout, TypeOK
<1>5. /\ Sound(m) /\ m \in Message /\ m.at \in Nat /\ m.len \in Nat
      /\ Cell(m.at) \in Nat /\ Cell(m.at) + m.len < N /\ N \in Nat
  BY <1>0, <1>3, Spots, SoundMessage, Numbers
<1>6. TypeOK'
  <2>1. wpc' \in [Writers -> {"idle", "round", "fill", "reload", "commit"}]
    BY <1>0, <1>1 DEF Layout, TypeOK
  <2>2. buf' \in [0 .. N - 1 -> Message]
    BY <1>0, <1>1, <1>5 DEF Layout, TypeOK
  <2> QED
    BY <1>0, <1>1, <2>1, <2>2 DEF Layout, TypeOK
<1>7. (SentInv /\ HeldInv /\ LapInv /\ CommitInv /\ ReaderInv)'
  BY <1>1, LayoutKept
<1>8. /\ \A j : Before(j)' = Before(j)
      /\ \A l : Committed(l)' <=> Committed(l)
  BY <1>1 DEF Before, First, Committed
<1>9. Whole(sent[i])'
  <2>1. \A k \in 0 .. m.len - 1 : buf'[Cell(m.at) + k] = m
    <3>1. TAKE k \in 0 .. m.len - 1
    <3>2. Cell(m.at) + k \in 0 .. N - 1 /\ (Cell(m.at) + k) - Cell(m.at) = k
      BY <1>5
    <3> QED
      BY <1>1, <3>2
  <2> QED
    BY <1>1, <1>3, <2>1 DEF Whole, Cell
(* No other message shares a cell with it. *)
<1>10. ASSUME NEW l, Sound(l), Whole(l),
              \A j \in 0 .. m.len - 1, k \in 0 .. l.len - 1 : Cell(m.at) + j # Cell(l.at) + k
       PROVE  Whole(l)'
  <2>1. l.at \in Nat /\ l.len \in Nat /\ Cell(l.at) \in Nat /\ Cell(l.at) + l.len < N
    BY <1>10, SoundMessage
  <2>2. \A k \in 0 .. l.len - 1 : buf'[Cell(l.at) + k] = l
    <3>1. TAKE k \in 0 .. l.len - 1
    <3>2. PICK c \in 0 .. N - 1 : c = Cell(l.at) + k
      BY <1>5, <2>1
    <3>3. ~(c - Cell(m.at) \in 0 .. m.len - 1)
      <4>1. SUFFICES ASSUME c - Cell(m.at) \in 0 .. m.len - 1 PROVE FALSE
        OBVIOUS
      <4>2. Cell(m.at) + (c - Cell(m.at)) = c
        BY <1>5
      <4> QED
        BY <1>10, <3>2, <4>1, <4>2
    <3>4. buf'[Cell(l.at) + k] = buf[Cell(l.at) + k]
      BY <1>1, <3>2, <3>3
    <3> QED
      BY <1>10, <3>4 DEF Whole
  <2> QED
    BY <2>2 DEF Whole
<1>11. \A j \in DOMAIN sent : j # i /\ Whole(sent[j]) => Whole(sent[j])'
  <2>1. SUFFICES ASSUME NEW j \in DOMAIN sent, j # i, Whole(sent[j]) PROVE Whole(sent[j])'
    OBVIOUS
  <2> DEFINE l == sent[j]
  <2>2. /\ Sound(l) /\ l.at \in Nat /\ End(l) \in Nat /\ l.at < End(l) /\ j \in Nat /\ i \in Nat
        /\ rdcmt <= l.at /\ End(l) <= wrpos
        /\ rdcmt <= m.at /\ End(m) <= wrpos /\ End(m) \in Nat /\ m.at < End(m)
    <3>1. rdcmt <= sent[i].at /\ End(sent[i]) <= wrpos /\ End(sent[i]) \in Nat /\ sent[i].at < End(sent[i])
      BY <1>0, Spots, FirstPlace, Numbers
    <3>2. rdcmt <= sent[j].at /\ End(sent[j]) <= wrpos
      BY <1>0, Spots, FirstPlace, Numbers
    <3> QED
      BY <1>0, <1>3, <3>1, <3>2, Spots
  <2>3. End(l) <= m.at \/ End(m) <= l.at
    BY <1>0, <1>3, <2>1, <2>2, Order
  <2>4. l.at < m.at + N /\ m.at < l.at + N /\ End(l) < m.at + N /\ End(m) < l.at + N
    <3>1. wrpos < rdcmt + N /\ wrpos \in Nat /\ rdcmt \in Nat /\ N \in Nat
      BY <1>0, Numbers
    <3> QED
      BY <1>5, <2>2, <3>1
  <2> HIDE DEF l
  <2>5. \A x \in 0 .. m.len - 1, y \in 0 .. l.len - 1 : Cell(m.at) + x # Cell(l.at) + y
    <3>1. CASE End(l) <= m.at
      BY <1>5, <2>2, <2>4, <3>1, Disjoint
    <3>2. CASE End(m) <= l.at
      BY <1>5, <2>2, <2>4, <3>2, Disjoint
    <3> QED
      BY <2>3, <3>1, <3>2
  <2>6. Whole(l)
    BY <2>1 DEF l
  <2>7. \A k \in 0 .. l.len - 1 : buf'[Cell(l.at) + k] = l
    BY <1>10, <2>2, <2>5, <2>6 DEF Whole
  <2> QED
    BY <1>1, <2>7 DEF l, Whole, Cell
<1>12. Whole(held)'
  <2>1. CASE held = Nil
    BY <1>1, <2>1 DEF Whole, Nil
  <2>2. CASE held # Nil
    <3>1. Sound(held) /\ held.at = rdcmt /\ First = End(held) /\ Whole(held)
      BY <2>2 DEF IInv, Layout, HeldInv, First, WholeMessages
    <3>2. /\ End(held) <= m.at /\ End(m) < held.at + N
      BY <1>0, <1>3, <3>1, Spots, Numbers
    <3>3. \A x \in 0 .. m.len - 1, y \in 0 .. held.len - 1 : Cell(m.at) + x # Cell(held.at) + y
      BY <1>5, <3>1, <3>2, Disjoint
    <3>4. \A k \in 0 .. held.len - 1 : buf'[Cell(held.at) + k] = held
      BY <1>10, <3>1, <3>3 DEF Whole
    <3> QED
      BY <1>1, <3>4 DEF Whole, Cell
  <2> QED
    BY <2>1, <2>2
<1>13. WriterInv'
  <2>1. Works(w, i)'
    BY <1>1, <1>2, <1>3, <1>4, <1>8, <1>9 DEF Works
  <2>2. \A v \in Writers : v # w /\ wpc[v] # "idle" => \E j \in DOMAIN sent : Works(v, j)'
    <3>1. TAKE v \in Writers
    <3>2. HAVE v # w /\ wpc[v] # "idle"
    <3>3. PICK j \in DOMAIN sent : Works(v, j)
      BY <3>2 DEF IInv, WriterInv
    <3>4. j # i
      BY <1>1, <1>2, <3>2, <3>3, Workers
    <3>5. Works(v, j)'
      BY <1>1, <1>4, <1>8, <1>11, <3>2, <3>3, <3>4 DEF Works
    <3> QED
      BY <3>5
  <2>3. \A v \in Writers : wpc'[v] # "idle" => \E j \in DOMAIN sent' : Works(v, j)'
    BY <1>1, <1>4, <2>1, <2>2
  <2>4. \A u, v \in Writers :
            u # v /\ wpc'[u] # "idle" /\ wpc'[v] # "idle" => wmsg'[u] # wmsg'[v]
    BY <1>1, <1>4 DEF IInv, WriterInv
  <2> QED
    BY <2>3, <2>4 DEF WriterInv
<1>14. RoundInv'
  BY <1>1, <1>8 DEF IInv, RoundInv, Committed
<1>15. WholeMessages'
  <2>1. \A j \in DOMAIN sent' : Committed(sent[j])' => Whole(sent[j])'
    BY <1>1, <1>3, <1>11 DEF IInv, WholeMessages, Committed
  <2> QED
    BY <1>12, <2>1 DEF WholeMessages
<1> QED
  BY <1>6, <1>7, <1>13, <1>14, <1>15 DEF IInv, Layout

(* What is committed are the messages up to some point. *)
LEMMA CommittedBefore ==
    ASSUME IInv, NEW i \in DOMAIN sent, ~Committed(sent[i]), Before(i) <= wrcmt
    PROVE  \A k \in DOMAIN sent : Committed(sent[k]) <=> k < i
<1>0. Layout
  BY DEF IInv
<1>1. /\ sent[i].at \in Nat /\ wrcmt \in Nat /\ wrcmt <= sent[i].at /\ i \in Nat /\ 1 <= i
      /\ i \in 1 .. Len(sent) + 1 /\ Before(i) \in Nat
  BY <1>0, Spots, Numbers, Befores DEF Committed
<1>2. TAKE k \in DOMAIN sent
<1>3. k \in Nat /\ 1 <= k /\ sent[k].at \in Nat /\ End(sent[k]) \in Nat /\ sent[k].at < End(sent[k])
  BY <1>0, Spots
<1>4. CASE k < i
  <2>1. i - 1 \in DOMAIN sent /\ k <= i - 1 /\ Before(i) = End(sent[i - 1])
    BY <1>0, <1>1, <1>3, <1>4, Numbers DEF Before
  <2>2. End(sent[k]) <= Before(i)
    BY <1>0, <2>1, Order
  <2> QED
    BY <1>1, <1>3, <1>4, <2>2 DEF Committed
<1>5. CASE ~(k < i)
  <2>1. sent[i].at <= sent[k].at
    BY <1>0, <1>1, <1>3, <1>5, Order
  <2> QED
    BY <1>1, <1>3, <1>5, <2>1 DEF Committed
<1> QED
  BY <1>4, <1>5

(* A commit publishes the first message that is not committed. *)
LEMMA CommitPublishes ==
    ASSUME IInv, NEW w \in Writers, Commit(w)
    PROVE  \E i \in DOMAIN sent :
             /\ Works(w, i) /\ Before(i) <= wrcmt /\ wrcmt' = End(sent[i])
             /\ \A k \in DOMAIN sent : Committed(sent[k]) <=> k < i
             /\ \A k \in DOMAIN sent : sent[k].at < wrcmt' <=> k <= i
<1>0. Layout
  BY DEF IInv
<1>1. /\ wpc[w] = "commit" /\ (End(wmsg[w]) <= wrcmt \/ wold[w] <= wrcmt)
      /\ wrcmt' = IF End(wmsg[w]) <= wrcmt THEN wrcmt ELSE End(wmsg[w])
  BY DEF Commit, To, End
<1>2. PICK i \in DOMAIN sent : Works(w, i)
  BY <1>1 DEF IInv, WriterInv
<1>3. wmsg[w] = sent[i] /\ ~Committed(sent[i]) /\ wold[w] = Before(i)
  BY <1>1, <1>2 DEF Works
<1>4. /\ sent[i].at \in Nat /\ End(sent[i]) \in Nat /\ sent[i].at < End(sent[i]) /\ i \in Nat
      /\ wrcmt \in Nat /\ wrcmt <= sent[i].at
  BY <1>0, <1>3, Spots, Numbers DEF Committed
<1>5. Before(i) <= wrcmt /\ wrcmt' = End(sent[i])
  BY <1>1, <1>3, <1>4
<1>6. \A k \in DOMAIN sent : Committed(sent[k]) <=> k < i
  BY <1>3, <1>5, CommittedBefore
<1>7. \A k \in DOMAIN sent : sent[k].at < wrcmt' <=> k <= i
  <2>1. TAKE k \in DOMAIN sent
  <2>2. k \in Nat /\ sent[k].at \in Nat
    BY <1>0, Spots
  <2>3. CASE k <= i
    <3>1. sent[k].at <= sent[i].at
      BY <1>0, <2>3, Order
    <3> QED
      BY <1>4, <1>5, <2>2, <2>3, <3>1
  <2>4. CASE i < k
    <3>1. End(sent[i]) <= sent[k].at
      BY <1>0, <2>4, Order
    <3> QED
      BY <1>4, <1>5, <2>2, <2>4, <3>1
  <2> QED
    BY <1>4, <2>2, <2>3, <2>4
<1> QED
  BY <1>2, <1>5, <1>6, <1>7

LEMMA CommitStep ==
    ASSUME IInv, NEW w \in Writers, Commit(w)
    PROVE  IInv'
<1>0. Layout
  BY DEF IInv
<1>1. /\ wpc[w] = "commit" /\ wpc' = [wpc EXCEPT ![w] = "idle"]
      /\ wmsg' = [wmsg EXCEPT ![w] = Nil] /\ wold' = [wold EXCEPT ![w] = 0]
      /\ wrpos' = wrpos /\ roundend' = roundend /\ rdcmt' = rdcmt /\ buf' = buf
      /\ rpc' = rpc /\ rwr' = rwr /\ held' = held /\ sent' = sent
  BY DEF Commit, To, readerVars
<1>2. PICK i \in DOMAIN sent :
        /\ Works(w, i) /\ Before(i) <= wrcmt /\ wrcmt' = End(sent[i])
        /\ \A k \in DOMAIN sent : Committed(sent[k]) <=> k < i
        /\ \A k \in DOMAIN sent : sent[k].at < wrcmt' <=> k <= i
  BY CommitPublishes
<1>3. wpc'[w] = "idle"
      /\ \A v \in Writers : v # w => wpc'[v] = wpc[v] /\ wmsg'[v] = wmsg[v] /\ wold'[v] = wold[v]
  BY <1>0, <1>1 DEF Layout, TypeOK
<1>4. /\ End(sent[i]) \in Nat /\ sent[i].at \in Nat /\ sent[i].at < End(sent[i])
      /\ End(sent[i]) <= wrpos /\ wrcmt \in Nat /\ wrcmt <= sent[i].at /\ First <= sent[i].at
      /\ First \in Nat /\ rdcmt \in Nat /\ rdcmt <= wrcmt /\ i \in Nat
  BY <1>0, <1>2, Spots, Numbers, FirstPlace DEF Works, Committed
<1>5. wrcmt <= wrcmt'
  BY <1>2, <1>4
<1>6. TypeOK'
  <2>1. wpc' \in [Writers -> {"idle", "round", "fill", "reload", "commit"}]
    BY <1>0, <1>1 DEF Layout, TypeOK
  <2>2. wmsg' \in [Writers -> Message] /\ wold' \in [Writers -> Nat]
    <3>1. Nil \in Message
      BY SizeAssumption, MaxPosAssumption DEF Nil, Message
    <3> QED
      BY <1>0, <1>1, <3>1 DEF Layout, TypeOK
  <2>3. wrcmt' \in Nat /\ rdcmt' <= wrcmt' /\ wrcmt' <= wrpos'
    BY <1>1, <1>2, <1>4
  <2> QED
    BY <1>0, <1>1, <2>1, <2>2, <2>3 DEF Layout, TypeOK
<1>7. (SentInv /\ HeldInv /\ LapInv)'
  BY <1>1 DEF IInv, Layout, SentInv, Placed, Before, First, HeldInv, LapInv
<1>8. CommitInv'
  <2>1. First' = First /\ First' <= wrcmt'
    BY <1>1, <1>2, <1>4 DEF First
  <2> QED
    BY <1>1, <1>2, <2>1 DEF CommitInv
<1>9. /\ \A j : Before(j)' = Before(j)
      /\ \A l : Whole(l)' <=> Whole(l)
  BY <1>1 DEF Before, First, Whole
<1>10. WriterInv'
  <2>1. \A v \in Writers : v # w /\ wpc[v] # "idle" => \E j \in DOMAIN sent : Works(v, j)'
    <3>1. TAKE v \in Writers
    <3>2. HAVE v # w /\ wpc[v] # "idle"
    <3>3. PICK j \in DOMAIN sent : Works(v, j)
      BY <3>2 DEF IInv, WriterInv
    <3>4. j # i
      BY <1>1, <1>2, <3>2, <3>3, Workers
    <3>5. ~Committed(sent[j])
      BY <3>3 DEF Works
    <3>6. ~(j < i) /\ j \in Nat
      BY <1>0, <1>2, <3>5, Spots
    <3>7. ~(sent[j].at < wrcmt')
      BY <1>2, <1>4, <3>4, <3>6
    <3>8. ~Committed(sent[j])'
      BY <1>1, <3>7 DEF Committed
    <3>9. Works(v, j)'
      BY <1>1, <1>3, <1>9, <3>2, <3>3, <3>8 DEF Works
    <3> QED
      BY <3>9
  <2>2. \A u, v \in Writers :
            u # v /\ wpc'[u] # "idle" /\ wpc'[v] # "idle" => wmsg'[u] # wmsg'[v]
    BY <1>3 DEF IInv, WriterInv
  <2>3. \A v \in Writers : wpc'[v] # "idle" => v # w /\ wpc[v] # "idle"
    BY <1>3
  <2> QED
    BY <1>1, <2>1, <2>2, <2>3 DEF WriterInv
<1>11. \A k \in DOMAIN sent : Committed(sent[k])' => k = i \/ Committed(sent[k])
  <2>1. TAKE k \in DOMAIN sent
  <2>2. HAVE Committed(sent[k])'
  <2>3. k <= i /\ k \in Nat
    BY <1>0, <1>1, <1>2, <2>2, Spots DEF Committed
  <2> QED
    BY <1>2, <1>4, <2>3
<1>12. RoundInv'
  <2>1. WrapsAt(sent[i].at) => roundend = Before(i)
    BY <1>1, <1>2 DEF Works
  <2> QED
    BY <1>1, <1>9, <1>11, <2>1 DEF IInv, RoundInv
<1>13. WholeMessages'
  <2>1. Whole(sent[i])
    BY <1>1, <1>2 DEF Works
  <2>2. \A k \in DOMAIN sent : Committed(sent[k])' => Whole(sent[k])
    BY <1>11, <2>1 DEF IInv, WholeMessages
  <2>3. \A k \in DOMAIN sent : Whole(sent[k])' <=> Whole(sent[k])
    BY <1>1 DEF Whole
  <2>4. Whole(held)'
    BY <1>1 DEF IInv, WholeMessages, Whole
  <2> QED
    BY <1>1, <2>2, <2>3, <2>4 DEF WholeMessages
<1>14. ReaderInv'
  <2>1. rpc = "round" => rwr <= wrcmt'
    BY <1>0, <1>2, <1>4, <1>5, Numbers DEF IInv, ReaderInv
  <2> QED
    BY <1>1, <2>1 DEF IInv, ReaderInv
<1> QED
  BY <1>6, <1>7, <1>8, <1>10, <1>12, <1>13, <1>14 DEF IInv, Layout

-----------------------------------------------------------------------------
LEMMA InitHolds == Init => IInv
<1> SUFFICES ASSUME Init PROVE IInv
  OBVIOUS
<1>1. /\ wrpos = Start /\ wrcmt = Start /\ rdcmt = Start /\ roundend = 0
      /\ buf = [c \in 0 .. N - 1 |-> Nil] /\ wpc = [w \in Writers |-> "idle"]
      /\ wmsg = [w \in Writers |-> Nil] /\ wold = [w \in Writers |-> 0]
      /\ rpc = "idle" /\ rwr = 0 /\ held = Nil /\ sent = <<>>
  BY DEF Init
<1>2. Start \in Nat /\ 0 < Start /\ Start < N /\ N \in Nat
  BY SizeAssumption, StartAssumption
<1>3. Nil \in Message
  BY SizeAssumption, MaxPosAssumption DEF Nil, Message
<1>4. TypeOK
  BY <1>1, <1>2, <1>3 DEF TypeOK
<1>5. DOMAIN sent = {} /\ Len(sent) = 0 /\ First = Start
  BY <1>1 DEF First
<1>6. SentInv
  <2>1. Cell(Start) = Start
    BY <1>2 DEF Cell
  <2> QED
    BY <1>1, <1>2, <1>5, <2>1 DEF SentInv, Before
<1>7. HeldInv /\ LapInv /\ CommitInv /\ WriterInv /\ RoundInv /\ ReaderInv
  BY <1>1, <1>2, <1>5 DEF HeldInv, LapInv, CommitInv, WriterInv, RoundInv, ReaderInv
<1>8. WholeMessages
  BY <1>1, <1>5 DEF WholeMessages, Whole, Nil
<1> QED
  BY <1>4, <1>6, <1>7, <1>8 DEF IInv, Layout

LEMMA StutterStep ==
    ASSUME IInv, UNCHANGED vars
    PROVE  IInv'
BY DEF IInv, vars, writerVars, readerVars, Layout, TypeOK, SentInv, Placed, Before, First,
       HeldInv, LapInv, CommitInv, WriterInv, Works, RoundInv, ReaderInv, WholeMessages,
       Committed, Whole

LEMMA Inductive == IInv /\ [Next]_vars => IInv'
<1> SUFFICES ASSUME IInv, [Next]_vars PROVE IInv'
  OBVIOUS
<1>1. CASE \E w \in Writers : Reserve(w)
  BY <1>1, ReserveStep
<1>2. CASE \E w \in Writers : Writing(w)
  <2>1. PICK w \in Writers : Writing(w)
    BY <1>2
  <2> QED
    BY <2>1, RoundStep, FillStep, ReloadStep, CommitStep DEF Writing
<1>3. CASE Reader
  BY <1>3, ReadNextStep, ReadLookStep, ReadRoundStep, ReadCmtStep DEF Reader
<1>4. CASE UNCHANGED vars
  BY <1>4, StutterStep
<1> QED
  BY <1>1, <1>2, <1>3, <1>4 DEF Next

LEMMA Invariance == Spec => []IInv
BY InitHolds, Inductive, PTL DEF Spec

(* The types, and the order of the positions: what is read is committed,   *)
(* what is committed is reserved, and the reader is never overtaken.       *)
THEOREM TypeCorrect == Spec => []TypeOK
<1>1. IInv => TypeOK
  BY DEF IInv, Layout
<1> QED
  BY <1>1, Invariance, PTL

(* write_get_mth and write_cmt_mth keep every committed message, and the   *)
(* one the reader works on, whole in the buffer.                           *)
THEOREM MessagesAreWhole == Spec => []WholeMessages
<1>1. IInv => WholeMessages
  BY DEF IInv
<1> QED
  BY <1>1, Invariance, PTL

(* read_get finds a message whenever one was committed before the call,    *)
(* the end of the lap included; its test of two positions is exact.        *)
THEOREM EmptyMeansEmpty == Spec => []EmptyIsEmpty
<1>1. ASSUME IInv, rpc = "idle"
      PROVE  rdcmt < wrcmt <=> \E i \in DOMAIN sent : Committed(sent[i])
  <2>0. Layout
    BY <1>1 DEF IInv
  <2>1. First = rdcmt /\ rdcmt \in Nat /\ wrcmt \in Nat
    BY <1>1, <2>0, Numbers DEF Layout, HeldInv, First
  <2>2. ASSUME rdcmt < wrcmt PROVE \E i \in DOMAIN sent : Committed(sent[i])
    <3>1. PICK i \in DOMAIN sent : wrcmt = End(sent[i])
      BY <1>1, <2>1, <2>2 DEF IInv, CommitInv
    <3> QED
      BY <2>0, <3>1, Spots DEF Committed
  <2>3. ASSUME NEW i \in DOMAIN sent, Committed(sent[i]) PROVE rdcmt < wrcmt
    <3>1. sent[i].at \in Nat /\ First <= sent[i].at /\ sent[i].at < wrcmt
      BY <2>0, <2>3, Spots DEF Committed
    <3> QED
      BY <2>1, <3>1
  <2> QED
    BY <2>2, <2>3
<1>2. IInv => EmptyIsEmpty
  BY <1>1, RoundIsFirst DEF EmptyIsEmpty
<1> QED
  BY <1>2, Invariance, PTL

(* write_get_mth finds room for a message shorter than half of an empty    *)
(* ring, wherever its positions stand.                                     *)
THEOREM EmptyRingTakesHalf == Spec => []EmptyTakesHalf
<1>1. IInv => EmptyTakesHalf
  <2>1. SUFFICES ASSUME IInv, sent = <<>>, held = Nil, NEW len \in 1 .. N, 2 * len < N
                 PROVE  Fits(len)
    BY DEF EmptyTakesHalf
  <2>2. Layout
    BY <2>1 DEF IInv
  <2>3. wrpos = rdcmt
    BY <2>1, <2>2 DEF Layout, SentInv, Before, First
  <2>4. rdcmt \in Nat /\ N \in Nat /\ len \in Nat
    BY <2>2, Numbers
  <2>5. Cell(wrpos) \in Nat /\ NextLap(wrpos) = wrpos + (N - Cell(wrpos))
    BY <2>3, <2>4, Laps DEF NextLap
  <2> QED
    BY <2>1, <2>3, <2>4, <2>5 DEF Fits, Place
<1> QED
  BY <1>1, Invariance, PTL

-----------------------------------------------------------------------------
(* The ring is a FIFO.                                                     *)

Shown == SubSeq(sent, 1, Published)

PublishedInv ==
    /\ Published \in 0 .. Len(sent)
    /\ \A i \in DOMAIN sent : i <= Published <=> Committed(sent[i])

LEMMA PublishedFound == IInv => PublishedInv
<1> SUFFICES ASSUME IInv PROVE PublishedInv
  OBVIOUS
<1>0. Layout
  BY DEF IInv
<1>1. \E k \in 0 .. Len(sent) : \A i \in DOMAIN sent : i <= k <=> Committed(sent[i])
  <2>1. CASE wrcmt = First
    <3>1. \A i \in DOMAIN sent : ~(i <= 0) /\ ~Committed(sent[i])
      <4>1. TAKE i \in DOMAIN sent
      <4>2. First <= sent[i].at /\ sent[i].at \in Nat /\ First \in Nat /\ i \in Nat /\ 1 <= i
        BY <1>0, Spots, FirstPlace
      <4> QED
        BY <2>1, <4>2 DEF Committed
    <3>2. 0 \in 0 .. Len(sent)
      BY <1>0, Numbers
    <3> QED
      BY <3>1, <3>2
  <2>2. CASE \E k \in DOMAIN sent : wrcmt = End(sent[k])
    <3>1. PICK k \in DOMAIN sent : wrcmt = End(sent[k])
      BY <2>2
    <3>2. \A i \in DOMAIN sent : i <= k <=> Committed(sent[i])
      <4>1. TAKE i \in DOMAIN sent
      <4>2. /\ sent[i].at \in Nat /\ End(sent[i]) \in Nat /\ i \in Nat /\ k \in Nat
            /\ sent[k].at \in Nat /\ End(sent[k]) \in Nat /\ sent[k].at < End(sent[k])
        BY <1>0, Spots
      <4>3. i <= k => sent[i].at <= sent[k].at
        BY <1>0, Order
      <4>4. k < i => End(sent[k]) <= sent[i].at
        BY <1>0, Order
      <4> QED
        BY <3>1, <4>2, <4>3, <4>4 DEF Committed
    <3>3. k \in 0 .. Len(sent)
      BY <1>0, Numbers
    <3> QED
      BY <3>2, <3>3
  <2> QED
    BY <2>1, <2>2 DEF IInv, CommitInv
<1> DEFINE P(k) == \A i \in DOMAIN sent : i <= k <=> Committed(sent[i])
<1>2. Published = CHOOSE k \in 0 .. Len(sent) : P(k)
  BY DEF Published
<1>3. \E k \in 0 .. Len(sent) : P(k)
  BY <1>1
<1> HIDE DEF P
<1>4. Published \in 0 .. Len(sent) /\ P(Published)
  BY <1>2, <1>3
<1> QED
  BY <1>4 DEF P, PublishedInv

(* A number is known by what is below it. *)
LEMMA SameBound ==
    ASSUME NEW n \in Nat, NEW a \in 0 .. n, NEW b \in 0 .. n,
           \A i \in 1 .. n : i <= a <=> i <= b
    PROVE  a = b
<1>1. CASE a < b
  <2>1. b \in 1 .. n /\ b <= b /\ ~(b <= a)
    BY <1>1
  <2> QED
    BY <2>1
<1>2. CASE b < a
  <2>1. a \in 1 .. n /\ a <= a /\ ~(a <= b)
    BY <1>2
  <2> QED
    BY <2>1
<1> QED
  BY <1>1, <1>2

(* A step that reserves, commits and takes nothing shows nothing. *)
LEMMA NothingShown ==
    ASSUME IInv, PublishedInv, PublishedInv', sent' = sent, wrcmt' = wrcmt
    PROVE  Shown' = Shown
<1>1. Len(sent) \in Nat /\ DOMAIN sent = 1 .. Len(sent)
  BY Numbers DEF IInv
<1>2. Published \in 0 .. Len(sent) /\ Published' \in 0 .. Len(sent)
  BY DEF PublishedInv
<1>3. \A i \in 1 .. Len(sent) : i <= Published <=> i <= Published'
  BY <1>1 DEF PublishedInv, Committed
<1>4. Published' = Published
  BY <1>1, <1>2, <1>3, SameBound
<1> QED
  BY <1>4 DEF Shown

LEMMA ReserveShowsNothing ==
    ASSUME IInv, PublishedInv, PublishedInv', NEW w \in Writers, Reserve(w)
    PROVE  Shown' = Shown /\ held' = held
<1>0. Layout
  BY DEF IInv
<1>1. PICK len \in Lens :
        /\ Fits(len) /\ Place(wrpos, len) + len <= MaxPos
        /\ sent' = Append(sent, [at |-> Place(wrpos, len), len |-> len])
        /\ wrcmt' = wrcmt /\ held' = held
  BY DEF Reserve, readerVars
<1> DEFINE m == [at |-> Place(wrpos, len), len |-> len]
<1>2. Sound(m) /\ wrpos <= m.at
  BY <1>0, <1>1, NewPlace
<1>3. sent' = Append(sent, m)
  BY <1>1
<1> HIDE DEF m
<1>4. /\ sent \in Seq(Message) /\ Len(sent) \in Nat /\ DOMAIN sent = 1 .. Len(sent) /\ m \in Message
      /\ m.at \in Nat /\ wrcmt <= m.at
  BY <1>0, <1>2, SoundMessage, Numbers DEF Layout, TypeOK
<1>5. /\ sent' \in Seq(Message) /\ Len(sent') = Len(sent) + 1 /\ DOMAIN sent' = 1 .. Len(sent) + 1
      /\ sent'[Len(sent) + 1] = m /\ \A i \in 1 .. Len(sent) : sent'[i] = sent[i]
  <2>1. /\ sent' \in Seq(Message) /\ Len(sent') = Len(sent) + 1
        /\ sent'[Len(sent) + 1] = m /\ \A i \in 1 .. Len(sent) : sent'[i] = sent[i]
    BY <1>3, <1>4, AppendProperties
  <2> QED
    BY <2>1
<1>6. Published \in 0 .. Len(sent) /\ Published' \in 0 .. Len(sent) + 1
  BY <1>5 DEF PublishedInv
<1>7. ~(Len(sent) + 1 <= Published')
  <2>1. \A i \in DOMAIN sent' : i <= Published' => sent'[i].at < wrcmt
    BY <1>1 DEF PublishedInv, Committed
  <2>2. ~(m.at < wrcmt) /\ Len(sent) + 1 \in DOMAIN sent'
    BY <1>0, <1>4, <1>5, Numbers
  <2> QED
    BY <1>5, <2>1, <2>2
<1>8. \A i \in 1 .. Len(sent) : i <= Published <=> i <= Published'
  <2>1. TAKE i \in 1 .. Len(sent)
  <2>2. i \in DOMAIN sent' /\ i \in DOMAIN sent /\ sent'[i] = sent[i]
    BY <1>4, <1>5
  <2>3. i <= Published' <=> sent'[i].at < wrcmt
    BY <1>1, <2>2 DEF PublishedInv, Committed
  <2>4. i <= Published <=> sent[i].at < wrcmt
    BY <2>2 DEF PublishedInv, Committed
  <2> QED
    BY <2>2, <2>3, <2>4
<1>9. Published' = Published
  <2>1. Published' \in 0 .. Len(sent)
    BY <1>4, <1>6, <1>7
  <2> QED
    BY <1>4, <1>6, <1>8, <2>1, SameBound
<1>10. SubSeq(sent', 1, Published) = SubSeq(sent, 1, Published)
  <2>1. CASE Published = 0
    BY <2>1, SubSeqEmpty
  <2>2. CASE Published # 0
    <3>1. sent' = sent \o <<m>> /\ <<m>> \in Seq(Message)
      BY <1>3, <1>4, AppendIsConcat
    <3>2. 1 \in 1 .. Len(sent) /\ Published \in 1 .. Len(sent)
      BY <1>4, <1>6, <2>2
    <3> QED
      BY <1>4, <3>1, <3>2, SubSeqOfConcat1
  <2> QED
    BY <2>1, <2>2
<1> QED
  BY <1>1, <1>9, <1>10 DEF Shown

LEMMA CommitShows ==
    ASSUME IInv, PublishedInv, PublishedInv', NEW w \in Writers, Commit(w)
    PROVE  Ring!Put
<1>0. Layout
  BY DEF IInv
<1>1. held' = held /\ sent' = sent
  BY DEF Commit, readerVars
<1>2. PICK i \in DOMAIN sent :
        /\ \A k \in DOMAIN sent : Committed(sent[k]) <=> k < i
        /\ \A k \in DOMAIN sent : sent[k].at < wrcmt' <=> k <= i
  BY CommitPublishes
<1>3. /\ sent \in Seq(Message) /\ Len(sent) \in Nat /\ DOMAIN sent = 1 .. Len(sent)
      /\ i \in 1 .. Len(sent) /\ i \in Nat
  BY <1>0, Numbers DEF Layout, TypeOK
<1>4. Published = i - 1
  <2>1. i - 1 \in 0 .. Len(sent) /\ Published \in 0 .. Len(sent)
    BY <1>3 DEF PublishedInv
  <2>2. \A k \in 1 .. Len(sent) : k <= Published <=> k <= i - 1
    <3>1. TAKE k \in 1 .. Len(sent)
    <3>2. k <= Published <=> k < i
      BY <1>2, <1>3 DEF PublishedInv
    <3> QED
      BY <1>3, <3>2
  <2> QED
    BY <1>3, <2>1, <2>2, SameBound
<1>5. Published' = i
  <2>1. i \in 0 .. Len(sent) /\ Published' \in 0 .. Len(sent)
    BY <1>1, <1>3 DEF PublishedInv
  <2>2. \A k \in 1 .. Len(sent) : k <= Published' <=> k <= i
    BY <1>1, <1>2, <1>3 DEF PublishedInv, Committed
  <2> QED
    BY <1>3, <2>1, <2>2, SameBound
<1>6. Shown' = SubSeq(sent, 1, i)
  BY <1>1, <1>5 DEF Shown
<1>7. SubSeq(sent, 1, i) = SubSeq(sent, 1, i - 1) \o <<sent[i]>>
  <2>1. 1 \in 1 .. Len(sent) /\ i \in 1 .. Len(sent)
    BY <1>3
  <2> QED
    BY <1>3, <2>1, SubSeqRecursiveSecond
<1>8. sent[i] \in Message /\ SubSeq(sent, 1, i - 1) \in Seq(Message)
  <2>1. \A k \in 1 .. i - 1 : sent[k] \in Message
    BY <1>3
  <2> QED
    BY <1>3, <2>1, SubSeqProperties
<1>9. Shown' = Append(Shown, sent[i])
  BY <1>4, <1>6, <1>7, <1>8, AppendIsConcat DEF Shown
<1> QED
  BY <1>1, <1>8, <1>9 DEF Ring!Put, Shown

LEMMA TakeTakes ==
    ASSUME IInv, PublishedInv, PublishedInv', rpc # "hold", sent # <<>>, Committed(sent[1]),
           TakeAt(sent[1].at), wrcmt' = wrcmt
    PROVE  Ring!Take
<1>0. Layout
  BY DEF IInv
<1>1. held = Nil
  BY DEF IInv, Layout, HeldInv
<1>2. sent \in Seq(Message) /\ Len(sent) \in Nat \ {0} /\ DOMAIN sent = 1 .. Len(sent) /\ 1 \in DOMAIN sent
  BY <1>0, Numbers DEF Layout, TypeOK
<1>3. held' = sent[1]
  BY <1>2, FirstInBuffer DEF TakeAt
<1>4. sent' = SubSeq(sent, 2, Len(sent)) /\ sent' = Tail(sent)
  BY <1>2, TailIsSubSeq DEF TakeAt
<1>5. /\ Len(sent') = Len(sent) - 1 /\ DOMAIN sent' = 1 .. Len(sent) - 1
      /\ \A i \in 1 .. Len(sent) - 1 : sent'[i] = sent[i + 1]
  BY <1>2, <1>4, HeadTailProperties
<1>6. Published \in 1 .. Len(sent)
  <2>1. 1 <= Published /\ Published \in 0 .. Len(sent)
    BY <1>2 DEF PublishedInv
  <2> QED
    BY <1>2, <2>1
<1>7. Published' = Published - 1
  <2>1. /\ Published - 1 \in 0 .. Len(sent) - 1 /\ Published' \in 0 .. Len(sent) - 1
        /\ Len(sent) - 1 \in Nat
    BY <1>2, <1>5, <1>6 DEF PublishedInv
  <2>2. \A i \in 1 .. Len(sent) - 1 : i <= Published' <=> i <= Published - 1
    <3>1. TAKE i \in 1 .. Len(sent) - 1
    <3>2. i \in DOMAIN sent' /\ i + 1 \in DOMAIN sent /\ sent'[i] = sent[i + 1] /\ i \in Nat
      BY <1>2, <1>5
    <3>3. i <= Published' <=> sent'[i].at < wrcmt
      BY <3>2 DEF PublishedInv, Committed
    <3>4. i + 1 <= Published <=> sent[i + 1].at < wrcmt
      BY <3>2 DEF PublishedInv, Committed
    <3> QED
      BY <1>6, <3>2, <3>3, <3>4
  <2> QED
    BY <2>1, <2>2, SameBound
<1>8. Head(Shown) = sent[1] /\ Tail(Shown) = SubSeq(sent, 2, Published) /\ Shown # <<>>
  <2>1. 1 \in 1 .. Len(sent) /\ Published \in 1 .. Len(sent)
    BY <1>2, <1>6
  <2>2. Len(Shown) = Published
    <3>1. \A i \in 1 .. Published : sent[i] \in Message
      BY <1>2, <1>6
    <3>2. 1 \in Int /\ Published \in Int /\ 1 <= Published
      BY <1>2, <1>6
    <3>3. Len(SubSeq(sent, 1, Published)) = Published - 1 + 1
      BY <3>1, <3>2, SubSeqProperties
    <3> QED
      BY <3>2, <3>3 DEF Shown
  <2>3. Shown # <<>>
    BY <1>6, <2>2
  <2>4. Head(Shown) = sent[1] /\ Tail(Shown) = SubSeq(sent, 1 + 1, Published)
    BY <1>2, <2>1, HeadTailOfSubSeq DEF Shown
  <2>5. 1 + 1 = 2
    OBVIOUS
  <2>6. Tail(Shown) = SubSeq(sent, 2, Published)
    BY <2>4, <2>5, Zenon
  <2> QED
    BY <2>3, <2>4, <2>6
<1>9. SubSeq(sent', 1, Published - 1) = SubSeq(sent, 2, Published)
  <2>1. CASE Published = 1
    BY <2>1, SubSeqEmpty
  <2>2. CASE Published # 1
    <3>1. /\ 2 \in 1 .. Len(sent) /\ Len(sent) \in 1 .. Len(sent)
          /\ 1 \in 1 .. Len(sent) - 2 + 1 /\ Published - 1 \in 1 .. Len(sent) - 2 + 1
      BY <1>2, <1>6, <2>2
    <3>2. SubSeq(SubSeq(sent, 2, Len(sent)), 1, Published - 1)
            = SubSeq(sent, 2 + 1 - 1, 2 + (Published - 1) - 1)
      BY <1>2, <3>1, SubSeqOfSubSeq
    <3>3. 2 + 1 - 1 = 2 /\ 2 + (Published - 1) - 1 = Published
      BY <1>6
    <3> QED
      BY <1>4, <3>2, <3>3
  <2> QED
    BY <2>1, <2>2
<1>10. Shown' = Tail(Shown) /\ held' = Head(Shown)
  BY <1>3, <1>7, <1>8, <1>9 DEF Shown
<1> QED
  BY <1>1, <1>8, <1>10 DEF Ring!Take, Shown

LEMMA NextShown ==
    ASSUME IInv, PublishedInv, PublishedInv', [Next]_vars
    PROVE  Ring!Next \/ UNCHANGED <<Shown, held>>
<1>1. CASE \E w \in Writers : Reserve(w)
  BY <1>1, ReserveShowsNothing
<1>2. CASE \E w \in Writers : Round(w) \/ Fill(w) \/ Reload(w)
  <2>1. sent' = sent /\ wrcmt' = wrcmt /\ held' = held
    BY <1>2 DEF Round, Fill, Reload, readerVars
  <2> QED
    BY <2>1, NothingShown
<1>3. CASE \E w \in Writers : Commit(w)
  BY <1>3, CommitShows DEF Ring!Next
<1>4. CASE ReadNext
  <2>1. sent # <<>> /\ Committed(sent[1]) /\ sent[1].at = rdcmt
    BY <1>4, NextIsFirst
  <2>2. TakeAt(sent[1].at) /\ rpc # "hold" /\ wrcmt' = wrcmt
    BY <1>4, <2>1 DEF ReadNext
  <2> QED
    BY <2>1, <2>2, TakeTakes DEF Ring!Next
<1>5. CASE ReadLook
  <2>1. sent' = sent /\ wrcmt' = wrcmt /\ held' = held
    BY <1>5 DEF ReadLook
  <2> QED
    BY <2>1, NothingShown
<1>6. CASE ReadRound
  <2>1. /\ ~ReadsEmpty /\ sent # <<>> /\ Committed(sent[1])
        /\ sent[1].at = IF roundend > rdcmt THEN rdcmt ELSE LapStart
    BY <1>6, RoundIsFirst DEF ReadRound
  <2>2. TakeAt(sent[1].at) /\ rpc # "hold" /\ wrcmt' = wrcmt
    BY <1>6, <2>1 DEF ReadRound
  <2> QED
    BY <2>1, <2>2, TakeTakes DEF Ring!Next
<1>7. CASE ReadCmt
  <2>1. sent' = sent /\ wrcmt' = wrcmt /\ held' = Nil
    BY <1>7 DEF ReadCmt
  <2>2. held # Nil
    BY <1>7 DEF ReadCmt, IInv, Layout, HeldInv
  <2>3. Shown' = Shown
    BY <2>1, NothingShown
  <2> QED
    BY <2>1, <2>2, <2>3 DEF Ring!Next, Ring!Release, Shown
<1>8. CASE UNCHANGED vars
  <2>1. sent' = sent /\ wrcmt' = wrcmt /\ held' = held
    BY <1>8 DEF vars, readerVars
  <2> QED
    BY <2>1, NothingShown
<1> QED
  BY <1>1, <1>2, <1>3, <1>4, <1>5, <1>6, <1>7, <1>8 DEF Next, Writing, Reader

LEMMA InitShown ==
    ASSUME Init
    PROVE  Ring!Init
<1>1. sent = <<>> /\ held = Nil
  BY DEF Init
<1>2. Published = 0
  <2>1. Len(sent) = 0
    BY <1>1
  <2>2. PublishedInv
    BY InitHolds, PublishedFound
  <2> QED
    BY <2>1, <2>2 DEF PublishedInv
<1>3. SubSeq(sent, 1, Published) = <<>>
  BY <1>2, SubSeqEmpty
<1> QED
  BY <1>1, <1>3 DEF Ring!Init

(* With any number of writers and messages of any length, the commits and  *)
(* reads of the ring are those of a FIFO: no message is lost, repeated,    *)
(* split, joined or overtaken.                                             *)
THEOREM QueueIsFifo == Spec => IsFifo
<1>1. IInv /\ PublishedInv /\ PublishedInv' /\ [Next]_vars => [Ring!Next]_Ring!vars
  BY NextShown DEF Ring!vars, Shown
<1>2. Init => Ring!Init
  BY InitShown
<1>3. Spec => []PublishedInv
  BY PublishedFound, Invariance, PTL
<1> QED
  BY <1>1, <1>2, <1>3, Invariance, PTL DEF Spec, IsFifo, Ring!Spec
-----------------------------------------------------------------------------
(* Nobody waits for nobody.                                                *)

Manned(i) == \E w \in Writers : wpc[w] # "idle" /\ wmsg[w] = sent[i]

MannedInv == \A i \in DOMAIN sent : ~Committed(sent[i]) => Manned(i)

LEMMA ReserveMans ==
    ASSUME IInv, MannedInv, NEW w \in Writers, Reserve(w)
    PROVE  MannedInv'
<1>1. PICK len \in Lens :
        LET m == [at |-> Place(wrpos, len), len |-> len] IN
            /\ wmsg' = [wmsg EXCEPT ![w] = m]
            /\ sent' = Append(sent, m)
            /\ To(w, "idle", IF WrapsAt(m.at) THEN "round" ELSE "fill")
            /\ wrcmt' = wrcmt
  BY DEF Reserve
<1> DEFINE m == [at |-> Place(wrpos, len), len |-> len]
<1>2. /\ wmsg' = [wmsg EXCEPT ![w] = m] /\ sent' = Append(sent, m) /\ wrcmt' = wrcmt
      /\ wpc[w] = "idle" /\ wpc' = [wpc EXCEPT ![w] = IF WrapsAt(m.at) THEN "round" ELSE "fill"]
  BY <1>1 DEF To
<1> HIDE DEF m
<1>3. /\ wpc'[w] # "idle" /\ wmsg'[w] = m
      /\ \A v \in Writers : v # w => wpc'[v] = wpc[v] /\ wmsg'[v] = wmsg[v]
  BY <1>2 DEF IInv, Layout, TypeOK
<1>4. /\ sent \in Seq(Message) /\ DOMAIN sent' = 1 .. Len(sent) + 1 /\ Len(sent) \in Nat
      /\ \A i \in 1 .. Len(sent) : sent'[i] = sent[i]
      /\ sent'[Len(sent) + 1] = m
  BY <1>2 DEF IInv, Layout, TypeOK
<1>5. ASSUME NEW i \in DOMAIN sent', ~(sent'[i].at < wrcmt')
      PROVE  \E v \in Writers : wpc'[v] # "idle" /\ wmsg'[v] = sent'[i]
  <2>1. CASE i = Len(sent) + 1
    BY <1>3, <1>4, <2>1
  <2>2. CASE i # Len(sent) + 1
    <3>1. i \in DOMAIN sent /\ sent'[i] = sent[i] /\ ~Committed(sent[i])
      BY <1>2, <1>4, <1>5, <2>2 DEF Committed
    <3>2. PICK v \in Writers : wpc[v] # "idle" /\ wmsg[v] = sent[i]
      BY <3>1 DEF MannedInv, Manned
    <3>3. v # w
      BY <1>2, <3>2
    <3> QED
      BY <1>3, <3>1, <3>2, <3>3
  <2> QED
    BY <2>1, <2>2
<1> QED
  BY <1>5 DEF MannedInv, Manned, Committed

LEMMA CommitMans ==
    ASSUME IInv, MannedInv, NEW w \in Writers, Commit(w)
    PROVE  MannedInv'
<1>0. Layout
  BY DEF IInv
<1>1. /\ wpc' = [wpc EXCEPT ![w] = "idle"] /\ wmsg' = [wmsg EXCEPT ![w] = Nil] /\ sent' = sent
  BY DEF Commit, To
<1>2. \A v \in Writers : v # w => wpc'[v] = wpc[v] /\ wmsg'[v] = wmsg[v]
  BY <1>0, <1>1 DEF Layout, TypeOK
<1>3. PICK k \in DOMAIN sent :
        /\ Works(w, k)
        /\ \A i \in DOMAIN sent : Committed(sent[i]) <=> i < k
        /\ \A i \in DOMAIN sent : sent[i].at < wrcmt' <=> i <= k
  BY CommitPublishes
<1>4. ASSUME NEW i \in DOMAIN sent, ~(sent[i].at < wrcmt')
      PROVE  \E v \in Writers : wpc'[v] # "idle" /\ wmsg'[v] = sent[i]
  <2>1. i # k /\ ~Committed(sent[i])
    <3>1. i \in Nat /\ k \in Nat
      BY <1>0, Spots
    <3> QED
      BY <1>3, <1>4, <3>1
  <2>2. PICK v \in Writers : wpc[v] # "idle" /\ wmsg[v] = sent[i]
    BY <2>1 DEF MannedInv, Manned
  <2>3. wmsg[w] = sent[k] /\ sent[i] # sent[k]
    BY <1>0, <1>3, <2>1, Order DEF Works
  <2>4. v # w
    BY <2>2, <2>3
  <2> QED
    BY <1>2, <2>2, <2>4
<1> QED
  BY <1>1, <1>4 DEF MannedInv, Manned, Committed

LEMMA TakeMans ==
    ASSUME IInv, MannedInv, sent # <<>>, sent' = SubSeq(sent, 2, Len(sent)),
           UNCHANGED <<wrcmt, wpc, wmsg>>
    PROVE  MannedInv'
<1>1. sent \in Seq(Message) /\ Len(sent) \in Nat \ {0} /\ sent' = Tail(sent)
  <2>1. sent \in Seq(Message)
    BY DEF IInv, Layout, TypeOK
  <2> QED
    BY <2>1, TailIsSubSeq
<1>2. /\ DOMAIN sent' = 1 .. Len(sent) - 1 /\ DOMAIN sent = 1 .. Len(sent)
      /\ \A i \in 1 .. Len(sent) - 1 : sent'[i] = sent[i + 1]
  BY <1>1, HeadTailProperties
<1>3. ASSUME NEW i \in DOMAIN sent', ~(sent'[i].at < wrcmt)
      PROVE  \E v \in Writers : wpc[v] # "idle" /\ wmsg[v] = sent'[i]
  <2>1. i + 1 \in DOMAIN sent /\ sent'[i] = sent[i + 1]
    BY <1>1, <1>2
  <2> QED
    BY <1>3, <2>1 DEF MannedInv, Manned, Committed
<1> QED
  BY <1>3 DEF MannedInv, Manned, Committed

(* Only a commit takes a writer from its message. *)
LEMMA MannedStep ==
    ASSUME IInv, MannedInv, [Next]_vars
    PROVE  MannedInv'
<1>1. CASE \E w \in Writers : Reserve(w)
  BY <1>1, ReserveMans
<1>2. ASSUME NEW w \in Writers, Round(w) \/ Fill(w) \/ Reload(w)
      PROVE  MannedInv'
  <2>1. UNCHANGED <<sent, wrcmt, wmsg>>
    BY <1>2 DEF Round, Fill, Reload
  <2>2. \A v \in Writers : wpc[v] # "idle" => wpc'[v] # "idle"
    BY <1>2 DEF Round, Fill, Reload, To, IInv, Layout, TypeOK
  <2> QED
    BY <2>1, <2>2 DEF MannedInv, Manned, Committed
<1>3. CASE \E w \in Writers : Commit(w)
  BY <1>3, CommitMans
<1>4. CASE ReadNext
  BY <1>4, NextIsFirst, TakeMans DEF ReadNext, TakeAt, writerVars
<1>5. CASE ReadRound
  <2>1. ~ReadsEmpty /\ sent # <<>>
    BY <1>5, RoundIsFirst DEF ReadRound
  <2> QED
    BY <1>5, <2>1, TakeMans DEF ReadRound, TakeAt, writerVars
<1>6. CASE ReadLook \/ ReadCmt \/ UNCHANGED vars
  <2>1. UNCHANGED <<sent, wrcmt, wpc, wmsg>>
    BY <1>6 DEF ReadLook, ReadCmt, vars, writerVars
  <2> QED
    BY <2>1 DEF MannedInv, Manned, Committed
<1> QED
  BY <1>1, <1>2, <1>3, <1>4, <1>5, <1>6 DEF Next, Writing, Reader

(* What comes before the first uncommitted message ends at wrcmt. *)
LEMMA FirstUncommitted ==
    ASSUME IInv, NEW i \in DOMAIN sent, ~Committed(sent[i]),
           \A j \in 1 .. i - 1 : Committed(sent[j])
    PROVE  Before(i) <= wrcmt
<1>0. Layout
  BY DEF IInv
<1>1. i \in Nat /\ 1 <= i /\ i <= Len(sent) /\ wrcmt \in Nat /\ wrcmt <= sent[i].at /\ sent[i].at \in Nat
  BY <1>0, Spots, Numbers DEF Committed
<1>2. CASE i = 1
  BY <1>2 DEF Before, IInv, CommitInv
<1>3. CASE i # 1
  <2>1. i - 1 \in 1 .. i - 1 /\ i - 1 \in DOMAIN sent /\ i - 1 \in Nat
    BY <1>0, <1>1, <1>3, Numbers
  <2>2. sent[i - 1].at < wrcmt /\ Before(i) = End(sent[i - 1])
    BY <1>3, <2>1 DEF Before, Committed
  <2>3. sent[i - 1].at \in Nat /\ First <= sent[i - 1].at /\ First \in Nat
    BY <1>0, <2>1, Spots, FirstPlace
  <2>4. PICK k \in DOMAIN sent : wrcmt = End(sent[k])
    BY <1>1, <2>2, <2>3 DEF IInv, CommitInv
  <2>5. k \in Nat /\ sent[k].at \in Nat /\ sent[k].at < End(sent[k])
    BY <1>0, Spots
  <2>6. i - 1 <= k
    <3>1. CASE k < i - 1
      <4>1. End(sent[k]) <= sent[i - 1].at
        BY <1>0, <2>1, <3>1, Order
      <4> QED
        BY <1>1, <2>2, <2>3, <2>4, <4>1
    <3> QED
      BY <1>1, <2>5, <3>1
  <2>7. End(sent[i - 1]) <= End(sent[k])
    BY <1>0, <2>1, <2>6, Order
  <2> QED
    BY <2>2, <2>4, <2>7
<1> QED
  BY <1>2, <1>3

(* write_cmt_mth: writers that wait for each other never wait in a ring,   *)
(* nor for a message that nobody will commit.                              *)
THEOREM TurnsCome == Spec => []TurnComes
<1>1. Init => MannedInv
  BY DEF Init, MannedInv
<1>2. IInv /\ MannedInv /\ [Next]_vars => MannedInv'
  BY MannedStep
<1>3. IInv /\ MannedInv => TurnComes
  <2> SUFFICES ASSUME IInv, MannedInv PROVE TurnComes
    OBVIOUS
  <2>1. \A w \in Writers : wpc[w] # "idle" =>
            \E i \in DOMAIN sent : wmsg[w] = sent[i] /\ ~Committed(sent[i])
    BY DEF IInv, WriterInv, Works
  <2>2. ASSUME NEW i \in DOMAIN sent, ~Committed(sent[i])
        PROVE  \E w \in Writers :
                 /\ wpc[w] # "idle" /\ wmsg[w] = sent[i]
                 /\ wpc[w] = "commit" /\ (\A j \in 1 .. i - 1 : Committed(sent[j])) =>
                      wold[w] <= wrcmt
    <3>1. PICK w \in Writers : wpc[w] # "idle" /\ wmsg[w] = sent[i]
      BY <2>2 DEF MannedInv, Manned
    <3>2. PICK k \in DOMAIN sent : Works(w, k)
      BY <3>1 DEF IInv, WriterInv
    <3>3. k = i
      BY <3>1, <3>2, Order DEF IInv, Works
    <3>4. wpc[w] = "commit" => wold[w] = Before(i)
      BY <3>2, <3>3 DEF Works
    <3>5. (\A j \in 1 .. i - 1 : Committed(sent[j])) => Before(i) <= wrcmt
      BY <2>2, FirstUncommitted
    <3> QED
      BY <3>1, <3>4, <3>5
  <2> QED
    BY <2>1, <2>2 DEF TurnComes
<1> QED
  BY <1>1, <1>2, <1>3, Invariance, PTL DEF Spec
=============================================================================
