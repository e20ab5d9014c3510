--------------------------- MODULE GwLogin_proofs ---------------------------
(***************************************************************************)
(* Proofs about GwLogin, for any set of accounts, any queue and both kinds *)
(* of link.  First what the operations of a login word do to a legal word, *)
(* then the inductive invariant of the engine.                             *)
(***************************************************************************)
EXTENDS GwLogin, FiniteSetTheorems, SequenceTheorems, TLAPS

-----------------------------------------------------------------------------
(* Every operation of log_state_ctl keeps a word legal. *)
LEMMA WordsStayLegal ==
    ASSUME NEW w, Legal(w)
    PROVE  /\ Legal(ToLogout(w))
           /\ Legal(UserLoginWord(w))
           /\ Legal(ReloginWord(w))
           /\ Legal(ClearPending(w))
           /\ Legal(AnsOk(w))
           /\ Legal(AnsErr(w))
  BY DEF Legal, Word, W, States, Pendings, Fresh, Logined, ToLogout,
         LogoutRefused, UserLoginWord, ReloginWord, ReloginSent, ClearPending,
         AnsOk, AnsErr, AnsErrTells

LEMMA LegalIsWord == ASSUME NEW w, Legal(w) PROVE w \in Word
  BY DEF Legal

-----------------------------------------------------------------------------
(* Queues of events. *)

LEMMA TailOfEvents ==
    ASSUME NEW q \in Seq(Event), q # <<>>
    PROVE  /\ Head(q) \in Event
           /\ Tail(q) \in Seq(Event)
           /\ Len(Tail(q)) = Len(q) - 1
           /\ \A i \in DOMAIN q : i # 1 => i - 1 \in DOMAIN Tail(q) /\ Tail(q)[i - 1] = q[i]
  OBVIOUS

LEMMA ReloginOrder ==
    ASSUME TypeOK, NEW s \in ReloginOrders
    PROVE  /\ s \in Seq(Event)
           /\ Len(s) = Cardinality(Relogs)
           /\ Cardinality(Relogs) \in Nat
           /\ \A a \in Relogs : \E i \in DOMAIN s : s[i] = Relogin(a)
<1>1. IsFiniteSet(Relogs)
  BY AccountsAssumption, FS_Subset DEF Relogs, TypeOK
<1>2. Cardinality(Relogs) \in Nat
  BY <1>1, FS_CardinalityType
<1>3. {Relogin(a) : a \in Relogs} \subseteq Event
  BY DEF Relogs, Relogin, TypeOK, Event, LoginEvent
<1> QED
  BY <1>2, <1>3 DEF ReloginOrders

LEMMA AppendEvents ==
    ASSUME NEW q \in Seq(Event), NEW s \in Seq(Event)
    PROVE  /\ q \o s \in Seq(Event)
           /\ Len(q \o s) = Len(q) + Len(s)
           /\ q # <<>> => q \o s # <<>> /\ Head(q \o s) = Head(q)
           /\ \A i \in DOMAIN q : i \in DOMAIN (q \o s) /\ (q \o s)[i] = q[i]
           /\ \A i \in DOMAIN s :
                Len(q) + i \in DOMAIN (q \o s) /\ (q \o s)[Len(q) + i] = s[i]
  OBVIOUS

LEMMA AppendEvent ==
    ASSUME NEW q \in Seq(Event), NEW e \in Event
    PROVE  /\ Append(q, e) \in Seq(Event)
           /\ Len(Append(q, e)) = Len(q) + 1
           /\ q # <<>> => Append(q, e) # <<>> /\ Head(Append(q, e)) = Head(q)
           /\ \A i \in DOMAIN q : i \in DOMAIN Append(q, e) /\ Append(q, e)[i] = q[i]
  OBVIOUS

LEMMA PrefixOfEvents ==
    ASSUME NEW s \in Seq(Event), NEW n \in Nat, n < Len(s)
    PROVE  SubSeq(s, 1, n) \in Seq(Event) /\ Len(SubSeq(s, 1, n)) = n
  OBVIOUS

(* The event the engine works on while it is inside one is a login. *)
LEMMA LoginAtHead ==
    ASSUME TypeOK, AtHead({"user", "relogin"})
    PROVE  queue # <<>> /\ Head(queue) \in LoginEvent
<1>1. queue # <<>> /\ Head(queue) \in Event
  BY TailOfEvents DEF TypeOK, AtHead
<1> QED
  BY <1>1 DEF AtHead, Event, LinkEvent

LEMMA AcctInAccounts ==
    ASSUME queue # <<>>, Head(queue) \in LoginEvent
    PROVE  acct \in Accounts
  BY DEF acct, LoginEvent

(* Opening the link leaves a queue of events that fits.  q is the queue or *)
(* its tail. *)
LEMMA OpeningKeepsQueue ==
    ASSUME TypeOK, NEW q \in Seq(Event), Len(q) <= Len(queue),
           LinkOpens(q) \/ LinkOpensQueueFull(q)
    PROVE  /\ queue' \in Seq(Event)
           /\ Len(queue') <= QueueCap
           /\ q # <<>> => queue' # <<>> /\ Head(queue') = Head(q)
           /\ \A i \in DOMAIN q : i \in DOMAIN queue' /\ queue'[i] = q[i]
<1>0. Len(queue) \in Nat /\ Len(q) \in Nat /\ QueueCap \in Nat /\ Len(queue) <= QueueCap
  BY QueueCapAssumption DEF TypeOK
<1>1. CASE LinkOpens(q)
  <2>1. PICK s \in ReloginOrders :
            Len(queue) + Cardinality(Relogs) <= QueueCap /\ queue' = q \o s
    BY <1>1 DEF LinkOpens
  <2>2. s \in Seq(Event) /\ Len(s) = Cardinality(Relogs) /\ Cardinality(Relogs) \in Nat
    BY ReloginOrder
  <2> QED
    BY <1>0, <2>1, <2>2, AppendEvents
<1>2. CASE LinkOpensQueueFull(q)
  <2>1. PICK s \in ReloginOrders :
            /\ Len(queue) + Cardinality(Relogs) > QueueCap
            /\ queue' = q \o SubSeq(s, 1, QueueCap - Len(queue))
    BY <1>2 DEF LinkOpensQueueFull
  <2>2. s \in Seq(Event) /\ Len(s) = Cardinality(Relogs) /\ Cardinality(Relogs) \in Nat
    BY ReloginOrder
  <2>3. QueueCap - Len(queue) \in Nat /\ QueueCap - Len(queue) < Len(s)
    BY <1>0, <2>1, <2>2
  <2>4. /\ SubSeq(s, 1, QueueCap - Len(queue)) \in Seq(Event)
        /\ Len(SubSeq(s, 1, QueueCap - Len(queue))) = QueueCap - Len(queue)
    BY <2>2, <2>3, PrefixOfEvents
  <2> QED
    BY <1>0, <2>1, <2>4, AppendEvents
<1> QED
  BY <1>1, <1>2

(* Closing the link keeps the types of what it touches. *)
LEMMA ClosingKeepsTypes ==
    ASSUME TypeOK, LinkCloses
    PROVE  /\ log' \in [Accounts -> Word]
           /\ link' = "free"
           /\ flag' \in {0, 1}
           /\ out' \in [Accounts -> Nat]
           /\ tried' \in SUBSET Accounts
           /\ owed' \in [Accounts -> {"no", "yes", "lost"}]
  BY DEF TypeOK, LinkCloses, CounterClosed, ClearPending, W, Word, Pendings

LEMMA FullOpeningKeepsTypes ==
    ASSUME TypeOK, NEW q, LinkOpensQueueFull(q)
    PROVE  /\ log' \in [Accounts -> Word]
           /\ link' = "free"
           /\ flag' \in {0, 1}
           /\ out' \in [Accounts -> Nat]
           /\ tried' \in SUBSET Accounts
           /\ owed' \in [Accounts -> {"no", "yes", "lost"}]
  BY DEF TypeOK, LinkOpensQueueFull, CounterClosed, ClearPending, W, Word, Pendings

LEMMA AnsCustLoginKeepsTypes ==
    ASSUME TypeOK, pc # "poll", AnsCustLogin
    PROVE  /\ log' \in [Accounts -> Word]
           /\ owed' \in [Accounts -> {"no", "yes", "lost"}]
<1>1. acct \in Accounts
  BY AcctInAccounts DEF TypeOK
<1>2. log' \in [Accounts -> Word]
  BY <1>1 DEF TypeOK, AnsCustLogin, ClearPending, W, Word, Pendings
<1>3. owed' \in [Accounts -> {"no", "yes", "lost"}]
  BY <1>1 DEF TypeOK, AnsCustLogin, Heard
<1> QED
  BY <1>2, <1>3

(* ans_cust_login takes the mark of its account and nothing else. *)
LEMMA AnsCustLoginClears ==
    ASSUME TypeOK, pc # "poll", AnsCustLogin, NEW a \in Accounts
    PROVE  /\ log'[a].st = log[a].st
           /\ a # acct => log'[a] = log[a]
           /\ a = acct /\ a \in known => log'[a].pend = "no"
<1>1. acct \in Accounts
  BY AcctInAccounts DEF TypeOK
<1>2. log[a] = [st |-> log[a].st, pend |-> log[a].pend]
  BY DEF TypeOK, Word
<1>3. CASE acct \in known /\ log[acct].pend # "no"
  <2>1. log' = [log EXCEPT ![acct] = W(log[acct].st, "no")]
    BY <1>3 DEF AnsCustLogin, ClearPending
  <2>2. CASE a = acct
    BY <1>1, <2>1, <2>2 DEF TypeOK, W
  <2>3. CASE a # acct
    BY <1>1, <2>1, <2>3 DEF TypeOK
  <2> QED
    BY <2>2, <2>3
<1>4. CASE ~(acct \in known /\ log[acct].pend # "no")
  BY <1>4 DEF AnsCustLogin
<1> QED
  BY <1>3, <1>4

-----------------------------------------------------------------------------
LEMMA InitTypeOK == Init => TypeOK
  BY QueueCapAssumption DEF Init, TypeOK, Fresh, W, Word, States, Pendings

LEMMA NextTypeOK == TypeOK /\ [Next]_vars => TypeOK'
<1> SUFFICES ASSUME TypeOK, [Next]_vars PROVE TypeOK'
  OBVIOUS
<1> USE DEF TypeOK
<1>0. QueueCap \in Nat /\ Len(queue) \in Nat
  BY QueueCapAssumption
<1>t. queue # <<>> => /\ Tail(queue) \in Seq(Event)
                      /\ Len(Tail(queue)) = Len(queue) - 1
                      /\ Len(Tail(queue)) <= QueueCap
  BY <1>0, TailOfEvents
<1>h. pc # "poll" => queue # <<>> /\ acct \in Accounts
  BY AcctInAccounts
<1>1. ASSUME NEW a \in Accounts, UserLogin(a) PROVE TypeOK'
  <2>1. User(a) \in Event
    BY DEF User, Event, LoginEvent
  <2> QED
    BY <1>0, <1>1, <2>1, AppendEvent DEF UserLogin
<1>2. ASSUME NEW a \in Accounts, UserLogout(a) PROVE TypeOK'
  BY <1>2 DEF UserLogout, ToLogout, W, Word, States, Pendings
<1>3. ASSUME Timer PROVE TypeOK'
  <2>1. [kind |-> IF link = "free" THEN "connect" ELSE "close"] \in Event
    BY DEF Event, LinkEvent
  <2> QED
    BY <1>0, <1>3, <2>1, AppendEvent DEF Timer
<1>4. ASSUME CloseEvent PROVE TypeOK'
  BY <1>4, <1>t, ClosingKeepsTypes DEF CloseEvent, AtHead
<1>5. ASSUME ConnectEventIdle PROVE TypeOK'
  BY <1>5, <1>t DEF ConnectEventIdle, AtHead
<1>6. ASSUME ConnectEventOpens PROVE TypeOK'
  <2>1. LinkOpens(Tail(queue)) /\ queue # <<>>
    BY <1>6 DEF ConnectEventOpens, AtHead
  <2>2. Tail(queue) \in Seq(Event) /\ Len(Tail(queue)) <= Len(queue)
    BY <1>0, <1>t, <2>1
  <2>3. queue' \in Seq(Event) /\ Len(queue') <= QueueCap
    BY <2>1, <2>2, OpeningKeepsQueue
  <2> QED
    BY <1>6, <2>1, <2>3 DEF ConnectEventOpens, AtHead, LinkOpens
<1>7. ASSUME ConnectEventQueueFull PROVE TypeOK'
  <2>1. LinkOpensQueueFull(Tail(queue)) /\ queue # <<>>
    BY <1>7 DEF ConnectEventQueueFull, AtHead
  <2>2. Tail(queue) \in Seq(Event) /\ Len(Tail(queue)) <= Len(queue)
    BY <1>0, <1>t, <2>1
  <2>3. queue' \in Seq(Event) /\ Len(queue') <= QueueCap
    BY <2>1, <2>2, OpeningKeepsQueue
  <2> QED
    BY <1>7, <2>1, <2>3, FullOpeningKeepsTypes DEF ConnectEventQueueFull, AtHead
<1>8. ASSUME LoginLinkReady PROVE TypeOK'
  BY <1>8, LoginAtHead DEF LoginLinkReady
<1>9. ASSUME LoginOpensLink PROVE TypeOK'
  <2>1. queue # <<>> /\ Head(queue) \in LoginEvent
    BY <1>9, LoginAtHead DEF LoginOpensLink
  <2>2. queue' \in Seq(Event) /\ Len(queue') <= QueueCap /\ queue' # <<>> /\ Head(queue') = Head(queue)
    BY <1>0, <1>9, <2>1, OpeningKeepsQueue DEF LoginOpensLink
  <2> QED
    BY <1>9, <2>1, <2>2 DEF LoginOpensLink, LinkOpens
<1>10. ASSUME LoginLinkFails PROVE TypeOK'
  BY <1>10, LoginAtHead DEF LoginLinkFails
<1>11. ASSUME LoginOpensQueueFull PROVE TypeOK'
  <2>1. queue # <<>> /\ Head(queue) \in LoginEvent
    BY <1>11, LoginAtHead DEF LoginOpensQueueFull
  <2>2. queue' \in Seq(Event) /\ Len(queue') <= QueueCap /\ queue' # <<>> /\ Head(queue') = Head(queue)
    BY <1>0, <1>11, <2>1, OpeningKeepsQueue DEF LoginOpensQueueFull
  <2> QED
    BY <1>11, <2>1, <2>2, FullOpeningKeepsTypes DEF LoginOpensQueueFull
<1>12. ASSUME LoginRefused PROVE TypeOK'
  BY <1>12, <1>t, <1>h, AnsCustLoginKeepsTypes DEF LoginRefused, Consumed
<1>13. ASSUME LoginOtherAccount PROVE TypeOK'
  BY <1>13, <1>t, <1>h DEF LoginOtherAccount, Consumed, Heard
<1>14. ASSUME LoginMark PROVE TypeOK'
  <2>1. log' \in [Accounts -> Word] /\ known' \in SUBSET Accounts
    BY <1>14, <1>h DEF LoginMark, UserLoginWord, W, Word, States, Pendings
  <2>2. owed' \in [Accounts -> {"no", "yes", "lost"}]
    BY <1>14, <1>h DEF LoginMark, Heard
  <2> QED
    BY <1>14, <1>t, <1>h, <2>1, <2>2 DEF LoginMark, Consumed
<1>15. ASSUME ReloginMark PROVE TypeOK'
  <2>1. log' \in [Accounts -> Word] /\ known' \in SUBSET Accounts
    BY <1>15, <1>h DEF ReloginMark, ReloginWord, W, Word, States, Pendings
  <2> QED
    BY <1>15, <1>t, <1>h, <2>1 DEF ReloginMark, Consumed
<1>16. ASSUME LoginSent PROVE TypeOK'
  BY <1>16, <1>t, <1>h DEF LoginSent, Consumed
<1>17. ASSUME LoginSendFails PROVE TypeOK'
  BY <1>17, <1>t, <1>h, AnsCustLoginKeepsTypes DEF LoginSendFails, Consumed
<1>18. ASSUME NEW a \in Accounts, AnswerOk(a) PROVE TypeOK'
  BY <1>18 DEF AnswerOk, AnsOk, W, Word, States, Pendings, Heard
<1>19. ASSUME NEW a \in Accounts, AnswerErr(a) PROVE TypeOK'
  BY <1>19 DEF AnswerErr, AnsErr, Fresh, W, Word, States, Pendings, Heard
<1>20. ASSUME Breaks PROVE TypeOK'
  BY <1>20 DEF Breaks
<1>21. ASSUME BreakSeen PROVE TypeOK'
  BY <1>21, ClosingKeepsTypes DEF BreakSeen
<1>22. ASSUME UNCHANGED vars PROVE TypeOK'
  BY <1>22 DEF vars
<1> QED
  BY <1>1, <1>2, <1>3, <1>4, <1>5, <1>6, <1>7, <1>8, <1>9, <1>10, <1>11, <1>12,
     <1>13, <1>14, <1>15, <1>16, <1>17, <1>18, <1>19, <1>20, <1>21, <1>22
     DEF Next, Engine, Answer

(* The variables keep their types, and the engine is only inside an event  *)
(* that is a login at the head of the queue.                               *)
THEOREM TypeCorrect == Spec => []TypeOK
  BY InitTypeOK, NextTypeOK, PTL DEF Spec

-----------------------------------------------------------------------------
(* Every step leaves a word as it was or applies one operation to it. *)
LEMMA WordSteps ==
    ASSUME TypeOK, [Next]_vars, NEW a \in Accounts
    PROVE  log'[a] \in {log[a], ToLogout(log[a]), UserLoginWord(log[a]),
                        ReloginWord(log[a]), ClearPending(log[a]),
                        AnsOk(log[a]), AnsErr(log[a])}
<1> USE DEF TypeOK
<1>h. pc # "poll" => acct \in Accounts
  BY AcctInAccounts
<1>1. CASE \E b \in Accounts : UserLogout(b)
  BY <1>1 DEF UserLogout
<1>2. CASE LinkCloses \/ \E q \in {queue, Tail(queue)} : LinkOpensQueueFull(q)
  BY <1>2 DEF LinkCloses, LinkOpensQueueFull, CounterClosed
<1>3. CASE AnsCustLogin
  BY <1>3 DEF AnsCustLogin
<1>4. CASE LoginMark \/ ReloginMark
  BY <1>4 DEF LoginMark, ReloginMark
<1>5. CASE \E b \in Accounts : Answer(b)
  BY <1>5 DEF Answer, AnswerOk, AnswerErr
<1>6. CASE log' = log
  BY <1>6
<1> QED
  BY <1>1, <1>2, <1>3, <1>4, <1>5, <1>6
     DEF Next, Engine, vars, UserLogin, Timer, CloseEvent, ConnectEventIdle,
         ConnectEventOpens, ConnectEventQueueFull, LoginLinkReady,
         LoginOpensLink, LoginLinkFails, LoginOpensQueueFull, LoginRefused,
         LoginOtherAccount, LoginSent, LoginSendFails, Breaks, BreakSeen

LEMMA InitLegalWords == Init => LegalWords
  BY DEF Init, LegalWords, Legal, Fresh, W, Word, States, Pendings

LEMMA NextLegalWords == TypeOK /\ LegalWords /\ [Next]_vars => LegalWords'
<1> SUFFICES ASSUME TypeOK, LegalWords, [Next]_vars, NEW a \in Accounts
             PROVE  Legal(log'[a])
  BY DEF LegalWords
<1>1. Legal(log[a])
  BY DEF LegalWords
<1> QED
  BY <1>1, WordSteps, WordsStayLegal

(* No account is marked USER while it is logged in, RELOGIN while it is    *)
(* not, and a logged out account has no mark.                              *)
THEOREM WordsAreLegal == Spec => []LegalWords
<1>1. Spec => []TypeOK
  BY TypeCorrect
<1> QED
  BY <1>1, InitLegalWords, NextLegalWords, PTL DEF Spec

-----------------------------------------------------------------------------
(* What ties the engine's place, the table and the connection together.    *)
EngineInv ==
    /\ pc \in {"login", "send"} => link # "free"
    /\ pc = "refuse" => link = "free"
    /\ pc = "send" => acct \in known
    /\ OneAccountBound
    /\ \A a \in Accounts : out[a] > 0 => a \in tried
    /\ tried \subseteq known

LEMMA InitEngineInv == Init => EngineInv
  BY DEF Init, EngineInv, OneAccountBound

LEMMA HeadStays ==
    ASSUME TypeOK, pc # "poll",
           \/ \E a \in Accounts : UserLogin(a) \/ UserLogout(a)
           \/ Timer
           \/ Breaks
    PROVE  queue' # <<>> /\ Head(queue') = Head(queue) /\ acct' = acct /\ pc' = pc
<1>1. \A a \in Accounts : User(a) \in Event
  BY DEF User, Event, LoginEvent
<1>2. [kind |-> IF link = "free" THEN "connect" ELSE "close"] \in Event
  BY DEF Event, LinkEvent
<1> QED
  BY <1>1, <1>2, AppendEvent DEF TypeOK, UserLogin, UserLogout, Timer, Breaks, acct

LEMMA NextEngineInv == TypeOK /\ EngineInv /\ [Next]_vars => EngineInv'
<1> SUFFICES ASSUME TypeOK, EngineInv, [Next]_vars PROVE EngineInv'
  OBVIOUS
<1> USE DEF EngineInv, OneAccountBound
<1>h. pc # "poll" => queue # <<>> /\ acct \in Accounts
  BY AcctInAccounts DEF TypeOK
<1>f. ClearPending(Fresh) = Fresh
  BY DEF ClearPending, Fresh, W
<1>1. CASE \E a \in Accounts : UserLogin(a)
  BY <1>1, HeadStays DEF UserLogin
<1>2. CASE \E a \in Accounts : UserLogout(a)
  <2>1. UNCHANGED <<known, queue, pc, link, out, tried>>
    BY <1>2 DEF UserLogout
  <2>2. \A b \in Accounts \ known : log'[b] = Fresh
    BY <1>2 DEF UserLogout, TypeOK
  <2> QED
    BY <2>1, <2>2 DEF acct
<1>3. CASE Timer
  BY <1>3, HeadStays DEF Timer
<1>4. CASE CloseEvent \/ BreakSeen
  BY <1>4, <1>f DEF CloseEvent, BreakSeen, AtHead, LinkCloses, CounterClosed, TypeOK
<1>5. CASE ConnectEventIdle \/ ConnectEventOpens
  BY <1>5 DEF ConnectEventIdle, ConnectEventOpens, AtHead, LinkOpens, TypeOK
<1>6. CASE ConnectEventQueueFull
  BY <1>6, <1>f DEF ConnectEventQueueFull, AtHead, LinkOpensQueueFull, CounterClosed, TypeOK
<1>7. CASE LoginLinkReady \/ LoginOpensLink \/ LoginLinkFails
  BY <1>7 DEF LoginLinkReady, LoginOpensLink, LoginLinkFails, LinkOpens, TypeOK
<1>8. CASE LoginOpensQueueFull
  BY <1>8, <1>f DEF LoginOpensQueueFull, LinkOpensQueueFull, CounterClosed, TypeOK
<1>9. CASE LoginRefused \/ LoginSendFails
  <2>1. /\ pc' = "poll" /\ known' = known /\ out' = out
        /\ tried \subseteq tried' /\ tried' \subseteq known
    BY <1>9 DEF LoginRefused, LoginSendFails, Consumed
  <2>2. \A b \in Accounts \ known : log'[b] = Fresh
    BY <1>9, <1>h DEF LoginRefused, LoginSendFails, AnsCustLogin, TypeOK
  <2> QED
    BY <2>1, <2>2
<1>10. CASE LoginOtherAccount
  BY <1>10 DEF LoginOtherAccount, Consumed
<1>11. CASE LoginMark \/ ReloginMark
  <2>1. /\ known' = known \cup {acct} /\ UNCHANGED <<link, out, tried>>
        /\ pc' = "poll" \/ (pc' = "send" /\ queue' = queue)
        /\ link # "free"
        /\ OneCust => known = {} \/ acct \in known
    BY <1>11 DEF LoginMark, ReloginMark, Consumed, BoundToOther
  <2>2. \A b \in Accounts \ known' : log'[b] = Fresh
    BY <1>11, <1>h, <2>1 DEF LoginMark, ReloginMark, TypeOK
  <2> QED
    BY <2>1, <2>2 DEF acct
<1>12. CASE LoginSent
  BY <1>12, <1>h DEF LoginSent, Consumed, TypeOK
<1>13. CASE \E a \in Accounts : Answer(a)
  <2>1. PICK a \in Accounts : Answer(a)
    BY <1>13
  <2>2. /\ UNCHANGED <<known, queue, pc, link, tried>>
        /\ out' = [out EXCEPT ![a] = @ - 1]
        /\ out[a] > 0
    BY <2>1 DEF Answer, AnswerOk, AnswerErr
  <2>3. \A b \in Accounts \ known : log'[b] = Fresh
    (* An account without entry has no request, hence no answer. *)
    <3>1. a \in known
      BY <2>2
    <3> QED
      BY <2>1, <3>1 DEF Answer, AnswerOk, AnswerErr, TypeOK
  <2> QED
    BY <2>2, <2>3 DEF TypeOK, acct
<1>14. CASE Breaks
  BY <1>14 DEF Breaks, acct
<1>15. CASE UNCHANGED vars
  BY <1>15 DEF vars, acct
<1> QED
  BY <1>1, <1>2, <1>3, <1>4, <1>5, <1>6, <1>7, <1>8, <1>9, <1>10, <1>11,
     <1>12, <1>13, <1>14, <1>15 DEF Next, Engine

(* Single customer mode never has two accounts in its entry, and nothing   *)
(* is recorded about an account without entry. *)
THEOREM EntryIsBound == Spec => []OneAccountBound
<1>1. Spec => []TypeOK
  BY TypeCorrect
<1>2. EngineInv => OneAccountBound
  BY DEF EngineInv
<1> QED
  BY <1>1, <1>2, InitEngineInv, NextEngineInv, PTL DEF Spec

-----------------------------------------------------------------------------
(* Nobody waits unmarked. *)

LEMMA InitOwed == Init => OwedIsMarked
  BY DEF Init, OwedIsMarked

LEMMA NextOwed ==
    TypeOK /\ LegalWords /\ OwedIsMarked /\ [Next]_vars => OwedIsMarked'
<1> SUFFICES ASSUME TypeOK, LegalWords, OwedIsMarked, [Next]_vars,
                    NEW a \in Accounts, owed'[a] = "yes"
             PROVE  log'[a].pend = "USER"
  BY DEF OwedIsMarked
<1>l. Legal(log[a])
  BY DEF LegalWords
<1>o. owed[a] = "yes" => log[a].pend = "USER"
  BY DEF OwedIsMarked
<1>h. pc # "poll" => acct \in Accounts
  BY AcctInAccounts DEF TypeOK
<1>1. CASE \E b \in Accounts : UserLogout(b)
  BY <1>1, <1>o DEF UserLogout, ToLogout, LogoutRefused, TypeOK
<1>2. CASE LinkCloses \/ \E q \in {queue, Tail(queue)} : LinkOpensQueueFull(q)
  BY <1>2, <1>o DEF LinkCloses, LinkOpensQueueFull, CounterClosed
<1>3. CASE LoginRefused \/ LoginSendFails
  <2>1. AnsCustLogin /\ acct \in Accounts
    BY <1>3, <1>h DEF LoginRefused, LoginSendFails
  <2>2. CASE a = acct
    BY <2>1, <2>2, <1>o DEF AnsCustLogin, Heard, TypeOK
  <2>3. CASE a # acct
    BY <2>1, <2>3, <1>o DEF AnsCustLogin, Heard, TypeOK
  <2> QED
    BY <2>2, <2>3
<1>4. CASE LoginMark
  <2>1. CASE a = acct
    <3>1. UserLoginStep(log[a]) # "done"
      BY <1>4, <1>h, <2>1 DEF LoginMark, Heard, TypeOK
    <3> QED
      BY <1>4, <1>h, <2>1, <3>1
         DEF LoginMark, UserLoginStep, UserLoginWord, W, TypeOK
  <2>2. CASE a # acct
    BY <1>4, <1>h, <1>o, <2>2 DEF LoginMark, Heard, TypeOK
  <2> QED
    BY <2>1, <2>2
<1>5. CASE ReloginMark
  BY <1>5, <1>h, <1>o, <1>l
     DEF ReloginMark, ReloginWord, ReloginSent, Logined, Legal, W, TypeOK
<1>6. CASE LoginOtherAccount
  BY <1>6, <1>h, <1>o DEF LoginOtherAccount, Heard, TypeOK
<1>7. CASE \E b \in Accounts : Answer(b)
  BY <1>7, <1>l, <1>o
     DEF Answer, AnswerOk, AnswerErr, AnsOk, AnsOkTells, AnsErr, AnsErrTells,
         Legal, Logined, Heard, W, Fresh, TypeOK
<1>8. CASE UNCHANGED <<log, owed>>
  BY <1>8, <1>o
<1> QED
  BY <1>1, <1>2, <1>3, <1>4, <1>5, <1>6, <1>7, <1>8
     DEF Next, Engine, vars, UserLogin, Timer, CloseEvent, ConnectEventIdle,
         ConnectEventOpens, ConnectEventQueueFull, LoginLinkReady,
         LoginOpensLink, LoginLinkFails, LoginOpensQueueFull, LoginSent,
         Breaks, BreakSeen

(* A user who waits for on_login is marked in the word of his account, on  *)
(* both kinds of link. *)
THEOREM OwedLoginsAreMarked == Spec => []OwedIsMarked
<1>1. Spec => []TypeOK
  BY TypeCorrect
<1>2. Spec => []LegalWords
  BY WordsAreLegal
<1> QED
  BY <1>1, <1>2, InitOwed, NextOwed, PTL DEF Spec

-----------------------------------------------------------------------------
(* A reconnection forgets nobody. *)

Queued(a) == \E i \in DOMAIN queue : queue[i] = Relogin(a)

LEMMA StillQueuedInTail ==
    ASSUME TypeOK, queue # <<>>, NEW a, Queued(a), Head(queue) # Relogin(a)
    PROVE  \E i \in DOMAIN Tail(queue) : Tail(queue)[i] = Relogin(a)
<1>1. PICK i \in DOMAIN queue : queue[i] = Relogin(a)
  BY DEF Queued
<1>2. i # 1
  BY <1>1 DEF TypeOK
<1>3. i - 1 \in DOMAIN Tail(queue) /\ Tail(queue)[i - 1] = queue[i]
  BY <1>2, TailOfEvents DEF TypeOK
<1> QED
  BY <1>1, <1>3

(* The link opens with a relogin event for every account logged in. *)
LEMMA OpeningQueuesAll ==
    ASSUME TypeOK, OneAccountBound, NEW q \in Seq(Event), LinkOpens(q),
           NEW a \in Accounts, Logined(log[a])
    PROVE  Queued(a)'
<1>1. a \in Relogs
  BY DEF OneAccountBound, Logined, Fresh, W, Relogs
<1>2. PICK s \in ReloginOrders : queue' = q \o s
  BY DEF LinkOpens
<1>3. s \in Seq(Event) /\ \E i \in DOMAIN s : s[i] = Relogin(a)
  BY <1>1, ReloginOrder
<1>4. PICK i \in DOMAIN s : s[i] = Relogin(a)
  BY <1>3
<1>5. Len(q) + i \in DOMAIN queue' /\ queue'[Len(q) + i] = s[i]
  BY <1>2, <1>3, AppendEvents
<1> QED
  BY <1>4, <1>5 DEF Queued, Relogin

LEMMA InitCovers == Init => ReloginCovers
  BY DEF Init, ReloginCovers

LEMMA NextCovers ==
    TypeOK /\ LegalWords /\ EngineInv /\ ReloginCovers /\ [Next]_vars => ReloginCovers'
<1> SUFFICES ASSUME TypeOK, LegalWords, EngineInv, ReloginCovers, [Next]_vars,
                    link' = "up", NEW a \in Accounts, Logined(log'[a])
             PROVE  a \in tried' \/ Queued(a)'
  BY DEF ReloginCovers, Queued, Relogin
<1>c. link = "up" /\ Logined(log[a]) => a \in tried \/ Queued(a)
  BY DEF ReloginCovers, Queued
<1>l. Legal(log[a])
  BY DEF LegalWords
<1>h. pc # "poll" => queue # <<>> /\ acct \in Accounts /\ Head(queue) \in LoginEvent
  BY AcctInAccounts DEF TypeOK
<1>t. queue # <<>> /\ queue' = Tail(queue) /\ Queued(a) /\ Head(queue) # Relogin(a)
        => Queued(a)'
  BY StillQueuedInTail DEF Queued, Relogin
<1>1. CASE (\E b \in Accounts : UserLogin(b)) \/ Timer
  <2>1. \A b \in Accounts : User(b) \in Event
    BY DEF User, Event, LoginEvent
  <2>2. [kind |-> IF link = "free" THEN "connect" ELSE "close"] \in Event
    BY DEF Event, LinkEvent
  <2>3. PICK e \in Event : queue' = Append(queue, e)
    BY <1>1, <2>1, <2>2 DEF UserLogin, Timer
  <2>4. Queued(a) => Queued(a)'
    BY <2>3, AppendEvent DEF Queued, Relogin, TypeOK
  <2> QED
    BY <1>1, <1>c, <2>4 DEF UserLogin, Timer
<1>2. CASE \E b \in Accounts : UserLogout(b)
  <2>1. Logined(log[a]) /\ UNCHANGED <<queue, link, tried>>
    BY <1>2 DEF UserLogout, ToLogout, Logined, W, TypeOK
  <2> QED
    BY <2>1, <1>c DEF Queued, Relogin
<1>3. CASE CloseEvent \/ BreakSeen
  BY <1>3 DEF CloseEvent, BreakSeen, LinkCloses
<1>4. CASE ConnectEventIdle
  <2>1. queue # <<>> /\ Head(queue) # Relogin(a)
    BY <1>4 DEF ConnectEventIdle, AtHead, Relogin
  <2> QED
    BY <1>4, <1>c, <1>t, <2>1 DEF ConnectEventIdle
<1>5. CASE ConnectEventOpens
  <2>1. LinkOpens(Tail(queue)) /\ queue # <<>> /\ Logined(log[a])
    BY <1>5 DEF ConnectEventOpens, AtHead
  <2> QED
    BY <2>1, OpeningQueuesAll, TailOfEvents DEF EngineInv, TypeOK
<1>6. CASE LoginOpensLink
  <2>1. LinkOpens(queue) /\ Logined(log[a])
    BY <1>6 DEF LoginOpensLink
  <2> QED
    BY <2>1, OpeningQueuesAll DEF EngineInv, TypeOK
<1>7. CASE ConnectEventQueueFull \/ LoginOpensQueueFull
  BY <1>7 DEF ConnectEventQueueFull, LoginOpensQueueFull, LinkOpensQueueFull
<1>8. CASE LoginLinkFails \/ LoginRefused
  BY <1>8 DEF LoginLinkFails, LoginRefused, EngineInv
<1>9. CASE LoginLinkReady
  BY <1>9, <1>c DEF LoginLinkReady, Queued, Relogin
<1>10. CASE LoginOtherAccount
  <2>1. Logined(log[a]) /\ UNCHANGED <<link, tried>> /\ queue' = Tail(queue)
    BY <1>10 DEF LoginOtherAccount, Consumed
  <2>2. a \in known /\ acct \notin known
    BY <1>10, <2>1 DEF LoginOtherAccount, BoundToOther, EngineInv, OneAccountBound,
                       Logined, Fresh, W
  <2>3. Head(queue) # Relogin(a)
    BY <2>2 DEF acct, Relogin
  <2> QED
    BY <1>10, <1>c, <1>h, <1>t, <2>1, <2>3 DEF LoginOtherAccount
<1>11. CASE LoginMark
  <2>1. Logined(log[a]) /\ UNCHANGED <<link, tried>>
    BY <1>11, <1>h DEF LoginMark, UserLoginWord, Logined, W, TypeOK
  <2>2. Head(queue) # Relogin(a) /\ queue # <<>>
    BY <1>11, <1>h DEF LoginMark, byUser, Relogin
  <2>3. queue' = queue \/ queue' = Tail(queue)
    BY <1>11 DEF LoginMark, Consumed
  <2> QED
    BY <1>c, <1>t, <2>1, <2>2, <2>3 DEF Queued, Relogin
<1>12. CASE ReloginMark
  <2>1. Logined(log[a]) /\ UNCHANGED <<link, tried>>
    BY <1>12, <1>h DEF ReloginMark, ReloginWord, ReloginSent, Logined, W, TypeOK
  <2>2. CASE ReloginSent(log[acct])
    BY <1>12, <1>c, <2>1, <2>2 DEF ReloginMark, Queued, Relogin
  <2>3. CASE ~ReloginSent(log[acct])
    <3>1. a # acct
      BY <1>l, <2>1, <2>3 DEF ReloginSent, Logined, Legal
    <3>2. Head(queue) # Relogin(a) /\ queue # <<>> /\ queue' = Tail(queue)
      BY <1>12, <1>h, <2>3, <3>1 DEF ReloginMark, Consumed, acct, Relogin
    <3> QED
      BY <1>c, <1>t, <2>1, <3>2
  <2> QED
    BY <2>2, <2>3
<1>13. CASE LoginSent \/ LoginSendFails
  <2>1. /\ queue # <<>> /\ queue' = Tail(queue) /\ link' = link
        /\ tried' = tried \cup {acct}
    BY <1>13, <1>h DEF LoginSent, LoginSendFails, Consumed
  <2>2. Logined(log[a])
    BY <1>13, <1>h, AnsCustLoginClears DEF LoginSent, LoginSendFails, Logined
  <2>3. Head(queue) = Relogin(a) => acct = a
    BY DEF acct, Relogin
  <2> QED
    BY <1>c, <1>t, <2>1, <2>2, <2>3
<1>14. CASE \E b \in Accounts : Answer(b)
  <2>1. PICK b \in Accounts : Answer(b)
    BY <1>14
  <2>2. b \in tried /\ UNCHANGED <<queue, link, tried>>
    BY <2>1 DEF Answer, AnswerOk, AnswerErr, EngineInv
  <2>3. a # b => log'[a] = log[a]
    BY <2>1 DEF Answer, AnswerOk, AnswerErr, TypeOK
  <2> QED
    BY <1>c, <2>2, <2>3 DEF Queued, Relogin
<1>15. CASE Breaks
  BY <1>15 DEF Breaks
<1>16. CASE UNCHANGED vars
  BY <1>16, <1>c DEF vars, Queued, Relogin
<1> QED
  BY <1>1, <1>2, <1>3, <1>4, <1>5, <1>6, <1>7, <1>8, <1>9, <1>10, <1>11,
     <1>12, <1>13, <1>14, <1>15, <1>16 DEF Next, Engine

(* After every reconnection each account that is logged in is presented    *)
(* again, whatever is in the queue and on whichever kind of link.          *)
THEOREM ReconnectionForgetsNobody == Spec => []ReloginCovers
<1>1. Spec => [](TypeOK /\ LegalWords)
  BY TypeCorrect, WordsAreLegal, PTL
<1>2. Spec => []EngineInv
  BY <1>1, InitEngineInv, NextEngineInv, PTL DEF Spec
<1> QED
  BY <1>1, <1>2, InitCovers, NextCovers, PTL DEF Spec

-----------------------------------------------------------------------------
(* Where the link reports its close, no mark outlives what can answer it.  *)

Backed(a) ==
    \/ link = "up" /\ out[a] > 0
    \/ link = "dead"
    \/ pc = "send" /\ acct = a

LEMMA InitMarks == Init => MarkIsBacked /\ CloseCleansUp
  BY DEF Init, MarkIsBacked, CloseCleansUp, CloseClearsMarks, Fresh, W

LEMMA ClosedNoMark ==
    ASSUME TypeOK, CloseNotifies,
           LinkCloses \/ \E q \in {queue, Tail(queue)} : LinkOpensQueueFull(q)
    PROVE  /\ link' = "free" /\ flag' = 0
           /\ \A a \in Accounts : log'[a].pend = "no"
  BY DEF LinkCloses, LinkOpensQueueFull, CounterClosed, ClearPending, W

LEMMA NextMarks ==
    ASSUME CloseNotifies
    PROVE  TypeOK /\ LegalWords /\ EngineInv /\ MarkIsBacked /\ CloseCleansUp
             /\ [Next]_vars => MarkIsBacked' /\ CloseCleansUp'
<1> SUFFICES ASSUME TypeOK, LegalWords, EngineInv, MarkIsBacked, CloseCleansUp,
                    [Next]_vars
             PROVE  /\ \A a \in Accounts : log'[a].pend # "no" => Backed(a)'
                    /\ CloseCleansUp'
  BY DEF MarkIsBacked, Backed, acct
<1>b. \A a \in Accounts : log[a].pend # "no" => Backed(a)
  BY DEF MarkIsBacked, Backed
<1>c. link = "free" => flag = 0 /\ \A a \in Accounts : log[a].pend = "no"
  BY DEF CloseCleansUp, CloseClearsMarks
<1>h. pc # "poll" => queue # <<>> /\ acct \in Accounts
  BY AcctInAccounts DEF TypeOK
<1>e. /\ pc \in {"login", "send"} => link # "free"
      /\ pc = "refuse" => link = "free"
      /\ pc = "send" => acct \in known
  BY DEF EngineInv
<1>k. link' # "free" => CloseCleansUp'
  BY DEF CloseCleansUp, CloseClearsMarks
<1>1. CASE (\E b \in Accounts : UserLogin(b)) \/ Timer
  <2>1. UNCHANGED <<log, pc, link, flag, out>> /\ (pc = "send" => acct' = acct)
    BY <1>1, HeadStays DEF UserLogin, Timer
  <2> QED
    BY <1>b, <1>c, <2>1 DEF Backed, CloseCleansUp, CloseClearsMarks
<1>2. CASE \E b \in Accounts : UserLogout(b)
  <2>1. UNCHANGED <<queue, pc, link, flag, out>>
    BY <1>2 DEF UserLogout
  <2>2. \A a \in Accounts : log'[a].pend # "no" => log[a].pend # "no"
    BY <1>2 DEF UserLogout, ToLogout, W, TypeOK
  <2> QED
    BY <1>b, <1>c, <2>1, <2>2 DEF Backed, CloseCleansUp, CloseClearsMarks, acct
<1>3. CASE LinkCloses \/ \E q \in {queue, Tail(queue)} : LinkOpensQueueFull(q)
  BY <1>3, ClosedNoMark DEF CloseCleansUp, CloseClearsMarks
<1>4. CASE CloseEvent /\ link = "free"
  BY <1>c, <1>4 DEF CloseEvent, CloseCleansUp, CloseClearsMarks
<1>5. CASE ConnectEventIdle
  <2>1. UNCHANGED <<log, pc, link, flag, out>> /\ pc = "poll"
    BY <1>5 DEF ConnectEventIdle, AtHead
  <2> QED
    BY <1>b, <1>c, <2>1 DEF Backed, CloseCleansUp, CloseClearsMarks
<1>6. CASE ConnectEventOpens \/ LoginOpensLink
  <2>1. link = "free" /\ link' = "up" /\ log' = log
    BY <1>6 DEF ConnectEventOpens, LoginOpensLink, LinkOpens
  <2> QED
    BY <1>c, <1>k, <2>1
<1>7. CASE LoginLinkReady \/ LoginLinkFails
  <2>1. UNCHANGED <<log, queue, link, flag, out>> /\ pc = "poll"
    BY <1>7 DEF LoginLinkReady, LoginLinkFails, AtHead
  <2> QED
    BY <1>b, <1>c, <2>1 DEF Backed, CloseCleansUp, CloseClearsMarks
<1>8. CASE LoginRefused
  <2>1. link' = "free" /\ flag' = flag /\ AnsCustLogin /\ link = "free"
    BY <1>8, <1>e DEF LoginRefused
  <2>2. \A a \in Accounts : log'[a].pend = "no"
    <3>1. pc # "poll"
      BY <1>8 DEF LoginRefused
    <3> QED
      BY <1>c, <1>h, <2>1, <3>1 DEF AnsCustLogin
  <2> QED
    BY <1>c, <2>1, <2>2 DEF CloseCleansUp, CloseClearsMarks
<1>9. CASE LoginOtherAccount
  <2>1. UNCHANGED <<log, link, flag, out>> /\ link # "free" /\ pc = "login"
    BY <1>9, <1>e DEF LoginOtherAccount
  <2> QED
    BY <1>b, <1>k, <2>1 DEF Backed
<1>10. CASE LoginMark \/ ReloginMark
  <2>1. UNCHANGED <<link, flag, out>> /\ link # "free" /\ pc = "login"
    BY <1>10, <1>e DEF LoginMark, ReloginMark
  <2>2. \A a \in Accounts : a # acct => log'[a] = log[a]
    BY <1>10 DEF LoginMark, ReloginMark, TypeOK
  <2>3. \/ pc' = "send" /\ queue' = queue
        \/ log'[acct] = log[acct] \/ log[acct].pend # "no"
    <3>1. CASE LoginMark
      BY <1>h, <2>1, <3>1 DEF LoginMark, UserLoginStep, UserLoginWord, TypeOK
    <3>2. CASE ReloginMark
      BY <1>h, <2>1, <3>2 DEF ReloginMark, ReloginWord, TypeOK
    <3> QED
      BY <1>10, <3>1, <3>2
  <2> QED
    BY <1>b, <1>h, <1>k, <2>1, <2>2, <2>3 DEF Backed, acct
<1>11. CASE LoginSent
  <2>1. UNCHANGED <<log, link, flag>> /\ link \in {"up", "dead"}
    BY <1>11, <1>e DEF LoginSent, TypeOK
  <2>2. link = "up" => out' = [out EXCEPT ![acct] = @ + 1]
    BY <1>11 DEF LoginSent
  <2> QED
    BY <1>b, <1>h, <1>k, <1>11, <2>1, <2>2 DEF Backed, LoginSent, TypeOK
<1>12. CASE LoginSendFails
  <2>1. UNCHANGED <<link, flag, out, known>> /\ link # "free" /\ AnsCustLogin /\ pc = "send"
    BY <1>12, <1>e DEF LoginSendFails
  <2>2. \A a \in Accounts : log'[a].pend # "no" => a # acct /\ log'[a] = log[a]
    BY <1>e, <2>1, AnsCustLoginClears
  <2> QED
    BY <1>b, <1>k, <2>1, <2>2 DEF Backed
<1>13. CASE \E b \in Accounts : Answer(b)
  <2>1. PICK b \in Accounts : Answer(b)
    BY <1>13
  <2>2. UNCHANGED <<queue, pc, link, flag>> /\ link = "up" /\ pc = "poll"
        /\ \A a \in Accounts : a # b => log'[a] = log[a] /\ out'[a] = out[a]
    BY <2>1 DEF Answer, AnswerOk, AnswerErr, TypeOK
  <2>3. Legal(log[b])
    BY DEF LegalWords
  <2>4. log'[b].pend = "no"
    <3>1. log'[b] = AnsOk(log[b]) \/ log'[b] = AnsErr(log[b])
      BY <2>1 DEF Answer, AnswerOk, AnswerErr, TypeOK
    <3> QED
      BY <2>3, <3>1 DEF AnsOk, AnsErr, AnsErrTells, Fresh, W, Legal, Word, Pendings
  <2> QED
    BY <1>b, <1>k, <2>2, <2>4 DEF Backed
<1>14. CASE Breaks
  BY <1>14, <1>k DEF Breaks, Backed
<1>15. CASE UNCHANGED vars
  BY <1>15, <1>b, <1>c DEF vars, Backed, CloseCleansUp, CloseClearsMarks, acct
<1> QED
  BY <1>1, <1>2, <1>3, <1>4, <1>5, <1>6, <1>7, <1>8, <1>9, <1>10, <1>11,
     <1>12, <1>13, <1>14, <1>15
     DEF Next, Engine, CloseEvent, BreakSeen, ConnectEventQueueFull, LoginOpensQueueFull

LEMMA MarksHold ==
    ASSUME CloseNotifies
    PROVE  Spec => []MarkIsBacked /\ []CloseCleansUp
<1>1. Spec => [](TypeOK /\ LegalWords)
  BY TypeCorrect, WordsAreLegal, PTL
<1>2. Spec => []EngineInv
  BY <1>1, InitEngineInv, NextEngineInv, PTL DEF Spec
<1> QED
  BY <1>1, <1>2, InitMarks, NextMarks, PTL DEF Spec

(* On a link that reports its close (tcpdir_link), an account is never     *)
(* left marked with nothing that would answer it.                          *)
THEOREM MarksAreBacked ==
    ASSUME CloseNotifies
    PROVE  Spec => []MarkIsBacked
BY MarksHold, PTL

(* There, deal_link_close leaves neither a mark nor the link flag behind.  *)
THEOREM ClosedLinkIsClean ==
    ASSUME CloseNotifies
    PROVE  Spec => []CloseCleansUp
BY MarksHold, PTL

-----------------------------------------------------------------------------
(* What may move the login state of an account. *)

StateMove(a) ==
    /\ log[a].st = "OK" /\ log'[a].st = "NONE" =>
           log[a].pend = "RELOGIN" /\ out'[a] < out[a] /\ link' = "up"
    /\ log[a].st = "LOGOUT" /\ log'[a].st # "LOGOUT" => log'[a] = W("NONE", "USER")

(* Only a login request and the two answers move a word out of OK or LOGOUT. *)
LEMMA OtherWordsStay ==
    ASSUME NEW w, Legal(w)
    PROVE  /\ ClearPending(w).st = w.st
           /\ ReloginWord(w).st = w.st
           /\ ToLogout(w).st = w.st \/ (w.st = "OK" /\ ToLogout(w).st = "LOGOUT")
           /\ UserLoginWord(w).st = w.st \/ (w.st # "OK" /\ UserLoginWord(w) = W("NONE", "USER"))
           /\ AnsOk(w).st = w.st \/ (w.st = "NONE" /\ AnsOk(w).st = "OK")
           /\ AnsErr(w).st = w.st \/ (w.pend = "RELOGIN" /\ w.st = "OK")
  BY DEF Legal, Word, W, States, Pendings, Fresh, Logined, ToLogout,
         LogoutRefused, UserLoginWord, ReloginWord, ReloginSent, ClearPending,
         AnsOk, AnsErr, AnsErrTells

LEMMA StepMoves == TypeOK /\ LegalWords /\ [Next]_vars => \A a \in Accounts : StateMove(a)
<1> SUFFICES ASSUME TypeOK, LegalWords, [Next]_vars, NEW a \in Accounts
             PROVE  StateMove(a)
  OBVIOUS
<1>l. Legal(log[a])
  BY DEF LegalWords
<1>1. CASE \E b \in Accounts : AnswerErr(b)
  <2>1. PICK b \in Accounts : AnswerErr(b)
    BY <1>1
  <2>2. CASE a = b
    <3>1. log'[a] = AnsErr(log[a]) /\ out'[a] < out[a] /\ link' = "up"
      BY <2>1, <2>2 DEF AnswerErr, TypeOK
    <3> QED
      BY <1>l, <3>1, OtherWordsStay DEF StateMove
  <2>3. CASE a # b
    BY <2>1, <2>3 DEF AnswerErr, TypeOK, StateMove
  <2> QED
    BY <2>2, <2>3
<1>2. CASE ~\E b \in Accounts : AnswerErr(b)
  <2>1. log'[a] \in {log[a], ToLogout(log[a]), UserLoginWord(log[a]),
                     ReloginWord(log[a]), ClearPending(log[a]), AnsOk(log[a])}
    <3>h. pc # "poll" => acct \in Accounts
      BY AcctInAccounts DEF TypeOK
    <3>1. CASE \E b \in Accounts : UserLogout(b)
      BY <3>1 DEF UserLogout, TypeOK
    <3>2. CASE LinkCloses \/ \E q \in {queue, Tail(queue)} : LinkOpensQueueFull(q)
      BY <3>2 DEF LinkCloses, LinkOpensQueueFull, CounterClosed
    <3>3. CASE AnsCustLogin
      BY <3>3 DEF AnsCustLogin, TypeOK
    <3>4. CASE LoginMark \/ ReloginMark
      BY <3>4 DEF LoginMark, ReloginMark, TypeOK
    <3>5. CASE \E b \in Accounts : AnswerOk(b)
      BY <3>5 DEF AnswerOk, TypeOK
    <3>6. CASE log' = log
      BY <3>6
    <3> QED
      BY <1>2, <3>1, <3>2, <3>3, <3>4, <3>5, <3>6
         DEF Next, Engine, Answer, vars, UserLogin, Timer, CloseEvent, ConnectEventIdle,
             ConnectEventOpens, ConnectEventQueueFull, LoginLinkReady,
             LoginOpensLink, LoginLinkFails, LoginOpensQueueFull, LoginRefused,
             LoginOtherAccount, LoginSent, LoginSendFails, Breaks, BreakSeen
  <2> QED
    BY <1>l, <2>1, OtherWordsStay DEF StateMove
<1> QED
  BY <1>1, <1>2

(* A login is lost only to the refusal of a relogin or to the user's       *)
(* logout, and no late answer brings back what was logged out.             *)
THEOREM StatesMoveRight == Spec => LoginStateMoves
<1>1. Spec => [](TypeOK /\ LegalWords)
  BY TypeCorrect, WordsAreLegal, PTL
<1>2. TypeOK /\ LegalWords /\ [Next]_vars =>
        [\A a \in Accounts :
           /\ log[a].st = "OK" /\ log'[a].st = "NONE" =>
                  log[a].pend = "RELOGIN" /\ out'[a] < out[a] /\ link' = "up"
           /\ log[a].st = "LOGOUT" /\ log'[a].st # "LOGOUT" => log'[a] = W("NONE", "USER")
        ]_vars
  BY StepMoves DEF StateMove
<1> QED
  BY <1>1, <1>2, PTL DEF Spec, LoginStateMoves

-----------------------------------------------------------------------------
(* GwLogin implements AccountLogin: st and waits are the user's view of     *)
(* the words and of what he is owed.                                        *)

st == [a \in Accounts |-> log[a].st]
waits == [a \in Accounts |-> owed[a] = "yes"]

LEMMA PromiseInit == Init => Promise!Init
<1> SUFFICES ASSUME Init PROVE Promise!Init
  OBVIOUS
<1>1. \A a \in Accounts : log[a].st = "NONE" /\ (owed[a] = "yes") = FALSE
  BY DEF Init, Fresh, W
<1>2. st = [a \in Accounts |-> "NONE"]
  BY <1>1 DEF st
<1>3. waits = [a \in Accounts |-> FALSE]
  BY <1>1 DEF waits
<1> QED
  BY <1>2, <1>3 DEF Promise!Init, st, waits

(* What the user sees of account a. *)
Sees(a, s, w) == log[a].st = s /\ (owed[a] = "yes") = w

(* He sees no difference. *)
Unseen(a) == log'[a].st = log[a].st /\ (owed'[a] = "yes" <=> owed[a] = "yes")

LEMMA NothingSeen ==
    ASSUME \A a \in Accounts : Unseen(a)
    PROVE  st' = st /\ waits' = waits
<1>1. \A a \in Accounts : log'[a].st = log[a].st
  BY DEF Unseen
<1>2. \A a \in Accounts : (owed'[a] = "yes") = (owed[a] = "yes")
  BY DEF Unseen
<1>3. st' = st
  BY <1>1 DEF st
<1>4. waits' = waits
  BY <1>2 DEF waits
<1> QED
  BY <1>3, <1>4

LEMMA OneSeen ==
    ASSUME NEW b \in Accounts, \A a \in Accounts : a # b => Unseen(a)
    PROVE  /\ st' = [st EXCEPT ![b] = log'[b].st]
           /\ waits' = [waits EXCEPT ![b] = (owed'[b] = "yes")]
           /\ st[b] = log[b].st
           /\ waits[b] <=> owed[b] = "yes"
<1>1. \A a \in Accounts : a # b => log'[a].st = log[a].st
  BY DEF Unseen
<1>2. \A a \in Accounts : a # b => (owed'[a] = "yes") = (owed[a] = "yes")
  BY DEF Unseen
<1>3. st' = [st EXCEPT ![b] = log'[b].st]
  BY <1>1 DEF st
<1>4. waits' = [waits EXCEPT ![b] = (owed'[b] = "yes")]
  BY <1>2 DEF waits
<1>5. st[b] = log[b].st
  BY DEF st
<1>6. waits[b] <=> owed[b] = "yes"
  BY DEF waits
<1> QED
  BY <1>3, <1>4, <1>5, <1>6

(* The moves of one account that AccountLogin allows. *)
OneMove(b) ==
    \/ log[b].st # "OK" /\ log'[b].st = "NONE" /\ owed'[b] = "yes"
    \/ owed[b] = "yes" /\ owed'[b] # "yes" /\ log'[b].st \in {log[b].st, "OK"}
    \/ /\ owed[b] = "yes" <=> owed'[b] = "yes"
       /\ log[b].st = "OK" /\ log'[b].st = "NONE"
    \/ owed[b] # "yes" /\ owed'[b] # "yes" /\ log[b].st = "NONE" /\ log'[b].st = "OK"
    \/ owed[b] # "yes" /\ owed'[b] # "yes" /\ log[b].st = "OK" /\ log'[b].st = "LOGOUT"

LEMMA MoveIsPromised ==
    ASSUME NEW b \in Accounts, \A a \in Accounts : a # b => Unseen(a), OneMove(b)
    PROVE  Promise!Next
<1> DEFINE s == log'[b].st
<1>1. /\ st' = [st EXCEPT ![b] = s]
      /\ waits' = [waits EXCEPT ![b] = (owed'[b] = "yes")]
      /\ st[b] = log[b].st
      /\ waits[b] <=> owed[b] = "yes"
  BY OneSeen
<1>u. waits' = [waits EXCEPT ![b] = (owed'[b] = "yes")] /\ (owed'[b] = "yes" <=> waits[b])
        => waits' = waits
  BY DEF waits
<1>v. st' = [st EXCEPT ![b] = st[b]] => st' = st
  BY DEF st
<1>2. CASE log[b].st # "OK" /\ s = "NONE" /\ owed'[b] = "yes"
  <2>1. (owed'[b] = "yes") = TRUE
    BY <1>2
  <2>2. Promise!Asked(b)
    BY <1>1, <1>2, <2>1 DEF Promise!Asked, st, waits
  <2> QED
    BY <2>2 DEF Promise!Next
<1>3. CASE owed[b] = "yes" /\ owed'[b] # "yes" /\ s \in {log[b].st, "OK"}
  <2>1. (owed'[b] = "yes") = FALSE
    BY <1>3
  <2>2. CASE s = "OK"
    <3>1. Promise!ToldOk(b)
      BY <1>1, <1>3, <2>1, <2>2 DEF Promise!ToldOk, st, waits
    <3> QED
      BY <3>1 DEF Promise!Next
  <2>3. CASE s = log[b].st
    <3>1. st' = st
      BY <1>1, <1>v, <2>3
    <3>2. Promise!ToldErr(b)
      BY <1>1, <1>3, <2>1, <3>1 DEF Promise!ToldErr, st, waits
    <3> QED
      BY <3>2 DEF Promise!Next
  <2> QED
    BY <1>3, <2>2, <2>3
<1>4. CASE /\ owed[b] = "yes" <=> owed'[b] = "yes"
           /\ log[b].st = "OK" /\ s = "NONE"
  <2>1. waits' = waits
    BY <1>1, <1>4, <1>u
  <2>2. Promise!LoginWithdrawn(b)
    BY <1>1, <1>4, <2>1 DEF Promise!LoginWithdrawn, st, waits
  <2> QED
    BY <2>2 DEF Promise!Next
<1>5. CASE owed[b] # "yes" /\ owed'[b] # "yes" /\ log[b].st = "NONE" /\ s = "OK"
  <2>1. waits' = waits
    BY <1>1, <1>5, <1>u
  <2>2. Promise!LateOk(b)
    BY <1>1, <1>5, <2>1 DEF Promise!LateOk, st, waits
  <2> QED
    BY <2>2 DEF Promise!Next
<1>6. CASE owed[b] # "yes" /\ owed'[b] # "yes" /\ log[b].st = "OK" /\ s = "LOGOUT"
  <2>1. waits' = waits
    BY <1>1, <1>6, <1>u
  <2>2. Promise!Logout(b)
    BY <1>1, <1>6, <2>1 DEF Promise!Logout, st, waits
  <2> QED
    BY <2>2 DEF Promise!Next
<1> QED
  BY <1>2, <1>3, <1>4, <1>5, <1>6 DEF OneMove

LEMMA MoveOrNothing ==
    ASSUME \/ \A a \in Accounts : Unseen(a)
           \/ \E b \in Accounts :
                 OneMove(b) /\ \A a \in Accounts : a # b => Unseen(a)
    PROVE  Promise!Next \/ (st' = st /\ waits' = waits)
  BY NothingSeen, MoveIsPromised

(* The close of the link, where the counter learns of it. *)
LEMMA ClosePromised ==
    ASSUME TypeOK, CounterClosed
    PROVE  Promise!Next \/ (st' = st /\ waits' = waits)
<1>1. CASE CloseNotifies
  <2>1. \A a \in Accounts : log'[a].st = log[a].st
    BY <1>1 DEF CounterClosed, ClearPending, W
  <2>2. \A a \in Accounts : (owed'[a] = "yes") = FALSE
    BY <1>1 DEF CounterClosed
  <2>3. st' = st
    BY <2>1 DEF st
  <2>4. waits' = [a \in Accounts |-> FALSE]
    BY <2>2 DEF waits
  <2>5. Promise!LinkDown
    BY <2>3, <2>4 DEF Promise!LinkDown, st, waits
  <2> QED
    BY <2>5 DEF Promise!Next
<1>2. CASE ~CloseNotifies
  BY <1>2, NothingSeen DEF CounterClosed, Unseen
<1> QED
  BY <1>1, <1>2

(* Failing a login, at any step of it. *)
LEMMA FailurePromised ==
    ASSUME TypeOK, LegalWords, OwedIsMarked, EngineInv, pc # "poll", AnsCustLogin
    PROVE  Promise!Next \/ (st' = st /\ waits' = waits)
<1>h. acct \in Accounts
  BY AcctInAccounts DEF TypeOK
<1>0. owed[acct] = "yes" => acct \in known /\ log[acct].pend # "no"
  BY <1>h DEF EngineInv, OneAccountBound, OwedIsMarked, Fresh, W
<1>1. \A a \in Accounts : a # acct => Unseen(a)
  BY <1>h DEF TypeOK, AnsCustLogin, Heard, Unseen
<1>2. (log'[acct].st = log[acct].st /\ owed'[acct] # "yes") \/ Unseen(acct)
  BY <1>h, <1>0 DEF TypeOK, AnsCustLogin, Heard, Unseen, ClearPending, W
<1>3. Unseen(acct) \/ OneMove(acct)
  BY <1>2 DEF Unseen, OneMove
<1> QED
  BY <1>h, <1>1, <1>3, MoveOrNothing

LEMMA PromiseStep ==
    TypeOK /\ LegalWords /\ OwedIsMarked /\ EngineInv /\ [Next]_vars
        => Promise!Next \/ (st' = st /\ waits' = waits)
<1> SUFFICES ASSUME TypeOK, LegalWords, OwedIsMarked, EngineInv, [Next]_vars
             PROVE  Promise!Next \/ (st' = st /\ waits' = waits)
  OBVIOUS
<1>l. \A a \in Accounts : Legal(log[a])
  BY DEF LegalWords
<1>o. \A a \in Accounts : owed[a] = "yes" => log[a].pend = "USER" /\ log[a].st = "NONE"
  BY <1>l DEF OwedIsMarked, Legal
<1>h. pc # "poll" => acct \in Accounts
  BY AcctInAccounts DEF TypeOK
<1>1. CASE \E b \in Accounts : UserLogout(b)
  <2>1. PICK b \in Accounts : UserLogout(b)
    BY <1>1
  <2>2. \A a \in Accounts : a # b => Unseen(a)
    BY <2>1 DEF UserLogout, TypeOK, Unseen
  <2>3. log'[b] = ToLogout(log[b]) /\ owed' = owed
    BY <2>1 DEF UserLogout, TypeOK
  <2>4. Unseen(b) \/ OneMove(b)
    BY <1>o, <2>3 DEF ToLogout, Logined, W, Unseen, OneMove
  <2> QED
    BY <2>2, <2>4, MoveOrNothing
<1>2. CASE LinkCloses \/ \E q \in {queue, Tail(queue)} : LinkOpensQueueFull(q)
  BY <1>2, ClosePromised, NothingSeen DEF LinkCloses, LinkOpensQueueFull, Unseen
<1>3. CASE LoginRefused \/ LoginSendFails
  BY <1>3, FailurePromised DEF LoginRefused, LoginSendFails
<1>4. CASE LoginOtherAccount
  <2>1. acct \in Accounts /\ log[acct] = Fresh
    BY <1>4, <1>h DEF LoginOtherAccount, BoundToOther, EngineInv, OneAccountBound
  <2>2. owed[acct] # "yes"
    BY <2>1, <1>o DEF Fresh, W
  <2>3. \A a \in Accounts : Unseen(a)
    BY <1>4, <2>1, <2>2 DEF LoginOtherAccount, Heard, TypeOK, Unseen
  <2> QED
    BY <2>3, NothingSeen
<1>5. CASE LoginMark
  <2>h. acct \in Accounts
    BY <1>5, <1>h DEF LoginMark
  <2>1. \A a \in Accounts : a # acct => Unseen(a)
    BY <1>5, <2>h DEF LoginMark, Heard, TypeOK, Unseen
  <2>2. /\ log'[acct] = UserLoginWord(log[acct])
        /\ owed'[acct] = IF UserLoginStep(log[acct]) = "done" THEN "no" ELSE "yes"
    BY <1>5, <2>h DEF LoginMark, Heard, TypeOK
  <2>3. CASE Logined(log[acct])
    <3>1. Unseen(acct)
      BY <1>o, <2>h, <2>2, <2>3 DEF UserLoginStep, UserLoginWord, Logined, Unseen
    <3> QED
      BY <2>1, <3>1, MoveOrNothing
  <2>4. CASE ~Logined(log[acct])
    <3>1. UserLoginStep(log[acct]) # "done"
      BY <2>4 DEF UserLoginStep
    <3>2. OneMove(acct)
      BY <2>2, <2>4, <3>1 DEF UserLoginWord, Logined, OneMove, W
    <3> QED
      BY <2>h, <2>1, <3>2, MoveOrNothing
  <2> QED
    BY <2>3, <2>4
<1>6. CASE ReloginMark
  <2>1. \A a \in Accounts : Unseen(a)
    BY <1>6, <1>h DEF ReloginMark, ReloginWord, W, TypeOK, Unseen
  <2> QED
    BY <2>1, NothingSeen
<1>7. CASE \E b \in Accounts : AnswerOk(b)
  <2>1. PICK b \in Accounts : AnswerOk(b)
    BY <1>7
  <2>2. \A a \in Accounts : a # b => Unseen(a)
    BY <2>1 DEF AnswerOk, Heard, TypeOK, Unseen
  <2>3. /\ log'[b] = AnsOk(log[b])
        /\ owed'[b] = IF AnsOkTells(log[b]) THEN "no" ELSE owed[b]
    BY <2>1 DEF AnswerOk, Heard, TypeOK
  <2>4. Unseen(b) \/ OneMove(b)
    BY <1>l, <1>o, <2>3
       DEF AnsOk, AnsOkTells, Logined, W, Legal, Word, States, Unseen, OneMove
  <2> QED
    BY <2>2, <2>4, MoveOrNothing
<1>8. CASE \E b \in Accounts : AnswerErr(b)
  <2>1. PICK b \in Accounts : AnswerErr(b)
    BY <1>8
  <2>2. \A a \in Accounts : a # b => Unseen(a)
    BY <2>1 DEF AnswerErr, Heard, TypeOK, Unseen
  <2>3. /\ log'[b] = AnsErr(log[b])
        /\ owed'[b] = IF AnsErrTells(log[b]) THEN "no" ELSE owed[b]
    BY <2>1 DEF AnswerErr, Heard, TypeOK
  <2>4. Unseen(b) \/ OneMove(b)
    BY <1>l, <1>o, <2>3
       DEF AnsErr, AnsErrTells, Fresh, W, Legal, Word, States, Pendings, Unseen, OneMove
  <2> QED
    BY <2>2, <2>4, MoveOrNothing
<1>9. CASE UNCHANGED <<log, owed>>
  BY <1>9, NothingSeen DEF Unseen
<1> QED
  BY <1>1, <1>2, <1>3, <1>4, <1>5, <1>6, <1>7, <1>8, <1>9
     DEF Next, Engine, Answer, vars, UserLogin, Timer, CloseEvent, ConnectEventIdle,
         ConnectEventOpens, ConnectEventQueueFull, LoginLinkReady,
         LoginOpensLink, LoginLinkFails, LoginOpensQueueFull, LoginSent,
         Breaks, BreakSeen

(* The counter keeps AccountLogin's promise, on both kinds of link: what it *)
(* does with links, queues and relogins, the user may not see.              *)
THEOREM PromiseIsKept == Spec => KeepsPromise
<1>1. Spec => [](TypeOK /\ LegalWords /\ OwedIsMarked /\ EngineInv)
  <2>1. Spec => []TypeOK
    BY TypeCorrect
  <2>2. TypeOK /\ EngineInv /\ [Next]_vars => EngineInv'
    BY NextEngineInv
  <2> QED
    BY <2>1, <2>2, InitEngineInv, WordsAreLegal, OwedLoginsAreMarked, PTL DEF Spec
<1>2. Init => Promise!Init
  BY PromiseInit
<1>3. TypeOK /\ LegalWords /\ OwedIsMarked /\ EngineInv /\ [Next]_vars
        => [Promise!Next]_Promise!vars
  BY PromiseStep DEF Promise!vars, st, waits
<1> QED
  BY <1>1, <1>2, <1>3, PTL DEF Spec, KeepsPromise, Promise!Spec

(* What follows from the promise alone holds of the direct counter, its    *)
(* relogins and queued events included: who waits is neither logged in nor *)
(* logged out, and a logout lasts until the user asks again.               *)
THEOREM PromisedOrder == Spec => []Promise!WaitingIsOpen /\ Promise!LogoutLasts
  BY PromiseIsKept, Promise!WaitingStaysOpen, Promise!LogoutStays, PTL DEF KeepsPromise
=============================================================================
