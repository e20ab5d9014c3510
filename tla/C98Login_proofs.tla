--------------------------- MODULE C98Login_proofs ---------------------------
(***************************************************************************)
(* Proofs about C98Login, for any set of accounts, any queue and any       *)
(* number of requests without answer.  Two facts carry the argument beside *)
(* the properties: what the engine knows between the mark and the send,    *)
(* and that an account is logged in only after it was accepted.            *)
(***************************************************************************)
EXTENDS C98Login, SequenceTheorems, TLAPS

(* Between the mark and the send nothing else has touched the account. *)
SendInv ==
    pc = "send" => todo = <<>> /\ acct \in known /\ log[acct].pend = "USER"

LoginedAccepted == \A a \in Accounts : Logined(log[a]) => a \in accepted

-----------------------------------------------------------------------------
(* Words.  At 98 there are no internal relogins. *)
Mine(w) == Legal(w) /\ w.pend # "RELOGIN"

LEMMA WordsStayMine ==
    ASSUME NEW w, Mine(w)
    PROVE  /\ Mine(ToLogout(w)) /\ ToLogout(w).pend = w.pend
           /\ Mine(UserLoginWord(w))
           /\ Mine(ClearPending(w)) /\ ClearPending(w).pend = "no"
           /\ Mine(AnsOk(w)) /\ AnsOk(w).pend = "no"
           /\ Mine(AnsErr(w)) /\ AnsErr(w).pend = "no"
           /\ AnsErrTells(w) <=> w.pend = "USER"
           /\ AnsOkTells(w) <=> w.pend = "USER"
  BY DEF Mine, Legal, Word, W, States, Pendings, Fresh, Logined, ToLogout,
         LogoutRefused, UserLoginWord, ClearPending, AnsOk, AnsOkTells,
         AnsErr, AnsErrTells

LEMMA LegalMine == TypeOK => \A a \in Accounts : Mine(log[a])
  BY DEF TypeOK, Mine

(* The event at the head of the queue, and what is behind it. *)
LEMMA AtHead ==
    ASSUME TypeOK, queue # <<>>
    PROVE  /\ acct \in Accounts
           /\ Tail(queue) \in Seq(Accounts)
           /\ Len(Tail(queue)) <= QueueCap
           /\ \A i \in DOMAIN queue :
                 queue[i] # acct => i - 1 \in DOMAIN Tail(queue)
                                    /\ Tail(queue)[i - 1] = queue[i]
  BY QueueCapAssumption DEF TypeOK, acct

Treated == [acct : Accounts, ok : BOOLEAN]

LEMMA AtTodo ==
    ASSUME TypeOK, todo # <<>>
    PROVE  /\ Head(todo) \in Treated
           /\ Tail(todo) \in Seq(Treated)
           /\ \A i \in DOMAIN todo :
                 todo[i].acct # Head(todo).acct => i - 1 \in DOMAIN Tail(todo)
                                    /\ Tail(todo)[i - 1] = todo[i]
<1>1. todo \in Seq(Treated)
  BY DEF TypeOK, Treated
<1>2. /\ Head(todo) \in Treated
      /\ Tail(todo) \in Seq(Treated)
      /\ \A i \in DOMAIN todo : i # 1 => i - 1 \in DOMAIN Tail(todo)
                                       /\ Tail(todo)[i - 1] = todo[i]
  BY <1>1
<1> QED
  BY <1>2

(* The accounts of an answer, each with its outcome. *)
LEMMA ListedSeq ==
    ASSUME NEW s \in Lists, NEW ok \in BOOLEAN
    PROVE  [i \in DOMAIN s |-> [acct |-> s[i], ok |-> ok]] \in Seq(Treated)
<1>1. PICK n \in 0 .. Cardinality(Accounts) : s \in [1 .. n -> Accounts]
  BY DEF Lists
<1>2. n \in Nat /\ DOMAIN s = 1 .. n
  BY <1>1
<1>3. [i \in 1 .. n |-> [acct |-> s[i], ok |-> ok]] \in [1 .. n -> Treated]
  BY <1>1 DEF Treated
<1> QED
  BY <1>2, <1>3, SeqDef

-----------------------------------------------------------------------------
(* Types. *)

TypesNow ==
    /\ queue \in Seq(Accounts) /\ Len(queue) <= QueueCap
    /\ pc \in {"poll", "send", "recv"} /\ (pc = "send" => queue # <<>>)
    /\ link \in {"free", "up", "closing", "dead"}
    /\ out \in [Accounts -> 0 .. MaxOut]
    /\ todo \in Seq(Treated)

LogNow ==
    /\ log \in [Accounts -> Word]
    /\ \A a \in Accounts : Mine(log[a])
    /\ known \in SUBSET Accounts
    /\ \A a \in Accounts \ known : log[a] = Fresh

UserNow ==
    /\ owed \in [Accounts -> BOOLEAN]
    /\ accepted \in SUBSET Accounts /\ leaked \in SUBSET Accounts
    /\ missed \in SUBSET Accounts

LEMMA TypeParts == TypeOK <=> TypesNow /\ LogNow /\ UserNow
  BY DEF TypeOK, TypesNow, LogNow, UserNow, Mine, Treated

LEMMA InitTypes == Init => TypeOK
<1> SUFFICES ASSUME Init PROVE TypesNow /\ LogNow /\ UserNow
  BY TypeParts
<1>1. TypesNow
  BY QueueCapAssumption, MaxOutAssumption DEF Init, TypesNow, NoRequests
<1>2. LogNow
  BY DEF Init, LogNow, Mine, Legal, Fresh, W, Word, States, Pendings
<1>3. UserNow
  BY DEF Init, UserNow
<1> QED
  BY <1>1, <1>2, <1>3

(* A word that changes is that of an account with a session. *)
LEMMA OneWord ==
    ASSUME LogNow, NEW a \in known, NEW w, Mine(w),
           log' = [log EXCEPT ![a] = w], known' = known
    PROVE  LogNow'
  BY DEF LogNow, Mine, Legal

LEMMA NextLog == TypeOK /\ SendInv /\ [Next]_vars => LogNow'
<1> SUFFICES ASSUME TypeOK, SendInv, [Next]_vars PROVE LogNow'
  OBVIOUS
<1>0. LogNow /\ \A a \in Accounts : Mine(log[a])
  BY TypeParts, LegalMine
<1>1. CASE \E a \in Accounts : UserLogout(a)
  <2>1. PICK a \in Accounts : UserLogout(a)
    BY <1>1
  <2>2. Mine(ToLogout(log[a]))
    BY <1>0, WordsStayMine
  <2>3. a \in known /\ known' = known /\ log' = [log EXCEPT ![a] = ToLogout(log[a])]
    BY <2>1 DEF UserLogout
  <2> QED
    BY <1>0, <2>2, <2>3, OneWord
<1>2. CASE LoginMark
  <2>1. acct \in Accounts
    BY <1>2, AtHead DEF LoginMark, AtLogin
  <2>2. Mine(UserLoginWord(log[acct]))
    BY <1>0, <2>1, WordsStayMine
  <2> QED
    BY <1>0, <1>2, <2>1, <2>2 DEF LoginMark, LogNow, Mine, Legal
<1>3. CASE LoginSendFails
  <2>1. acct \in known /\ acct \in Accounts
    BY <1>0, <1>3 DEF LoginSendFails, SendInv, LogNow
  <2> QED
    BY <1>0, <1>3, <2>1, OneWord, WordsStayMine DEF LoginSendFails
<1>4. CASE \E a \in Accounts : AnswerOk(a)
  BY <1>0, <1>4, OneWord, WordsStayMine DEF AnswerOk
<1>5. CASE \E a \in Accounts : AnswerErr(a)
  BY <1>0, <1>5, OneWord, WordsStayMine DEF AnswerErr
<1>6. CASE LinkClosed
  <2>1. \A a \in Accounts : log[a] = Fresh => ClearPending(log[a]) = Fresh
    BY DEF ClearPending, Fresh, W
  <2>2. log' = [a \in Accounts |-> ClearPending(log[a])] /\ known' = known
    BY <1>6 DEF LinkClosed
  <2>3. \A a \in Accounts : log'[a] = ClearPending(log[a]) /\ Mine(log'[a])
    BY <1>0, <2>2, WordsStayMine
  <2> QED
    BY <1>0, <2>1, <2>2, <2>3 DEF LogNow, Mine, Legal
<1>7. CASE UNCHANGED <<log, known>>
  BY <1>0, <1>7 DEF LogNow
<1> QED
  BY <1>1, <1>2, <1>3, <1>4, <1>5, <1>6, <1>7
     DEF Next, vars, UserLogin, TakeLogin, LoginDone, LoginMerged, LoginSent, Treat,
         AnswerUnknown, Answered, Answer, BufferEnds, Opens, Closes, ClosingFrame, Breaks

LEMMA NextTypes == TypeOK /\ SendInv /\ [Next]_vars => TypesNow'
<1> SUFFICES ASSUME TypeOK, SendInv, [Next]_vars PROVE TypesNow'
  OBVIOUS
<1>0. TypesNow
  BY TypeParts
<1>1. CASE \E a \in Accounts : UserLogin(a)
  <2>1. PICK a \in Accounts : UserLogin(a)
    BY <1>1
  <2>2. queue' \in Seq(Accounts) /\ Len(queue') <= QueueCap /\ queue' # <<>>
    BY <1>0, <2>1, QueueCapAssumption DEF UserLogin, TypesNow
  <2> QED
    BY <1>0, <2>1, <2>2 DEF UserLogin, TypesNow
<1>2. CASE LoginDone \/ LoginMerged \/ LoginSendFails
  BY <1>0, <1>2, AtHead DEF LoginDone, LoginMerged, LoginSendFails, TypesNow, AtLogin, Idle
<1>3. CASE LoginMark
  BY <1>0, <1>3 DEF LoginMark, AtLogin, TypesNow
<1>4. CASE LoginSent
  <2>1. acct \in Accounts
    BY <1>0, <1>4, AtHead DEF LoginSent, TypesNow
  <2>2. out' \in [Accounts -> 0 .. MaxOut]
    BY <1>0, <1>4, <2>1, MaxOutAssumption DEF LoginSent, TypesNow
  <2> QED
    BY <1>0, <1>4, <2>2, AtHead DEF LoginSent, TypesNow
<1>5. CASE \E a \in Accounts : Answered(a)
  <2>1. PICK a \in Accounts, s \in Lists, ok \in BOOLEAN : Answer(a, s, ok)
    BY <1>5 DEF Answered
  <2>2. out' \in [Accounts -> 0 .. MaxOut]
    BY <1>0, <2>1, MaxOutAssumption DEF Answer, TypesNow
  <2>3. todo' \in Seq(Treated)
    BY <2>1, ListedSeq DEF Answer
  <2> QED
    BY <1>0, <2>1, <2>2, <2>3 DEF Answer, TypesNow
<1>6. CASE Treat
  BY <1>0, <1>6, AtTodo DEF Treat, AnswerUnknown, AnswerOk, AnswerErr, Listed, TypesNow
<1>7. CASE Breaks \/ LinkClosed
  BY <1>0, <1>7, MaxOutAssumption DEF Breaks, LinkClosed, NoRequests, TypesNow, Idle
<1>8. CASE Opens \/ Closes \/ ClosingFrame \/ BufferEnds
  BY <1>0, <1>8 DEF Opens, Closes, ClosingFrame, BufferEnds, TypesNow, Idle, Receiving
<1>9. CASE UNCHANGED <<queue, pc, link, out, todo>>
  BY <1>0, <1>9 DEF TypesNow
<1> QED
  BY <1>1, <1>2, <1>3, <1>4, <1>5, <1>6, <1>7, <1>8, <1>9
     DEF Next, vars, UserLogout, TakeLogin

LEMMA NextUser == TypeOK /\ SendInv /\ [Next]_vars => UserNow'
<1> SUFFICES ASSUME TypeOK, SendInv, [Next]_vars PROVE UserNow'
  OBVIOUS
<1>0. UserNow
  BY TypeParts
<1>1. CASE \E a \in Accounts : UserLogin(a) \/ Answered(a) \/ AnswerOk(a) \/ AnswerErr(a)
  BY <1>0, <1>1 DEF UserLogin, Answered, Answer, AnswerOk, AnswerErr, HandOver, Told, UserNow
<1>2. CASE LoginDone \/ LoginSent \/ LoginSendFails
  <2>1. acct \in Accounts
    BY <1>2, AtHead DEF LoginDone, AtLogin, LoginSent, LoginSendFails, TypeOK
  <2> QED
    BY <1>0, <1>2, <2>1 DEF LoginDone, LoginSent, LoginSendFails, HandOver, Told, UserNow
<1>3. CASE AnswerUnknown
  BY <1>0, <1>3, AtTodo DEF AnswerUnknown, Treated, UserNow
<1>4. CASE LinkClosed
  BY <1>0, <1>4 DEF LinkClosed, UserNow
<1>5. CASE UNCHANGED <<owed, accepted, leaked, missed>>
  BY <1>0, <1>5 DEF UserNow
<1> QED
  BY <1>1, <1>2, <1>3, <1>4, <1>5
     DEF Next, vars, UserLogout, TakeLogin, LoginMerged, LoginMark, Treat, BufferEnds,
         Opens, Closes, ClosingFrame, Breaks

-----------------------------------------------------------------------------
(* The invariants. *)

LEMMA NewEvent ==
    ASSUME TypeOK, NEW a \in Accounts, UserLogin(a)
    PROVE  /\ queue # <<>> => acct' = acct
           /\ \E i \in DOMAIN queue' : queue'[i] = a
           /\ \A i \in DOMAIN queue : i \in DOMAIN queue' /\ queue'[i] = queue[i]
<1>1. queue \in Seq(Accounts) /\ queue' = Append(queue, a)
  BY DEF TypeOK, UserLogin
<1>2. Len(queue) + 1 \in DOMAIN queue' /\ queue'[Len(queue) + 1] = a
  BY <1>1
<1> QED
  BY <1>1, <1>2 DEF acct

LEMMA NextSend == TypeOK /\ SendInv /\ [Next]_vars => SendInv'
<1> SUFFICES ASSUME TypeOK, SendInv, [Next]_vars PROVE SendInv'
  OBVIOUS
<1>1. CASE \E a \in Accounts : UserLogin(a)
  BY <1>1, NewEvent DEF UserLogin, SendInv, TypeOK
<1>2. CASE \E a \in Accounts : UserLogout(a)
  <2>1. PICK a \in Accounts : UserLogout(a)
    BY <1>2
  <2>2. acct' = acct
    BY <2>1 DEF UserLogout, acct
  <2>3. \A b \in Accounts : log'[b].pend = log[b].pend
    BY <2>1, LegalMine, WordsStayMine DEF UserLogout, TypeOK
  <2>4. known \subseteq Accounts
    BY DEF TypeOK
  <2> QED
    BY <2>1, <2>2, <2>3, <2>4 DEF UserLogout, SendInv
<1>3. CASE LoginMark
  <2>1. acct' = acct /\ acct \in Accounts
    BY <1>3, AtHead DEF LoginMark, AtLogin, acct
  <2>2. ~Logined(log[acct])
    BY <1>3 DEF LoginMark, UserLoginStep
  <2>3. log'[acct].pend = "USER"
    BY <1>3, <2>1, <2>2 DEF LoginMark, UserLoginWord, W, TypeOK
  <2> QED
    BY <1>3, <2>1, <2>3 DEF LoginMark, SendInv, AtLogin, Idle
<1>4. CASE pc # "send" /\ pc' = pc
  BY <1>4 DEF SendInv
<1>5. CASE pc' \in {"poll", "recv"}
  BY <1>5 DEF SendInv
<1>6. CASE UNCHANGED <<log, known, queue, pc, todo>>
  BY <1>6 DEF SendInv, acct
<1> QED
  BY <1>1, <1>2, <1>3, <1>4, <1>5, <1>6
     DEF Next, vars, TakeLogin, LoginDone, LoginMerged, LoginSent, LoginSendFails, AtLogin,
         Idle, Treat, AnswerUnknown, AnswerOk, AnswerErr, Listed, Answered, Answer, Receiving,
         BufferEnds, Opens, Closes, ClosingFrame, Breaks, LinkClosed, SendInv

LEMMA NoNewLogin ==
    ASSUME NEW w
    PROVE  /\ Logined(ToLogout(w)) => Logined(w)
           /\ Logined(UserLoginWord(w)) => Logined(w)
           /\ Logined(ClearPending(w)) => Logined(w)
           /\ Logined(AnsErr(w)) => Logined(w)
  BY DEF Logined, ToLogout, UserLoginWord, ClearPending, AnsErr, Fresh, W

LEMMA NextAccepted == TypeOK /\ SendInv /\ LoginedAccepted /\ [Next]_vars => LoginedAccepted'
<1> SUFFICES ASSUME TypeOK, SendInv, LoginedAccepted, [Next]_vars PROVE LoginedAccepted'
  OBVIOUS
<1>0. accepted \subseteq accepted'
  BY DEF Next, vars, UserLogin, UserLogout, TakeLogin, LoginDone, LoginMerged, LoginMark,
         LoginSent, LoginSendFails, Treat, AnswerUnknown, AnswerOk, AnswerErr, Answered, Answer,
         BufferEnds, Opens, Closes, ClosingFrame, Breaks, LinkClosed
<1>s. pc = "send" => acct \in Accounts
  BY AtHead DEF TypeOK
<1>1. CASE \E a \in Accounts : AnswerOk(a)
  <2>1. PICK a \in Accounts : AnswerOk(a)
    BY <1>1
  <2>2. \A b \in Accounts : b # a => log'[b] = log[b]
    BY <2>1 DEF AnswerOk, TypeOK
  <2> QED
    BY <1>0, <2>1, <2>2 DEF AnswerOk, LoginedAccepted
<1>2. CASE \E a \in Accounts : UserLogout(a) \/ AnswerErr(a)
  <2>1. \A b \in Accounts : Logined(log'[b]) => Logined(log[b])
    BY <1>2, NoNewLogin DEF TypeOK, UserLogout, AnswerErr
  <2> QED
    BY <1>0, <2>1 DEF LoginedAccepted
<1>3. CASE LoginMark \/ LoginSendFails
  <2>1. acct \in Accounts
    BY <1>3, <1>s, AtHead DEF LoginMark, AtLogin, LoginSendFails
  <2>2. \A b \in Accounts : Logined(log'[b]) => Logined(log[b])
    BY <1>3, <2>1, NoNewLogin DEF TypeOK, LoginMark, LoginSendFails
  <2> QED
    BY <1>0, <2>2 DEF LoginedAccepted
<1>4. CASE LinkClosed
  <2>1. \A b \in Accounts : Logined(log'[b]) => Logined(log[b])
    BY <1>4, NoNewLogin DEF TypeOK, LinkClosed
  <2> QED
    BY <1>0, <2>1 DEF LoginedAccepted
<1>5. CASE UNCHANGED log
  BY <1>0, <1>5 DEF LoginedAccepted
<1> QED
  BY <1>1, <1>2, <1>3, <1>4, <1>5
     DEF Next, vars, UserLogin, TakeLogin, LoginDone, LoginMerged, LoginSent, Treat,
         AnswerUnknown, Answered, Answer, BufferEnds, Opens, Closes, ClosingFrame, Breaks

LEMMA NextOnlyAccepted ==
    TypeOK /\ LoginedAccepted /\ OnlyAccepted /\ [Next]_vars => OnlyAccepted'
<1> SUFFICES ASSUME TypeOK, LoginedAccepted, OnlyAccepted, [Next]_vars PROVE OnlyAccepted'
  OBVIOUS
<1>0. \A a \in Accounts : \A s : a \in s /\ HandOver(a, s) => leaked' = leaked
  BY DEF HandOver
<1>1. CASE LoginDone
  <2>1. acct \in Accounts
    BY <1>1, AtHead DEF LoginDone, AtLogin
  <2>2. acct \in accepted
    BY <1>1, <2>1 DEF LoginDone, UserLoginStep, LoginedAccepted
  <2> QED
    BY <1>0, <1>1, <2>1, <2>2 DEF LoginDone, OnlyAccepted
<1>2. CASE \E a \in Accounts : AnswerOk(a)
  BY <1>0, <1>2 DEF AnswerOk, OnlyAccepted
<1>3. CASE \E a \in Accounts : AnswerErr(a)
  BY <1>0, <1>3 DEF AnswerErr, LoginedAccepted, OnlyAccepted
<1>4. CASE UNCHANGED leaked
  BY <1>4 DEF OnlyAccepted
<1> QED
  BY <1>1, <1>2, <1>3, <1>4
     DEF Next, vars, UserLogin, UserLogout, TakeLogin, LoginMerged, LoginMark, LoginSent,
         LoginSendFails, Treat, AnswerUnknown, Answered, Answer, BufferEnds, Opens, Closes,
         ClosingFrame, Breaks, LinkClosed

LEMMA NextCarried == TypeOK /\ SendInv /\ OwedIsCarried /\ [Next]_vars => OwedIsCarried'
<1> SUFFICES ASSUME TypeOK, SendInv, OwedIsCarried, [Next]_vars PROVE OwedIsCarried'
  OBVIOUS
<1> DEFINE Queued(a) == \E i \in DOMAIN queue : queue[i] = a
<1>0. \A a \in Accounts : owed[a] => log[a].pend = "USER" \/ Queued(a)
  BY DEF OwedIsCarried
<1>1. CASE \E a \in Accounts : UserLogin(a)
  <2>1. PICK a \in Accounts : UserLogin(a)
    BY <1>1
  <2>2. \A b \in Accounts : (owed'[b] => b = a \/ owed[b]) /\ log'[b] = log[b]
    BY <2>1 DEF UserLogin, TypeOK
  <2> QED
    BY <1>0, <2>1, <2>2, NewEvent DEF OwedIsCarried
<1>2. CASE \E a \in Accounts : UserLogout(a)
  <2>1. \A b \in Accounts : log'[b].pend = log[b].pend
    BY <1>2, LegalMine, WordsStayMine DEF UserLogout, TypeOK
  <2> QED
    BY <1>0, <1>2, <2>1 DEF UserLogout, OwedIsCarried
<1>3. CASE LoginDone \/ LoginMerged \/ LoginSent \/ LoginSendFails
  <2>1. queue # <<>> /\ queue' = Tail(queue)
    BY <1>3 DEF LoginDone, LoginMerged, LoginSent, LoginSendFails, AtLogin, TypeOK
  <2>2. acct \in Accounts
    BY <2>1, AtHead
  <2>3. owed'[acct] => log'[acct].pend = "USER"
    <3>1. CASE LoginDone \/ LoginSendFails
      BY <1>3, <2>2, <3>1 DEF LoginDone, LoginSendFails, HandOver, Told, TypeOK
    <3>2. CASE LoginMerged
      <4>1. log[acct].pend # "no"
        BY <3>2 DEF LoginMerged, UserLoginStep
      <4> QED
        BY <3>2, <2>2, <4>1, LegalMine DEF LoginMerged, Mine, Legal, Word, Pendings
    <3>3. CASE LoginSent
      BY <3>3 DEF LoginSent, SendInv
    <3> QED
      BY <1>3, <3>1, <3>2, <3>3
  <2>4. \A b \in Accounts : b # acct => owed'[b] = owed[b] /\ log'[b] = log[b]
    BY <1>3, <2>2 DEF LoginDone, LoginMerged, LoginSent, LoginSendFails, HandOver, Told, TypeOK
  <2>5. ASSUME NEW b \in Accounts, b # acct, Queued(b)
        PROVE  \E i \in DOMAIN queue' : queue'[i] = b
    BY <2>1, <2>5, AtHead
  <2> QED
    BY <1>0, <2>3, <2>4, <2>5 DEF OwedIsCarried
<1>4. CASE LoginMark
  <2>1. acct \in Accounts
    BY <1>4, AtHead DEF LoginMark, AtLogin
  <2>2. \A b \in Accounts : b # acct => log'[b] = log[b]
    BY <1>4, <2>1 DEF LoginMark, TypeOK
  <2>3. log'[acct].pend = "USER"
    BY <1>4, <2>1 DEF LoginMark, UserLoginStep, UserLoginWord, W, TypeOK
  <2> QED
    BY <1>0, <1>4, <2>2, <2>3 DEF LoginMark, OwedIsCarried
<1>5. CASE \E a \in Accounts : AnswerOk(a) \/ AnswerErr(a)
  <2>1. PICK a \in Accounts : AnswerOk(a) \/ AnswerErr(a)
    BY <1>5
  <2>2. \A b \in Accounts : b # a => owed'[b] = owed[b] /\ log'[b] = log[b]
    BY <2>1 DEF AnswerOk, AnswerErr, HandOver, Told, TypeOK
  <2>3. owed'[a] => owed[a] /\ log[a].pend # "USER"
    <3>1. owed'[a] = FALSE \/ (owed' = owed /\ (~AnsOkTells(log[a]) \/ ~AnsErrTells(log[a])))
      BY <2>1 DEF AnswerOk, AnswerErr, HandOver, Told, TypeOK
    <3>2. log[a].pend = "USER" <=> AnsOkTells(log[a])
      BY LegalMine, WordsStayMine
    <3>3. log[a].pend = "USER" <=> AnsErrTells(log[a])
      BY LegalMine, WordsStayMine
    <3> QED
      BY <3>1, <3>2, <3>3
  <2>4. queue' = queue
    BY <2>1 DEF AnswerOk, AnswerErr
  <2> QED
    BY <1>0, <2>2, <2>3, <2>4 DEF OwedIsCarried
<1>6. CASE LinkClosed
  BY <1>0, <1>6 DEF LinkClosed, OwedIsCarried
<1>7. CASE UNCHANGED <<log, queue, owed>>
  BY <1>7 DEF OwedIsCarried
<1> QED
  BY <1>1, <1>2, <1>3, <1>4, <1>5, <1>6, <1>7
     DEF Next, vars, TakeLogin, Treat, AnswerUnknown, Answered, Answer, BufferEnds, Opens,
         Closes, ClosingFrame, Breaks

(* A mark that nothing backs outlives the step only for the account the    *)
(* step is about. *)
Backed(a) ==
    \/ pc = "send" /\ acct = a
    \/ link = "up" /\ out[a] > 0
    \/ \E i \in DOMAIN todo : todo[i].acct = a
    \/ link \in {"dead", "closing"}
    \/ a \in missed

LEMMA NextBacked == TypeOK /\ SendInv /\ MarkIsBacked /\ [Next]_vars => MarkIsBacked'
<1> SUFFICES ASSUME TypeOK, SendInv, MarkIsBacked, [Next]_vars PROVE MarkIsBacked'
  OBVIOUS
<1>0. \A a \in Accounts : log[a].pend # "no" => Backed(a)
  BY DEF MarkIsBacked, Backed
<1> SUFFICES ASSUME NEW a \in Accounts, log'[a].pend # "no" PROVE Backed(a)'
  BY DEF MarkIsBacked, Backed
<1>1. CASE \E b \in Accounts : UserLogin(b)
  BY <1>0, <1>1, NewEvent DEF UserLogin, Backed, TypeOK
<1>2. CASE \E b \in Accounts : UserLogout(b)
  <2>1. log'[a].pend = log[a].pend
    BY <1>2, LegalMine, WordsStayMine DEF UserLogout, TypeOK
  <2> QED
    BY <1>0, <1>2, <2>1 DEF UserLogout, Backed, acct
<1>3. CASE LoginDone \/ LoginMerged
  BY <1>0, <1>3 DEF LoginDone, LoginMerged, AtLogin, Idle, Backed
<1>4. CASE LoginMark
  <2>1. acct \in Accounts /\ acct' = acct
    BY <1>4, AtHead DEF LoginMark, AtLogin, acct
  <2>2. a # acct => log'[a] = log[a]
    BY <1>4, <2>1 DEF LoginMark, TypeOK
  <2> QED
    BY <1>0, <1>4, <2>1, <2>2 DEF LoginMark, AtLogin, Idle, Backed
<1>5. CASE LoginSent
  <2>1. acct \in Accounts
    BY <1>5, AtHead DEF LoginSent, TypeOK
  <2>2. CASE a = acct
    <3>1. link = "up" => out'[a] > 0
      BY <1>5, <2>1, <2>2, MaxOutAssumption DEF LoginSent, TypeOK
    <3> QED
      BY <1>5, <3>1 DEF LoginSent, Backed
  <2>3. CASE a # acct
    <3>1. out'[a] = out[a] /\ log'[a] = log[a] /\ (a \in missed => a \in missed')
      BY <1>5, <2>1, <2>3 DEF LoginSent, TypeOK
    <3> QED
      BY <1>0, <1>5, <2>3, <3>1 DEF LoginSent, Backed
  <2> QED
    BY <2>2, <2>3
<1>6. CASE LoginSendFails
  <2>1. acct \in Accounts
    BY <1>6, AtHead DEF LoginSendFails, TypeOK
  <2>2. a # acct /\ log'[a] = log[a]
    BY <1>6, <2>1 DEF LoginSendFails, ClearPending, W, TypeOK
  <2> QED
    BY <1>0, <1>6, <2>2 DEF LoginSendFails, Backed
<1>7. CASE \E b \in Accounts : Answered(b)
  <2>1. PICK b \in Accounts, s \in Lists, ok \in BOOLEAN : Answer(b, s, ok)
    BY <1>7 DEF Answered
  <2>2. CASE a # b
    <3>1. out'[a] = out[a] /\ (a \in missed => a \in missed')
      BY <2>1, <2>2 DEF Answer, TypeOK
    <3> QED
      BY <1>0, <2>1, <3>1 DEF Answer, Receiving, Backed
  <2>3. CASE a = b /\ \E i \in DOMAIN s : s[i] = a
    BY <2>1, <2>3 DEF Answer, Backed
  <2>4. CASE a = b /\ ~ \E i \in DOMAIN s : s[i] = a
    BY <2>1, <2>4 DEF Answer, Backed
  <2> QED
    BY <2>2, <2>3, <2>4
<1>8. CASE Treat
  <2>0. todo # <<>> /\ todo' = Tail(todo)
    BY <1>8 DEF Treat, AnswerUnknown, AnswerOk, AnswerErr, Listed
  <2>1. a # Head(todo).acct
    <3>1. CASE AnswerUnknown
      BY <3>1 DEF AnswerUnknown, TypeOK, Fresh, W
    <3>2. CASE \E b \in Accounts : AnswerOk(b) \/ AnswerErr(b)
      BY <3>2, LegalMine, WordsStayMine DEF AnswerOk, AnswerErr, Listed, TypeOK
    <3> QED
      BY <1>8, <3>1, <3>2 DEF Treat
  <2>2. log'[a] = log[a]
    <3>1. CASE AnswerUnknown
      BY <3>1 DEF AnswerUnknown
    <3>2. CASE \E b \in Accounts : AnswerOk(b) \/ AnswerErr(b)
      BY <2>1, <3>2 DEF AnswerOk, AnswerErr, Listed, TypeOK
    <3> QED
      BY <1>8, <3>1, <3>2 DEF Treat
  <2>3. (\E i \in DOMAIN todo : todo[i].acct = a) => \E i \in DOMAIN todo' : todo'[i].acct = a
    BY <2>0, <2>1, AtTodo
  <2>4. UNCHANGED <<queue, pc, link, out, missed>>
    BY <1>8 DEF Treat, AnswerUnknown, AnswerOk, AnswerErr
  <2> QED
    BY <1>0, <2>2, <2>3, <2>4 DEF Backed, acct
<1>9. CASE Opens \/ Closes \/ ClosingFrame \/ Breaks \/ BufferEnds
  BY <1>0, <1>9 DEF Opens, Closes, ClosingFrame, Breaks, BufferEnds, Idle, Backed, acct
<1>10. CASE LinkClosed
  BY <1>10 DEF LinkClosed, ClearPending, W
<1>11. CASE UNCHANGED vars
  BY <1>0, <1>11 DEF vars, Backed, acct
<1> QED
  BY <1>1, <1>2, <1>3, <1>4, <1>5, <1>6, <1>7, <1>8, <1>9, <1>10, <1>11 DEF Next, TakeLogin

-----------------------------------------------------------------------------
(* The theorems. *)

IInv ==
    /\ TypeOK /\ SendInv /\ LoginedAccepted
    /\ OwedIsCarried /\ MarkIsBacked /\ OnlyAccepted

LEMMA InitInv == Init => IInv
<1> SUFFICES ASSUME Init PROVE IInv
  OBVIOUS
<1>1. TypeOK
  BY InitTypes
<1> QED
  BY <1>1 DEF Init, IInv, SendInv, LoginedAccepted, OwedIsCarried, MarkIsBacked, OnlyAccepted,
              Logined, Fresh, W

LEMMA NextInv == IInv /\ [Next]_vars => IInv'
<1> SUFFICES ASSUME IInv, [Next]_vars PROVE IInv'
  OBVIOUS
<1>1. TypeOK'
  BY NextTypes, NextLog, NextUser, TypeParts DEF IInv, TypeOK, TypesNow, LogNow, UserNow, Mine, Treated
<1> QED
  BY <1>1, NextSend, NextAccepted, NextOnlyAccepted, NextCarried, NextBacked DEF IInv

LEMMA Always == Spec => []IInv
  BY InitInv, NextInv, PTL DEF Spec

(* Every variable keeps its type, the words stay legal and 98 never marks  *)
(* a relogin, whatever the link, the counter and the users do.             *)
THEOREM TypeCorrect == Spec => []TypeOK
<1>1. IInv => TypeOK
  BY DEF IInv
<1> QED
  BY <1>1, Always, PTL

(* No login that was asked for is dropped without a word: it is in the     *)
(* queue, or its account is marked.                                        *)
THEOREM OwedLoginsAreCarried == Spec => []OwedIsCarried
<1>1. IInv => OwedIsCarried
  BY DEF IInv
<1> QED
  BY <1>1, Always, PTL

(* A mark has something that will take it away, but for an answer that     *)
(* leaves its account out.                                                 *)
THEOREM MarksAreBacked == Spec => []MarkIsBacked
<1>1. IInv => MarkIsBacked
  BY DEF IInv
<1> QED
  BY <1>1, Always, PTL

(* No account reaches the fast counter before 98 has accepted it.          *)
THEOREM OnlyAcceptedHandedOver == Spec => []OnlyAccepted
<1>1. IInv => OnlyAccepted
  BY DEF IInv
<1> QED
  BY <1>1, Always, PTL

-----------------------------------------------------------------------------
(* The promise of AccountLogin.  Each step changes the word of one account *)
(* by one operation, or wipes every mark at once.                          *)

st == [a \in Accounts |-> log[a].st]

waits == [a \in Accounts |-> log[a].pend = "USER"]

(* Word w becomes v as AccountLogin lets one account's state change. *)
Promised(w, v) ==
    \/ w.st # "OK" /\ v.st = "NONE" /\ v.pend = "USER"
    \/ w.pend = "USER" /\ v.pend # "USER" /\ v.st \in {w.st, "OK"}
    \/ w.pend # "USER" /\ v.pend # "USER" /\ w.st = "NONE" /\ v.st = "OK"
    \/ w.pend # "USER" /\ v.pend # "USER" /\ w.st = "OK" /\ v.st = "LOGOUT"
    \/ v.st = w.st /\ (v.pend = "USER" <=> w.pend = "USER")

LEMMA OperationsPromised ==
    ASSUME NEW w, Mine(w)
    PROVE  /\ Promised(w, ToLogout(w))
           /\ Promised(w, UserLoginWord(w))
           /\ Promised(w, ClearPending(w))
           /\ Promised(w, AnsOk(w))
           /\ Promised(w, AnsErr(w))
  BY DEF Mine, Legal, Word, States, Pendings, Promised, ToLogout, LogoutRefused, UserLoginWord,
         ClearPending, AnsOk, AnsErr, AnsErrTells, Logined, Fresh, W

LEMMA OneWordPromised ==
    ASSUME NEW b \in Accounts, \A a \in Accounts : a # b => log'[a] = log[a],
           Promised(log[b], log'[b])
    PROVE  Promise!Next \/ (st' = st /\ waits' = waits)
<1> DEFINE w == log[b]
           v == log'[b]
<1>1. /\ st' = [st EXCEPT ![b] = v.st]
      /\ waits' = [waits EXCEPT ![b] = (v.pend = "USER")]
  BY DEF st, waits
<1>2. st[b] = w.st /\ (waits[b] <=> w.pend = "USER")
  BY DEF st, waits
<1>3. (v.pend = "USER" <=> w.pend = "USER") => waits' = waits
  BY <1>1 DEF waits
<1>4. v.st = w.st => st' = st
  BY <1>1 DEF st
<1> HIDE DEF w, v
<1>5. CASE w.st # "OK" /\ v.st = "NONE" /\ v.pend = "USER"
  <2>1. (v.pend = "USER") = TRUE
    BY <1>5
  <2>2. Promise!Asked(b)
    BY <1>1, <1>2, <1>5, <2>1 DEF Promise!Asked, st, waits
  <2> QED
    BY <2>2 DEF Promise!Next
<1>6. CASE w.pend = "USER" /\ v.pend # "USER" /\ v.st \in {w.st, "OK"}
  <2>1. (v.pend = "USER") = FALSE
    BY <1>6
  <2>2. CASE v.st = "OK"
    <3>1. Promise!ToldOk(b)
      BY <1>1, <1>2, <1>6, <2>1, <2>2 DEF Promise!ToldOk, st, waits
    <3> QED
      BY <3>1 DEF Promise!Next
  <2>3. CASE v.st = w.st
    <3>1. Promise!ToldErr(b)
      BY <1>1, <1>2, <1>4, <1>6, <2>1, <2>3 DEF Promise!ToldErr, st, waits
    <3> QED
      BY <3>1 DEF Promise!Next
  <2> QED
    BY <1>6, <2>2, <2>3
<1>7. CASE w.pend # "USER" /\ v.pend # "USER" /\ w.st = "NONE" /\ v.st = "OK"
  <2>1. Promise!LateOk(b)
    BY <1>1, <1>2, <1>3, <1>7 DEF Promise!LateOk, st, waits
  <2> QED
    BY <2>1 DEF Promise!Next
<1>8. CASE w.pend # "USER" /\ v.pend # "USER" /\ w.st = "OK" /\ v.st = "LOGOUT"
  <2>1. Promise!Logout(b)
    BY <1>1, <1>2, <1>3, <1>8 DEF Promise!Logout, st, waits
  <2> QED
    BY <2>1 DEF Promise!Next
<1>9. CASE v.st = w.st /\ (v.pend = "USER" <=> w.pend = "USER")
  BY <1>3, <1>4, <1>9
<1>10. Promised(w, v)
  BY DEF w, v
<1> QED
  BY <1>5, <1>6, <1>7, <1>8, <1>9, <1>10 DEF Promised

LEMMA InitPromised == Init => Promise!Init
<1> SUFFICES ASSUME Init PROVE Promise!Init
  OBVIOUS
<1>1. \A a \in Accounts : log[a].st = "NONE" /\ log[a].pend = "no"
  BY DEF Init, Fresh, W
<1>2. st = [a \in Accounts |-> "NONE"]
  BY <1>1 DEF st
<1>3. \A a \in Accounts : (log[a].pend = "USER") = FALSE
  BY <1>1
<1>4. waits = [a \in Accounts |-> FALSE]
  BY <1>3 DEF waits
<1> QED
  BY <1>2, <1>4 DEF Promise!Init, st, waits

LEMMA NextPromised ==
    TypeOK /\ SendInv /\ [Next]_vars => Promise!Next \/ (st' = st /\ waits' = waits)
<1> SUFFICES ASSUME TypeOK, SendInv, [Next]_vars
             PROVE  Promise!Next \/ (st' = st /\ waits' = waits)
  OBVIOUS
<1>0. \A a \in Accounts : Mine(log[a])
  BY LegalMine
<1>1. CASE \E a \in Accounts : UserLogout(a) \/ AnswerOk(a) \/ AnswerErr(a)
  <2>1. PICK a \in Accounts : UserLogout(a) \/ AnswerOk(a) \/ AnswerErr(a)
    BY <1>1
  <2>2. \A b \in Accounts : b # a => log'[b] = log[b]
    BY <2>1 DEF UserLogout, AnswerOk, AnswerErr, TypeOK
  <2>3. log'[a] \in {ToLogout(log[a]), AnsOk(log[a]), AnsErr(log[a])}
    BY <2>1 DEF UserLogout, AnswerOk, AnswerErr, TypeOK
  <2>4. Promised(log[a], log'[a])
    BY <1>0, <2>3, OperationsPromised
  <2> QED
    BY <2>2, <2>4, OneWordPromised
<1>2. CASE LoginMark \/ LoginSendFails
  <2>1. acct \in Accounts
    BY <1>2, AtHead DEF LoginMark, AtLogin, LoginSendFails, TypeOK
  <2>2. \A b \in Accounts : b # acct => log'[b] = log[b]
    BY <1>2, <2>1 DEF LoginMark, LoginSendFails, TypeOK
  <2>3. log'[acct] \in {UserLoginWord(log[acct]), ClearPending(log[acct])}
    BY <1>2, <2>1 DEF LoginMark, LoginSendFails, TypeOK
  <2>4. Promised(log[acct], log'[acct])
    BY <1>0, <2>1, <2>3, OperationsPromised
  <2> QED
    BY <2>1, <2>2, <2>4, OneWordPromised
<1>3. CASE LinkClosed
  <2>1. \A a \in Accounts : log'[a] = W(log[a].st, "no")
    BY <1>3 DEF LinkClosed, ClearPending
  <2>2. \A a \in Accounts : log'[a].st = log[a].st /\ log'[a].pend = "no"
    <3>1. \A w : W(w.st, "no").st = w.st /\ W(w.st, "no").pend = "no"
      BY DEF W
    <3> QED
      BY <2>1, <3>1
  <2>3. st' = st
    BY <2>2 DEF st
  <2>4. \A a \in Accounts : (log'[a].pend = "USER") = FALSE
    BY <2>2
  <2>5. waits' = [a \in Accounts |-> FALSE]
    BY <2>4 DEF waits
  <2>6. Promise!LinkDown
    BY <2>3, <2>5 DEF Promise!LinkDown, st, waits
  <2> QED
    BY <2>6 DEF Promise!Next
<1>4. CASE log' = log
  BY <1>4 DEF st, waits
<1> QED
  BY <1>1, <1>2, <1>3, <1>4
     DEF Next, vars, UserLogin, TakeLogin, LoginDone, LoginMerged, LoginSent, Treat,
         AnswerUnknown, Answered, Answer, BufferEnds, Opens, Closes, ClosingFrame, Breaks

(* 98 keeps the promise of AccountLogin, the mark in the word being the    *)
(* user's waiting: whichever accounts the answers list, however links end. *)
THEOREM PromiseIsKept == Spec => KeepsPromise
<1>1. IInv /\ [Next]_vars => [Promise!Next]_Promise!vars
  BY NextPromised DEF IInv, Promise!vars, st, waits
<1> QED
  BY <1>1, InitPromised, Always, PTL DEF Spec, KeepsPromise, Promise!Spec

(* What follows from the promise alone holds of the 98 counter: whose      *)
(* login is in flight is neither logged in nor logged out there, and a     *)
(* logout lasts until the user asks again.                                 *)
THEOREM PromisedOrder == Spec => []Promise!WaitingIsOpen /\ Promise!LogoutLasts
  BY PromiseIsKept, Promise!WaitingStaysOpen, Promise!LogoutStays, PTL DEF KeepsPromise
=============================================================================
