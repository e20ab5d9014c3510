# TLA+ specifications of the trading API (src/trunk/NewAPI)

The repository holds a C++ trading API: a client library through which a
trader logs in fund accounts, sends orders and receives reports. The product is
`gone/api` (the API), `common` (the library it is built on) and `solarflare`
(a wrapper of a vendor's TCP stack). This directory holds TLA+ models of the
parts of it whose behaviour depends on the order of things: threads, links that
break, answers that come late, queues that fill up.

Paths below are relative to `src/trunk/NewAPI`.

## 1. The system

### 1.1 Components, their state and their operations

| component | files | state | operations |
|---|---|---|---|
| API instance | `gone/api/src/api_instance.*` | run state, engines, counters, timers | start / stop, login, logout, orders, queries |
| 98 counter | `counter98.*`, `c98_session_cache.h` | gateway user ("agw") login state, error and flag; login word per account; partition break points | agw login, account login / logout, orders, queries, reports |
| direct counter | `gw_counter_direct.*`, `gw_login_cache.h` | login word per account, link flag | login, relogin, logout, orders, reports |
| FPGA counters | `fpga_counter_*.{h,cpp}` | login word and board state per customer | as above, with a core and a trade link |
| login word | `api_event_msg.h` (`log_state_ctl`) | login state and in-flight mark in one atomic word | `to_login`, `to_logout`, `ans_login_ok`, `ans_login_err`, `clear_pending` |
| engines | `multi_socket_engine.*`, `single_socket_engine.*`, `tcpdirect_engine.*` | send queue, "dealing" flag, link | consume events, send, receive, open and close the link |
| links | `aio_socket_link.*`, `tcpdir_link.*` | channel, address in use, failure counts | connect, close, send, receive |
| timer | `link_timer_op.*`, `common/.../reconnect_ctl.h`, `heart_manage.h` | counters | heartbeat, heartbeat timeout, reconnect |
| callbacks | `callback_manager.*`, `common/.../simple_thread.*` | callback queue, wait flag | queue an event, wake the thread, call the user |
| queue | `common/.../que_mth_buf.*` | ring of variable length messages, many writers, one reader | reserve / commit, read / release |
| references | `common/.../state_machine.*` | state and reference count in one word | add, release, close |
| channels | `tcp_ch`, `wait_poll`, `mthread` | sockets, epoll registration | connect, register, receive, close |

### 1.2 How they interact

```
 user threads                 98 engine thread                 direct engine thread
 ------------                 ----------------                 --------------------
 login(a) --event--> queue98 --> counter98: agw login, then
                                 account login at 98
                                   | success
                                   +--event--> queueGW -----> gw_counter_direct:
 logout(a) ----- compare-and-swap on the login words -----      word, send, answer
 orders ----------------------------event--> queueGW ----->     |
                                                                |
 timer thread --connect / close / heart events--> both queues   |
                                                                v
 user callbacks <--- callback thread <--- callback queue <--- events of all threads
```

All queues are `que_mth_buf` rings with a single reader. Nothing on this path
takes a lock: the threads meet in atomic words (login word, agw state, link
flag, `queue_dealing_`, `waitflag`) and in the rings.

### 1.3 What is hard

* A user call, an engine and a timer act on one login word; answers of earlier
  requests come after a logout, a failure or a second login.
* A link breaks between any two steps, its close is noticed later, its
  reconnection presents the accounts again, and events queued for the old
  connection are still in the queue.
* Queues are bounded: a reconnection may find no room for its relogins.
* An engine goes to sleep while a producer decides that it need not be woken.
* Failures in the middle of a sequence (connect, mark, send) must be told to the
  user exactly once.
* A link is closed by one thread and taken out of the epoll set by another; its
  state word, its socket, the removal in the list and the events fetched for it
  are four things that must agree.
* A start that fails half way must be taken back so that it can be tried again.

The complete list, with lines, is in `PROJECT.json` under `hazards`.

### 1.4 What makes each part correct

| part | properties |
|---|---|
| login word, direct counter, its link | the words stay legal; who waits is marked; a mark always has something that will remove it; a closed link leaves neither mark nor flag; a reconnection presents every logged in account; a login is taken away only by a refusal, a logout is final until the user comes back; a login that was taken is heard of |
| gateway user login at 98 | orders pass only on a session of the present connection; a claim is never an orphan and ends by itself; a reconnection logs in again |
| message ring | a FIFO of whole messages; "empty" is never said of a ring that is not; no commit and no message waits for ever |
| sleep and wake | the engine does not sleep on an event, goes on while there are events, and comes to rest |
| 98 account login | who asked is carried on until told or handed over; a mark has something that removes it; an account reaches the direct counter only after 98 accepted it |
| references, channels, epoll thread | one reference per poll, none lost and none given up twice; a socket exactly as long as the link is in use; the counter's flag does not outlive the link; no event of a removed link is dispatched; a closing link gets closed |
| API instance | one call at a time is in charge and comes back; a failed start can be repeated (finding 5: it cannot) |

## 2. The plan

The modules are written in the order of what the user of the API relies on
most. Each has its theorems in a module of its own (`X_proofs`; those about
`EngineLinks` fill two, `EngineLinks_proofs` and `EngineDuties_proofs`; the two of
`AccountLogin` stand beside it); recursion is avoided in all of them.

| | module | composes / implements | state |
|---|---|---|---|
| 1 | `LogState` | | done |
| 2 | `GwLogin` | uses `LogState`, implements `AccountLogin` | done, proved |
| 3 | `AgwLogin` | | done, invariants proved |
| 4 | `MthQueue` | implements `Fifo` | done, safety and refinement proved |
| 5 | `EngineWake` | stands on the FIFO of `MthQueue`, implements `Sleeper` | done, safety and refinement proved |
| 6 | `StatRef`, `EngineLinks` | `EngineLinks` keeps a word of `StatRef` for each link; engine thread, epoll set, start and stop; implements `LinkLife` for both links | done, safety and refinement proved |
| 7 | `C98Login` | uses `LogState`, implements `AccountLogin`; its hand-over is `GwLogin`'s `UserLogin` | done, proved |

How they fit together: a login is `AgwLogin` (the gateway user), then `C98Login`
(the account at 98), then `GwLogin` (the account at the direct counter).
`C98Login` and `GwLogin` implement the same abstract `AccountLogin`, and
`OnlyAccepted` ties the first to the second. Their events travel through the
ring of `MthQueue`, and the 98 engine is woken as in `EngineWake`; the link that
`AgwLogin` and `C98Login` see as "free", "up" and "closing" is the one that
`EngineLinks` has in full.

What a continuation would take up next is in section 7.

## 3. The models and the code

Line numbers are in `PROJECT.json` (`map`). Definitions keep the names of the
source where the source has one. Operators whose name begins with `Bug` are
mistakes kept beside the definition they distort; they are used by no
specification and show that the properties notice them.

### 3.1 `LogState`: the login word

`log_state_ctl` packs the login state and the in-flight mark into one atomic
integer, and each of its methods is a load / compare-and-swap loop. The word is
the record `[st, pend]`; a method is an operator from the word it reads to the
word it leaves, which is sound because the loop takes effect at one instant (its
successful swap, or its last load). `UserLoginStep` is what `to_login` tells its
caller to do next; `AnsOkTells`, `AnsErrTells` are the flags with which
`ans_login_ok` and `ans_login_err` tell it to call `on_login`.

### 3.2 `GwLogin`: accounts on the direct link

| variable | code |
|---|---|
| `log` | `GwLoginInfo.log_gw` |
| `known` | entries of `GwLoginCache` |
| `queue` | the engine's send queue (a `que_mth_buf`) |
| `pc` | the place inside `deal_cust_login` of engine and counter |
| `link` | state of the link object; `"dead"` is a broken connection the engine has not noticed |
| `flag` | `trade_link_connect_` |
| `out`, `tried` | requests without answer on this connection; accounts presented on it |
| `owed` | history: what the user has been told |

| action | code |
|---|---|
| `UserLogin` | `counter98` puts a login event in the queue |
| `UserLogout` | `deal_logout_req`, on the user's thread |
| `Timer` | `link_timer_op` puts a connect or a close event in the queue |
| `ConnectEvent...`, `CloseEvent` | the engine's handlers of these events |
| `LoginLinkReady`, `LoginOpensLink`, `LoginOpensQueueFull`, `LoginLinkFails` | `deal_cust_login` of the engine, up to the open link |
| `LoginRefused` | `ans_cust_login` when there is no link |
| `LoginMark`, `ReloginMark`, `LoginOtherAccount` | `deal_cust_login` of the counter: `prepare_login`, `to_login` |
| `LoginSent`, `LoginSendFails` | the send, and `ans_cust_login` when it fails |
| `AnswerOk`, `AnswerErr` | `deal_log_ans` |
| `Breaks`, `BreakSeen` | the connection ends; the engine's receive notices and closes the link |
| `LinkOpens`, `LinkOpensQueueFull`, `LinkCloses` | connect with `deal_link_connect` (one relogin event per logged in account); close with `deal_link_close` |

A login event takes up to three steps because logouts of user threads and
breaks of the link come in between. The other steps of the engine are single
actions: between their parts only the words could change, by `ToLogout`, which
commutes with them.

The two engines, `single_socket_engine` and `tcpdirect_engine`, have the same
code here; the links differ in one thing, `CloseNotifies`: `tcpdir_link` tells
the counter of its close, `aio_socket_link` driven without a receive thread does
not (finding 1). `OneCust` is `need_multi_cust = 0`.

`AccountLogin` is the abstract specification: state and waiting of each account,
nothing of links, queues or relogins. Its action `LateOk` is there because the
code does it: the success of an earlier request logs in an account whose user
was told of the failure of a later one.

### 3.3 `AgwLogin`: the gateway user at 98

| variable | code |
|---|---|
| `agw` | `agw_login_state` |
| `okOnce` | `have_agw_ok_` |
| `flag`, `link` | `trade_link_connect_`, the link of `multi_socket_engine` |
| `out`, `session` | requests without answer; whether the counter has accepted one on this connection |
| `queue`, `pc` | the engine's send queue and its place in an event |
| `upc` | the place of each user thread in `deal_agw_login` |

User threads: `Claim`, `NoClaim` (the compare-and-swap), `Check`, `Deliver`,
`DeliverFull`, `GiveUp` (`delive_agw_login_event` and what follows its failure),
`WaitEnds` (the end of the wait, with the timeout's swap). Engine: `OpenClaims`,
`Opens`, `Relogin`, `ReloginFull`, `OpenFailed`, `ConnectFails` (connect and
`deal_link_connect`), `LoginSent`, `LoginSendFails` (`send_event`),
`ErrorAgwuser` (`error_agwuser_login`), `AnswerOk`, `AnswerSyncFails`,
`PeerLogout` (the receive handlers), `BufferEnds`, `LinkClosed`
(`deal_recv_stop`, `deal_link_close`). This link is closed in two steps:
`close_ch` marks it (`"closing"`), `deal_recv_stop` does the rest, and the
frames behind the one that caused the close are still handled (`"recv"`). With
`Sync`, the answer to a login queues a synchronisation message, which may find
no room. The error code that a caller reads after a failure is not in the model:
nothing depends on it.

The run reaches a branch that the source (`counter98.cpp:846`) calls
unreachable in theory: an answer whose synchronisation message finds no room
meets a state other than 1, because a caller has timed out in the meantime. The
branch does the right thing.

### 3.4 `MthQueue`: the ring

`wrpos`, `wrcmt`, `roundend`, `rdcmt` are the atomics of the same names, with
the unit of the alignment (8 or 64 bytes); `buf` holds for each cell the
message it belongs to, so that a torn or overwritten message shows. `Reserve` is
`write_get_mth` up to its swap, `Round` its store of `roundend`, `Fill` the
caller's writing, `Reload` and `Commit` are `write_cmt_mth` (whose caller finds
the first message of a lap by its cell and then takes `roundend` for the
position to wait for). `ReadNext`, `ReadLook`, `ReadRound` are `read_get`, with
the load of `wrcmt` and the later load of `roundend` apart, and `ReadCmt` is
`read_cmt`. Interleaving of single accesses is enough, because every store that
publishes something is a locked swap or is followed by one on x86, and the reader
takes its addresses from what it loaded. `sent` is a history variable: the
messages reserved and not taken. `Fifo` is the abstract specification, with
`queue` mapped to the part of `sent` that is committed: its first `Published`
messages.

One thing the model made plain: an empty ring takes any message shorter than
half of it (`EmptyTakesHalf`); longer ones may be refused, and since nothing
moves the positions of an empty ring but a message, for ever. The header says
that 0 means full.

### 3.5 `EngineWake`: sleep and wake of the 98 engine

`dealing` is `queue_dealing_`, `buffer` the engine's stores to it that the
memory has not seen, `ev` the eventfd of `event_wake`, `epc` the place of the
engine in `deal_event` and `epoll_wait`, `round` the events it has taken against
`send_poll_num_`. Producers do `take_req_que_mem` (`Reserve`),
`cmt_req_que_mem` (`Commit`) and `trigger_send` (`Look`, `Wake`). `Flush` lets a
store reach memory at any later time; `Fence` is the fence between the store of
0 and the second look at the queue. `PutOwn` is an event that the engine puts in
its own queue from a receive handler. The queue is a number of events, as
`MthQueue` permits.

`Sleeper` is the abstract specification: a number of events and whether the engine
is awake. It rests only on an empty queue, an event wakes it, and nothing else
does. `KeepsAwake` maps "awake" to: the engine is not in `epoll_wait`, or the
eventfd is readable, or a producer will write it.

### 3.6 `StatRef`, `EngineLinks`: the life of a link, start and stop

`StatRef` is `src_stat_ref`: state, closing flag and reference count in one
atomic word, an operator per method, as in `LogState`.

| variable | code |
|---|---|
| `word`, `fd` | `thctl` and `sysfd` of the link's `tcp_ch` |
| `started` | `th_recv` of `aio_tcp` |
| `polled` | the socket is in the kernel's epoll set |
| `linked` | `trade_link_connect_` |
| `dels`, `change` | `del_evs`, the eventfd `change_event` |
| `batch`, `done`, `known` | `wait_evs` still to be dispatched; `i` and `t` of `del_wake` |
| `mstate`, `have` | `mthread::state`, `have_start` |
| `pc`, `job` | where each thread is, and the link it opens or closes there |

Opening a link is `Connect` .. `Tell`, step by step (`aio_socket_link::connect`,
`tcp_ch::connect_ch`, `start_poll_recv`, `deal_link_connect`), with `AddFailed` and
`Fail` for what fails on the way. Closing it is `CloseCh` (the swap of
`to_close`), `Remove` or `DropRemoval` (`remove_wake`) and, with no reference left,
`Destroy`. The epoll thread is `EpollWait`, `LinkEvent`, `QueueEvent` with
`Event` and `RoundDone` (`deal_event`), and `ChangeEvent` .. `Reset` (`del_wake`:
`Entry`, `EndPoll` and `RecvStop` for each removal, then `MoreEntries` or
`NoMoreEntries`). `Start` .. `Undone` is `api_impl::start` with its way back,
`Stop` .. `Join` is `stop`. `ReturnAtOnce` is a call that has nothing to do.

A thread that waits (for `have_start` to leave 1, or in `join`) is an action
that is not enabled yet. The steps of both callers, the engine and the kernel
interleave at each access that another thread can see. Which event comes next
in the queue, and whether a connect succeeds, is free.

`LinkLife` is the abstract specification of one link, as its counter sees it: it
comes up, is closed, is gone, and only then comes up again. `LinkIsTold` maps
each of the two links to it (`View`: "gone" while the counter's flag is clear,
"closing" while it is set and the link's word is closing or free). `Disturbed` is where the promise ends: with `stop()`, which closes
a link under the engine, and with a registration that `epoll_ctl` has refused
(section 7 says why).

### 3.7 `C98Login`: accounts at the 98 counter

| variable | code |
|---|---|
| `log`, `known` | `C98SessionInfo.log_98`, entries of `C98SessionCache` |
| `queue`, `pc` | login events in the engine's send queue; the engine's place |
| `link`, `out` | the 98 link; requests without answer on this connection |
| `todo` | accounts of an answer that `deal_cust_login_ans` has still to treat |
| `owed`, `accepted`, `leaked`, `missed` | history: who waits, who was accepted, who was handed over without, whose request was answered without his account |

| action | code |
|---|---|
| `UserLogin`, `UserLogout` | `deal_login_req`, `deal_logout_req`, on the user's thread |
| `LoginDone`, `LoginMerged`, `LoginMark` | `counter98::deal_cust_login`: handed over at once, merged, marked |
| `LoginSent`, `LoginSendFails` | the send; `ans_cust_login` |
| `Answer`, `AnswerUnknown`, `AnswerOk`, `AnswerErr` | `deal_cust_login_ans`, one account after another |
| `Opens`, `Closes`, `ClosingFrame`, `BufferEnds`, `Breaks`, `LinkClosed` | the connection, as in `AgwLogin` |

An answer lists any accounts, the requested one or not: the code looks each of
them up and never asks which request it answers. With an answer that leaves the
requested account out, the mark stays until the link closes
(`counter98.cpp:1427` says so); the history `missed` names this case, and
`MarkIsBacked` and `LoginEnds` say that it is the only one. A hand-over that finds
the fast counter's queue full is the second disjunct of `LoginDone` and of
`AnswerOk`.

## 4. The runs

| run | instance | what it shows |
|---|---|---|
| `tcpdir_login` | 2 accounts, queue of 3, `CloseNotifies`; 154,353 states | every property of 3.2, `LoginHeard` included, and that `GwLogin` implements `AccountLogin` |
| `aio_login` | the same without `CloseNotifies`, single customer | the single entry stays bound to its account |
| `aio_close_cleanup` | as above, two customers | violates `CloseClearsMarks`, the part of `CloseCleansUp` about the marks (finding 1) |
| `login_without_link` | 2 accounts, queue of 3 | violates `NoLoginLost` (finding 2) |
| `two_logins_in_flight` | 2 accounts, queue of 3 | violates `OneInFlight` (finding 3) |
| `agw_login` | 2 user threads, queue of 3, at most 2 requests without answer; 98,345 states | sessions are live, claims backed, and each ends |
| `agw_reconnect` | 2 user threads, queue of 2 | violates `ReconnectLogsIn` (finding 4) |
| `queue` | 3 writers, 8 cells, messages of 1 and 3, 20 positions; about 119,000 states | the ring is a `Fifo` of whole messages, and nobody waits for ever |
| `engine_links` | 2 callers, 2 links, 3 removals, rounds of 1, 1 refusal of epoll; 269,859 states | references, sockets, flags and fetched events follow the link, which implements `LinkLife`; closing links are queued for removal and close, calls come back |
| `engine_links_retry` | the same without refusal | violates `RetryFindsLinkFree` (finding 5) |
| `c98_login` | 2 accounts, queue of 2, 1 request each; 82,795 states | nobody is dropped, marks are backed, only accepted accounts are handed over, `AccountLogin` is implemented |
| `engine_wake` | 3 producers, queue of 3, rounds of 2; 8,044 states | the engine implements `Sleeper` (no lost wake, no rest on an event), no end of reading, and rest at last |

Bounds, and why they are enough.

* *Accounts and threads.* Two accounts meet in everything they share: queue,
  link, the single entry. Two user threads are a claimer and one who waits or
  takes the claim later. Three writers make two who wait for the first, in
  either order of finishing.
* *`QueueCap = 3`* holds the events of two connections (a stale relogin beside
  new ones), and is small enough that a reconnection with two accounts finds
  room for none, one or both of its relogins.
* *`MaxPos = 20`* on a ring of 8 is three laps: a writer in its third
  lap can meet a reader in its second and another writer that has not yet
  stored `roundend`. Messages of 1 and 3 give ends of lap with no, one and two
  skipped cells, and a lap that ends where the reader stands. Deadlock is not
  checked in this run because the writers do stop at `MaxPos`.
* *`MaxOut = 2`* is a request with a stale one before it; `Poll = 2` with a
  queue of 3 makes rounds that end by count and rounds that end empty.

* *`engine_links`*: two callers are one in charge and one who waits, starts
  again or stops. `Slots = 3` holds a removal of each link and one left by a
  refused registration: entries of that kind stay in the list, and with more of
  them than slots a real removal is dropped (the code then returns an error that
  nobody reads), so `RemovalsMatch` and `ClosingEnds` need
  `Faults + 2 <= Slots`, which is the hypothesis of the theorem. The code has
  room for many more, and refusals of `epoll_ctl` are rare. A round of one event
  already interleaves events with batches.
* *`c98_login`*: a queue of two holds a login and its repetition or another
  account's. One unanswered request per account is enough for late answers,
  because a broken connection, a failed send and a logout all leave one behind.

Symmetry of the accounts is used in runs without liveness only.

### Fairness

* The engine thread calls `do_work` without end, and one call takes a bounded
  number of events before it receives: weak fairness of the engine's step, and
  strong fairness of what its receive notices (a broken link, a closing one),
  since events in between disable it for a moment only.
* The counter answers a request unless the connection ends first (strong
  fairness of an answer, which is of the environment; a counter that keeps
  silent is found by the heartbeat, and its link closed).
* A user thread does not stop in the middle of a claim or between reservation
  and commit. Nothing is assumed of users who wait or time out, of the timer, of
  connections succeeding, or of new calls.
* A store reaches memory in the end.
* In `EngineLinks` the engine's thread runs, and a call that has been made goes
  on: weak fairness of each. Nothing is assumed of callers, of connects, or of
  which event comes.
* In `C98Login` the engine treats what it has received (weak fairness) and comes
  back to its queue and its link however often the other interrupts it (strong
  fairness: its loop takes a bounded number of either); the counter answers
  unless the link closes.

## 5. Findings

1. `aio_close_cleanup`: the direct counter's aio link is connected with no
   receive thread, so its close is not reported. In the run a login opens the
   link, is marked and sent, and the link is closed before the answer (by the
   timer's close event): the mark stays in the word of a closed link. `to_login`
   merges a later login of the user into such a mark (`api_event_msg.h:256-261`).
   For the same reason the link flag stays 1, which `CloseCleansUp` forbids too.
2. `login_without_link`: a user login that meets a link that cannot be
   opened is dropped without `on_login`; the failure is reported through the
   mark, which this login has not set yet.
3. `two_logins_in_flight`: `to_login` merges user logins but not relogins; a
   relogin event that outlives its connection and a new one both send.
4. `agw_reconnect`: a failed login closes the link only if the state still
   says that it is in flight, so that after a reconnection the link can stay up
   with no session and with nobody asking for one, until a caller logs in.

5. `engine_links_retry`: a start that fails after the 98 link is up joins the
   epoll thread before it closes the link. The link stays "closing" with the
   reference of the polling, which only that thread could give up, and no later
   start gets past `connect_98agw`.

The lines they contradict are quoted in `PROJECT.json`.

## 6. What is proved

All theorems hold for every value of the constants that satisfies the
assumptions named in the modules.

**`AccountLogin`.** Two theorems about the abstract specification: who waits is
neither logged in nor logged out (`WaitingStaysOpen`), and a logout lasts until
the user asks again (`LogoutStays`). They are proved once, on six small actions,
and hold of both counters through the refinements: `PromisedOrder` in
`GwLogin_proofs` and in `C98Login_proofs` carries them over.

**`GwLogin_proofs`.** The inductive invariant adds to `TypeOK`:

* `EngineInv`: what the engine's place says of the link and of the account at
  the head of the queue (between mark and send the account is known, and the
  link is not free);
* `OneAccountBound`;
* an unanswered request belongs to an account that was presented, and such
  accounts are known.

Without these, `ReloginCovers` is not inductive: an answer could log in an account
that this connection has never seen. `LegalWords`, `OwedIsMarked` and
`ReloginCovers` are then preserved action by action. `MarksAreBacked` and
`ClosedLinkIsClean` are proved under `CloseNotifies`, and are false without it
(finding 1). `StatesMoveRight` is
the action property `LoginStateMoves`; `PromiseIsKept` is the refinement of
`AccountLogin`: each action of `GwLogin` is mapped to one of its actions or to a
stutter.

**`AgwLogin_proofs`.** `IInv` is `TypeOK`, the ties between the engine's place
and the link (`EngineInv`: an engine about to repeat a login does so on an open
link, one that handles the rest of a buffer has closed it), `SessionIsLive` and
`ClaimIsBacked`.

**`MthQueue_proofs`.** The size of the ring and the lengths stay symbolic; a few
lemmas on `Cell`, `Base` and `NextLap` do the arithmetic modulo `N` once. `IInv`
says where everything lies:

* `SentInv`: the messages in `sent` follow each other from the reader's message to
  `wrpos`, each either where the one before it ends or at the start of the next
  lap; with `TypeOK` they lie in a window shorter than the ring. From that: no two
  share a cell (`Disjoint`), and at most one begins a lap (`OneWrap`).
* `LapInv`: what comes before that one is in the reader's lap. `read_get` decides
  by the cells of `wrcmt` and `rdcmt` only, and needs it to be right.
* `CommitInv`: `wrcmt` is the end of a message; `WriterInv`: each writer works on
  its own uncommitted message and waits for the end of the one before it;
  `RoundInv`: `roundend` is where the message before the wrap ends, from before
  the wrap is committed until it is taken.
* `ReaderInv`: a reader that looks for the lap's end has a wrap ahead of it.

`QueueIsFifo` follows with two lemmas of their own: a commit publishes exactly the
first message that was not committed (`CommitPublishes`), and both ways of reading
take exactly the first message (`NextIsFirst`, `RoundIsFirst`).

`TurnsCome` is what of `CommitEnds` can be said of a state: a further layer,
`MannedInv`, says that each uncommitted message has a writer at work, and
`FirstUncommitted` that the first of them begins where `wrcmt` stands, so that its
writer does not wait. Hence no writers wait for each other in a ring.

**`EngineWake_proofs`.** `IInv` is `TypeOK`, `FenceInv` (from the store of 0 to
the second look the engine's own view is 0, and past the fence its store buffer
is empty), `SleepIsSeen` and `NoLostWake`. `FenceInv` is where the fence
matters: without it the second look can come before the producers see the 0.
`SleepIsPromised` is the refinement of `Sleeper`: the recheck is the only step that
may put the engine to sleep, the commits are the only ones that wake it, and all
others, the late stores included, leave `Awake` as it is.

**`EngineLinks_proofs`.** Three layers, each inductive relative to the ones below:

* `Control`: which thread can be where, given `have_start` and the state of the
  thread (one caller in charge, the engine off before `Run` and after the join,
  links opened by the engine or by the one caller in charge), and the positions
  of `del_wake` within its list. `OneInCharge` is part of it.
* `Refs`: the words are legal, and what a thread's place says of the word of the
  link it has in hand: who still owes a `sub_ref` finds a reference there. This
  layer holds through `stop()` too.
* `Calm`: up to `stop()`, while at most one thread deals with links, a reference
  is a poll (`RefIsPoll`), a socket belongs to a word in use
  (`SocketFollowsWord`), and what is in the batch is in the set
  (`BatchIsCurrent`). It needs the first two layers to know that nobody else is
  between the halves of a close.

**`EngineDuties_proofs`.** Three more layers on top of these, for what a thread has
still to do for another:

* *Reports*: the counter hears of a link by turns that it is up and that it is
  gone (`FlagsFollowLinks`): a link that is being opened has its flag down, and one
  whose reference `del_wake` has given up has it up until `deal_recv_stop`. With
  `SocketsFollowWords` this is what the run checks as `LinkFollowsWord`.
* *Joins*: a thread that is joined has ended or been told to
  (`NobodyWaitsForNothing`).
* *Duties*: a closing link is in the epoll set with its removal in the list, or
  its closer is about to put it there, and whoever put it there has woken the
  engine (`RemovalsMatchClosings`). The hard part is that the list may be full. `Slack`
  counts what is in the list: every removal still to be looked at belongs to a link
  that is closing, one removal to one link, except those that a registration refused
  by `epoll_ctl` has left behind, because the link that it closes has no reference
  and is free at once. Of these there are at most as many as refusals (`faults`), and
  a link whose registration has just been refused (open, no reference) is counted
  with the removal that its close will queue. Two links and `Faults + 2 <= Slots`
  therefore leave room for every removal. The same sum read backwards (`FewStale`,
  by counting a surjection from the removals to the closing links) bounds the
  removals that belong to no closing link by the refusals (`StaleIsRefused`), and
  with none of these the counter is told that a link is gone only when it is
  (`GoneIsFree`).

`LinksTakeTurns` is the refinement of `LinkLife` by each link. Two lemmas say what a
step may do: to the word of a link the counter knows of (`WordMoved`: a close, or
the reference that `del_wake` gives up; no connect, because a link that is being
opened has its flag down), and to the flag (`FlagMoved`: `deal_link_connect` and
`deal_recv_stop`). With *Reports* the flag changes by turns; with `GoneIsFree` the
link is free when the counter hears that it is gone; and `Undisturbed`, the last
layer, says that a link which is being registered is not closed meanwhile, so that
it is up when the counter hears of it. That needs `OnlyActor`: until `stop()`,
whoever opens or closes a link is the only thread that changes a word.

**`C98Login_proofs`.** `IInv` is `TypeOK`, `OwedIsCarried`, `MarkIsBacked`,
`OnlyAccepted` and what makes them inductive: an engine about to send has marked
the account at the head of the queue (`SendInv`), and an account that is logged
in has been accepted (`LoginedAccepted`), or `AnswerErr` and `LoginDone` could
hand over another. `PromiseIsKept` is the refinement of
`AccountLogin`, one lemma per action.

Only model-checked: the liveness properties, since the prover handles neither
fairness nor ENABLED, and the five violations. Every safety property that a run
checks is also proved, and of each liveness property the half that is seen in a
state, which says that somebody is there who will do it:

| liveness, checked by TLC | its safety half, proved |
|---|---|
| `LoginHeard` (`GwLogin`) | `OwedIsMarked`, `MarkIsBacked` |
| `LoginEnds` (`AgwLogin`) | `ClaimIsBacked` |
| `LoginEnds` (`C98Login`) | `OwedIsCarried`, `MarkIsBacked` |
| `CommitEnds`, `CommittedIsRead` | `TurnComes`, `EmptyIsEmpty` |
| `EventsAreRead`, `SleepsAtLast` | `KeepsAwake` |
| `ClosingEnds` | `RemovalsMatch` (`ClosingIsQueued`), `LinkIsTold` |
| `ChargeEnds` | `CallsGoOn` |

## 7. What is not modelled

* Orders, queries, reports and break points. An order is checked on the user's
  thread against the link flag and the login word and sent later; a model of it
  would add `SEND_MSG` events to `GwLogin`.
* FPGA counters: their login is the one of `GwLogin` over two links, with a board
  state per customer and the fall back to 98.
* The callback queue and its thread: the models end where `on_login` is called.
  Its wake lacks the fence of `EngineWake` and has a timeout instead.
* `logout` as one call over both counters (`api_instance.cpp:432`); the composition of
  `C98Login` with `GwLogin` in one state space, which TLC cannot hold beside the
  two links.
* The failure counts and the two addresses of a link (`check_reconnect`).
* Channels the engine does not use: asynchronous connect, listening, the queue
  driven thread.
* Formatting and parsing of messages, configuration, error texts, logging,
  files, the SolarFlare stack: input, output and data. The 98 messages are
  110,000 generated lines, present three times.
* The mock counters and the clients are test tools.
* The error code a failed gateway login leaves (`counter98.cpp:1023` clears it
  after the claim, so that the reason of a close in between is lost): it changes
  no control.

Steps that the models take at once and the code does not:

* `AgwLogin.LinkClosed`: the link is freed (`aio_tcp.h:502`), then the flag is
  cleared (`counter98.cpp:2720`), then the state is reset by a compare-and-swap loop
  (`:2733-2756`), all in one handler of the engine. In between a caller can still
  see the session of the link that is gone; what `SessionIsLive` says holds before
  and after the handler. A caller that gives up and another that claims
  anew between the second and the third step, so that the new claim is reset by
  the old close, are not in the model either.
* `GwLogin.LinkOpens`, `LinkOpensQueueFull`: the relogin events of a reconnection
  are queued one by one (`gw_counter_direct.cpp:1042-1052`); the model lets events of
  other threads come before or after them, and the events themselves come in any
  order.

And two readings of the properties:

* `GwLogin.LoginSendFails` counts the account as presented (`tried`): the code keeps
  its login, tells the customer and presents it again at the next reconnection
  (`gw_counter_direct.cpp:545-547`), so `ReloginCovers` speaks of accounts handed to
  the send, not of accounts the counter has got.
* An answer to the gateway login that cannot be decoded (`counter98.cpp:1543-1547`)
  is logged and dropped. In `AgwLogin` that is a counter that does not answer, which
  the fairness of its answers rules out in `LoginEnds`. In the login models `owed` is
  one boolean or word per account: two calls of a user that are merged are one.

Met while reading, and in no property:

* In `stop()` the links are closed under a running engine. `to_close` publishes
  the closed word before the socket is destroyed (`tcp_ch.cpp:335-347`), so an engine
  that opens the link in between loses its new socket to the other thread's
  `destroy`; `del_wake` unlocks before it resets the eventfd
  (`wait_poll.cpp:177-179`) and can wipe the wake of that removal, although
  `wait_poll.h:124` promises safety; and the engine may see the stop before the
  removal. Each leaves a link half closed in a process that is stopping; the
  steps are in `EngineLinks`, which is why four of its properties end at `stop()`.
* A registration that epoll refuses leaves a removal in the list for a link that
  is free; if the link is opened again before the engine reads the list, the new
  registration is removed and the counter told that the link is gone, while its
  word stays at work. `StaleIsRefused` says that there is at most one such removal
  for each refusal.
* `aio_tcp::deal_close` uses the channel's callback after the reference that
  keeps the channel alive has been given up (`aio_tcp.h:502-506`); here links live
  as long as the engine.
* If the epoll thread cannot be created, `mthread::run` destroys the epoll set
  and nothing makes a new one: no later `start()` can succeed.
* `mthread.h:102-107` wakes the reader of its queue for fewer than three entries
  only.
* An account its user has logged out is logged in at the fast counter again when
  98's answer for another account names it (`counter98.cpp:1383-1388`); and a
  success of 98 on its way completes after a logout that was granted
  (`api_instance.cpp:436-447`).
* `que_mth_buf.cpp:124` names a `check_cmt_write` that this class does not have.
