------------------------------ MODULE CoapReqs ------------------------------
(***************************************************************************)
(* The request engine of net/golioth/coap_req.c: the list of outstanding   *)
(* CoAP requests of one golioth_client, shared between application threads *)
(* that submit and the client thread that (re)transmits, receives, times   *)
(* out and cancels.                                                        *)
(*                                                                         *)
(* client->coap_reqs_lock is held exactly while pc is "prepare" or         *)
(* "cancel"; submission and the handling of one received packet take and   *)
(* release it within one step.  The lock is recursive, so a user callback  *)
(* that runs under it may submit further requests.                         *)
(*                                                                         *)
(* Time is relative: left[r] is t0 + timeout - k_uptime_get() of r.        *)
(***************************************************************************)
EXTENDS Integers, Sequences, SequencesExt

CONSTANTS
  OneShots,     \* requests made without GOLIOTH_COAP_REQ_OBSERVE
  Observes,     \* requests made with it
  NBlocks,      \* NBlocks[r]: blocks of the response to a one-shot request
  MaxRetries,   \* the literal 3 given to golioth_coap_pending_init
  AckTimeouts,  \* the values init_ack_timeout may return
  PollMax,      \* bound on one poll set by the ping and receive timers
  MaxSkew,      \* bound: ticks between sampling `now` and the end of the pass
  MaxLag,       \* bound: ticks by which the client thread may run late
  HalfRange,    \* 2^31: the clock and the timers have twice as many values
  None          \* NULL

Reqs == OneShots \union Observes

ASSUME ReqsAssumption == OneShots \intersect Observes = {} /\ None \notin Reqs
ASSUME BlocksAssumption == NBlocks \in [OneShots -> Nat \ {0}]
ASSUME TimingAssumption ==
  /\ MaxRetries \in Nat /\ PollMax \in Nat
  /\ MaxSkew \in Nat /\ MaxLag \in Nat
  /\ AckTimeouts \in SUBSET (Nat \ {0}) /\ AckTimeouts # {}
  /\ HalfRange \in Nat \ {0} /\ MaxLag + MaxSkew < HalfRange

\* Every timeout, doubled MaxRetries times, is within the range of the timers
\* (CONFIG_COAP_INIT_ACK_TIMEOUT_MS is some seconds): the longest there is with n
\* retries left.
Fits(longest) ==
  /\ \A t \in AckTimeouts : t <= longest[MaxRetries]
  /\ \A n \in 1 .. MaxRetries : 2 * longest[n] <= longest[n - 1]

ASSUME TimersFit == \E longest \in [0 .. MaxRetries -> 0 .. HalfRange - 1] : Fits(longest)

VARIABLES
  connected,  \* client->coap_reqs_connected
  list,       \* client->coap_reqs, in order
  left,       \* pending.t0 + pending.timeout - uptime
  timeout,    \* pending.timeout; 0 before the first transmission
  retries,    \* pending.retries
  block,      \* block_ctx.current, in blocks
  pkt,        \* the block the request packet now asks for, hence its id
  pending,    \* is_pending of the observing requests
  pc,         \* what the client thread is doing
  req,        \* cursor of SYS_DLIST_FOR_EACH_CONTAINER_SAFE
  next,       \* the element that macro prefetched
  send,       \* local of golioth_coap_req_poll_prepare
  skew,       \* uptime - now
  wake,       \* the eventfd is readable because of client->wakeup
  waking,     \* submissions whose thread has yet to call client->wakeup
  wait,       \* ticks until the poll times out
  tx,         \* requests that reached the network: <<request, block>>
  status,     \* ghost: fate of each submission
  ends,       \* ghost: number of final callbacks
  result,     \* ghost: what the final callback reported
  seen,       \* ghost: blocks handed to the callback of a one-shot request
  tries       \* ghost: sends since the last golioth_coap_pending_init

timers == <<left, timeout, retries>>
transfer == <<block, pkt, pending>>
loop == <<pc, req, next, send, skew, wake, waking, wait>>
ghosts == <<status, ends, result, seen, tries>>
vars == <<connected, list, timers, transfer, loop, tx, ghosts>>

-----------------------------------------------------------------------------
Listed == ToSet(list)

\* Requests golioth_coap_reqs_poll_prepare does not skip.
Timed == {r \in Listed : r \in Observes => pending[r]}

Pos(l, r) == CHOOSE i \in 1 .. Len(l) : l[i] = r
First(l) == IF l = <<>> THEN None ELSE l[1]

\* sys_dlist_remove; mistaken: the freed request stays linked.
UnlinkForgotten(l, r) == l
Unlink(l, r) == RemoveAt(l, Pos(l, r))

\* sys_dlist_peek_next; mistaken: only the head of the list is visited.
AfterNothing(l, r) == None
After(l, r) ==
  IF r # None /\ Pos(l, r) < Len(l) THEN l[Pos(l, r) + 1] ELSE None

\* The difference of two 32-bit times, as an int32_t; mistaken: as an uint32_t.
Uint32(n) == n % (2 * HalfRange)
Int32(n) == ((n + HalfRange) % (2 * HalfRange)) - HalfRange

\* What golioth_coap_req_poll_prepare takes for the time left to r.
Remaining(r) == Int32(left[r] + skew)

Locked == pc \in {"prepare", "cancel"}
Smaller(a, b) == IF a < b THEN a ELSE b

\* The requests a caller may still create; a callback creates at most one.
Unused == {r \in Reqs : status[r] = "unused"}
Submissions == {{}} \union {{n} : n \in Unused}

\* __golioth_coap_req_submit for every member of N (at most one): appended to
\* the list, or freed by its creator when the engine is down.
Submitted(N) ==
  IF connected /\ N # {} THEN Append(list, CHOOSE n \in N : TRUE) ELSE list

\* Mistaken: -ENETDOWN is not reported to the caller.
FatesUnreported(N) ==
  [r \in Reqs |-> IF r \in N THEN "accepted" ELSE status[r]]
Fates(N) ==
  [r \in Reqs |-> IF r \in N THEN IF connected THEN "accepted" ELSE "rejected"
                             ELSE status[r]]

\* Is client->wakeup called for N; mistaken: never.
WakesNever(N) == FALSE
Wakes(N) == connected /\ N # {}

\* golioth_coap_req_schedule of N: submit, then wake the client thread up.
\* The new request's own fields keep the values golioth_coap_req_init and
\* golioth_coap_pending_init give them, which are those of Init.
Schedule(N, woken) ==
  /\ list' = Submitted(N)
  /\ status' = Fates(N)
  /\ wake' = (woken \/ Wakes(N))

\* The final callback for r, during which N is submitted, then
\* golioth_coap_req_cancel_and_free.  What was stored of r, and the packets only
\* r could match, are forgotten.
Finish(r, why, N, woken) ==
  /\ list' = Unlink(Submitted(N), r)
  /\ status' = Fates(N)
  /\ wake' = (woken \/ Wakes(N))
  /\ ends' = [ends EXCEPT ![r] = @ + 1]
  /\ result' = [result EXCEPT ![r] = why]
  /\ left' = [left EXCEPT ![r] = 0] /\ timeout' = [timeout EXCEPT ![r] = 0]
  /\ retries' = [retries EXCEPT ![r] = MaxRetries]
  /\ block' = [block EXCEPT ![r] = 0] /\ pkt' = [pkt EXCEPT ![r] = 0]
  /\ pending' = [o \in Observes |-> o = r \/ pending[o]]
  /\ tries' = [tries EXCEPT ![r] = 0]
  /\ tx' = {m \in tx : m[1] # r}

Init ==
  /\ connected = FALSE /\ list = <<>>
  /\ left = [r \in Reqs |-> 0] /\ timeout = [r \in Reqs |-> 0]
  /\ retries = [r \in Reqs |-> MaxRetries]
  /\ block = [r \in Reqs |-> 0] /\ pkt = [r \in Reqs |-> 0]
  /\ pending = [r \in Observes |-> TRUE]
  /\ pc = "closed" /\ req = None /\ next = None /\ send = FALSE
  /\ skew = 0 /\ wake = FALSE /\ waking = {} /\ wait = 0 /\ tx = {}
  /\ status = [r \in Reqs |-> "unused"] /\ ends = [r \in Reqs |-> 0]
  /\ result = [r \in Reqs |-> "none"]
  /\ seen = [r \in OneShots |-> <<>>] /\ tries = [r \in Reqs |-> 0]

-----------------------------------------------------------------------------
(* Application threads.                                                    *)

\* golioth_coap_req_cb from a thread that has to wait for the lock.  Once it is
\* released the client thread may send, end and free the request ...
AppSubmit(n) ==
  /\ ~Locked
  /\ n \in Unused
  /\ list' = Submitted({n}) /\ status' = Fates({n})
  /\ waking' = IF Wakes({n}) THEN waking \union {n} ELSE waking
  /\ UNCHANGED <<connected, timers, transfer, pc, req, next, send, skew, wake,
                 wait, tx, ends, result, seen, tries>>

\* ... before the submitting thread gets to call client->wakeup.
AppWakeup(n) ==
  /\ n \in waking
  /\ waking' = waking \ {n} /\ wake' = TRUE
  /\ UNCHANGED <<connected, list, timers, transfer, pc, req, next, send, skew,
                 wait, tx, ghosts>>

-----------------------------------------------------------------------------
(* The client thread: connecting.                                          *)

\* The main loop flushes the eventfd and __golioth_connect opens the socket.
Connect ==
  /\ pc = "closed"
  /\ pc' = "opened" /\ wake' = FALSE
  /\ UNCHANGED <<connected, list, timers, transfer, req, next, send, skew,
                 waking, wait, tx, ghosts>>

\* golioth_coap_reqs_on_connect.
OnConnect ==
  /\ pc = "opened"
  /\ connected' = TRUE /\ pc' = "sampled"
  /\ UNCHANGED <<list, timers, transfer, req, next, send, skew, waking, wake,
                 wait, tx, ghosts>>

-----------------------------------------------------------------------------
(* The client thread: golioth_coap_reqs_poll_prepare.                      *)

\* `now` was sampled when pc became "sampled"; the lock is taken here.
PrepareBegin ==
  /\ pc = "sampled"
  /\ pc' = "prepare"
  /\ req' = First(list) /\ next' = After(list, First(list))
  /\ send' = FALSE /\ wait' = PollMax
  /\ UNCHANGED <<connected, list, timers, transfer, skew, waking, wake, tx,
                 ghosts>>

\* One turn of the SAFE iteration macro: cn = cns, cns = next of cn; mistaken:
\* the prefetched element is not renewed.
AdvanceStale(l) ==
  /\ req' = next /\ next' = next
  /\ send' = FALSE
Advance(l) ==
  /\ req' = next /\ next' = After(l, next)
  /\ send' = FALSE

\* golioth_coap_req_poll_prepare: time is left, so leave its loop, transmit if
\* a turn of the loop asked for it; the network may refuse or lose the packet.
PrepareSend ==
  /\ pc = "prepare" /\ req \in Timed
  /\ Remaining(req) > 0
  /\ \/ send /\ tx' = tx \union {<<req, pkt[req]>>}
     \/ UNCHANGED tx
  /\ tries' = [tries EXCEPT ![req] = IF send THEN @ + 1 ELSE @]
  /\ wait' = Smaller(wait, Remaining(req))
  /\ Advance(list)
  /\ UNCHANGED <<connected, list, timers, transfer, pc, skew, waking, wake,
                 status, ends, result, seen>>

PrepareSkip ==
  /\ pc = "prepare" /\ req \in Listed \ Timed
  /\ Advance(list)
  /\ UNCHANGED <<connected, list, timers, transfer, pc, skew, waking, wake,
                 wait, tx, ghosts>>

\* golioth_coap_pending_cycle's test of retries; mistaken: it is missing.
MayRetryForever(r) == TRUE
MayRetry(r) == retries[r] > 0

\* One turn of the while loop: golioth_coap_pending_cycle returned true.
PrepareCycle ==
  /\ pc = "prepare" /\ req \in Timed
  /\ Remaining(req) <= 0
  /\ \/ /\ timeout[req] = 0
        /\ \E t \in AckTimeouts :
             /\ timeout' = [timeout EXCEPT ![req] = t]
             /\ left' = [left EXCEPT ![req] = @ + t]
        /\ UNCHANGED retries
     \/ /\ timeout[req] > 0 /\ MayRetry(req)
        /\ left' = [left EXCEPT ![req] = @ + 2 * timeout[req]]
        /\ timeout' = [timeout EXCEPT ![req] = 2 * @]
        /\ retries' = [retries EXCEPT ![req] = @ - 1]
  /\ send' = TRUE
  /\ UNCHANGED <<connected, list, transfer, pc, req, next, skew, waking, wake,
                 wait, tx, ghosts>>

\* golioth_coap_pending_cycle returned false: -ETIMEDOUT.
Expired ==
  /\ pc = "prepare" /\ req \in Timed
  /\ Remaining(req) <= 0 /\ timeout[req] > 0 /\ ~MayRetry(req)

PrepareExpire ==
  /\ Expired
  /\ \E N \in Submissions : Finish(req, "timedout", N, wake)
  /\ Advance(list')
  /\ UNCHANGED <<connected, pc, skew, waking, wait, seen>>

PrepareEnd ==
  /\ pc = "prepare" /\ req = None
  /\ pc' = "poll" /\ skew' = 0
  /\ UNCHANGED <<connected, list, timers, transfer, req, next, send, waking,
                 wake, wait, tx, ghosts>>

-----------------------------------------------------------------------------
(* The client thread: zsock_poll returned.                                 *)

\* The eventfd is readable: wakeup was called or the poll timer fired.
PollWake ==
  /\ pc = "poll" /\ (wake \/ wait <= 0)
  /\ pc' = "sampled" /\ wake' = FALSE /\ wait' = 0
  /\ UNCHANGED <<connected, list, timers, transfer, req, next, send, skew,
                 waking, tx, ghosts>>

\* A packet arrived.  If the eventfd was readable too it has been read.
Drained == {wake, FALSE}

\* A response to a transmitted packet may arrive late, repeatedly, in any order
\* or never; golioth_coap_req_process_rx found the request it belongs to.
Receives(r, b) == pc = "poll" /\ r \in Listed /\ <<r, b>> \in tx

AfterRx == pc' = "sampled" /\ wait' = 0 /\ UNCHANGED <<req, next, send, skew,
                                                       waking>>

\* Nothing to do: a reply to a ping, a response to a request that is gone, a
\* block already received or a notification older than the last.
RxIgnored ==
  /\ pc = "poll" /\ AfterRx
  /\ wake' \in Drained
  /\ UNCHANGED <<connected, list, timers, transfer, tx, ghosts>>

\* A 4.xx or 5.xx code, an unusable Block2 option, or a notification that needs
\* blockwise transfer.
RxError(r) ==
  /\ \E b \in 0 .. block[r] : Receives(r, b)
  /\ \E N \in Submissions, w \in Drained : Finish(r, "error", N, w)
  /\ AfterRx
  /\ UNCHANGED <<connected, seen>>

\* An empty acknowledgement: no token, so matched by message id; its code 0.00
\* is of an unknown class to golioth_coap_code_to_posix.
RxEmptyAck(r) ==
  /\ Receives(r, pkt[r])
  /\ \E N \in Submissions, w \in Drained : Finish(r, "ack", N, w)
  /\ AfterRx
  /\ UNCHANGED <<connected, seen>>

\* Block b was not received before; mistaken: duplicates are not recognised.
WantedAlways(r, b) == TRUE
Wanted(r, b) == b >= block[r]

\* golioth_coap_pending_init; mistaken: the retries already used stay used.
RestartHalf(r) ==
  /\ left' = [left EXCEPT ![r] = 0] /\ timeout' = [timeout EXCEPT ![r] = 0]
  /\ UNCHANGED retries
Restart(r) ==
  /\ left' = [left EXCEPT ![r] = 0] /\ timeout' = [timeout EXCEPT ![r] = 0]
  /\ retries' = [retries EXCEPT ![r] = MaxRetries]

\* Block b of several, and more follow.
MoreBlock(r, b) ==
  /\ r \in OneShots /\ Receives(r, b)
  /\ Wanted(r, b) /\ b + 1 < NBlocks[r]
  /\ seen' = [seen EXCEPT ![r] = Append(@, b)]
  /\ AfterRx

\* The callback calls get_next, which is golioth_coap_req_next_block.
RxMoreNext(r, b) ==
  /\ MoreBlock(r, b)
  /\ \E N \in Submissions, w \in Drained : Schedule(N, w)
  /\ block' = [block EXCEPT ![r] = b + 1] /\ pkt' = [pkt EXCEPT ![r] = b + 1]
  /\ Restart(r)
  /\ tries' = [tries EXCEPT ![r] = 0]
  /\ UNCHANGED <<connected, pending, tx, ends, result>>

\* The callback returns 0 without calling it.
RxMoreHold(r, b) ==
  /\ MoreBlock(r, b)
  /\ \E N \in Submissions, w \in Drained : Schedule(N, w)
  /\ block' = [block EXCEPT ![r] = b + 1]
  /\ UNCHANGED <<connected, timers, pkt, pending, tx, ends, result, tries>>

\* The callback returns an error.
RxMoreRefuse(r, b) ==
  /\ MoreBlock(r, b)
  /\ \E N \in Submissions, w \in Drained : Finish(r, "refused", N, w)
  /\ UNCHANGED connected

\* The last block, or a response without Block2.
RxLast(r, b) ==
  /\ r \in OneShots /\ Receives(r, b)
  /\ Wanted(r, b) /\ b + 1 = NBlocks[r]
  /\ seen' = [seen EXCEPT ![r] = Append(@, b)]
  /\ \E N \in Submissions, w \in Drained : Finish(r, "ok", N, w)
  /\ AfterRx
  /\ UNCHANGED connected

\* The first response to an observing request, or a newer notification.
RxNotify(r) ==
  /\ r \in Observes /\ Receives(r, 0)
  /\ \E N \in Submissions, w \in Drained : Schedule(N, w)
  /\ pending' = [pending EXCEPT ![r] = FALSE]
  /\ AfterRx
  /\ UNCHANGED <<connected, timers, block, pkt, tx, ends, result, seen, tries>>

-----------------------------------------------------------------------------
(* The client thread: golioth_disconnect.                                  *)

\* Mistaken: requests are cancelled while the engine still accepts new ones.
DisconnectAccepting ==
  /\ pc = "poll"
  /\ pc' = "cancel" /\ UNCHANGED connected
  /\ req' = First(list) /\ next' = After(list, First(list))
  /\ wake' \in Drained /\ wait' = 0
  /\ UNCHANGED <<list, timers, transfer, send, skew, waking, tx, ghosts>>

\* On a stop or reconnect request, a receive timeout or a receive error.
DisconnectBegin ==
  /\ pc = "poll"
  /\ pc' = "cancel" /\ connected' = FALSE
  /\ req' = First(list) /\ next' = After(list, First(list))
  /\ wake' \in Drained /\ wait' = 0
  /\ UNCHANGED <<list, timers, transfer, send, skew, waking, tx, ghosts>>

CancelOne ==
  /\ pc = "cancel" /\ req # None
  /\ \E N \in Submissions : Finish(req, "shutdown", N, wake)
  /\ Advance(list')
  /\ UNCHANGED <<connected, pc, skew, waking, wait, seen>>

CancelEnd ==
  /\ pc = "cancel" /\ req = None
  /\ pc' = "closing"
  /\ UNCHANGED <<connected, list, timers, transfer, req, next, send, skew,
                 waking, wake, wait, tx, ghosts>>

\* golioth_close.
Close ==
  /\ pc = "closing"
  /\ pc' = "closed"
  /\ UNCHANGED <<connected, list, timers, transfer, req, next, send, skew,
                 waking, wake, wait, tx, ghosts>>

-----------------------------------------------------------------------------
\* Time passes: bounded by MaxSkew within a pass, and by MaxLag for a request
\* that is overdue.
Tick ==
  /\ \A r \in Timed : left[r] > -MaxLag
  /\ pc \in {"sampled", "prepare"} => skew < MaxSkew
  /\ left' = [r \in Reqs |-> IF r \in Timed THEN left[r] - 1 ELSE left[r]]
  /\ skew' = IF pc \in {"sampled", "prepare"} THEN skew + 1 ELSE skew
  /\ wait' = IF pc = "poll" /\ wait > 0 THEN wait - 1 ELSE wait
  /\ UNCHANGED <<connected, list, timeout, retries, transfer, pc, req, next,
                 send, waking, wake, tx, ghosts>>

\* What the client thread does by itself, without a packet or a request to
\* connect or to disconnect.
Proceed ==
  \/ PollWake \/ OnConnect
  \/ PrepareBegin \/ PrepareSend \/ PrepareSkip \/ PrepareCycle \/ PrepareExpire
  \/ PrepareEnd
  \/ CancelOne \/ CancelEnd \/ Close

RxRequest(r) ==
  \/ RxError(r) \/ RxEmptyAck(r) \/ RxNotify(r)
  \/ \E b \in 0 .. block[r] :
       \/ RxMoreNext(r, b) \/ RxMoreHold(r, b) \/ RxMoreRefuse(r, b)
       \/ RxLast(r, b)

Next ==
  \/ Proceed \/ Connect \/ DisconnectBegin \/ RxIgnored \/ Tick
  \/ \E r \in Reqs : AppSubmit(r) \/ AppWakeup(r) \/ RxRequest(r)

Spec == Init /\ [][Next]_vars

\* The threads are scheduled and time does not stop.
FairSpec ==
  /\ Spec
  /\ WF_vars(Proceed) /\ WF_vars(Tick)
  /\ \A r \in Reqs : WF_vars(AppWakeup(r))

-----------------------------------------------------------------------------
\* The state has the shape of the C structures, and the counters their range.
TypeOK ==
  /\ connected \in BOOLEAN
  /\ list \in Seq(Reqs)
  /\ left \in [Reqs -> Int] /\ timeout \in [Reqs -> Nat]
  /\ retries \in [Reqs -> 0 .. MaxRetries]
  /\ block \in [Reqs -> Nat] /\ pkt \in [Reqs -> Nat]
  /\ pending \in [Observes -> BOOLEAN]
  /\ pc \in {"closed", "opened", "sampled", "prepare", "poll", "cancel", "closing"}
  /\ req \in Reqs \union {None} /\ next \in Reqs \union {None}
  /\ send \in BOOLEAN /\ skew \in 0 .. MaxSkew
  /\ wake \in BOOLEAN /\ waking \in SUBSET Reqs /\ wait \in Int
  /\ tx \in SUBSET (Reqs \X Nat)
  /\ status \in [Reqs -> {"unused", "rejected", "accepted"}]
  /\ ends \in [Reqs -> Nat]
  /\ result \in [Reqs -> {"none", "ok", "error", "ack", "refused", "timedout",
                          "shutdown"}]
  /\ seen \in [OneShots -> Seq(Nat)] /\ tries \in [Reqs -> Nat]

\* Every accepted request gets exactly one final callback: it is on the list,
\* once, until that callback, and a rejected request never gets any.  This is
\* what golioth_coap_req_cb promises its caller and cancel_and_free must keep.
ExactlyOnce ==
  /\ \A i, j \in 1 .. Len(list) : list[i] = list[j] => i = j
  /\ \A r \in Reqs : ends[r] = IF status[r] = "accepted" /\ r \notin Listed
                                THEN 1 ELSE 0
  /\ \A r \in Listed : status[r] = "accepted"

\* The SAFE iteration never holds a request that was freed: neither the cursor
\* nor the prefetched element, whatever callbacks submit in the meantime.
CursorSafe ==
  Locked =>
    /\ req = None => next = None
    /\ req # None => req \in Listed
    /\ next # None => next = After(list, req)

\* No request outlives its session: golioth_coap_reqs_on_disconnect clears the
\* flag before it cancels, so nothing that a cancelled callback or another
\* thread submits is left behind when the socket is closed or opened again.
DownMeansDrained ==
  pc \in {"closing", "closed", "opened"} => list = <<>>

\* The callback of a one-shot request sees blocks 0, 1, 2, ... once each, and
\* all of them when told the transfer is complete, whatever the network
\* duplicates or delays (golioth_coap_req_reply_handler).
BlocksInOrder ==
  \A r \in OneShots :
    /\ \A i \in 1 .. Len(seen[r]) : seen[r][i] = i - 1
    /\ result[r] = "ok" => Len(seen[r]) = NBlocks[r]

\* While the client thread polls, each request it must look at is covered: the
\* poll ends by its deadline (late by the pass's own duration at most) or is over
\* already, or the eventfd is or is about to be signalled by
\* golioth_coap_req_schedule.
NoLostWakeup ==
  pc = "poll" =>
    \A r \in Timed : wake \/ waking # {} \/ wait <= 0 \/ wait <= left[r] + MaxSkew

\* When the client thread is late by less than an initial timeout, no turn of
\* the loop of golioth_coap_req_poll_prepare is swallowed: a request about to
\* time out was sent once and then retransmitted MaxRetries times.  A thread that
\* is later than that may drop a request it never sent.
TimeoutAfterAllRetries ==
  (\A t \in AckTimeouts : MaxLag < t) =>
    (Expired => tries[req] = MaxRetries + 1)

\* A request under retransmission is eventually answered or ended, even when
\* the network loses everything or the callback never asks for the next block.
EventuallySettled ==
  \A r \in Reqs : (r \in Timed) ~> (r \notin Timed)

-----------------------------------------------------------------------------
(* What the engine promises its callers: ReqContract.                      *)
fate == [r \in Reqs |-> IF status[r] = "accepted"
                          THEN IF ends[r] = 0 THEN "open" ELSE result[r]
                          ELSE status[r]]
link == IF connected THEN "up" ELSE IF pc = "cancel" THEN "closing" ELSE "down"

Contract == INSTANCE ReqContract

\* The engine implements the contract: accept or reject at once, blocks in
\* order, one final callback, nothing outstanding after a disconnect.
ImplementsContract == Contract!Spec
=============================================================================
