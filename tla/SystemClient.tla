---------------------------- MODULE SystemClient ----------------------------
(***************************************************************************)
(* The main loop of net/golioth/system_client.c: one thread that waits to  *)
(* be started, connects, and serves the socket and an eventfd with a poll  *)
(* that has no timeout of its own.  What ends the poll is a packet, or the *)
(* eventfd, written by a delayable work item, by the request engine, and   *)
(* by the threads that stop the client or ask it to reconnect.             *)
(*                                                                         *)
(* One thread starts and stops the client, another asks for reconnection.  *)
(* recv and ping are recv_expiry and ping_expiry minus k_uptime_get(), and *)
(* -1 once they are past.                                                  *)
(***************************************************************************)
EXTENDS Integers

CONSTANTS
  RecvTimeout, PingInterval,  \* RECV_TIMEOUT and PING_INTERVAL
  ReqTimeouts,   \* what golioth_poll_prepare may return
  PollMayFail,   \* may zsock_poll return an error
  None           \* no timer is armed

ASSUME TimeAssumption ==
  /\ RecvTimeout \in Nat \ {0} /\ PingInterval \in Nat \ {0}
  /\ ReqTimeouts \subseteq Nat /\ ReqTimeouts # {}
  /\ PollMayFail \in BOOLEAN /\ None \notin Int

VARIABLES
  pc,         \* the client thread
  recv, ping, \* ticks until the receive timeout and the next ping
  due,        \* ticks until the request engine last asked to run
  sockr,      \* revents of the socket
  event,      \* the eventfd is readable
  rx,         \* the socket is readable
  timer,      \* ticks until eventfd_timeout expires, or None
  queued,     \* eventfd_timeout is in the system work queue
  stop,       \* FLAG_STOP_CLIENT
  reconnect,  \* FLAG_RECONNECT
  started,    \* count of sys_client_started
  ctl,        \* the thread that calls start and stop
  asker,      \* the thread that calls request_reconnect
  want        \* ghost: which of the two was called last

expiries == <<recv, ping, due>>
work == <<timer, queued>>
flags == <<stop, reconnect>>
callers == <<ctl, asker, want>>
vars == <<pc, expiries, sockr, event, rx, work, flags, started, callers>>

\* client->sock >= 0 as the main loop sees it.
Open == pc \in {"prepare", "poll", "flags", "socket", "disconnect"}

Least(S) == CHOOSE m \in S : \A n \in S : m <= n

\* The test of timeout < 0 in the main loop; mistaken: it is missing.
FloorMissing(t) == t
Floor(t) == IF t < 0 THEN 0 ELSE t

Init ==
  /\ pc = "wait" /\ recv = 0 /\ ping = 0 /\ due = 0
  /\ sockr = FALSE /\ event = FALSE /\ rx = FALSE
  /\ timer = None /\ queued = FALSE
  /\ stop = FALSE /\ reconnect = FALSE /\ started = FALSE
  /\ ctl = "idle" /\ asker = "idle" /\ want = "stop"

-----------------------------------------------------------------------------
(* The client thread, golioth_system_client_main.                          *)

\* k_poll leaves the semaphore as it is, so that a session which ends by itself
\* is followed by another; mistaken: the semaphore is taken.
StartConsumed == FALSE
StartKept == started

WaitStart ==
  /\ pc = "wait" /\ started
  /\ pc' = "flush" /\ reconnect' = FALSE /\ started' = StartKept
  /\ UNCHANGED <<expiries, sockr, event, rx, work, stop, callers>>

Flush ==
  /\ pc = "flush"
  /\ pc' = "connect" /\ event' = FALSE
  /\ UNCHANGED <<expiries, sockr, rx, work, flags, started, callers>>

\* client_connect succeeded.
Connected ==
  /\ pc = "connect"
  /\ pc' = "prepare" /\ recv' = RecvTimeout /\ ping' = PingInterval /\ rx' = FALSE
  /\ UNCHANGED <<due, sockr, event, work, flags, started, callers>>

\* It failed: k_sleep, then start over.
NotConnected ==
  /\ pc = "connect"
  /\ pc' = "wait"
  /\ UNCHANGED <<expiries, sockr, event, rx, work, flags, started, callers>>

\* k_work_reschedule; mistaken: k_work_schedule, which keeps an armed timer.
ArmIfIdle(t) == timer' = IF timer = None THEN t ELSE timer
Arm(t) == timer' = t

Prepare ==
  /\ pc = "prepare"
  /\ pc' = "poll" /\ due' \in ReqTimeouts
  /\ Arm(Floor(Least({recv, ping, due'})))
  /\ UNCHANGED <<recv, ping, sockr, event, rx, queued, flags, started, callers>>

\* zsock_poll, and eventfd_read when the eventfd made it return.
Poll ==
  /\ pc = "poll" /\ (event \/ rx)
  /\ sockr' = rx /\ event' = FALSE
  /\ pc' = IF event THEN "flags" ELSE "socket"
  /\ UNCHANGED <<expiries, rx, work, flags, started, callers>>

\* The loop is left, and with it the thread.
PollError ==
  /\ PollMayFail /\ pc = "poll"
  /\ pc' = "ended"
  /\ UNCHANGED <<expiries, sockr, event, rx, work, flags, started, callers>>

\* Reconnect and stop requests are handled like a receive timeout.  Mistaken: a
\* request to reconnect is not.
ClosingToStop == stop \/ recv <= 0
Closing == reconnect \/ stop \/ recv <= 0

FlagsClose ==
  /\ pc = "flags" /\ Closing
  /\ stop' = FALSE /\ reconnect' = FALSE
  /\ pc' = "disconnect"
  /\ UNCHANGED <<expiries, sockr, event, rx, work, started, callers>>

\* None is set: golioth_ping if it is time.
FlagsPing ==
  /\ pc = "flags" /\ ~Closing
  /\ ping' = IF ping <= 0 THEN PingInterval ELSE ping
  /\ pc' = IF sockr THEN "socket" ELSE "prepare"
  /\ UNCHANGED <<recv, due, sockr, event, rx, work, flags, started, callers>>

\* golioth_process_rx takes one packet; another may be waiting.  It fails if the
\* socket does, if the packet is of no known type or cannot be acknowledged.
ProcessRx == rx' \in BOOLEAN /\ pc' \in {"prepare", "disconnect"}

\* The expiries move on whether it fails or not.
Receive ==
  /\ pc = "socket"
  /\ recv' = RecvTimeout /\ ping' = PingInterval
  /\ ProcessRx
  /\ UNCHANGED <<due, sockr, event, work, flags, started, callers>>

\* client_disconnect: golioth_disconnect ...
Disconnect ==
  /\ pc = "disconnect"
  /\ pc' = "cancel" /\ rx' = FALSE
  /\ UNCHANGED <<expiries, sockr, event, work, flags, started, callers>>

\* ... then k_work_cancel_delayable_sync; mistaken: the work is not cancelled.
WorkLeft == UNCHANGED work
WorkCancelled == timer' = None /\ queued' = FALSE

CancelWork ==
  /\ pc = "cancel"
  /\ pc' = "wait" /\ WorkCancelled
  /\ UNCHANGED <<expiries, sockr, event, rx, flags, started, callers>>

Client ==
  \/ WaitStart \/ Flush \/ Connected \/ NotConnected \/ Prepare \/ Poll
  \/ FlagsClose \/ FlagsPing \/ Receive \/ Disconnect \/ CancelWork

-----------------------------------------------------------------------------
(* The system work queue.                                                  *)
Expire ==
  /\ timer = 0
  /\ timer' = None /\ queued' = TRUE
  /\ UNCHANGED <<pc, expiries, sockr, event, rx, flags, started, callers>>

\* eventfd_timeout_handle.
RunWork ==
  /\ queued
  /\ queued' = FALSE /\ event' = TRUE
  /\ UNCHANGED <<pc, expiries, sockr, rx, timer, flags, started, callers>>

-----------------------------------------------------------------------------
(* Other threads.                                                          *)

\* golioth_system_client_start, with usable credentials.
Start ==
  /\ ctl = "idle"
  /\ started' = TRUE /\ want' = "run"
  /\ UNCHANGED <<pc, expiries, sockr, event, rx, work, flags, ctl, asker>>

\* golioth_system_client_stop: k_sem_take, the flag, the eventfd; mistaken: the
\* semaphore is left available.
StartLeft == started' = started
StartTaken == started' = FALSE

Stop ==
  /\ ctl = "idle"
  /\ StartTaken /\ want' = "stop" /\ ctl' = "flag"
  /\ UNCHANGED <<pc, expiries, sockr, event, rx, work, flags, asker>>

StopFlag ==
  /\ ctl = "flag"
  /\ stop' = TRUE /\ ctl' = IF stop THEN "idle" ELSE "write"
  /\ UNCHANGED <<pc, expiries, sockr, event, rx, work, reconnect, started, asker, want>>

StopWrite ==
  /\ ctl = "write"
  /\ event' = TRUE /\ ctl' = "idle"
  /\ UNCHANGED <<pc, expiries, sockr, rx, work, flags, started, asker, want>>

\* golioth_system_client_request_reconnect.
AskFlag ==
  /\ asker = "idle"
  /\ reconnect' = TRUE /\ asker' = IF reconnect THEN "idle" ELSE "write"
  /\ UNCHANGED <<pc, expiries, sockr, event, rx, work, stop, started, ctl, want>>

AskWrite ==
  /\ asker = "write"
  /\ event' = TRUE /\ asker' = "idle"
  /\ UNCHANGED <<pc, expiries, sockr, rx, work, flags, started, ctl, want>>

\* golioth_system_client_wakeup, from golioth_coap_req_schedule.
Wakeup ==
  /\ event' = TRUE
  /\ UNCHANGED <<pc, expiries, sockr, rx, work, flags, started, callers>>

-----------------------------------------------------------------------------
(* The network and the clock.                                              *)
Arrive ==
  /\ Open /\ rx' = TRUE
  /\ UNCHANGED <<pc, expiries, sockr, event, work, flags, started, callers>>

Passed(n) == IF n < 0 THEN n ELSE n - 1

Tick ==
  /\ recv' = Passed(recv) /\ ping' = Passed(ping) /\ due' = Passed(due)
  /\ timer' = IF timer \in {None, 0} THEN timer ELSE timer - 1
  /\ UNCHANGED <<pc, sockr, event, rx, queued, flags, started, callers>>

Others ==
  \/ Start \/ Stop \/ StopFlag \/ StopWrite \/ AskFlag \/ AskWrite \/ Wakeup
  \/ Arrive \/ Tick

Next == Client \/ PollError \/ Expire \/ RunWork \/ Others

Spec == Init /\ [][Next]_vars

-----------------------------------------------------------------------------
\* The state has the shape of the C variables.
TypeOK ==
  /\ pc \in {"wait", "flush", "connect", "prepare", "poll", "flags", "socket",
             "disconnect", "cancel", "ended"}
  /\ recv \in -1 .. RecvTimeout /\ ping \in -1 .. PingInterval /\ due \in Int
  /\ sockr \in BOOLEAN /\ event \in BOOLEAN /\ rx \in BOOLEAN
  /\ timer \in Nat \union {None} /\ queued \in BOOLEAN
  /\ stop \in BOOLEAN /\ reconnect \in BOOLEAN /\ started \in BOOLEAN
  /\ ctl \in {"idle", "flag", "write"} /\ asker \in {"idle", "write"}
  /\ want \in {"run", "stop"}

\* zsock_poll is called with no timeout, so something must end it: at any time
\* during the poll the eventfd is readable, the work item is queued, or its
\* timer expires no later than the ping, the receive timeout and what the
\* request engine asked for.
PollCovered ==
  pc = "poll" =>
    \/ event \/ queued
    \/ timer # None /\ (timer <= 0 \/ timer <= Least({recv, ping, due}))

\* The work item never outlives its session: while the thread waits or connects
\* nothing is armed that would write the eventfd (client_disconnect).
WorkEndsWithSession ==
  pc \in {"wait", "flush", "connect"} => timer = None /\ ~queued

\* golioth_system_client_stop: once stop is the last call and the network is
\* quiet, the client ends up waiting, whatever the call interrupted.
StopHonoured ==
  <>[](want = "stop" /\ ~rx /\ pc # "ended") => <>[](pc = "wait")
=============================================================================
