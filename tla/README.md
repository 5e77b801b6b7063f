# A verification project for the Golioth Zephyr SDK

TLA+ specifications of the Golioth SDK for Zephyr, the TLC configurations that
check them on small instances, and TLAPS proofs of what holds for every
instance.  Every definition is a translation of the C code under `src/`;
`PROJECT.json` names the lines each one stands for.

Checking by hand, in this directory:

    tlc -workers 2 -config CoapReqsList.cfg MCCoapReqs.tla
    tlapm CoapReqsProofs.tla

## 1. The system

The SDK connects a device to the Golioth cloud with CoAP over DTLS.  One
*client thread* owns the socket.  Application threads, and callbacks on the
client thread, make requests; the client thread sends, retransmits, receives,
times out, and calls back.

| part | code | state | operations |
|---|---|---|---|
| request engine | `net/golioth/coap_req.c` | list of outstanding requests, `coap_reqs_connected`, recursive `coap_reqs_lock`; per request: packet, retransmission timer, block context, observation flags | submit, (re)transmit, time out, next block, notify, cancel all, on_connect, on_disconnect |
| synchronous requests | `golioth_coap_req_sync` | semaphore, error and user callback on the caller's stack | call, callback, return |
| LightDB, stream | `lightdb.c`, `stream.c` | none (LightDB get: a buffer and a length on the stack) | get, set, delete, observe, push |
| system client | `system_client.c` | two flags, a semaphore of at most one, an eventfd, a delayable work item, receive and ping expiries | the main loop; start, stop, request_reconnect, wakeup |
| client core | `golioth.c` | socket, `client->lock`, receive buffer | connect, disconnect, send, ping, receive, acknowledge |
| RPC | `rpc.c` | table of methods, mutex | register, observe, serve a call |
| settings service | `settings.c` | one callback | observe, apply, report |
| firmware update | `fw.c`, `samples/dfu` | three semaphores, the desired version, `downloading_started`, two slots of the flash | observe the desired release, download, report, request the upgrade |
| credentials of the samples | `samples/common/settings_golioth.c` | the stored PSK and PSK-ID | set, ask for a reconnection |
| CBOR maps, CoAP helpers | `zcbor_utils.c`, `coap_utils.c`, `golioth_utils.c` | none | decode a map, classify a packet, split a path, choose a block size |
| log backend | `log_backend_golioth.c` | one packet buffer, message index, panic mode | process, dropped, panic |
| offload poll wrapper | `sockets_offload_poll_wrapper.c` | pool of contexts, one worker each, a signal | create, poll prepare, poll update, close |
| Wi-Fi manager | `samples/common/wifi.c` | state, one-slot event, two work items | network events, connect, retry |

How they interact:

    application ──req_cb/req_sync──▶ request engine ──send──▶ client core ──▶ socket
         │                             │   ▲  ▲                                │
         │ start, stop, reconnect      │   │  └── process_rx ◀── client core ◀─┘
         ▼                             │   └──── poll_prepare ◀─┐
    system client ◀── wakeup (eventfd) ┘                        │
         └── main loop: connect, prepare, poll, flags, receive ─┘
    rpc, settings, fw, lightdb ── observe and set through the request engine;
                                  their callbacks run on the client thread,
                                  under coap_reqs_lock

What is hard in it:

* Any thread may send on a socket whose descriptor the client thread closes, and
  whose number the next part of the program that opens one is given.
* `client->lock` is held over a handshake; a thread that logs, or panics, waits.
* The list is shared between threads and is iterated while callbacks, which run
  under its recursive lock, append to it and end requests.
* Ten paths free a request, and each must have called back exactly once.
* Requests are submitted while the client connects, disconnects, or is already
  sending them.
* The network loses, duplicates and delays; retransmission is a loop over time
  that has passed, on a thread that may be late.
* The poll of the main loop has no timeout: a timer, a work item, an eventfd
  and flags set by other threads must never all miss each other.
* Errors of one layer's callback are passed, or lost, through two others.
* Notifications overtake each other while their sequence numbers wrap.
* The Wi-Fi manager keeps one event and three bits, which two threads change.
* A worker polls a descriptor that another thread closes.
* The device may lose power between any two steps of a firmware update.

What makes each component correct:

* request engine: one final callback per accepted request; no freed request is
  touched; nothing outlives a session; blocks reach the callback in order and
  once; deadlines are covered by the poll; a request times out only after all
  its transmissions; every request ends.
* synchronous requests, LightDB get: the stack frame outlives the request; the
  result is the response; the call returns.
* system client: the poll always ends; the timer does not outlive its session;
  the last of start and stop is carried out.
* notifications: the callback sees them in order and once, and none is
  acknowledged that it missed.
* RPC: a registered method is found, and calls and registrations end.
* settings: settings are given in order and once; a status that is sent is about
  all of them.
* firmware: the device always has an image to run and one to go back to; what is
  reported is what is installed; the newest release runs in the end.
* poll wrapper: a poll reports what its own worker saw; close ends the worker.
* Wi-Fi manager: with an address it is READY, without a link it is not, and it gets
  there.
* CBOR maps: a map is accepted exactly when it has every wanted key.
* client core: every system call is on the client's own descriptor; none leaks.
* log backend: one thread owns the packet; the text that is sent is the text that
  was formatted; an index is used once, and gaps mean lost messages.
* credentials: no session outlives the ones it was opened with.
* pure helpers: the result is what the header promises, for all inputs.

## 2. The modules

| module | models |
|---|---|
| `CoapReqs` | the request engine, its callers and the client thread that drives it |
| `ReqContract` | what the engine promises its callers: no list, timers or packets |
| `LightdbGet` | `golioth_coap_req_sync` and `golioth_lightdb_get`, on `ReqContract` |
| `Rpc` | registration of methods against calls, under the mutex |
| `Calls` | both kinds of call on the one client thread that serves them |
| `ClientSock` | the client core: socket, lock, connecting, receiving, closing |
| `LogPacket` | how a log message is encoded in the buffer its text is formatted into |
| `LogBackend` | the log backend on the client core, with the logger and a panic |
| `SystemClient` | the main loop of the system client and the calls that steer it |
| `Provision` | the system client with credentials that are replaced while it runs |
| `Observe` | the notifications of one observation: sequence numbers, age, acknowledgement |
| `MapDecode` | `zcbor_map_decode` |
| `Settings` | the settings service, on `MapDecode` |
| `Dfu` | the firmware update: main thread, callbacks, flash, power |
| `PollWrapper` | wrapped sockets and the worker of each |
| `WifiManager` | network events, the work queue and the state map |
| `MCCoapReqs`, `MCCalls`, `MCLogBackend`, `MCSettings`, `MCDfu`, `MCPollWrapper` | instances for TLC |
| `CoapReqsProofs` | theorems about `CoapReqs`, and that it implements `ReqContract` |
| `CallsProofs` | theorems about `Calls`, `Rpc` and `LightdbGet` |
| `LogBackendProofs` | theorems about `ClientSock`, `LogPacket` and `LogBackend` |
| `ProvisionProofs` | theorems about `SystemClient` and `Provision` |
| `SettingsProofs` | theorems about `MapDecode` and `Settings` |
| `NetworkProofs` | theorems about `PollWrapper` and `WifiManager` |
| `ObserveProofs`, `DfuProofs` | theorems about `Observe` and `Dfu` |

How they compose:

* `CoapReqs` implements `ReqContract` (`EngineImplementsContract`, proved), and
  `LightdbGet` is built on it, with `Engine == INSTANCE ReqContract`: what it
  shows of synchronous calls rests only on what the engine promises, and it uses
  the engine only as the contract allows (`GetKeepsContract`, proved).
* `Calls` is `LightdbGet` and `Rpc` on one client thread: a callback of either
  keeps the other's from running, and `coap_reqs_lock`, which it holds, keeps a
  caller from submitting, while it waits for a third thread at `rpc.mutex`.  Each
  of its steps is one of either or leaves it alone (`CallsImplementRpc`,
  `CallsImplementGet`, proved).
* `LogBackend` extends `ClientSock`: its two threads send as any thread does, and
  wait for `client->lock` while the client thread makes a handshake.
* `Provision` extends `SystemClient`: every step with credentials is a step of the
  main loop or leaves it alone (`ProvisionImplementsClient`, proved).
* `Settings` extends `MapDecode` and gives its decode callbacks: every step of
  the service is a step of the walk over the map or leaves it alone
  (`SettingsDecodesMap`, proved).
* `Observe` refines one action of `CoapReqs`: that a notification may be ignored.
* `Dfu` rests on what the modules before them show of a download, of
  notifications and of maps, and says so where it does.

### CoapReqs

One variable per field of the code (`list`, `left` for `t0 + timeout - uptime`,
`timeout`, `retries`, `block`, `pkt`, `pending`, `connected`), the local
variables of the functions that can be interrupted (`req` and `next` of the SAFE
iteration macro, `send`, `skew`), and `pc`, the client thread.

| `pc` | the client thread is |
|---|---|
| closed, opened | before and after the socket is opened, before `golioth_coap_reqs_on_connect` |
| sampled | past `k_uptime_get()` and before the lock |
| prepare | in `golioth_coap_reqs_poll_prepare`, holding the lock |
| poll | in `zsock_poll` |
| cancel | in `golioth_coap_reqs_on_disconnect`, holding the lock |
| closing | before `golioth_close` |

*Atomicity.*  Submission holds the lock throughout, and so does the handling of
one packet, so each is one step.  The pass over the list and the cancellation
also hold it, but they run callbacks and see time pass, so each request is a
step, and the turns of the retransmission loop are steps.  `client->wakeup`
is called after the lock was released, so it is a step of its own
(`AppWakeup`).  What a callback may do is nondeterministic: submit a request or
not, call `get_next`, hold it, or return an error.

*The network.*  `tx` is the set of packets sent; a response to any of them may
arrive at any time, again, or never.

*Ghosts* record what a property needs and nothing reads: the fate of each
submission, the number of final callbacks and what they said, the blocks a
callback saw, the transmissions since the last restart.

What is abstracted, and why that is sound:

* A request is its identity.  When one is freed its fields are reset and packets
  only it could match are forgotten: the C memory is gone, and a late response
  finds no request (`RxIgnored`).  Tokens and message ids are taken to be unique
  among the requests of a session.
* `golioth_coap_pending_init` precedes the wait for the lock in the code; a
  request is due from the moment it is appended here, which only makes it
  earlier by the wait.
* A notification older than the last is ignored: `RxIgnored` may happen instead
  of `RxNotify`.  The comparison of sequence numbers is in `Observe`.
* Several errors end a request in the same way and are one result, `error`:
  4.xx and 5.xx codes, an unusable Block2 option, a notification that needs
  blockwise transfer.
* `coap_next_block_for_option` does not advance past the last block, and
  `coap_append_block2_option` finds room in the packet, as it does in the code's
  own packets.  `get_next` is not called by a callback that was given an error.

*Time.*  The code subtracts 32-bit times and reads the difference as signed, which
relies on a build whose conversions wrap.  `left` is the true distance to a
deadline; every comparison in the model goes through `Remaining`, which takes it
modulo twice `HalfRange` as the code does.  The answer is wrong when a deadline is
`HalfRange` or more away, in either direction.

### LightdbGet

The engine's contract with a caller on top.  `golioth_req_sync_cb` and the
prealloc callback run in the engine's step that hands over a block, because the
code calls them there.  Sizes are counted in blocks.  `SizeKnown` tells whether
the server sends Size2; when it does, the option is the size of the response.

### Calls

A step of the client thread that serves a remote call (`ServeCall`) and one that
serves a request of `golioth_lightdb_get` (`ServeGet`) exclude each other: `ReqsFree`
is `coap_reqs_lock`, which the client thread holds from before `on_rpc` until it
returns, also while it waits for `rpc.mutex`.  Registration takes `rpc.mutex`
alone; had it submitted anything with the mutex held, the two locks would be taken
in both orders, and `GetReturns` would fail.  A synchronous call from a callback is
not made: it would wait for its own thread.

### ClientSock

A system call begins and ends (`using`), so that a close can come between; the lock
is what prevents it.  `files` says whose each descriptor is: the rest of the program
opens and closes its own, and gets a number again as soon as it is free, which is
before `client->sock` is reset.  `golioth_connect` tries the addresses in order,
`Setup` and `Handshake` may fail, and each failure closes what was opened.  A
received packet is its length, token length, type and code, sorted as in
`coap_data_check_rx_packet_type`; the CoAP library's parser is external.

### LogBackend and LogPacket

The logger's thread processes one message after the other; a thread that panics
sets `panic_mode` and then empties the queue itself, into a backend that now discards
messages; it is the only one that may interrupt the first inside the backend.  The
index is read and written in two steps.
`LogPacket` is the encoding: the text is formatted behind reserved bytes, and keys,
function name and text are then moved down over it.  A byte of the text is named by
its place, so that `Intact` can say that none was overwritten before it was moved.

### SystemClient

One action per stretch of the main loop between two points where another thread
can change what it reads.  `zsock_poll` and the `eventfd_read` after it are one
step (only this thread reads the eventfd, a write in between would be read
too), and so are the two test-and-clear operations on the flags: a flag set
between them is one that was set just before the first or just after the second.
The system work queue, the caller of start and stop, and the caller of
request_reconnect are processes; the flag and the eventfd write of the last two
are separate steps.  What the poll reported is in `pc` (which of receiving and
flags comes next).  The three expiries count down to -1, which is "past";
nothing in the loop distinguishes how long.

### Provision

`golioth_settings_set` deletes the old credential, stores the new one and asks for a
reconnection; the client may be anywhere meanwhile.  A handshake takes what is
stored at some moment while the thread connects (`TakeCredentials`), and a session
becomes `old` when something else is stored.  Three kinds of credentials are told
apart: what start refuses, what the server refuses, and good ones.

### Observe

A notification is named by its *version*, the number it would have if the server
did not wrap; the code sees the version modulo 2^24.  `net` keeps what is under
way, so that a packet may be received again, late, out of order or never.
`Registered` is a new request structure, whose `reply.ts` is set so far back that
the first notification is always new.  Acknowledging is optional in `Receive`:
the server decides whether a notification is confirmable.  `WindowAssumption`
states the premise of RFC 7641 that the code relies on: a packet does not live
longer than the window, and the server does not use half of its numbers within
that time.

### MapDecode and Settings

A map is the sequence of its keys.  `Walk` is the loop of `zcbor_map_decode`; a
wanted key stops it in `pc = "value"`, where its decode callback runs and ends
in `ValueStored` or `ValueFails`.  `Broken` is a failure of any zcbor call, at any
point.  `Settings` extends this with the callbacks: `settings_decode` one setting
at a time, because the application is called in between, and the version.  Room
in the response buffer is counted in units: a name takes `KeyRoom`, a code and the
version one each.

### Rpc

`golioth_rpc_register` and `on_rpc` around `client->rpc.mutex`, which is recursive
and counted (`owner`, `depth`).  The table is read one lookup at a time with the
mutex held.  A callback may register a method while it runs (`Client` in
`Registrars`).  The response is handed to the request engine and ends there; an
argument or a result that does not decode or fit sets the status.

### Dfu

The main thread (`main`), the callbacks of the client thread and the two slots of
the flash.  Each callback runs on one thread and is one step; the main thread
takes a semaphore and reports in one step, because a report neither changes nor
reads anything but `update_ctx.version`.  The running version is read from the
image's header at boot and may be unreadable (`NoVersion`): then every release looks
new, the running one, too.  mcuboot is external and modelled by its
documented swap types: a requested swap is a test, and an image that was not
confirmed is reverted at the next reset.  Any write to the flash, confirmation and
request may fail, the request of the observation too (`observed`).  `failed` says
that an update was given up in this boot, `missed` that the device has not been told
of the release.

### PollWrapper

Each thread owns one socket; each context has a work item, a signal and, as the
code's local variables, the descriptor its worker took (`target`).  The wrapper's own
descriptor, which only its thread uses, is left out.  Taking the
descriptor and polling it are two steps, because the worker's thread can be
preempted in between.  `wrapper_lock` is held as in the code: over
`sock_wrapper_create` and `sock_wrapper_close`, but not over `sock_wrapper_socket`, nor
over the close of a socket that could not be wrapped (`CloseRefused`).

### WifiManager

Management events are raised by the driver in order (`mgmt`) and delivered one at
a time; two work items share one queue, and an item that is queued is not queued
again (`With`).  The management thread preempts the queue's, so the steps of a work
item are separate where it can run in between: `net_mgmt_event_handle` reads the
state (`seen`) before it notifies an event; `wifi_connect` sets the bit, makes the
request, handles the answer.  Delivering one event, which changes the state and then
queues the item, is one step: the queue's thread does not preempt the other, which is
cooperative by default.  The second submission at the end of `wifi_manager_init` is
left out: the item is still queued.

## 3. The runs

| run | module, configuration | shows | distinct states |
|---|---|---|---|
| list | `MCCoapReqs`, `CoapReqsList` | `ExactlyOnce`, `CursorSafe`, `DownMeansDrained`, `ImplementsContract` | 281146 |
| timers | `MCCoapReqs`, `CoapReqsTimers` | `TypeOK`, `BlocksInOrder`, `NoLostWakeup`, `TimeoutAfterAllRetries`, `EventuallySettled` | 175248 |
| calls | `MCCalls`, `CallsServed` | `StackLive`, `GetFaithful`, `FindsRegistered`, `SameCallback`, `GetReturns`, `CallsEnd` | 103474 |
| client | `MCLogBackend`, `ClientLog` | `OwnSocket`, `PacketOwned`, `TextIntact`, `GapsAreLosses`, `LockGranted` | 80544 |
| system_client | `Provision`, `SystemClientLoop` | `PollCovered`, `WorkEndsWithSession`, `StopHonoured`, `StartHonoured`, `CredentialsApplied` | 473778 |
| poll_wrapper | `MCPollWrapper`, `PollWrapperShared` | `WorkerStaysHome`, `PollReturns`, `CloseReturns` | 150276 |
| fd_race | `MCPollWrapper`, `PollWrapperRace` | `PollEndsWithSocket` is violated | |
| wifi | `WifiManager`, `WifiManagerEvents` | `ReadyIsConnected`, `NoInvalidEvent`, `BecomesReady` | 13913 |
| wifi_stuck | `WifiManager`, `WifiManagerReconnect` | `Reconnects` is violated | |
| observe | `Observe`, `ObserveWindow` | `InOrder`, `AckedIsSeen` | 198216 |
| settings | `MCSettings`, `SettingsStatus` | `DistinctMeansAll`, `WellFormedIsJudged`, `StatusFaithful`, `GivenInOrder` | 248008 |
| dfu | `MCDfu`, `DfuUpdates` | `AlwaysBoots`, `ReportedIsFlashed`, `InstallsRelease` | 47432 |

Each property has a mutant, a plausible mistake in one definition (kept beside
the definition it changes, and called *mistaken* in its comment), under which the
same run finds it violated.

### The bounds, and why they are enough

* *list*: three requests, so that the cursor, the element it prefetched and an
  element a callback appends can all be different; a transfer of two blocks, the
  shortest with a block that is not the last; one initial timeout and no lag,
  which the list does not depend on.
* *timers*: one transfer of two blocks and an observation; one retry, so that
  first transmission, retransmission and timeout all happen; a lag and a skew
  that make the client thread late.  `HalfRange` is the smallest its deadlines
  allow: with one less, a deadline still to come is read as past, and
  `TimeoutAfterAllRetries` fails.
* *calls*: two threads and a callback that register for a table of one method less,
  with every choice of names up to a permutation; a caller whose buffer is large
  enough and one whose buffer is not, who is told the size, one at a time
  (`OnlyCaller`): the requests of two callers meet in *list*.
* *client*: two descriptors, so that one can be closed and taken by another part of
  the program; two addresses, so that the second is tried; three messages and a
  queue of two, so that messages are lost in the logger; messages of every shape
  that is encoded differently, cut and whole.
* *system_client*: the ping is due before the receive timeout, and the request
  engine asks to run at once or after both.  The sequence of starts, stops,
  reconnections, credentials, wakeups and packets is unbounded, and the poll may
  fail.
* *poll_wrapper*, *fd_race*: two threads, contexts and descriptors, so that each
  can be handed from one thread to the other; the sequence of calls is unbounded.
* *wifi*: four management events under way, more than the manager can have
  caused; *wifi_stuck* needs two.
* *observe*: `Half`, `Fresh` and `Life` at the edge of `WindowAssumption`, and
  `MaxTime` long enough for the numbers to wrap and for the window to pass.
* *settings*: maps of up to three keys hold both wanted keys, another one, and any
  of them twice; a buffer that is too small for the errors of three settings and
  large enough for those of two.
* *dfu*: two blocks, so that a slot can be half written; two releases, so that one
  comes while the other is installed; two losses of power, so that one can follow
  the swap and one the reversal.

Bounds in the guards: `MaxSkew`, the ticks that pass during one pass over the
list, and `MaxLag`, the ticks a due request may wait for the client thread
(`CoapReqs`); `MaxTime` (`Observe`); `MaxItems` (`Settings`); `MaxCalls` (`Rpc`);
`MaxAddrs` (`ClientSock`); `MaxQueue`, `MaxLogged` (`LogBackend`); `OnlyCaller`
(`Calls`); `MaxEvents` (`WifiManager`); `MaxReleases`, `MaxResets` (`Dfu`).  Everything else
is finite.

### Fairness

* `CoapReqs`: the client thread goes on (`Proceed`), a thread that submitted
  reaches its wakeup, and time passes.  These are the threads of a preemptive
  kernel and its clock; nothing is asked of the network or of connecting.
* `Calls`: threads run and callbacks return; taking `rpc.mutex` is strongly fair,
  since `k_mutex_unlock` hands it to a waiting thread, so that nobody waits for ever
  while others take turns.  A request the engine accepted ends, which
  `EventuallySettled` shows of the engine for requests under retransmission; here
  strongly fair, because remote calls keep taking the client thread.
* `LogBackend`: threads run, a system call ends (a handshake times out), and
  `client->lock`, a `k_mutex` too, is handed to those that wait.
* `Provision`: the client thread, the work queue and the clock go on, a stop
  once begun is carried out, and a connection tried for ever succeeds at some
  time (strong fairness: the attempt is repeatedly enabled, not continuously), and
  so does its handshake when the credentials are good; a call that stores
  credentials and has stored them goes on.
  `StopHonoured` also supposes that packets stop arriving, since the thread may
  otherwise serve the socket for ever.
* `PollWrapper`: the workers run, k_poll sees a raised signal, and a close that
  has begun goes on.
* `WifiManager`: the work queue and the management thread run, a join ends, DHCP
  answers, and a driver that is asked for ever does not always refuse (strong,
  for the same reason).
* `Dfu`: the main thread runs, the client reconnects, a download goes on or ends,
  and a notification arrives once it has repeatedly been on its way.

### Where the code and its documentation differ

Two runs end in a violation.

* *fd_race*.  The worker of a wrapped socket reads the descriptor and then polls
  it without a timeout.  Between the two the socket may be closed and its number
  given to another thread, whose socket the worker then polls; `close` waits for
  it, holding `wrapper_lock`, although the comment says that the wait only makes
  sure the poll has ended.
* *wifi_stuck*.  A link is lost, and a new join requested, before the loss is
  delivered.  The late loss makes the manager ask again, and the driver, still
  joining, answers `-EALREADY`.  `wifi_connect` takes that for a connection
  (`wifi.c:265`): it clears CONNECTING, which leaves both words of network state
  empty, and notifies an event that CONNECTING ignores.  The join then fails, which
  clears bits that are already clear: `net_mgmt_event_handle` finds nothing to do
  (`wifi.c:335`), and the manager stays in CONNECTING with the link down.  The
  changelog promises reconnects.

Others were met while modelling.  The modules contain the behaviour, and the
properties exclude it in their premises or comments; no run is kept for it.

* `golioth_coap_req_poll_prepare` counts the retransmissions that fell due while
  the thread was away and sends once at the end, if there is an end: a client
  thread later than the whole schedule drops a request with `-ETIMEDOUT` without
  having sent it (`coap_req.h:178` describes a request that is sent and dropped
  once its retries are used).
* `golioth_lightdb_get` into a buffer that is too small returns 0: the engine is
  given the callback's `-ENOSPC`, the caller is not (`lightdb.h:54`, `:57`).
* "Flush pending events" (`system_client.c:316`) flushes the reconnect flag and
  the eventfd, not the stop flag, so that a stop made while the client waits
  closes the first session of a later start.
* `sockets/Kconfig:50` says that wrappers are not reused; `sock_wrapper_close`
  frees the context and `sock_wrapper_create` takes it again.
* A wanted key that is in a map twice is counted twice, and `zcbor_map_decode`
  accepts the map without the other key (`zcbor_utils.h:80`).
* Settings are applied while the notification is decoded; if a later part cannot
  be decoded, no status is sent of those that were applied or refused
  (`settings.h:33`).
* `add_error_to_response` ignores what the puts return, so that a full buffer
  yields an error without its key (`settings.c:36`).
* The reconnect flag is looked at only when the poll reports an event.  If the flush
  of the eventfd took the event of a request that came just before a session, and
  packets keep coming, the session goes on with the old credentials until a timer
  ends a poll; `CredentialsApplied` has that in its premise.
* A start that was refused for want of credentials is not made up for when they are
  stored (`samples/hello/README.rst:79` asks for a reboot).
* A credential is deleted before the new one is read (`settings_golioth.c`), so that
  a store that fails leaves none, and the next start is refused.
* A log message whose text fills the packet and that has a hexdump is lost as a
  whole, and so is one whose text ends right behind the colon of its function name.
* The backend discards the queue after `LOG_PANIC`, which `samples/dfu/src/main.c:242`
  calls before it reboots, to have it written.
* The Wi-Fi manager may stay READY without an address.  `net_mgmt_event_handle` reads
  that the link was lost; before it notifies "disconnected", the join that had already
  been requested succeeds and queues the item again, ahead of the event; the second
  pass overwrites "disconnected" with "connected", which READY ignores.  The link is up
  and an address is usually on its way; `ReadyIsConnected` promises no more.
* After a download that failed, `downloading_started` stays set and every later
  release is ignored until the next reset (`samples/dfu/README.rst:13` promises
  that a change is detected and installed).

## 4. What is proved

| theorem | property |
|---|---|
| `CoapReqsProofs!ListInvariant` | the inductive invariant `ListInv` |
| `CoapReqsProofs!TypeCorrect` | `TypeOK` |
| `CoapReqsProofs!CallbackExactlyOnce` | `ExactlyOnce` |
| `CoapReqsProofs!IterationSafe` | `CursorSafe` |
| `CoapReqsProofs!SessionDrained` | `DownMeansDrained` |
| `CoapReqsProofs!DifferencesExact` | 32-bit differences are the true distances |
| `CoapReqsProofs!BlockInvariant` | the inductive invariant `BlockInv` |
| `CoapReqsProofs!BlocksOnceInOrder` | `BlocksInOrder` |
| `CoapReqsProofs!EngineImplementsContract` | `ImplementsContract` |
| `CoapReqsProofs!TimerInvariant` | the inductive invariants `TimerInv`, `TriesInv`, `WakeupInv` |
| `CoapReqsProofs!NoWakeupLost` | `NoLostWakeup` |
| `CoapReqsProofs!TimeoutIsLast` | `TimeoutAfterAllRetries` |
| `CallsProofs!CallsInvariant` | the inductive invariants `RpcInv` and `GetInv` |
| `CallsProofs!CallsImplementRpc`, `CallsImplementGet` | `Calls` implements `Rpc` and `LightdbGet` |
| `CallsProofs!GetKeepsContract` | `LightdbGet` keeps to `ReqContract` |
| `CallsProofs!FrameOutlives` | `StackLive` |
| `CallsProofs!BufferFaithful` | `GetFaithful` |
| `CallsProofs!RegisteredFound` | `FindsRegistered` |
| `CallsProofs!CallbackStable` | `SameCallback` |
| `LogBackendProofs!SockInvariant` | the inductive invariant `SockInv` of the client core |
| `LogBackendProofs!SocketOwned` | `OwnSocket` |
| `LogBackendProofs!EncodingIntact` | the encoding of any message keeps its text, or had to be given up |
| `LogBackendProofs!BackendInvariant` | the inductive invariant `BackendInv` |
| `LogBackendProofs!PacketNotShared` | `PacketOwned` |
| `LogBackendProofs!TextNotDamaged` | `TextIntact` |
| `LogBackendProofs!GapsCounted` | `GapsAreLosses` |
| `ProvisionProofs!LoopInvariant` | the inductive invariant `LoopInv` |
| `ProvisionProofs!PollAlwaysCovered` | `PollCovered` |
| `ProvisionProofs!NoWorkBetweenSessions` | `WorkEndsWithSession` |
| `ProvisionProofs!ProvisionImplementsClient` | `Provision` implements `SystemClient` |
| `ProvisionProofs!ReconnectNotLost` | while a session is old, a reconnection is asked for |
| `ObserveProofs!ObserveInvariant` | the inductive invariant `WindowInv` |
| `ObserveProofs!DeliveredInOrder` | `InOrder` |
| `ObserveProofs!AcknowledgedIsSeen` | `AckedIsSeen` |
| `SettingsProofs!WalkInvariant` | the inductive invariant `WalkInv` of `MapDecode` |
| `SettingsProofs!AcceptedIsComplete` | `DistinctMeansAll` |
| `SettingsProofs!WellFormedJudged` | `WellFormedIsJudged` |
| `SettingsProofs!SettingsDecodesMap` | `Settings` implements `MapDecode` |
| `SettingsProofs!NotificationComplete`, `NotificationJudged` | the two above, of the settings service |
| `SettingsProofs!ReportInvariant` | the inductive invariant `ReportInv` |
| `SettingsProofs!StatusIsFaithful` | `StatusFaithful` |
| `SettingsProofs!EachGivenInOrder` | `GivenInOrder` |
| `NetworkProofs!WrapperInvariant` | the inductive invariant `HomeInv` of the poll wrapper |
| `NetworkProofs!WorkerNeverStray` | `WorkerStaysHome` |
| `NetworkProofs!WifiInvariant` | the inductive invariant `WifiInv` |
| `NetworkProofs!RestsAsConnected` | `ReadyIsConnected` |
| `NetworkProofs!EveryEventIsValid` | `NoInvalidEvent` |
| `DfuProofs!UpdateInvariant` | the inductive invariant `UpdateInv` |
| `DfuProofs!NeverBricked` | `AlwaysBoots` |
| `DfuProofs!ReportIsTrue` | `ReportedIsFlashed` |

Every property of a passing run that is not about liveness is stated by one of them.

They hold for every value of the constants that satisfies the assumptions of the
modules:

* `CoapReqs`: requests and observations are different, a response has a block,
  timeouts are positive.  `TimersFit` says that the longest timeout, doubled for each
  retry, is below `HalfRange`, which is 2^31 ms in the code: `CONFIG_COAP_INIT_ACK_TIMEOUT_MS`
  is a few seconds and there are a handful of retries.
* `ClientSock`, `Rpc`, `Calls`: the client thread is not one of the others, nobody is
  no thread, there is an address to try, a response has a block.
* `LogBackend`: the lengths of a message are numbers, and the application's thread is
  not the logger's.
* `Settings`, `MapDecode`: a finite, nonempty set of wanted keys; sizes are numbers.
* `Observe`: the window of section 2.  `SystemClient`: timeouts are positive.
  `PollWrapper`: "none" is no thread, context or descriptor.  `WifiManager`: two
  management events may be under way, as for a lost link.  `Dfu`: an image has a
  block and the factory version is a version.

**The request list.** No one of the properties is inductive. `ListInv` is their
conjunction with two more facts:

* `ExactlyOnce` needs `CursorSafe`: a pass that held a freed request would call
  it back again.
* `CursorSafe` needs `ExactlyOnce`: the element after the cursor is found by its
  position, which is determined because no request is linked twice; and an
  element appended by a callback is behind the prefetched one only if it was not
  already on the list.
* `DownMeansDrained` needs `ConnectedPc` (the engine is connected exactly while
  the thread is between on_connect and on_disconnect), so that nothing is
  appended once cancellation began, and `CancelHead` (while cancelling, the
  cursor is the head of the list), so that the list is empty when the cursor
  reaches its end.

The proof rests on lemmas about the list (`PosProperties`, `AppendMember`,
`UnlinkMember`), about the two things a step may do to it (`ScheduleKeeps`,
`FinishKeeps`), and on `StepKinds`, which sorts all actions into those that leave
the list, submit, or end one request, so that `ExactlyOnce` is proved by three cases.

**Blocks.** `BlockInv` ties three counts of a request together, which different
functions change: the block the packet asks for, the blocks its callback has had, and
how the request ended. While a request is listed, the first two are equal and below
`NBlocks`; when it is not, the code has reset the block. So a request structure that
is used again starts at block 0, and the last block is the one that completes the
count.

**The contract.** `EngineImplementsContract` sorts the engine's steps into those that
change nothing the contract mentions, and those that are one of its actions (connect,
submit, hand over a block, finish, disconnect). That a request finishes at most once
is not enough: the contract lets a session end only with no request open, for which
the list must be empty when the cancellation ends (`CancelHead`), and what is open to
the contract is what is on the list, which is `ExactlyOnce`; that a block is the last
to both is `BlockInv`.

**Timers.** Three invariants. `TimerInv`: no deadline is further ahead than its
timeout, none is later than `MaxLag`, and a timeout is within the schedule for the
retries that are left (`Longest`), hence below `HalfRange`; that makes every
comparison exact (`RemainingExact`). `TriesInv`: transmissions and used retries are
one apart, counting the turn of the loop that has not yet sent. It supposes, as the
property does, that the client thread is never later than the shortest timeout;
without that a retry is swallowed (section 3). `WakeupInv`: `wait` is no later than
the deadline of any request the pass has been at, or a wakeup follows that ends the
poll.

**The clock.** `DifferencesExact` says that the signed 32-bit difference of a deadline
and the time is their distance if that is less than `HalfRange`, wherever both have
wrapped. It rests on the uniqueness of the remainder (`RemainderUnique`, `Wrapped`).

**The main loop.** `LoopInv` is `PollCovered` without the minimum of the three
expiries (the armed timer is no later than the ping, the receive timeout and what the
request engine asked for), the types of the timers, and that nothing is armed between
sessions. The lemma `LeastOfThree` and one step per action of the loop carry it.
`SessionInv` adds to `OldIsFlagged` that a client that waits, flushes or cancels has
no credentials in use: the flag may be flushed only where there is no session for it
to close. What holds of `SystemClient` is carried to `Provision` by
`ProvisionImplementsClient`.

**Notifications.** `sequence_number_is_newer` compares numbers that have wrapped.
`ModDistance` says what remains of a distance below the modulus, and `NewerIsLater`
that the comparison is right for versions less than `Half` apart. `WindowInv` says
that versions are spaced in time at least as in number, for what is under way, the
server's newest and the callback's last; so whatever is compared by number is less
than `Half` apart, and whatever is older than the window is later anyway.

**Calls.** `RpcInv` says whose `rpc.mutex` is and how often: once for a thread that
registers, once for a call and twice for a callback that registers during one. The
entry behind the table is written only by who then counts it, so every name has a
*first* entry (`FirstFor`), and that is the one the lookup finds: hence
`FindsRegistered`, and `SameCallback` because entries are only added behind. `GetInv`
says how far the request and its caller have come together: a frame is gone only when
the request is final and its callback gave the semaphore (`FrameInv`), and the blocks
stored are those seen, as far as there is room (`BufferInv`). Each is proved of its
own component and kept by the steps of the other.

**Client core and log backend.** `SockInv`: a thread in a system call has
`client->lock` and passed the socket's number, and the number is the client's but for
the moment between `close` and the reset, when the client thread has the lock.
`BackendInv` says what the packet holds at each stage (`BackendTypeOK`), that a thread
that panics gets no further than the flush, since it sets `panic_mode` first
(`FlushInv`), and how far the indices have come (`IndexInv`, `CountInv`). The index is
read and written in two steps, so that a panic between them may take indices twice;
`IndexInv` says that still none is below what was sent.

**The encoding.** `EncodingIntact` is about `LogPacket` alone and every message:
moving keys and strings down over the text never overwrites a byte that is still to be
moved. `KeyEffect`, `PutEffect` and `ValueIs` say what one put does to the buffer;
that the bytes reserved in front suffice is arithmetic on the three sizes of a CBOR
string header (`Prefix`).

**CBOR maps.** `WalkInv` relates the counter to the keys passed: `num_decoded` is the
number of values stored as long as no key is there twice. That the counter reached its
goal then means, by cardinality, that all are there.

**Settings.** `ReportInv` says that there is a number of settings that are done, at
each place of the decoding (`Position`), and that those and no others were given to
the application, in order, and reported if they failed (`DoneTo`). What is given is
described by the places of the items in the notification: an ascending enumeration of
those whose type is supported, which the next item extends (`GivenAre`, `ErrorsAre`).
The room in the response goes down by what each report takes, so that a buffer that is
large enough for all failures takes each under its name.

**Poll wrapper.** `HomeInv`: a context is in use exactly while one thread has it, its
work item is queued or running only then, and the worker's descriptor is the
context's. Closing needs that the item is no longer queued once it was cancelled.

**Wi-Fi.** The manager's bits lag behind the driver's state by the events under way.
`DriverInv` says that those events, delivered one by one, lead from the bits to that
state, without ever passing through an address with no connection (`Leads`).
`ManagerInv` says what the two work items, the slot for one event and the state have
to do with each other: an event in the slot, or else the state, goes with the last
bits that were seen (`SlotInv`, `ReadyInv`), and each item is queued at most once, so
that an event in the slot is overwritten only by one that goes with newer bits. What
`net_mgmt_event_handle` has read is what `net_state` still is, unless the item was
queued again (`SeenInv`). That READY has a connection, though not always an address,
is as much as survives the overwriting of "disconnected" by "connected".

**Firmware.** `UpdateInv` says for each semaphore, flag and swap type what it stands
for: a given `sem_downloaded` is a whole image of `update_ctx.version` and nobody
writing; a requested swap is the main thread's last step; an unconfirmed image has a
whole one beside it. `AlwaysBoots` needs it because the slot is written by one thread
and swapped at the request of another.

Only model-checked: liveness (`EventuallySettled`, `GetReturns`, `CallsEnd`,
`LockGranted`, `StopHonoured`, `StartHonoured`, `CredentialsApplied`, `PollReturns`,
`CloseReturns`, `BecomesReady`, `InstallsRelease`), since the prover does not reason
about fairness.

## 5. The plan

Modelled so far, in the order of the plan: request engine, its contract,
synchronous calls, system client, notifications, maps, settings, RPC, poll
wrapper, Wi-Fi, firmware, the width of the timers, client core, log backend, both
kinds of calls together, credentials.  Proved, in this order: the request list,
main loop, notifications, maps, firmware, blocks, contract, timers, client core, log
backend, both kinds of calls, settings, poll wrapper, Wi-Fi.  Left are, in the models:

* keys of two types in `MapDecode`, where a key of the other type may match;
* the resolver of OpenThread builds, which gives or never gives a semaphore the client
  thread waits for;
* the sockets that need no wrapper, which share descriptors with those that do.

## 6. What is not modelled, and why

* Encoding and decoding of packets and of single CBOR values: data no control
  depends on.
* The other functions of LightDB, and the stream: they pass their arguments to
  the request engine and keep no state.
* The registration at boot, the shell and the reading back of stored settings:
  sequential code around storage.
* `net_connect.c` and the LTE monitor: each waits once for one event of the network
  stack.  `net_connect` waits for an address that may have been added before it
  began to listen.
* OpenThread builds: the host name is overwritten by the address it resolves to
  (`system_client.c:255`), so that a reconnection looks the address up as a name, and
  an error of the resolver never gives the semaphore the client thread waits for
  (`ot_dns.c:25`).
* Keys of two types: `map_entry_get` does not compare the type of the key it read
  with the one wanted (`zcbor_utils.c:25`).
* Path splitting and the block size for a buffer: arithmetic on one argument.
* The samples themselves, except the firmware update and the credentials.
* `zcbor_any_skip_fixed.c`: a third-party function with a fix.
* The network stack, DTLS, the kernel, mcuboot and the CoAP library: external, and
  modelled by what the code asks of them.
