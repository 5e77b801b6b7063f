---------------------------- MODULE PollWrapper ----------------------------
(***************************************************************************)
(* net/sockets/sockets_offload_poll_wrapper.c: sockets whose driver has a  *)
(* blocking poll only are wrapped in a context with a work queue of its    *)
(* own.  The worker polls the wrapped socket and raises a signal, which is *)
(* what a thread that polls the wrapper waits for.                         *)
(*                                                                         *)
(* A thread uses one socket, and only it polls and closes it.  Sockets     *)
(* that need no wrapper are left out: the code returns them as they are.   *)
(* So is the descriptor of the wrapper itself (z_reserve_fd), which only    *)
(* its thread uses: it takes one more number of the same table.            *)
(***************************************************************************)
EXTENDS Naturals

CONSTANTS
  Threads,    \* users of sockets
  Contexts,   \* wrapper_contexts
  Fds,        \* descriptors of wrapped sockets
  None        \* -1, and no holder

ASSUME NoneAssumption == None \notin Threads \union Contexts \union Fds

VARIABLES
  pc,       \* where each thread is
  sock,     \* the descriptor it was given for its wrapped socket
  ctx,      \* the context it was given
  lock,     \* holder of wrapper_lock
  used, fd, \* is_used and fd of the contexts
  signal,   \* poll_signal is raised
  ready,    \* state of the k_poll event of the thread that polls
  queued,   \* the work item is in the queue
  worker,   \* where sock_wrapper_poll_handler is
  target,   \* pollfd.fd of the worker
  open,     \* descriptors of open sockets
  data      \* those with data to read

threads == <<pc, sock, ctx, lock>>
contexts == <<used, fd>>
poll == <<signal, ready>>
work == <<queued, worker, target>>
sockets == <<open, data>>
wrapperVars == <<threads, contexts, poll, work, sockets>>

WrapperInit ==
  /\ pc = [t \in Threads |-> "none"]
  /\ sock = [t \in Threads |-> None] /\ ctx = [t \in Threads |-> None]
  /\ lock = None
  /\ used = [c \in Contexts |-> FALSE] /\ fd = [c \in Contexts |-> None]
  /\ signal = [c \in Contexts |-> FALSE] /\ ready = [c \in Contexts |-> FALSE]
  /\ queued = [c \in Contexts |-> FALSE] /\ worker = [c \in Contexts |-> "idle"]
  /\ target = [c \in Contexts |-> None]
  /\ open = {} /\ data = {}

-----------------------------------------------------------------------------
(* sock_wrapper_create.                                                    *)

\* sock_wrapper_socket: a free descriptor, without wrapper_lock.
Socket(t) ==
  /\ pc[t] = "none"
  /\ \E f \in Fds \ open :
       open' = open \union {f} /\ sock' = [sock EXCEPT ![t] = f]
  /\ pc' = [pc EXCEPT ![t] = "raw"]
  /\ UNCHANGED <<ctx, lock, contexts, poll, work, data>>

Wrap(t) ==
  /\ pc[t] = "raw" /\ lock = None
  /\ \E c \in Contexts :
       /\ ~used[c]
       /\ used' = [used EXCEPT ![c] = TRUE] /\ fd' = [fd EXCEPT ![c] = sock[t]]
       /\ ctx' = [ctx EXCEPT ![t] = c]
  /\ pc' = [pc EXCEPT ![t] = "open"]
  /\ UNCHANGED <<sock, lock, poll, work, sockets>>

\* No context is free, or z_reserve_fd failed and it was freed again.
WrapFails(t) ==
  /\ pc[t] = "raw" /\ lock = None
  /\ pc' = [pc EXCEPT ![t] = "refused"]
  /\ UNCHANGED <<sock, ctx, lock, contexts, poll, work, sockets>>

\* zsock_close of a socket that has no context, without wrapper_lock.
CloseRefused(t) ==
  /\ pc[t] = "refused"
  /\ open' = open \ {sock[t]} /\ sock' = [sock EXCEPT ![t] = None]
  /\ pc' = [pc EXCEPT ![t] = "none"]
  /\ UNCHANGED <<ctx, lock, contexts, poll, work, data>>

-----------------------------------------------------------------------------
(* zsock_poll on the wrapper.                                              *)

\* k_work_submit_to_queue, which queues running work again; mistaken: only
\* work that is idle is submitted.
SubmittedIfIdle(c) == queued[c] \/ worker[c] = "idle"
Submitted(c) == TRUE

\* sock_wrapper_poll_prepare_ctx, then k_poll looks at the signal.
PollPrepare(t) ==
  /\ pc[t] = "open"
  /\ queued' = [queued EXCEPT ![ctx[t]] = Submitted(ctx[t])]
  /\ ready' = [ready EXCEPT ![ctx[t]] = signal[ctx[t]]]
  /\ pc' = [pc EXCEPT ![t] = "waiting"]
  /\ UNCHANGED <<sock, ctx, lock, contexts, signal, worker, target, sockets>>

\* k_poll returns: the signal was raised ...
Signalled(t) ==
  /\ pc[t] = "waiting" /\ ready[ctx[t]]
  /\ pc' = [pc EXCEPT ![t] = "returned"]
  /\ UNCHANGED <<sock, ctx, lock, contexts, poll, work, sockets>>

\* ... or another descriptor is ready, like the eventfd of the system client.
OtherReady(t) ==
  /\ pc[t] = "waiting" /\ ~ready[ctx[t]]
  /\ pc' = [pc EXCEPT ![t] = "returned"]
  /\ UNCHANGED <<sock, ctx, lock, contexts, poll, work, sockets>>

\* sock_wrapper_poll_update_ctx.  If it reports the socket the thread then takes
\* a packet, without waiting; there may be more.
PollUpdate(t) ==
  /\ pc[t] = "returned"
  /\ signal' = [signal EXCEPT ![ctx[t]] = @ /\ ~ready[ctx[t]]]
  /\ data' \in IF ready[ctx[t]] THEN {data, data \ {sock[t]}} ELSE {data}
  /\ pc' = [pc EXCEPT ![t] = "open"]
  /\ UNCHANGED <<sock, ctx, lock, contexts, ready, work, open>>

-----------------------------------------------------------------------------
(* sock_wrapper_close_vmeth.                                               *)

\* wrapper_lock and k_work_cancel.
CloseBegin(t) ==
  /\ pc[t] = "open" /\ lock = None
  /\ lock' = t /\ queued' = [queued EXCEPT ![ctx[t]] = FALSE]
  /\ pc' = [pc EXCEPT ![t] = "cancelled"]
  /\ UNCHANGED <<sock, ctx, contexts, poll, worker, target, sockets>>

\* k_work_cancel leaves running work alone; mistaken: k_work_cancel_sync, which
\* waits for it before the socket is closed.
CancelAwaited(c) == worker[c] = "idle"
CancelBegun(c) == TRUE

\* zsock_close of the wrapped socket ends the poll of a worker inside it.
CloseSocket(t) ==
  /\ pc[t] = "cancelled" /\ CancelBegun(ctx[t])
  /\ open' = open \ {sock[t]} /\ data' = data \ {sock[t]}
  /\ worker' = [c \in Contexts |->
                  IF worker[c] = "polling" /\ target[c] = sock[t] THEN "polled"
                                                                  ELSE worker[c]]
  /\ sock' = [sock EXCEPT ![t] = None]
  /\ pc' = [pc EXCEPT ![t] = "closing"]
  /\ UNCHANGED <<ctx, lock, contexts, poll, queued, target>>

\* k_work_cancel_sync; mistaken: only k_work_cancel, which does not wait.
NotAwaited(c) == TRUE
Awaited(c) == worker[c] = "idle"

\* __wrapper_ctx_free.
Freed(c) == used' = [used EXCEPT ![c] = FALSE] /\ fd' = [fd EXCEPT ![c] = None]

CloseEnd(t) ==
  /\ pc[t] = "closing" /\ Awaited(ctx[t])
  /\ Freed(ctx[t])
  /\ lock' = None /\ ctx' = [ctx EXCEPT ![t] = None]
  /\ pc' = [pc EXCEPT ![t] = "none"]
  /\ UNCHANGED <<sock, poll, work, sockets>>

-----------------------------------------------------------------------------
(* The worker of a context, sock_wrapper_poll_handler.                     *)
WorkerStart(c) ==
  /\ worker[c] = "idle" /\ queued[c]
  /\ queued' = [queued EXCEPT ![c] = FALSE]
  /\ worker' = [worker EXCEPT ![c] = "started"]
  /\ target' = [target EXCEPT ![c] = fd[c]]
  /\ UNCHANGED <<threads, contexts, poll, sockets>>

\* zsock_poll fails at once on a descriptor that is not open.
WorkerPoll(c) ==
  /\ worker[c] = "started"
  /\ worker' = [worker EXCEPT ![c] = IF target[c] \in open THEN "polling" ELSE "polled"]
  /\ UNCHANGED <<threads, contexts, poll, queued, target, sockets>>

WorkerWakes(c) ==
  /\ worker[c] = "polling" /\ target[c] \in data
  /\ worker' = [worker EXCEPT ![c] = "polled"]
  /\ UNCHANGED <<threads, contexts, poll, queued, target, sockets>>

Waiting(c) == \E t \in Threads : ctx[t] = c /\ pc[t] = "waiting"

\* k_poll_signal_raise wakes the thread that waits for the signal, if any.
WorkerRaise(c) ==
  /\ worker[c] = "polled"
  /\ signal' = [signal EXCEPT ![c] = TRUE]
  /\ ready' = [ready EXCEPT ![c] = @ \/ Waiting(c)]
  /\ worker' = [worker EXCEPT ![c] = "raised"]
  /\ UNCHANGED <<threads, contexts, queued, target, sockets>>

\* Only now is the work no longer running.
WorkerEnd(c) ==
  /\ worker[c] = "raised"
  /\ worker' = [worker EXCEPT ![c] = "idle"] /\ target' = [target EXCEPT ![c] = None]
  /\ UNCHANGED <<threads, contexts, poll, queued, sockets>>

Worker(c) ==
  \/ WorkerStart(c) \/ WorkerPoll(c) \/ WorkerWakes(c) \/ WorkerRaise(c)
  \/ WorkerEnd(c)

-----------------------------------------------------------------------------
\* A packet for a socket that was handed to its user.
Arrive(t) ==
  /\ pc[t] \in {"open", "waiting", "returned", "cancelled"}
  /\ data' = data \union {sock[t]}
  /\ UNCHANGED <<threads, contexts, poll, work, open>>

Close(t) == CloseSocket(t) \/ CloseEnd(t)

WrapperNext ==
  \/ \E t \in Threads :
       \/ Socket(t) \/ Wrap(t) \/ WrapFails(t) \/ CloseRefused(t)
       \/ PollPrepare(t) \/ Signalled(t) \/ OtherReady(t) \/ PollUpdate(t)
       \/ CloseBegin(t) \/ Close(t) \/ Arrive(t)
  \/ \E c \in Contexts : Worker(c)

WrapperSpec == WrapperInit /\ [][WrapperNext]_wrapperVars

\* Threads are scheduled; nothing else is asked of the sockets' users.
WrapperFairSpec ==
  /\ WrapperSpec
  /\ \A c \in Contexts : WF_wrapperVars(Worker(c))
  /\ \A t \in Threads : WF_wrapperVars(Signalled(t)) /\ WF_wrapperVars(Close(t))

-----------------------------------------------------------------------------
\* A context is given up only when its worker has ended, and the worker of a
\* context in use polls that context's socket: sock_wrapper_close_vmeth leaves
\* nothing behind that the next user of the context would find running.
WorkerStaysHome ==
  \A c \in Contexts : queued[c] \/ worker[c] # "idle" =>
    /\ used[c]
    /\ worker[c] # "idle" => target[c] = fd[c]

\* Data for a thread that polls ends its poll.
PollReturns ==
  \A t \in Threads :
    (pc[t] = "waiting" /\ sock[t] \in data) ~> (pc[t] # "waiting")

\* The comment "Make sure that threaded poll() is no longer running" (line 302):
\* once the wrapped socket is closed nothing is left for the worker to poll.
PollEndsWithSocket ==
  \A t \in Threads : pc[t] = "closing" =>
    ~(worker[ctx[t]] = "polling" /\ target[ctx[t]] \in open)

\* sock_wrapper_close_vmeth ends: closing the wrapped socket ends the threaded
\* poll, wherever the worker was, unless the worker polls the socket of another
\* thread by then.
CloseReturns ==
  \A t \in Threads : (pc[t] = "cancelled") ~> (pc[t] = "none" \/ ~PollEndsWithSocket)
=============================================================================
