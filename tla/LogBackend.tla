----------------------------- MODULE LogBackend -----------------------------
(***************************************************************************)
(* The logging backend, log_backend_golioth.c, on the client core: one     *)
(* packet buffer and one index, used by the logger's own thread and, when  *)
(* something panics, by the thread that flushes the logger.  Packets are   *)
(* sent under client->lock, which the client thread holds while it         *)
(* connects; messages wait meanwhile, and the logger drops some.           *)
(*                                                                         *)
(* The logger is Zephyr's, in deferred mode: a queue of messages, a count  *)
(* of those that found it full, and calls into the backend.                *)
(***************************************************************************)
EXTENDS ClientSock, LogPacket

CONSTANTS
  LogThread,   \* the logger's thread
  Panicker,    \* the thread that calls log_panic
  App,         \* an application thread that sends (golioth_send_hello)
  MaxQueue,    \* room in the logger
  MaxLogged,   \* bound: messages logged
  Messages     \* what a message may be, for LogPacket

Loggers == {LogThread, Panicker}

ASSUME LogAssumption ==
  /\ Senders = {LogThread, Panicker, App} /\ LogThread # Panicker /\ App \notin Loggers
  /\ MaxQueue \in Nat \ {0} /\ MaxLogged \in Nat
  /\ Messages \subseteq [room : Nat, text : Nat, func : Nat, data : Nat]

VARIABLES
  logged,      \* messages logged so far
  queued,      \* messages that wait
  overflow,    \* dropped by the logger, and not reported yet
  panicMode,   \* ctx->panic_mode
  index,       \* ctx->msg_index
  packet,      \* ctx->packet_buf: an index, a message and what was made of it
  stage,       \* where each thread is in the backend
  reg,         \* the value each read of index before adding one
  cloud,       \* ghost: indices of the messages that were sent
  gone         \* ghost: messages that were dropped, or built or sent in vain

logger == <<logged, queued, overflow>>
backend == <<panicMode, index, packet, stage, reg>>
outcome == <<cloud, gone>>
logVars == <<logger, backend, outcome>>
vars == <<sockVars, logVars>>

NoPacket == [index |-> 0, of |-> NoOne, body |-> Lost]

LogInit ==
  /\ logged = 0 /\ queued = 0 /\ overflow = 0
  /\ panicMode = FALSE /\ index = 0 /\ packet = NoPacket
  /\ stage = [t \in Loggers |-> "idle"] /\ reg = [t \in Loggers |-> 0]
  /\ cloud = <<>> /\ gone = 0

Init == SockInit /\ LogInit

To(t, s) == stage' = [stage EXCEPT ![t] = s]

-----------------------------------------------------------------------------
(* The logger.                                                             *)

\* A message is put into the queue, in place of another if that is full.
Log ==
  /\ logged < MaxLogged /\ logged' = logged + 1
  /\ IF queued < MaxQueue THEN queued' = queued + 1 /\ UNCHANGED overflow
                          ELSE overflow' = overflow + 1 /\ UNCHANGED queued
  /\ UNCHANGED <<sockVars, backend, outcome>>

\* Threads that call the backend: the logger's, and in a panic also the one that
\* flushes.
Calls(t) == stage[t] = IF t = LogThread THEN "idle" ELSE "flush"

\* dropped.
Dropped(t) ==
  /\ Calls(t) /\ overflow > 0
  /\ index' = index + overflow
  /\ gone' = gone + overflow /\ overflow' = 0
  /\ UNCHANGED <<sockVars, logged, queued, panicMode, packet, stage, reg, cloud>>

-----------------------------------------------------------------------------
(* process and log_msg_process.                                            *)

\* Mistaken: panic_mode is not looked at.
NeverDiscards == FALSE
Discards == panicMode

\* The oldest message is taken from the queue; in a panic that is all.
Discard(t) ==
  /\ Calls(t) /\ queued > 0
  /\ Discards
  /\ queued' = queued - 1
  /\ UNCHANGED <<sockVars, logged, overflow, backend, outcome>>

Encodings == [m \in Messages |-> Encoding(m)]

\* The packet is built, or given up.
Build(t) ==
  /\ Calls(t) /\ queued > 0
  /\ ~Discards
  /\ queued' = queued - 1
  /\ \E m \in Messages :
       /\ packet' = [index |-> index, of |-> m, body |-> Encodings[m]]
       /\ To(t, IF Encodings[m].sent THEN "built" ELSE "failed")
  /\ UNCHANGED <<sockVars, logged, overflow, panicMode, index, reg, outcome>>

\* golioth_send_coap, whose result is not looked at.
LogSendBegin(t) ==
  /\ stage[t] = "built" /\ SendBegin(t)
  /\ To(t, "send")
  /\ UNCHANGED <<at, logger, panicMode, index, packet, reg, outcome>>

LogSendEnd(t) ==
  /\ stage[t] = "send" /\ SendEnd(t)
  /\ \/ To(t, "sent") /\ cloud' = Append(cloud, packet.index)
     \/ To(t, "failed") /\ UNCHANGED cloud
  /\ UNCHANGED <<at, logger, panicMode, index, packet, reg, gone>>

LogSendRefused(t) ==
  /\ stage[t] = "built" /\ SendRefused(t)
  /\ To(t, "failed")
  /\ UNCHANGED <<at, logger, panicMode, index, packet, reg, outcome>>

\* msg_index++ at finish is a read and a write, and in a panic dropped may come
\* between the two.  Mistaken: a message that was not sent uses no index.
NextIfSent(t) == IF stage[t] = "sent" THEN index + 1 ELSE index
NextIndex(t) == index + 1

Finish(t) ==
  /\ stage[t] \in {"sent", "failed"}
  /\ reg' = [reg EXCEPT ![t] = NextIndex(t)]
  /\ gone' = IF stage[t] = "sent" THEN gone ELSE gone + 1
  /\ To(t, "finish") /\ packet' = NoPacket
  /\ UNCHANGED <<sockVars, logger, panicMode, index, cloud>>

Finished(t) ==
  /\ stage[t] = "finish"
  /\ index' = reg[t] /\ reg' = [reg EXCEPT ![t] = 0]
  /\ To(t, IF t = LogThread THEN "idle" ELSE "flush")
  /\ UNCHANGED <<sockVars, logger, panicMode, packet, outcome>>

LogNext(t) ==
  \/ Dropped(t) \/ Discard(t) \/ Build(t)
  \/ LogSendBegin(t) \/ LogSendEnd(t) \/ LogSendRefused(t) \/ Finish(t) \/ Finished(t)

\* log_panic: the backend's panic, then the thread itself empties the queue.
Panic ==
  /\ stage[Panicker] = "idle"
  /\ panicMode' = TRUE /\ To(Panicker, "flush")
  /\ UNCHANGED <<sockVars, logger, index, packet, reg, outcome>>

-----------------------------------------------------------------------------
\* golioth_send_hello on a thread of the application.
HelloBegin == SendBegin(App) /\ UNCHANGED <<at, logVars>>
HelloEnd == SendEnd(App) /\ UNCHANGED <<at, logVars>>

Next ==
  \/ ClientNext /\ UNCHANGED logVars
  \/ (OtherOpens \/ OtherCloses) /\ UNCHANGED logVars
  \/ Log \/ Panic \/ \E t \in Loggers : LogNext(t)
  \/ HelloBegin \/ HelloEnd

Spec == Init /\ [][Next]_vars

\* Threads run, system calls end (a handshake times out), and k_mutex_unlock
\* hands the lock to a thread that waits for it.
FairSpec ==
  /\ Spec
  /\ WF_vars(ClientNext /\ at \notin {"down", "up"} /\ UNCHANGED logVars)
  /\ SF_vars((Handshake \/ CloseBegin \/ ClientSend) /\ at # "up" /\ UNCHANGED logVars)
  /\ WF_vars(HelloEnd)
  /\ \A t \in Loggers :
       WF_vars(LogNext(t)) /\ SF_vars(LogSendBegin(t) \/ LogSendRefused(t))

-----------------------------------------------------------------------------
\* The state has the shape of golioth_client and golioth_log_ctx.
TypeOK ==
  /\ SockTypeOK
  /\ {logged, queued, overflow, index, gone} \subseteq Nat
  /\ packet = NoPacket \/ packet.of \in Messages
  /\ queued <= MaxQueue /\ panicMode \in BOOLEAN /\ cloud \in Seq(Nat)
  /\ stage \in [Loggers -> {"idle", "flush", "built", "send", "sent", "failed", "finish"}]
  /\ reg \in [Loggers -> Nat]

\* One thread at a time builds and sends from ctx->packet_buf, although the
\* thread that panics enters the backend while the logger's is in it
\* (panic before the flush, process).
PacketOwned ==
  \A t, u \in Loggers : {stage[t], stage[u]} \intersect {"idle", "flush"} = {} => t = u

\* What is sent of a message is its text, cut where the packet ends and parted at
\* the colon, and not overwritten by what was encoded before it (log_msg_process);
\* a message is given up only when it has a hexdump, or no room for a text.
TextIntact ==
  packet.of # NoOne =>
    IF packet.body.sent THEN Intact(packet.of, packet.body) ELSE Unsendable(packet.of)

\* What the receiver can tell from the indices: each is greater than the one
\* before, and until a panic every index that did not arrive is a message that
\* was dropped by the logger, had no room or could not be sent.
GapsAreLosses ==
  /\ \A i, j \in DOMAIN cloud : i < j => cloud[i] < cloud[j]
  /\ ~panicMode /\ stage[LogThread] = "idle" => index = Len(cloud) + gone

\* Whoever waits for client->lock gets it, even while the client thread makes one
\* handshake after the other, and the client thread itself is not kept from
\* connecting and closing by those that send.
LockGranted ==
  /\ \A t \in Loggers : (stage[t] = "built") ~> (stage[t] \in {"idle", "flush"})
  /\ at \in {"connect", "close"} ~> at \in {"up", "down"}
=============================================================================
