----------------------------- MODULE LightdbGet -----------------------------
(***************************************************************************)
(* golioth_lightdb_get: a synchronous, possibly blockwise GET into a       *)
(* buffer of the caller.  It rests on golioth_coap_req_sync, which keeps   *)
(* its state on the caller's stack until golioth_req_sync_cb, called by    *)
(* the client thread, gives a semaphore.                                   *)
(*                                                                         *)
(* The request engine is its abstract contract; every caller makes one     *)
(* request, named after it.  Sizes are in blocks, and the Size2 option,    *)
(* when the server sends it, is the size of the response.                  *)
(***************************************************************************)
EXTENDS Integers, Sequences

CONSTANTS
  Callers,    \* threads that call golioth_lightdb_get
  NBlocks,    \* NBlocks[c]: size of the response to c
  Capacity,   \* Capacity[c]: *len on input
  SizeKnown   \* callers whose responses carry Size2

VARIABLES
  link, fate, seen,  \* the engine
  call,    \* where the caller is
  sem,     \* sync_data.sem
  err,     \* sync_data.err # 0
  stored,  \* blocks of the caller's buffer that were written
  len,     \* prealloc_data.len
  ret      \* what golioth_lightdb_get returned

Engine == INSTANCE ReqContract WITH OneShots <- Callers, Observes <- {}

sync == <<sem, err>>
buffer == <<stored, len>>
vars == <<link, fate, seen, call, sync, buffer, ret>>

Init ==
  /\ Engine!Init
  /\ call = [c \in Callers |-> "idle"]
  /\ sem = [c \in Callers |-> FALSE] /\ err = [c \in Callers |-> FALSE]
  /\ stored = [c \in Callers |-> {}] /\ len = [c \in Callers |-> 0]
  /\ ret = [c \in Callers |-> "none"]

-----------------------------------------------------------------------------
(* The caller.                                                             *)

\* golioth_coap_req_sync, up to its k_sem_take: -ENETDOWN is returned at once.
Call(c) ==
  /\ call[c] = "idle"
  /\ Engine!Request({c})
  /\ IF fate'[c] = "open"
       THEN call' = [call EXCEPT ![c] = "waiting"] /\ UNCHANGED ret
       ELSE /\ call' = [call EXCEPT ![c] = "returned"]
            /\ ret' = [ret EXCEPT ![c] = "error"]
  /\ UNCHANGED <<sync, buffer>>

\* k_sem_take(K_FOREVER) ended; mistaken: it was given a timeout.
TakenOrTimedOut(c) == TRUE
Taken(c) == sem[c]

Return(c) ==
  /\ call[c] = "waiting" /\ Taken(c)
  /\ call' = [call EXCEPT ![c] = "returned"]
  /\ sem' = [sem EXCEPT ![c] = FALSE]
  /\ ret' = [ret EXCEPT ![c] = IF err[c] THEN "error" ELSE "ok"]
  /\ UNCHANGED <<link, fate, seen, err, buffer>>

-----------------------------------------------------------------------------
(* golioth_req_sync_cb and golioth_lightdb_get_prealloc_cb, on the client  *)
(* thread, when block Current(c) arrives.                                  *)
Current(c) == Len(seen[c])

Total(c) == IF c \in SizeKnown \/ NBlocks[c] = 1 THEN NBlocks[c] ELSE Current(c) + 1

\* Mistaken: the capacity is not checked.
FitsAnything(c) == TRUE
Fits(c) == Total(c) <= Capacity[c]

\* The prealloc callback: copies the block unless it returns -ENOSPC.
Store(c) ==
  IF Fits(c)
    THEN /\ stored' = [stored EXCEPT ![c] = @ \union {Current(c)}]
         /\ len' = [len EXCEPT ![c] = Total(c)]
    ELSE UNCHANGED buffer

\* k_sem_give at finish_sync_call; mistaken: the caller is not woken.
GiveForgotten(c) == UNCHANGED sem
Give(c) == sem' = [sem EXCEPT ![c] = TRUE]

\* rsp->err is kept for the caller; mistaken: it is not.
KeepErrNot(c) == UNCHANGED err
KeepErr(c) == err' = [err EXCEPT ![c] = TRUE]

\* Stored, and the next block is asked for with get_next.
Block(c) ==
  /\ Fits(c) /\ Engine!More(c, {})
  /\ Store(c)
  /\ UNCHANGED <<call, sync, ret>>

\* -ENOSPC before the last block: returned to the engine, which drops the
\* request, but not kept in sync_data.
Refused(c) ==
  /\ ~Fits(c) /\ Engine!End(c, "refused", {})
  /\ Store(c) /\ Give(c)
  /\ UNCHANGED <<call, err, ret>>

\* The last block, or the only one.
Complete(c) ==
  /\ Engine!End(c, "ok", {})
  /\ Store(c) /\ Give(c)
  /\ UNCHANGED <<call, err, ret>>

\* The engine reports an error of its own.
Failed(c) ==
  /\ \E why \in Engine!Reasons \ {"ok", "refused"} : Engine!End(c, why, {})
  /\ KeepErr(c) /\ Give(c)
  /\ UNCHANGED <<call, buffer, ret>>

End(c) == Refused(c) \/ Complete(c) \/ Failed(c)

\* The client thread connects and disconnects.
Link ==
  /\ Engine!GoUp \/ Engine!GoDown \/ Engine!Down
  /\ UNCHANGED <<call, sync, buffer, ret>>

Next == Link \/ \E c \in Callers : Call(c) \/ Block(c) \/ End(c) \/ Return(c)

Spec == Init /\ [][Next]_vars

\* The engine ends what it accepted (EventuallySettled of CoapReqs) and the
\* caller is scheduled.
FairSpec == Spec /\ \A c \in Callers : WF_vars(End(c)) /\ WF_vars(Return(c))

-----------------------------------------------------------------------------
\* While the engine may still call golioth_req_sync_cb for a request, the stack
\* frame that holds its sync_data, prealloc_data and buffer exists, and its
\* semaphore has not been given (golioth_coap_req_sync).
StackLive ==
  \A c \in Callers : fate[c] = "open" => call[c] = "waiting" /\ ~sem[c]

\* Nothing is written past the caller's buffer.
\* A caller whose buffer is large enough is told 0 only with the whole response
\* in it, and an error only when there was one.  A smaller buffer is answered with 0
\* too, and the length of what was stored (golioth_req_sync_cb keeps no error).
GetFaithful ==
  \A c \in Callers :
    /\ stored[c] \subseteq 0 .. Capacity[c] - 1
    /\ call[c] = "returned" /\ NBlocks[c] <= Capacity[c] =>
         /\ ret[c] = "ok" <=> fate[c] = "ok"
         /\ ret[c] = "ok" => stored[c] = 0 .. NBlocks[c] - 1 /\ len[c] = NBlocks[c]

\* A synchronous call returns, whatever becomes of the connection.
GetReturns == \A c \in Callers : (call[c] = "waiting") ~> (call[c] = "returned")
=============================================================================
