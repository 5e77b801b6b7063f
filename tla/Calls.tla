------------------------------- MODULE Calls -------------------------------
(***************************************************************************)
(* Synchronous calls and remote procedure calls of one client, together.   *)
(* Everything the engine calls back runs on the client thread and under    *)
(* coap_reqs_lock: while on_rpc serves a call, or waits for rpc.mutex, no  *)
(* other callback runs, no request can be submitted, and a thread in       *)
(* golioth_lightdb_get waits.  Threads that register methods take          *)
(* rpc.mutex alone.                                                        *)
(***************************************************************************)
EXTENDS Rpc

CONSTANTS
  Callers, NBlocks, Capacity, SizeKnown  \* of LightdbGet

VARIABLES
  link, fate, seen, getter, sem, err, stored, len, ret  \* of LightdbGet

ASSUME CallsAssumption ==
  /\ NBlocks \in [Callers -> Nat \ {0}] /\ Capacity \in [Callers -> Nat]
  /\ SizeKnown \subseteq Callers

Get == INSTANCE LightdbGet WITH call <- getter

rpcVars == vars
getVars == <<link, fate, seen, getter, sem, err, stored, len, ret>>
callVars == <<rpcVars, getVars>>

\* coap_reqs_lock is free.
ReqsFree == call = "idle"

CallsInit == Init /\ Get!Init

\* A notification with a call arrives on a connected client, and its response is
\* submitted to the engine before on_rpc returns.
ServeCall ==
  /\ (CallBegin /\ link = "up") \/ Serve
  /\ UNCHANGED getVars

RegisterMethod ==
  /\ \E t \in Registrars : Register(t) \/ Registration(t)
  /\ UNCHANGED getVars

\* golioth_coap_req_submit takes the lock.  Bound: one of the callers calls.
OnlyCaller(c) == \A d \in Callers \ {c} : getter[d] = "idle"
SubmitGet ==
  /\ ReqsFree /\ \E c \in Callers : OnlyCaller(c) /\ Get!Call(c)
  /\ UNCHANGED rpcVars

\* What the client thread does with the request ...
ServeGet(c) == ReqsFree /\ (Get!Block(c) \/ Get!End(c)) /\ UNCHANGED rpcVars
ChangeLink == ReqsFree /\ Get!Link /\ UNCHANGED rpcVars

\* ... and the caller once its semaphore was given.
ReturnGet(c) == Get!Return(c) /\ UNCHANGED rpcVars

CallsNext ==
  \/ ServeCall \/ RegisterMethod \/ SubmitGet \/ ChangeLink
  \/ \E c \in Callers : ServeGet(c) \/ ReturnGet(c)

CallsSpec == CallsInit /\ [][CallsNext]_callVars

\* As for each of the two: threads run, callbacks return, the mutex is handed to
\* those that wait, and the engine ends what it accepted whenever it gets the lock
\* (calls may come again and again, EventuallySettled of CoapReqs).
CallsFairSpec ==
  /\ CallsSpec
  /\ WF_callVars(Serve /\ UNCHANGED getVars) /\ SF_callVars(CallLock /\ UNCHANGED getVars)
  /\ \A t \in Registrars : WF_callVars(Registration(t) /\ UNCHANGED getVars)
  /\ \A t \in Threads : SF_callVars(Register(t) /\ UNCHANGED getVars)
  /\ \A c \in Callers :
       /\ SF_callVars(ReqsFree /\ Get!End(c) /\ UNCHANGED rpcVars)
       /\ WF_callVars(ReturnGet(c))

-----------------------------------------------------------------------------
\* The properties of LightdbGet, with calls being served in between: the frame of
\* the caller outlives its request, its buffer holds what it is told, and it
\* returns although the client thread may be waiting for rpc.mutex.
StackLive == Get!StackLive
GetFaithful == Get!GetFaithful
GetReturns == Get!GetReturns
=============================================================================
