-------------------------------- MODULE Rpc --------------------------------
(***************************************************************************)
(* Remote procedure calls (rpc.c): threads register methods while the      *)
(* client thread serves calls, one notification after the other; a method  *)
(* may register another one while it runs.  The table and its length are   *)
(* under client->rpc.mutex, which is recursive.                            *)
(*                                                                         *)
(* What zcbor_map_decode makes of a call is in MapDecode, and that         *)
(* notifications come in order in Observe.  Errors of the observation and  *)
(* the "OK" that answers it end on_rpc at once and are left out.           *)
(***************************************************************************)
EXTENDS Naturals, Sequences, FiniteSets

CONSTANTS
  Threads,     \* those that register methods
  Client,      \* the client thread
  Names,       \* names of methods
  New,         \* which name each thread may register, functions from threads to Names
  MaxMethods,  \* CONFIG_GOLIOTH_RPC_MAX_NUM_METHODS
  MaxCalls,    \* bound: calls served
  NoOne        \* holds no mutex

ASSUME RpcAssumption ==
  /\ Client \notin Threads /\ NoOne \notin Threads \union {Client}
  /\ {MaxMethods, MaxCalls} \subseteq Nat
  /\ New \subseteq [Threads \union {Client} -> Names]

VARIABLES
  methods, num,  \* client->rpc: names and callbacks, num_methods
  owner, depth,  \* client->rpc.mutex
  pc,            \* where each thread is in golioth_rpc_register
  new,           \* what it registers
  call,          \* where the client thread is in on_rpc
  method,        \* the name called
  status,        \* status_code
  calls,         \* calls begun
  known,         \* names whose registration had returned 0 when the call began
  named,         \* names whose registration has returned 0
  served         \* callbacks that have served each name

mutex == <<owner, depth>>
table == <<methods, num>>
registering == <<pc, new>>
calling == <<call, method, status, calls>>
ghosts == <<known, named, served>>
vars == <<mutex, table, registering, calling, ghosts>>

Registrars == Threads \union {Client}
\* A callback is named by the thread that registers it.
Methods == [name : Names, callback : Registrars]

\* The locals of on_rpc do not exist between calls.
NoCall == call = "idle" /\ method = "none" /\ status = "none" /\ known = {}

CallOver == call' = "idle" /\ method' = "none" /\ status' = "none" /\ known' = {}

Init ==
  /\ methods = [i \in 1..MaxMethods |-> NoOne] /\ num = 0
  /\ owner = NoOne /\ depth = 0
  /\ pc = [t \in Registrars |-> "ready"] /\ new \in New
  /\ NoCall /\ calls = 0
  /\ named = {} /\ served = [n \in Names |-> {}]

\* k_mutex_lock and k_mutex_unlock.
Lock(t) == owner \in {NoOne, t} /\ owner' = t /\ depth' = depth + 1
Unlock == depth' = depth - 1 /\ owner' = IF depth = 1 THEN NoOne ELSE owner

-----------------------------------------------------------------------------
(* golioth_rpc_register; the client thread calls it from a callback.       *)

\* Mistaken: the mutex is not taken.
NotLocked(t) == UNCHANGED mutex
Locked(t) == Lock(t)

\* Mistaken: the early exit leaves the mutex locked.
LeftLocked == UNCHANGED mutex
Unlocked == Unlock

MayRegister(t) == pc[t] = "ready" /\ (t = Client => call = "callback")

Register(t) ==
  /\ MayRegister(t) /\ Locked(t)
  /\ pc' = [pc EXCEPT ![t] = "locked"]
  /\ UNCHANGED <<table, new, calling, ghosts>>

\* -ENOBUFS.
RegisterFull(t) ==
  /\ pc[t] = "locked" /\ num >= MaxMethods
  /\ Unlocked /\ pc' = [pc EXCEPT ![t] = "refused"]
  /\ UNCHANGED <<table, new, calling, ghosts>>

RegisterWrite(t) ==
  /\ pc[t] = "locked" /\ num < MaxMethods
  /\ methods' = [methods EXCEPT ![num + 1] = [name |-> new[t], callback |-> t]]
  /\ pc' = [pc EXCEPT ![t] = "written"]
  /\ UNCHANGED <<num, mutex, new, calling, ghosts>>

RegisterEnd(t) ==
  /\ pc[t] = "written"
  /\ num' = num + 1 /\ Unlock
  /\ named' = named \union {new[t]}
  /\ pc' = [pc EXCEPT ![t] = "registered"]
  /\ UNCHANGED <<methods, new, calling, known, served>>

Registration(t) == RegisterFull(t) \/ RegisterWrite(t) \/ RegisterEnd(t)

-----------------------------------------------------------------------------
(* on_rpc, on the client thread.                                           *)

\* A call that can be decoded, with an id that fits in the response.
CallBegin ==
  /\ call = "idle" /\ calls < MaxCalls /\ calls' = calls + 1
  /\ method' \in Names /\ status' = "none"
  /\ known' = named
  /\ call' = "decoded"
  /\ UNCHANGED <<mutex, table, registering, named, served>>

CallLock ==
  /\ call = "decoded" /\ Lock(Client)
  /\ call' = "find"
  /\ UNCHANGED <<table, registering, method, status, calls, ghosts>>

\* rpc_find_and_call: the first method of that name.  Mistaken: the last.
LastOf(is) == CHOOSE i \in is : \A j \in is : j <= i
FirstOf(is) == CHOOSE i \in is : \A j \in is : i <= j

Matching == {i \in 1..num : methods[i].name = method}

CallUnknown ==
  /\ call = "find" /\ Matching = {}
  /\ status' = "unknown" /\ call' = "found"
  /\ UNCHANGED <<mutex, table, registering, method, calls, ghosts>>

\* The callback starts; there may be no room for "detail".
CallFound ==
  /\ call = "find" /\ Matching # {}
  /\ \/ /\ call' = "callback"
        /\ served' = [served EXCEPT ![method] =
                         @ \union {methods[FirstOf(Matching)].callback}]
     \/ call' = "full" /\ UNCHANGED served
  /\ UNCHANGED <<mutex, table, registering, method, status, calls, known, named>>

\* It returns; it may have left no room to close "detail".
CallbackEnd ==
  /\ call = "callback" /\ pc[Client] \notin {"locked", "written"}
  /\ status' \in {"ok", "failed"} /\ call' \in {"found", "full"}
  /\ UNCHANGED <<mutex, table, registering, method, calls, ghosts>>

CallUnlock ==
  /\ call \in {"found", "full"}
  /\ Unlock
  /\ IF call = "found"
       THEN call' = "respond" /\ UNCHANGED <<method, status, known>>
       ELSE CallOver
  /\ UNCHANGED <<table, registering, calls, named, served>>

\* There is no room for the status, or the response is handed to the engine.
CallEnd ==
  /\ call = "respond" /\ CallOver
  /\ UNCHANGED <<mutex, table, registering, calls, named, served>>

Serve ==
  CallLock \/ CallUnknown \/ CallFound \/ CallbackEnd \/ CallUnlock \/ CallEnd

Next ==
  \/ \E t \in Registrars : Register(t) \/ Registration(t)
  \/ CallBegin \/ Serve

Spec == Init /\ [][Next]_vars

\* Threads run, and callbacks return.
FairSpec ==
  /\ Spec /\ WF_vars(Serve) /\ SF_vars(CallLock)
  /\ \A t \in Registrars : WF_vars(Registration(t))
  /\ \A t \in Threads : SF_vars(Register(t))

-----------------------------------------------------------------------------
\* A method whose registration returned 0 before a call began is found by it,
\* however registrations of other threads, and of the methods themselves,
\* interleave (golioth_rpc_register, rpc_find_and_call).
FindsRegistered == call # "idle" /\ method \in known => status # "unknown"

\* A name is always served by the same callback: registering it again changes
\* nothing, and no entry is overwritten.
SameCallback == \A n \in Names : Cardinality(served[n]) <= 1

\* Calls and registrations end: the mutex is given back on every path, and a
\* callback that registers a method does not wait for itself.
CallsEnd ==
  /\ []<>(call = "idle")
  /\ \A t \in Threads : <>(pc[t] \in {"registered", "refused"})
=============================================================================
