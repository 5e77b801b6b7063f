----------------------------- MODULE CallsProofs -----------------------------
(***************************************************************************)
(* Proofs about synchronous calls and remote procedure calls: for any      *)
(* number of threads, methods, calls and callers, and any sizes of the     *)
(* responses, of the buffers and of the table.                             *)
(***************************************************************************)
EXTENDS Calls, FiniteSetTheorems, TLAPS

-----------------------------------------------------------------------------
(* Remote procedure calls.                                                 *)

\* Where the mutex is held.
Inside(t) == pc[t] \in {"locked", "written"}
InCall == call \in {"find", "callback", "found", "full"}

RpcTypeOK ==
  /\ num \in 0 .. MaxMethods /\ DOMAIN methods = 1 .. MaxMethods
  /\ \A i \in 1 .. num : methods[i] \in Methods
  /\ owner \in Registrars \union {NoOne} /\ depth \in Nat
  /\ pc \in [Registrars -> {"ready", "locked", "written", "registered", "refused"}]
  /\ new \in [Registrars -> Names]
  /\ call \in {"idle", "decoded", "find", "callback", "found", "full", "respond"}
  /\ call # "idle" => method \in Names
  /\ named \subseteq Names /\ known \subseteq named
  /\ DOMAIN served = Names

\* Whose the mutex is, and how often: twice if a callback registers a method.
MutexInv ==
  /\ owner = NoOne <=> depth = 0
  /\ \A t \in Threads : Inside(t) <=> owner = t
  /\ \A t \in Threads : owner = t => depth = 1
  /\ InCall <=> owner = Client
  /\ Inside(Client) => call = "callback"
  /\ owner = Client => depth = IF Inside(Client) THEN 2 ELSE 1

\* Entry i of the table is the first of name n.
FirstFor(n, i) ==
  /\ i \in 1 .. num /\ methods[i].name = n
  /\ \A j \in 1 .. num : methods[j].name = n => i <= j

\* The entry behind the table belongs to who is about to count it.  Every name that
\* is in the table has a first entry, and only that one has served it.
TableInv ==
  /\ \A t \in Registrars : pc[t] = "written" =>
       num < MaxMethods /\ methods[num + 1] = [name |-> new[t], callback |-> t]
  /\ \A n \in named : \E i \in 1 .. num : methods[i].name = n
  /\ \A n \in Names :
       (\E i \in 1 .. num : methods[i].name = n) => \E i \in 1 .. num : FirstFor(n, i)
  /\ \A n \in Names : \A c \in served[n] :
       \E i \in 1 .. num : FirstFor(n, i) /\ methods[i].callback = c

RpcInv == RpcTypeOK /\ MutexInv /\ TableInv /\ FindsRegistered

-----------------------------------------------------------------------------
(* golioth_lightdb_get.                                                    *)

\* Why the engine ends a request of a caller that is told so.
Errors == {"error", "ack", "timedout", "shutdown"}

GetTypeOK ==
  /\ link \in {"down", "up", "closing"}
  /\ DOMAIN fate = Callers /\ seen \in [Callers -> Seq(Nat)]
  /\ getter \in [Callers -> {"idle", "waiting", "returned"}]
  /\ sem \in [Callers -> BOOLEAN] /\ err \in [Callers -> BOOLEAN]
  /\ DOMAIN stored = Callers /\ DOMAIN len = Callers /\ DOMAIN ret = Callers

\* How far the request and the caller have come, together.
FrameInv(c) ==
  /\ fate[c] \in {"unused", "rejected", "open", "ok", "refused"} \union Errors
  /\ fate[c] = "unused" <=> getter[c] = "idle"
  /\ fate[c] = "open" => getter[c] = "waiting" /\ sem[c] = FALSE
  /\ fate[c] = "rejected" => getter[c] = "returned" /\ ret[c] = "error"
  /\ getter[c] # "waiting" => sem[c] = FALSE
  /\ err[c] = TRUE <=> fate[c] \in Errors
  /\ getter[c] = "returned" =>
       ret[c] = IF fate[c] \in {"ok", "refused"} THEN "ok" ELSE "error"

\* What is in the buffer is what was seen, until the capacity stops it.
BufferInv(c) ==
  LET n == Len(seen[c])
  IN  /\ fate[c] \in {"unused", "open"} =>
           n < NBlocks[c] /\ n <= Capacity[c] /\ stored[c] = 0 .. n - 1
      /\ stored[c] \subseteq 0 .. Capacity[c] - 1
      /\ fate[c] = "refused" => NBlocks[c] > Capacity[c]
      /\ fate[c] = "ok" /\ NBlocks[c] <= Capacity[c] =>
           stored[c] = 0 .. NBlocks[c] - 1 /\ len[c] = NBlocks[c]

GetInv == GetTypeOK /\ \A c \in Callers : FrameInv(c) /\ BufferInv(c)

LEMMA RpcInit == Init => RpcInv
<1> SUFFICES ASSUME Init PROVE RpcInv
  OBVIOUS
<1>1. /\ num = 0 /\ 1 .. num = {} /\ MaxMethods \in Nat /\ DOMAIN methods = 1 .. MaxMethods
      /\ owner = NoOne /\ depth = 0 /\ pc = [t \in Registrars |-> "ready"]
      /\ new \in [Registrars -> Names] /\ call = "idle" /\ known = {} /\ named = {}
      /\ DOMAIN served = Names /\ \A n \in Names : served[n] = {}
  BY RpcAssumption DEF Init, NoCall, Registrars
<1>2. \A t \in Registrars : pc[t] = "ready"
  BY <1>1
<1>3. RpcTypeOK
  <2>1. pc \in [Registrars -> {"ready", "locked", "written", "registered", "refused"}]
    BY <1>1
  <2> QED  BY <1>1, <2>1 DEF RpcTypeOK
<1>4. MutexInv
  BY <1>1, <1>2, RpcAssumption DEF MutexInv, Inside, InCall, Registrars
<1>5. TableInv
  BY <1>1, <1>2 DEF TableInv
<1>6. FindsRegistered
  BY <1>1 DEF FindsRegistered
<1> QED  BY <1>3, <1>4, <1>5, <1>6 DEF RpcInv

\* The facts about the threads that the steps need.
LEMMA ThreadFacts ==
  ASSUME RpcInv
  PROVE  /\ Client \in Registrars /\ Client \notin Threads /\ Registrars = Threads \union {Client}
         /\ NoOne \notin Registrars /\ MaxMethods \in Nat
         /\ \A t \in Registrars : Inside(t) => owner = t
         /\ \A t, u \in Registrars : Inside(t) /\ Inside(u) => t = u
BY RpcAssumption DEF Registrars, RpcInv, MutexInv, InCall

\* Steps that leave the table alone.
LEMMA TableSame ==
  ASSUME RpcInv, UNCHANGED <<methods, num, new, named>>,
         \A t \in Registrars : pc'[t] = "written" => pc[t] = "written",
         \A n \in Names : \A c \in served'[n] :
           c \in served[n] \/ \E i \in 1 .. num : FirstFor(n, i) /\ methods[i].callback = c
  PROVE  TableInv'
<1>1. \A n, i : FirstFor(n, i)' <=> FirstFor(n, i)
  BY DEF FirstFor
<1> QED  BY <1>1 DEF RpcInv, TableInv

LEMMA RegisterKeeps ==
  ASSUME RpcInv, NEW t \in Registrars, Register(t)
  PROVE  RpcInv'
<1>1. /\ owner \in {NoOne, t} /\ owner' = t /\ depth' = depth + 1 /\ depth \in Nat
      /\ pc[t] = "ready" /\ pc' = [pc EXCEPT ![t] = "locked"] /\ (t = Client => call = "callback")
      /\ UNCHANGED <<methods, num, new, call, method, status, known, named, served>>
      /\ pc \in [Registrars -> {"ready", "locked", "written", "registered", "refused"}]
  BY DEF Register, MayRegister, Locked, Lock, table, calling, ghosts, RpcInv, RpcTypeOK
<1>2. pc'[t] = "locked" /\ \A u \in Registrars \ {t} : pc'[u] = pc[u]
  BY <1>1
<1>3. RpcTypeOK'
  <2>1. pc' \in [Registrars -> {"ready", "locked", "written", "registered", "refused"}]
    BY <1>1
  <2> QED  BY <1>1, <2>1 DEF RpcInv, RpcTypeOK
<1>4. MutexInv'
  <2>1. CASE t = Client
    <3>1. owner = Client /\ depth = 1 /\ call = "callback"
      BY <1>1, <2>1 DEF RpcInv, MutexInv, InCall, Inside
    <3> QED  BY <1>1, <1>2, <2>1, <3>1, ThreadFacts DEF RpcInv, MutexInv, InCall, Inside
  <2>2. CASE t \in Threads
    <3>1. owner = NoOne /\ depth = 0 /\ ~InCall
      BY <1>1, <2>2, ThreadFacts DEF RpcInv, MutexInv, Inside
    <3> QED  BY <1>1, <1>2, <2>2, <3>1, ThreadFacts DEF RpcInv, MutexInv, InCall, Inside
  <2> QED  BY <2>1, <2>2, ThreadFacts
<1>5. TableInv'
  BY <1>1, <1>2, TableSame
<1>6. FindsRegistered'
  BY <1>1 DEF RpcInv, FindsRegistered
<1> QED  BY <1>3, <1>4, <1>5, <1>6 DEF RpcInv

LEMMA RegisterFullKeeps ==
  ASSUME RpcInv, NEW t \in Registrars, RegisterFull(t)
  PROVE  RpcInv'
<1>1. /\ depth' = depth - 1 /\ owner' = (IF depth = 1 THEN NoOne ELSE owner) /\ depth \in Nat
      /\ pc[t] = "locked" /\ pc' = [pc EXCEPT ![t] = "refused"]
      /\ UNCHANGED <<methods, num, new, call, method, status, known, named, served>>
      /\ pc \in [Registrars -> {"ready", "locked", "written", "registered", "refused"}]
  BY DEF RegisterFull, Unlocked, Unlock, table, calling, ghosts, RpcInv, RpcTypeOK
<1>2. pc'[t] = "refused" /\ \A u \in Registrars \ {t} : pc'[u] = pc[u]
  BY <1>1
<1>3. owner = t /\ depth = (IF t = Client THEN 2 ELSE 1)
  BY <1>1, ThreadFacts DEF RpcInv, MutexInv, Inside
<1>4. RpcTypeOK'
  <2>1. pc' \in [Registrars -> {"ready", "locked", "written", "registered", "refused"}]
    BY <1>1
  <2>2. depth' \in Nat /\ owner' \in Registrars \union {NoOne}
    BY <1>1, <1>3
  <2> QED  BY <1>1, <2>1, <2>2 DEF RpcInv, RpcTypeOK
<1>5. MutexInv'
  BY <1>1, <1>2, <1>3, ThreadFacts DEF RpcInv, MutexInv, InCall, Inside
<1>6. TableInv'
  BY <1>1, <1>2, TableSame
<1>7. FindsRegistered'
  BY <1>1 DEF RpcInv, FindsRegistered
<1> QED  BY <1>4, <1>5, <1>6, <1>7 DEF RpcInv

LEMMA RegisterWriteKeeps ==
  ASSUME RpcInv, NEW t \in Registrars, RegisterWrite(t)
  PROVE  RpcInv'
<1> DEFINE entry == [name |-> new[t], callback |-> t]
<1>1. /\ pc[t] = "locked" /\ pc' = [pc EXCEPT ![t] = "written"] /\ num < MaxMethods
      /\ methods' = [methods EXCEPT ![num + 1] = entry]
      /\ UNCHANGED <<num, owner, depth, new, call, method, status, known, named, served>>
      /\ pc \in [Registrars -> {"ready", "locked", "written", "registered", "refused"}]
      /\ num \in 0 .. MaxMethods /\ DOMAIN methods = 1 .. MaxMethods
  BY DEF RegisterWrite, mutex, calling, ghosts, RpcInv, RpcTypeOK
<1>2. pc'[t] = "written" /\ \A u \in Registrars \ {t} : pc'[u] = pc[u]
  BY <1>1
<1>3. /\ methods'[num + 1] = entry /\ \A i \in 1 .. num : methods'[i] = methods[i]
      /\ DOMAIN methods' = 1 .. MaxMethods
  BY <1>1, ThreadFacts
<1> HIDE DEF entry
<1>4. RpcTypeOK'
  <2>1. pc' \in [Registrars -> {"ready", "locked", "written", "registered", "refused"}]
    BY <1>1
  <2> QED  BY <1>1, <1>3, <2>1 DEF RpcInv, RpcTypeOK
<1>5. MutexInv'
  BY <1>1, <1>2, ThreadFacts DEF RpcInv, MutexInv, InCall, Inside
<1>6. TableInv'
  <2>1. ASSUME NEW u \in Registrars, pc'[u] = "written" PROVE u = t
    BY <1>1, <1>2, <2>1, ThreadFacts DEF Inside
  <2>2. \A n, i : FirstFor(n, i)' <=> FirstFor(n, i)
    BY <1>1, <1>3 DEF FirstFor
  <2>3. \A i \in 1 .. num : methods'[i] = methods[i]
    BY <1>3
  <2>4. (\A n \in named : \E i \in 1 .. num : methods[i].name = n)'
    BY <1>1, <2>3 DEF RpcInv, TableInv
  <2>5. (\A n \in Names :
           (\E i \in 1 .. num : methods[i].name = n) => \E i \in 1 .. num : FirstFor(n, i))'
    BY <1>1, <2>2, <2>3 DEF RpcInv, TableInv
  <2>6. (\A n \in Names : \A c \in served[n] :
           \E i \in 1 .. num : FirstFor(n, i) /\ methods[i].callback = c)'
    BY <1>1, <2>2, <2>3 DEF RpcInv, TableInv
  <2>7. (\A u \in Registrars : pc[u] = "written" =>
           num < MaxMethods /\ methods[num + 1] = [name |-> new[u], callback |-> u])'
    BY <1>1, <1>3, <2>1 DEF entry
  <2> QED  BY <2>4, <2>5, <2>6, <2>7 DEF TableInv
<1>7. FindsRegistered'
  BY <1>1 DEF RpcInv, FindsRegistered
<1> QED  BY <1>4, <1>5, <1>6, <1>7 DEF RpcInv

LEMMA RegisterEndKeeps ==
  ASSUME RpcInv, NEW t \in Registrars, RegisterEnd(t)
  PROVE  RpcInv'
<1>1. /\ depth' = depth - 1 /\ owner' = (IF depth = 1 THEN NoOne ELSE owner) /\ depth \in Nat
      /\ pc[t] = "written" /\ pc' = [pc EXCEPT ![t] = "registered"]
      /\ num' = num + 1 /\ named' = named \union {new[t]}
      /\ UNCHANGED <<methods, new, call, method, status, known, served>>
      /\ pc \in [Registrars -> {"ready", "locked", "written", "registered", "refused"}]
      /\ new \in [Registrars -> Names] /\ num \in 0 .. MaxMethods
  BY DEF RegisterEnd, Unlock, calling, RpcInv, RpcTypeOK
<1>2. pc'[t] = "registered" /\ \A u \in Registrars \ {t} : pc'[u] = pc[u]
  BY <1>1
<1>3. owner = t /\ depth = (IF t = Client THEN 2 ELSE 1)
  BY <1>1, ThreadFacts DEF RpcInv, MutexInv, Inside
<1>4. /\ num < MaxMethods /\ methods[num + 1] = [name |-> new[t], callback |-> t]
      /\ new[t] \in Names
  BY <1>1 DEF RpcInv, TableInv
<1>5. num \in Nat /\ MaxMethods \in Nat /\ 1 .. num' = (1 .. num) \union {num + 1}
  BY <1>1, ThreadFacts
<1>6. RpcTypeOK'
  <2>1. pc' \in [Registrars -> {"ready", "locked", "written", "registered", "refused"}]
    BY <1>1
  <2>2. depth' \in Nat /\ owner' \in Registrars \union {NoOne}
    BY <1>1, <1>3
  <2>3. num' \in 0 .. MaxMethods
    BY <1>1, <1>4, <1>5
  <2>4. methods[num + 1] \in Methods
    BY <1>4 DEF Methods
  <2>5. \A i \in 1 .. num' : methods'[i] \in Methods
    BY <1>1, <1>5, <2>4 DEF RpcInv, RpcTypeOK
  <2>6. named' \subseteq Names /\ known' \subseteq named'
    BY <1>1, <1>4 DEF RpcInv, RpcTypeOK
  <2> QED  BY <1>1, <2>1, <2>2, <2>3, <2>5, <2>6 DEF RpcInv, RpcTypeOK
<1>7. MutexInv'
  BY <1>1, <1>2, <1>3, ThreadFacts DEF RpcInv, MutexInv, InCall, Inside
<1>8. TableInv'
  <2>1. \A u \in Registrars : pc'[u] # "written"
    BY <1>1, <1>2, ThreadFacts DEF Inside
  <2>2. \A n, i : FirstFor(n, i) => FirstFor(n, i)'
    BY <1>1, <1>5 DEF FirstFor
  <2>3. ASSUME NEW n \in named' PROVE \E i \in 1 .. num' : methods'[i].name = n
    <3>1. CASE n = new[t]
      BY <1>1, <1>4, <1>5, <3>1
    <3>2. CASE n \in named
      BY <1>1, <1>5, <3>2 DEF RpcInv, TableInv
    <3> QED  BY <1>1, <3>1, <3>2
  <2>4. ASSUME NEW n \in Names, \E i \in 1 .. num' : methods'[i].name = n
        PROVE  \E i \in 1 .. num' : FirstFor(n, i)'
    <3>1. CASE \E i \in 1 .. num : methods[i].name = n
      <4>1. PICK i \in 1 .. num : FirstFor(n, i)
        BY <3>1 DEF RpcInv, TableInv
      <4> QED  BY <1>5, <2>2, <4>1
    <3>2. CASE \A i \in 1 .. num : methods[i].name # n
      <4>1. PICK k : k = num + 1
        OBVIOUS
      <4>2. FirstFor(n, k)'
        <5>1. methods[k].name = n
          BY <1>1, <1>5, <2>4, <3>2, <4>1
        <5> QED  BY <1>1, <1>5, <3>2, <4>1, <5>1 DEF FirstFor
      <4> QED  BY <1>5, <4>1, <4>2
    <3> QED  BY <3>1, <3>2
  <2>5. ASSUME NEW n \in Names, NEW c \in served'[n]
        PROVE  \E i \in 1 .. num' : FirstFor(n, i)' /\ methods'[i].callback = c
    BY <1>1, <1>5, <2>2 DEF RpcInv, TableInv
  <2> QED  BY <2>1, <2>3, <2>4, <2>5 DEF TableInv
<1>9. FindsRegistered'
  BY <1>1 DEF RpcInv, FindsRegistered
<1> QED  BY <1>6, <1>7, <1>8, <1>9 DEF RpcInv


LEMMA CallBeginKeeps ==
  ASSUME RpcInv, CallBegin \/ CallEnd
  PROVE  RpcInv'
<1>1. /\ UNCHANGED <<methods, num, owner, depth, pc, new, named, served>>
      /\ \/ /\ call = "idle" /\ call' = "decoded"
            /\ method' \in Names /\ status' = "none" /\ known' = named
         \/ call = "respond" /\ call' = "idle" /\ known' = {}
  BY DEF CallBegin, CallEnd, CallOver, mutex, table, registering
<1>2. RpcTypeOK'
  BY <1>1 DEF RpcInv, RpcTypeOK
<1>3. MutexInv'
  BY <1>1, ThreadFacts DEF RpcInv, MutexInv, InCall, Inside
<1>4. TableInv'
  BY <1>1, TableSame
<1>5. FindsRegistered'
  BY <1>1 DEF FindsRegistered
<1> QED  BY <1>2, <1>3, <1>4, <1>5 DEF RpcInv

LEMMA CallLockKeeps ==
  ASSUME RpcInv, CallLock \/ CallUnlock
  PROVE  RpcInv'
<1>1. /\ UNCHANGED <<methods, num, pc, new, named, served>> /\ depth \in Nat
  BY DEF CallLock, CallUnlock, table, registering, ghosts, RpcInv, RpcTypeOK
<1>2. CASE CallLock
  <2>1. /\ call = "decoded" /\ call' = "find" /\ owner' = Client /\ depth' = depth + 1
        /\ owner \in {NoOne, Client} /\ UNCHANGED <<method, status, known>>
    BY <1>2 DEF CallLock, Lock, ghosts
  <2>2. owner = NoOne /\ depth = 0
    BY <2>1 DEF RpcInv, MutexInv, InCall
  <2>3. RpcTypeOK'
    BY <1>1, <2>1, ThreadFacts DEF RpcInv, RpcTypeOK
  <2>4. MutexInv'
    BY <1>1, <2>1, <2>2, ThreadFacts DEF RpcInv, MutexInv, InCall, Inside
  <2>5. TableInv'
    BY <1>1, TableSame
  <2>6. FindsRegistered'
    BY <2>1 DEF RpcInv, FindsRegistered
  <2> QED  BY <2>3, <2>4, <2>5, <2>6 DEF RpcInv
<1>3. CASE CallUnlock
  <2>1. /\ call \in {"found", "full"} /\ depth' = depth - 1
        /\ owner' = IF depth = 1 THEN NoOne ELSE owner
        /\ \/ call' = "respond" /\ UNCHANGED <<method, status, known>>
           \/ call' = "idle" /\ known' = {}
    BY <1>3 DEF CallUnlock, CallOver, Unlock
  <2>2. owner = Client /\ depth = 1 /\ ~Inside(Client)
    BY <2>1 DEF RpcInv, MutexInv, InCall
  <2>3. RpcTypeOK'
    BY <1>1, <2>1, <2>2 DEF RpcInv, RpcTypeOK
  <2>4. MutexInv'
    BY <1>1, <2>1, <2>2, ThreadFacts DEF RpcInv, MutexInv, InCall, Inside
  <2>5. TableInv'
    BY <1>1, TableSame
  <2>6. FindsRegistered'
    BY <2>1 DEF RpcInv, FindsRegistered
  <2> QED  BY <2>3, <2>4, <2>5, <2>6 DEF RpcInv
<1> QED  BY <1>2, <1>3

\* rpc_find_and_call: the search finds the entry whose callback has served the name
\* before, and misses only names nobody has registered.
LEMMA CallFindKeeps ==
  ASSUME RpcInv, CallUnknown \/ CallFound
  PROVE  RpcInv'
<1>1. /\ UNCHANGED <<methods, num, owner, depth, pc, new, method, known, named>>
      /\ call = "find" /\ call' \in {"found", "callback", "full"}
  BY DEF CallUnknown, CallFound, mutex, table, registering, ghosts
<1>2. method \in Names /\ num \in Nat /\ ~Inside(Client) /\ DOMAIN served = Names
  BY <1>1, ThreadFacts DEF RpcInv, RpcTypeOK, MutexInv
<1>3. \A i \in Matching : FirstFor(method, FirstOf(Matching))
  <2> SUFFICES ASSUME Matching # {} PROVE FirstFor(method, FirstOf(Matching))
    OBVIOUS
  <2>1. \E i \in 1 .. num : methods[i].name = method
    BY DEF Matching
  <2>2. PICK i \in 1 .. num : FirstFor(method, i)
    BY <1>2, <2>1 DEF RpcInv, TableInv
  <2>3. i \in Matching /\ \A j \in Matching : i <= j
    BY <2>2 DEF FirstFor, Matching
  <2>4. FirstOf(Matching) \in Matching /\ \A j \in Matching : FirstOf(Matching) <= j
    BY <2>3 DEF FirstOf
  <2> QED  BY <2>4 DEF FirstFor, Matching
<1>4. \A n \in Names : \A c \in served'[n] :
        c \in served[n] \/ \E i \in 1 .. num : FirstFor(n, i) /\ methods[i].callback = c
  <2> DEFINE k == FirstOf(Matching)
  <2>1. CASE UNCHANGED served
    BY <2>1
  <2>2. CASE /\ Matching # {}
             /\ served' = [served EXCEPT ![method] = @ \union {methods[k].callback}]
    <3>1. FirstFor(method, k) /\ k \in 1 .. num
      BY <1>3, <2>2 DEF FirstFor
    <3> HIDE DEF k
    <3>2. \A n \in Names : served'[n] = IF n = method THEN served[n] \union {methods[k].callback}
                                                     ELSE served[n]
      BY <1>2, <2>2
    <3> QED  BY <3>1, <3>2
  <2> QED  BY <2>1, <2>2 DEF CallUnknown, CallFound, ghosts
<1>5. RpcTypeOK'
  <2>1. DOMAIN served' = Names
    BY <1>2 DEF CallUnknown, CallFound, ghosts
  <2> QED  BY <1>1, <2>1 DEF RpcInv, RpcTypeOK
<1>6. MutexInv'
  BY <1>1, <1>2, ThreadFacts DEF RpcInv, MutexInv, InCall, Inside
<1>7. TableInv'
  BY <1>1, <1>4, TableSame
<1>8. FindsRegistered'
  <2>1. CASE CallUnknown
    <3>1. method \notin known
      BY <2>1 DEF CallUnknown, Matching, RpcInv, RpcTypeOK, TableInv
    <3> QED  BY <1>1, <3>1 DEF FindsRegistered
  <2>2. CASE CallFound
    BY <1>1, <2>2 DEF CallFound, RpcInv, FindsRegistered
  <2> QED  BY <2>1, <2>2
<1> QED  BY <1>5, <1>6, <1>7, <1>8 DEF RpcInv

LEMMA CallbackEndKeeps ==
  ASSUME RpcInv, CallbackEnd
  PROVE  RpcInv'
<1>1. /\ UNCHANGED <<methods, num, owner, depth, pc, new, method, known, named, served>>
      /\ call = "callback" /\ call' \in {"found", "full"} /\ ~Inside(Client)
      /\ status' \in {"ok", "failed"}
  BY DEF CallbackEnd, mutex, table, registering, ghosts, Inside
<1>2. RpcTypeOK'
  BY <1>1 DEF RpcInv, RpcTypeOK
<1>3. MutexInv'
  BY <1>1, ThreadFacts DEF RpcInv, MutexInv, InCall, Inside
<1>4. TableInv'
  BY <1>1, TableSame
<1>5. FindsRegistered'
  BY <1>1 DEF FindsRegistered
<1> QED  BY <1>2, <1>3, <1>4, <1>5 DEF RpcInv

LEMMA RpcSame == RpcInv /\ UNCHANGED vars => RpcInv'
<1> SUFFICES ASSUME RpcInv, UNCHANGED vars PROVE RpcInv'
  OBVIOUS
<1>1. UNCHANGED <<methods, num, owner, depth, pc, new, call, method, status, known, named, served>>
  BY DEF vars, mutex, table, registering, calling, ghosts
<1>2. RpcTypeOK'
  BY <1>1 DEF RpcInv, RpcTypeOK
<1>3. MutexInv'
  BY <1>1 DEF RpcInv, MutexInv, InCall, Inside
<1>4. TableInv'
  BY <1>1, TableSame
<1>5. FindsRegistered'
  BY <1>1 DEF RpcInv, FindsRegistered
<1> QED  BY <1>2, <1>3, <1>4, <1>5 DEF RpcInv

LEMMA RpcStep == RpcInv /\ [Next]_vars => RpcInv'
<1> SUFFICES ASSUME RpcInv, [Next]_vars PROVE RpcInv'
  OBVIOUS
<1>1. ASSUME NEW t \in Registrars, Register(t) \/ Registration(t) PROVE RpcInv'
  BY <1>1, RegisterKeeps, RegisterFullKeeps, RegisterWriteKeeps, RegisterEndKeeps
     DEF Registration
<1>2. CASE CallBegin \/ Serve
  BY <1>2, CallBeginKeeps, CallLockKeeps, CallFindKeeps, CallbackEndKeeps DEF Serve
<1> QED  BY <1>1, <1>2, RpcSame DEF Next

\* Of the calls alone: what the RPC service keeps whatever else the client does.
THEOREM RpcInvariant == Spec => []RpcInv
BY RpcInit, RpcStep, PTL DEF Spec


-----------------------------------------------------------------------------
LEMMA GetInit == Get!Init => GetInv
<1> SUFFICES ASSUME Get!Init PROVE GetInv
  OBVIOUS
<1>1. /\ link = "down" /\ fate = [c \in Callers |-> "unused"] /\ seen = [c \in Callers |-> <<>>]
      /\ getter = [c \in Callers |-> "idle"] /\ sem = [c \in Callers |-> FALSE]
      /\ err = [c \in Callers |-> FALSE] /\ stored = [c \in Callers |-> {}]
      /\ len = [c \in Callers |-> 0] /\ ret = [c \in Callers |-> "none"]
  BY DEF Get!Init, Get!Engine!Init, Get!Engine!Requests
<1>2. GetTypeOK
  <2>1. sem \in [Callers -> BOOLEAN] /\ err \in [Callers -> BOOLEAN]
    BY <1>1
  <2>2. seen \in [Callers -> Seq(Nat)]
    BY <1>1
  <2> QED  BY <1>1, <2>1, <2>2 DEF GetTypeOK
<1>3. ASSUME NEW c \in Callers PROVE FrameInv(c) /\ BufferInv(c)
  <2>1. FrameInv(c)
    BY <1>1 DEF FrameInv, Errors
  <2>2. NBlocks[c] \in Nat \ {0} /\ Capacity[c] \in Nat
    BY CallsAssumption
  <2>3. Len(seen[c]) = 0 /\ stored[c] = {} /\ fate[c] = "unused"
    BY <1>1
  <2> QED  BY <2>1, <2>2, <2>3 DEF BufferInv
<1> QED  BY <1>2, <1>3 DEF GetInv

\* What is known of a caller depends on its own part of the state.
LEMMA CallerSame ==
  ASSUME NEW c \in Callers, FrameInv(c), BufferInv(c),
         fate'[c] = fate[c], seen'[c] = seen[c], getter'[c] = getter[c], sem'[c] = sem[c],
         err'[c] = err[c], stored'[c] = stored[c], len'[c] = len[c], ret'[c] = ret[c]
  PROVE  FrameInv(c)' /\ BufferInv(c)'
BY DEF FrameInv, BufferInv

LEMMA CallerFacts ==
  ASSUME GetInv, NEW c \in Callers
  PROVE  /\ NBlocks[c] \in Nat /\ NBlocks[c] > 0 /\ Capacity[c] \in Nat
         /\ Len(seen[c]) \in Nat /\ seen[c] \in Seq(Nat)
         /\ FrameInv(c) /\ BufferInv(c) /\ GetTypeOK
BY CallsAssumption DEF GetInv, GetTypeOK

LEMMA CallKeeps ==
  ASSUME GetInv, NEW c \in Callers, Get!Call(c)
  PROVE  GetInv'
<1>1. /\ getter[c] = "idle" /\ UNCHANGED <<link, seen, sem, err, stored, len>>
      /\ fate' = [r \in Callers |-> IF r = c THEN IF link = "up" THEN "open" ELSE "rejected"
                                             ELSE fate[r]]
      /\ IF fate'[c] = "open"
           THEN getter' = [getter EXCEPT ![c] = "waiting"] /\ UNCHANGED ret
           ELSE /\ getter' = [getter EXCEPT ![c] = "returned"]
                /\ ret' = [ret EXCEPT ![c] = "error"]
  BY DEF Get!Call, Get!Engine!Request, Get!Engine!Requests, Get!Engine!Answer, Get!sync,
     Get!buffer
<1>2. GetTypeOK'
  BY <1>1 DEF GetInv, GetTypeOK
<1>3. ASSUME NEW d \in Callers, d # c PROVE FrameInv(d)' /\ BufferInv(d)'
  <2>1. /\ fate'[d] = fate[d] /\ getter'[d] = getter[d] /\ ret'[d] = ret[d]
    BY <1>1, <1>3 DEF GetInv, GetTypeOK
  <2> QED  BY <1>1, <2>1, CallerFacts, CallerSame
<1>4. /\ fate[c] = "unused" /\ fate'[c] \in {"open", "rejected"}
      /\ fate'[c] = "open" => getter'[c] = "waiting"
      /\ fate'[c] = "rejected" => getter'[c] = "returned" /\ ret'[c] = "error"
  BY <1>1, CallerFacts DEF FrameInv, GetTypeOK
<1>5. FrameInv(c)'
  BY <1>1, <1>4, CallerFacts DEF FrameInv, Errors
<1>6. BufferInv(c)'
  BY <1>1, <1>4, CallerFacts DEF BufferInv
<1> QED  BY <1>2, <1>3, <1>5, <1>6 DEF GetInv

LEMMA ReturnKeeps ==
  ASSUME GetInv, NEW c \in Callers, Get!Return(c)
  PROVE  GetInv'
<1>1. /\ getter[c] = "waiting" /\ UNCHANGED <<link, fate, seen, err, stored, len>>
      /\ getter' = [getter EXCEPT ![c] = "returned"] /\ sem' = [sem EXCEPT ![c] = FALSE]
  BY DEF Get!Return, Get!buffer
<1>2. sem[c] = TRUE
  BY CallerFacts DEF Get!Return, Get!Taken, GetTypeOK
<1>3. /\ ret' = [ret EXCEPT ![c] = IF err[c] THEN "error" ELSE "ok"]
      /\ ret'[c] = IF err[c] = TRUE THEN "error" ELSE "ok"
  BY CallerFacts DEF Get!Return, GetTypeOK
<1>4. GetTypeOK'
  BY <1>1, <1>3 DEF GetInv, GetTypeOK
<1>5. ASSUME NEW d \in Callers, d # c PROVE FrameInv(d)' /\ BufferInv(d)'
  <2>1. getter'[d] = getter[d] /\ ret'[d] = ret[d] /\ sem'[d] = sem[d]
    BY <1>1, <1>3, <1>5 DEF GetInv, GetTypeOK
  <2> QED  BY <1>1, <2>1, CallerFacts, CallerSame
<1>6. getter'[c] = "returned" /\ sem'[c] = FALSE
  BY <1>1 DEF GetInv, GetTypeOK
<1>7. FrameInv(c)'
  BY <1>1, <1>2, <1>3, <1>6, CallerFacts DEF FrameInv, Errors
<1>8. BufferInv(c)'
  BY <1>1, CallerFacts DEF BufferInv
<1> QED  BY <1>4, <1>5, <1>7, <1>8 DEF GetInv

\* golioth_lightdb_get_prealloc_cb: the blocks before this one are in the buffer.
LEMMA StoreEffect ==
  ASSUME GetInv, NEW c \in Callers, fate[c] = "open", Get!Store(c)
  PROVE  LET n == Len(seen[c])
         IN  /\ DOMAIN stored' = Callers /\ DOMAIN len' = Callers
             /\ \A d \in Callers \ {c} : stored'[d] = stored[d] /\ len'[d] = len[d]
             /\ stored'[c] \subseteq 0 .. Capacity[c] - 1
             /\ ~Get!Fits(c) => NBlocks[c] > Capacity[c]
             /\ Get!Fits(c) => n + 1 <= Capacity[c] /\ stored'[c] = 0 .. n
             /\ n + 1 = NBlocks[c] /\ NBlocks[c] <= Capacity[c] =>
                  Get!Fits(c) /\ len'[c] = NBlocks[c]
<1> DEFINE n == Len(seen[c])
           total == Get!Total(c)
<1>1. /\ n \in Nat /\ n < NBlocks[c] /\ n <= Capacity[c] /\ stored[c] = 0 .. n - 1
      /\ NBlocks[c] \in Nat /\ Capacity[c] \in Nat
      /\ DOMAIN stored = Callers /\ DOMAIN len = Callers
  BY CallerFacts DEF BufferInv, GetTypeOK
<1>2. total \in {NBlocks[c], n + 1} /\ (Get!Fits(c) <=> total <= Capacity[c])
  BY DEF Get!Total, Get!Current, Get!Fits
<1>3. IF Get!Fits(c)
        THEN stored' = [stored EXCEPT ![c] = @ \union {n}] /\ len' = [len EXCEPT ![c] = total]
        ELSE UNCHANGED <<stored, len>>
  BY DEF Get!Store, Get!Current, Get!buffer
<1> HIDE DEF n, total
<1>4. n + 1 <= total /\ total <= NBlocks[c] /\ total \in Nat
  BY <1>1, <1>2
<1>5. CASE Get!Fits(c)
  <2>1. stored'[c] = 0 .. n /\ len'[c] = total
    <3>1. stored'[c] = stored[c] \union {n} /\ len'[c] = total
      BY <1>1, <1>3, <1>5
    <3>2. (0 .. n - 1) \union {n} = 0 .. n
      BY <1>1
    <3> QED  BY <1>1, <3>1, <3>2
  <2>2. total <= Capacity[c] /\ n + 1 <= Capacity[c] /\ 0 .. n \subseteq 0 .. Capacity[c] - 1
    BY <1>1, <1>2, <1>4, <1>5
  <2>3. n + 1 = NBlocks[c] => total = NBlocks[c]
    BY <1>1, <1>4
  <2>4. /\ DOMAIN stored' = Callers /\ DOMAIN len' = Callers
        /\ \A d \in Callers \ {c} : stored'[d] = stored[d] /\ len'[d] = len[d]
    BY <1>1, <1>3, <1>5
  <2> QED  BY <1>5, <2>1, <2>2, <2>3, <2>4 DEF n
<1>6. CASE ~Get!Fits(c)
  <2>1. NBlocks[c] > Capacity[c]
    BY <1>1, <1>2, <1>4, <1>6
  <2>2. stored[c] \subseteq 0 .. Capacity[c] - 1
    BY <1>1
  <2>3. ~(NBlocks[c] <= Capacity[c])
    BY <1>1, <2>1
  <2> QED  BY <1>1, <1>3, <1>6, <2>1, <2>2, <2>3
<1> QED  BY <1>5, <1>6


LEMMA BlockKeeps ==
  ASSUME GetInv, NEW c \in Callers, Get!Block(c)
  PROVE  GetInv'
<1> DEFINE n == Len(seen[c])
<1>1. /\ fate[c] = "open" /\ n + 1 < NBlocks[c] /\ Get!Fits(c) /\ Get!Store(c)
      /\ seen' = [seen EXCEPT ![c] = Append(seen[c], n)]
      /\ fate' = [r \in Callers |-> fate[r]]
      /\ UNCHANGED <<link, getter, sem, err, ret>>
  BY DEF Get!Block, Get!Engine!More, Get!Engine!Open, Get!Engine!Requests, Get!sync
<1>2. DOMAIN fate' = Callers /\ \A d \in Callers : fate'[d] = fate[d]
  BY <1>1
<1>3. /\ n \in Nat /\ seen'[c] = Append(seen[c], n) /\ Len(seen'[c]) = n + 1
      /\ seen' \in [Callers -> Seq(Nat)]
      /\ \A d \in Callers \ {c} : seen'[d] = seen[d]
  <2>1. /\ n \in Nat /\ seen[c] \in Seq(Nat) /\ Append(seen[c], n) \in Seq(Nat)
        /\ Len(Append(seen[c], n)) = n + 1 /\ seen \in [Callers -> Seq(Nat)]
    BY CallerFacts DEF GetTypeOK
  <2> HIDE DEF n
  <2> QED  BY <1>1, <2>1
<1> HIDE DEF n
<1>4. /\ DOMAIN stored' = Callers /\ DOMAIN len' = Callers
      /\ \A d \in Callers \ {c} : stored'[d] = stored[d] /\ len'[d] = len[d]
      /\ stored'[c] = 0 .. n /\ n + 1 <= Capacity[c]
      /\ stored'[c] \subseteq 0 .. Capacity[c] - 1
  BY <1>1, StoreEffect DEF n
<1>5. GetTypeOK'
  BY <1>1, <1>2, <1>3, <1>4 DEF GetInv, GetTypeOK
<1>6. ASSUME NEW d \in Callers, d # c PROVE FrameInv(d)' /\ BufferInv(d)'
  BY <1>1, <1>2, <1>3, <1>4, <1>6, CallerFacts, CallerSame
<1>7. FrameInv(c)'
  BY <1>1, <1>2, CallerFacts DEF FrameInv
<1>8. BufferInv(c)'
  <2>1. n + 1 - 1 = n
    BY <1>3
  <2> QED  BY <1>1, <1>2, <1>3, <1>4, <2>1, CallerFacts DEF BufferInv
<1> QED  BY <1>5, <1>6, <1>7, <1>8 DEF GetInv

\* The engine ends the request: the final callback keeps what the caller needs, and
\* wakes it.
LEMMA EndKeeps ==
  ASSUME GetInv, NEW c \in Callers, Get!End(c)
  PROVE  GetInv'
<1> DEFINE n == Len(seen[c])
<1>1. PICK why \in {"ok", "refused"} \union Errors :
        /\ Get!Engine!End(c, why, {})
        /\ IF why \in Errors THEN Get!KeepErr(c) /\ UNCHANGED <<stored, len>>
                             ELSE Get!Store(c) /\ UNCHANGED err
        /\ why = "refused" => ~Get!Fits(c)
        /\ Get!Give(c) /\ UNCHANGED <<getter, ret>>
  <2>1. CASE Get!Refused(c)
    BY <2>1 DEF Get!Refused, Errors
  <2>2. CASE Get!Complete(c)
    BY <2>2 DEF Get!Complete, Errors
  <2>3. CASE Get!Failed(c)
    BY <2>3 DEF Get!Failed, Get!Engine!Reasons, Get!buffer, Errors
  <2> QED  BY <2>1, <2>2, <2>3 DEF Get!End
<1>2. /\ fate[c] = "open" /\ fate' = [r \in Callers |-> IF r = c THEN why ELSE fate[r]]
      /\ UNCHANGED link
      /\ IF why \in {"ok", "refused"}
           THEN /\ why = "ok" <=> n + 1 = NBlocks[c]
                /\ seen' = [seen EXCEPT ![c] = Append(seen[c], n)]
           ELSE UNCHANGED seen
  BY <1>1 DEF Get!Engine!End, Get!Engine!Open, Get!Engine!Requests
<1>3. /\ seen' \in [Callers -> Seq(Nat)] /\ \A d \in Callers \ {c} : seen'[d] = seen[d]
  <2>1. /\ Append(seen[c], n) \in Seq(Nat) /\ seen \in [Callers -> Seq(Nat)]
    BY CallerFacts DEF GetTypeOK
  <2> HIDE DEF n
  <2> QED  BY <1>2, <2>1
<1>4. /\ fate'[c] = why /\ \A d \in Callers \ {c} : fate'[d] = fate[d]
      /\ DOMAIN fate' = Callers
  BY <1>2
<1>5. sem' = [sem EXCEPT ![c] = TRUE]
  BY <1>1 DEF Get!Give
<1>6. err' = IF why \in Errors THEN [err EXCEPT ![c] = TRUE] ELSE err
  BY <1>1 DEF Get!KeepErr
<1>7. /\ DOMAIN stored' = Callers /\ DOMAIN len' = Callers
      /\ \A d \in Callers \ {c} : stored'[d] = stored[d] /\ len'[d] = len[d]
      /\ stored'[c] \subseteq 0 .. Capacity[c] - 1
      /\ why = "refused" => NBlocks[c] > Capacity[c]
      /\ why = "ok" /\ NBlocks[c] <= Capacity[c] =>
           stored'[c] = 0 .. NBlocks[c] - 1 /\ len'[c] = NBlocks[c]
  <2>1. CASE why \in Errors
    BY <1>1, <2>1, CallerFacts DEF BufferInv, GetTypeOK, Errors
  <2>2. CASE why \notin Errors
    <3>1. n \in Nat /\ NBlocks[c] \in Nat /\ n + 1 - 1 = n
      BY CallerFacts
    <3>2. n + 1 = NBlocks[c] => n = NBlocks[c] - 1
      BY <3>1
    <3>3. Get!Store(c)
      BY <1>1, <2>2
    <3>4. why = "ok" => n + 1 = NBlocks[c]
      BY <1>2
    <3> QED  BY <1>1, <1>2, <3>2, <3>3, <3>4, StoreEffect
  <2> QED  BY <2>1, <2>2
<1>8. GetTypeOK'
  <2>1. sem' \in [Callers -> BOOLEAN] /\ err' \in [Callers -> BOOLEAN]
    BY <1>5, <1>6, CallerFacts DEF GetTypeOK
  <2> QED  BY <1>1, <1>2, <1>3, <1>4, <1>7, <2>1, CallerFacts DEF GetTypeOK
<1>9. ASSUME NEW d \in Callers, d # c PROVE FrameInv(d)' /\ BufferInv(d)'
  <2>1. sem'[d] = sem[d] /\ err'[d] = err[d]
    BY <1>5, <1>6, <1>9, CallerFacts DEF GetTypeOK
  <2> QED  BY <1>1, <1>3, <1>4, <1>7, <1>9, <2>1, CallerFacts, CallerSame
<1>10. FrameInv(c)'
  <2>1. /\ getter[c] = "waiting" /\ getter' = getter
        /\ err'[c] = TRUE <=> why \in Errors
    BY <1>1, <1>2, <1>6, CallerFacts DEF FrameInv, GetTypeOK, Errors
  <2> QED  BY <1>4, <2>1 DEF FrameInv, Errors
<1>11. BufferInv(c)'
  BY <1>4, <1>7 DEF BufferInv, Errors
<1> QED  BY <1>8, <1>9, <1>10, <1>11 DEF GetInv

LEMMA LinkKeeps ==
  ASSUME GetInv, Get!Link
  PROVE  GetInv'
<1>1. /\ UNCHANGED <<fate, seen, getter, sem, err, stored, len, ret>>
      /\ link' \in {"down", "up", "closing"}
  BY DEF Get!Link, Get!Engine!GoUp, Get!Engine!GoDown, Get!Engine!Down, Get!sync, Get!buffer
<1>2. GetTypeOK'
  BY <1>1 DEF GetInv, GetTypeOK
<1>3. ASSUME NEW c \in Callers PROVE FrameInv(c)' /\ BufferInv(c)'
  BY <1>1, CallerFacts, CallerSame
<1> QED  BY <1>2, <1>3 DEF GetInv

LEMMA GetSame == GetInv /\ UNCHANGED getVars => GetInv'
<1> SUFFICES ASSUME GetInv, UNCHANGED getVars PROVE GetInv'
  OBVIOUS
<1>1. UNCHANGED <<link, fate, seen, getter, sem, err, stored, len, ret>>
  BY DEF getVars
<1>2. GetTypeOK'
  BY <1>1 DEF GetInv, GetTypeOK
<1>3. ASSUME NEW c \in Callers PROVE FrameInv(c)' /\ BufferInv(c)'
  BY <1>1, CallerFacts, CallerSame
<1> QED  BY <1>2, <1>3 DEF GetInv


-----------------------------------------------------------------------------
(* Together.                                                               *)

LEMMA CallsStepKinds ==
  ASSUME [CallsNext]_callVars
  PROVE  /\ [Next]_vars
         /\ \/ UNCHANGED getVars \/ Get!Link
            \/ \E c \in Callers : Get!Call(c) \/ Get!Block(c) \/ Get!End(c) \/ Get!Return(c)
<1>1. CASE ServeCall
  BY <1>1 DEF ServeCall, Next
<1>2. CASE RegisterMethod
  BY <1>2 DEF RegisterMethod, Next
<1>3. CASE SubmitGet
  BY <1>3 DEF SubmitGet, rpcVars
<1>4. CASE ChangeLink
  BY <1>4 DEF ChangeLink, rpcVars
<1>5. CASE \E c \in Callers : ServeGet(c) \/ ReturnGet(c)
  BY <1>5 DEF ServeGet, ReturnGet, rpcVars
<1>6. CASE UNCHANGED callVars
  BY <1>6 DEF callVars, rpcVars
<1> QED  BY <1>1, <1>2, <1>3, <1>4, <1>5, <1>6 DEF CallsNext

LEMMA GetStep == GetInv /\ [CallsNext]_callVars => GetInv'
BY CallsStepKinds, GetSame, LinkKeeps, CallKeeps, BlockKeeps, EndKeeps, ReturnKeeps

\* Served on one thread and under one lock, the two still are what each is alone:
\* rpc.c and golioth_lightdb_get share nothing else.
THEOREM CallsImplementRpc == CallsSpec => Spec
<1>1. CallsInit => Init
  BY DEF CallsInit
<1>2. [CallsNext]_callVars => [Next]_vars
  BY CallsStepKinds
<1> QED  BY <1>1, <1>2, PTL DEF CallsSpec, Spec

THEOREM CallsImplementGet == CallsSpec => Get!Spec
<1>1. CallsInit => Get!Init
  BY DEF CallsInit
<1>2. [CallsNext]_callVars => [Get!Next]_(Get!vars)
  BY CallsStepKinds DEF Get!Next, Get!vars, Get!sync, Get!buffer, getVars
<1> QED  BY <1>1, <1>2, PTL DEF CallsSpec, Get!Spec

\* The invariants of both.
THEOREM CallsInvariant == CallsSpec => [](RpcInv /\ GetInv)
<1>1. CallsInit => RpcInv /\ GetInv
  BY RpcInit, GetInit DEF CallsInit
<1>2. RpcInv /\ GetInv /\ [CallsNext]_callVars => RpcInv' /\ GetInv'
  BY RpcStep, GetStep, CallsStepKinds
<1> QED  BY <1>1, <1>2, PTL DEF CallsSpec

\* golioth_lightdb_get uses the engine as golioth_coap_req_cb allows: a request is
\* made once, and it is the engine that ends it (the contract of ReqContract.tla,
\* which CoapReqs.tla is proved to implement).
THEOREM GetKeepsContract == CallsSpec => Get!Engine!Spec
<1>1. CallsInit => Get!Engine!Init
  BY DEF CallsInit, Get!Init
<1>2. GetInv /\ [CallsNext]_callVars => [Get!Engine!Next]_(Get!Engine!cvars)
  <2> SUFFICES ASSUME GetInv, [CallsNext]_callVars
               PROVE  Get!Engine!Next \/ UNCHANGED <<link, fate, seen>>
    BY DEF Get!Engine!cvars
  <2>1. {} \in Get!Engine!NewRequests
    BY DEF Get!Engine!NewRequests
  <2>2. CASE UNCHANGED getVars \/ Get!Link
    BY <2>2 DEF getVars, Get!Link, Get!Engine!Next
  <2>3. ASSUME NEW c \in Callers, Get!Call(c) PROVE Get!Engine!Next
    <3>1. fate[c] = "unused"
      BY <2>3, CallerFacts DEF Get!Call, FrameInv
    <3>2. {c} \in Get!Engine!NewRequests
      BY <3>1 DEF Get!Engine!NewRequests, Get!Engine!Requests
    <3> QED  BY <2>3, <3>2 DEF Get!Call, Get!Engine!Next
  <2>4. ASSUME NEW c \in Callers, Get!Block(c) PROVE Get!Engine!Next
    BY <2>1, <2>4 DEF Get!Block, Get!Engine!Next, Get!Engine!Requests
  <2>5. ASSUME NEW c \in Callers, Get!End(c) PROVE Get!Engine!Next
    <3>1. PICK why \in Get!Engine!Reasons : Get!Engine!End(c, why, {})
      BY <2>5 DEF Get!End, Get!Refused, Get!Complete, Get!Failed, Get!Engine!Reasons
    <3> QED  BY <2>1, <3>1 DEF Get!Engine!Next, Get!Engine!Requests
  <2>6. ASSUME NEW c \in Callers, Get!Return(c) PROVE UNCHANGED <<link, fate, seen>>
    BY <2>6 DEF Get!Return
  <2> QED  BY <2>2, <2>3, <2>4, <2>5, <2>6, CallsStepKinds
<1>3. CallsSpec => []GetInv
  BY CallsInvariant, PTL
<1> QED  BY <1>1, <1>2, <1>3, PTL DEF CallsSpec, Get!Engine!Spec

\* golioth_coap_req_sync: as long as the engine may call golioth_req_sync_cb, the
\* caller waits in the frame its sync_data, prealloc_data and buffer are in.
THEOREM FrameOutlives == CallsSpec => []StackLive
<1>1. GetInv => StackLive
  BY CallerFacts DEF FrameInv, GetTypeOK, StackLive, Get!StackLive
<1> QED  BY <1>1, CallsInvariant, PTL

\* golioth_lightdb_get_prealloc_cb and golioth_req_sync_cb: the buffer is never
\* overrun, and a caller with a large enough buffer is told the truth about it.
THEOREM BufferFaithful == CallsSpec => []GetFaithful
<1>1. GetInv => GetFaithful
  <2> SUFFICES ASSUME GetInv, NEW c \in Callers
               PROVE  /\ stored[c] \subseteq 0 .. Capacity[c] - 1
                      /\ getter[c] = "returned" /\ NBlocks[c] <= Capacity[c] =>
                           /\ ret[c] = "ok" <=> fate[c] = "ok"
                           /\ ret[c] = "ok" => /\ stored[c] = 0 .. NBlocks[c] - 1
                                               /\ len[c] = NBlocks[c]
    BY DEF GetFaithful, Get!GetFaithful
  <2>1. FrameInv(c) /\ BufferInv(c) /\ NBlocks[c] \in Nat /\ Capacity[c] \in Nat
    BY CallerFacts
  <2>2. stored[c] \subseteq 0 .. Capacity[c] - 1
    BY <2>1 DEF BufferInv
  <2>3. ASSUME getter[c] = "returned", NBlocks[c] <= Capacity[c]
        PROVE  /\ ret[c] = "ok" <=> fate[c] = "ok"
               /\ ret[c] = "ok" => stored[c] = 0 .. NBlocks[c] - 1 /\ len[c] = NBlocks[c]
    <3>1. fate[c] # "refused"
      BY <2>1, <2>3 DEF BufferInv
    <3>2. ret[c] = "ok" <=> fate[c] = "ok"
      BY <2>1, <2>3, <3>1 DEF FrameInv
    <3> QED  BY <2>1, <2>3, <3>2 DEF BufferInv
  <2> QED  BY <2>2, <2>3
<1> QED  BY <1>1, CallsInvariant, PTL

\* golioth_rpc_register and rpc_find_and_call: a method whose registration returned
\* before the call came is found, whoever registers what meanwhile.
THEOREM RegisteredFound == CallsSpec => []FindsRegistered
<1>1. RpcInv => FindsRegistered
  BY DEF RpcInv
<1> QED  BY <1>1, CallsInvariant, PTL

\* rpc_find_and_call: the callback of a name is the one that was registered first,
\* for ever.
THEOREM CallbackStable == CallsSpec => []SameCallback
<1>1. RpcInv => SameCallback
  <2> SUFFICES ASSUME RpcInv, NEW n \in Names PROVE Cardinality(served[n]) <= 1
    BY DEF SameCallback
  <2>1. ASSUME NEW c \in served[n], NEW d \in served[n] PROVE c = d
    <3>1. PICK i \in 1 .. num : FirstFor(n, i) /\ methods[i].callback = c
      BY DEF RpcInv, TableInv
    <3>2. PICK j \in 1 .. num : FirstFor(n, j) /\ methods[j].callback = d
      BY DEF RpcInv, TableInv
    <3>3. i = j
      BY <3>1, <3>2 DEF FirstFor
    <3> QED  BY <3>1, <3>2, <3>3
  <2>2. CASE served[n] = {}
    BY <2>2, FS_EmptySet
  <2>3. CASE served[n] # {}
    <3>1. PICK c : c \in served[n]
      BY <2>3
    <3>2. served[n] = {c}
      BY <2>1, <3>1
    <3> QED  BY <3>2, FS_Singleton
  <2> QED  BY <2>2, <2>3
<1> QED  BY <1>1, CallsInvariant, PTL
=============================================================================
