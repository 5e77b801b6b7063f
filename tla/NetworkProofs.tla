---------------------------- MODULE NetworkProofs ----------------------------
(***************************************************************************)
(* Proofs about what lies between the client and the network: the offload  *)
(* poll wrapper, for any number of threads, contexts and descriptors, and  *)
(* the Wi-Fi manager, for any number of management events under way.       *)
(***************************************************************************)
EXTENDS PollWrapper, WifiManager, SequenceTheorems, TLAPS

-----------------------------------------------------------------------------
(* The poll wrapper.                                                       *)

\* Thread t was given context c and has not given it up.
Unwrapped == {"none", "raw", "refused"}
Owns(t, c) == pc[t] \notin Unwrapped /\ ctx[t] = c

WrapperTypeOK ==
  /\ pc \in [Threads -> Unwrapped \union
                        {"open", "waiting", "returned", "cancelled", "closing"}]
  /\ DOMAIN ctx = Threads
  /\ \A t \in Threads : pc[t] \notin Unwrapped => ctx[t] \in Contexts
  /\ used \in [Contexts -> BOOLEAN] /\ queued \in [Contexts -> BOOLEAN]
  /\ DOMAIN fd = Contexts /\ DOMAIN target = Contexts
  /\ worker \in [Contexts -> {"idle", "started", "polling", "polled", "raised"}]

\* Inductive: a context is in use while one thread has it, only then is its worker
\* queued or running, on that thread's socket, and while the thread closes it no
\* longer queued.
HomeInv ==
  /\ WrapperTypeOK
  /\ \A c \in Contexts : used[c] = TRUE <=> \E t \in Threads : Owns(t, c)
  /\ \A t, u \in Threads, c \in Contexts : Owns(t, c) /\ Owns(u, c) => t = u
  /\ \A t \in Threads : pc[t] \in {"cancelled", "closing"} => queued[ctx[t]] = FALSE
  /\ \A c \in Contexts : queued[c] = TRUE \/ worker[c] # "idle" => used[c] = TRUE
  /\ \A c \in Contexts : worker[c] # "idle" => target[c] = fd[c]

LEMMA HomeInit == WrapperInit => HomeInv
<1> SUFFICES ASSUME WrapperInit PROVE HomeInv
  OBVIOUS
<1>1. /\ pc = [t \in Threads |-> "none"] /\ ctx = [t \in Threads |-> None]
      /\ used = [c \in Contexts |-> FALSE] /\ fd = [c \in Contexts |-> None]
      /\ queued = [c \in Contexts |-> FALSE] /\ worker = [c \in Contexts |-> "idle"]
      /\ target = [c \in Contexts |-> None]
  BY DEF WrapperInit
<1>2. /\ used \in [Contexts -> BOOLEAN] /\ queued \in [Contexts -> BOOLEAN]
      /\ \A c \in Contexts : used[c] = FALSE /\ queued[c] = FALSE /\ worker[c] = "idle"
      /\ \A t \in Threads : pc[t] = "none"
  BY <1>1
<1>3. WrapperTypeOK
  BY <1>1, <1>2 DEF Unwrapped, WrapperTypeOK
<1> QED  BY <1>2, <1>3 DEF HomeInv, Unwrapped, Owns

\* A thread goes on with the socket it has; its work item may be queued, or taken
\* from the queue for good.
LEMMA ThreadGoesOn ==
  ASSUME HomeInv, NEW t \in Threads, NEW p, pc' = [pc EXCEPT ![t] = p],
         UNCHANGED <<ctx, used, fd, worker, target>>,
         \/ pc[t] \in Unwrapped /\ p \in Unwrapped /\ UNCHANGED queued
         \/ pc[t] = "open" /\ p = "waiting" /\ queued' = [queued EXCEPT ![ctx[t]] = TRUE]
         \/ pc[t] \in {"waiting", "returned"} /\ p \in {"returned", "open"} /\ UNCHANGED queued
         \/ pc[t] = "open" /\ p = "cancelled" /\ queued' = [queued EXCEPT ![ctx[t]] = FALSE]
  PROVE  HomeInv'
<1>1. WrapperTypeOK /\ \A u \in Threads : pc'[u] = IF u = t THEN p ELSE pc[u]
  BY DEF HomeInv, Unwrapped, WrapperTypeOK
<1>2. pc[t] \notin Unwrapped => ctx[t] \in Contexts /\ Owns(t, ctx[t]) /\ used[ctx[t]] = TRUE
  BY <1>1 DEF HomeInv, Unwrapped, WrapperTypeOK, Owns
<1>3. queued' \in [Contexts -> BOOLEAN]
  BY <1>1, <1>2 DEF Unwrapped, WrapperTypeOK
<1>4. WrapperTypeOK'
  BY <1>1, <1>3 DEF Unwrapped, WrapperTypeOK
<1>5. \A u \in Threads, c \in Contexts : Owns(u, c)' <=> Owns(u, c)
  BY <1>1 DEF Unwrapped, Owns
<1>6. \A u \in Threads : pc'[u] \in {"cancelled", "closing"} => queued'[ctx[u]] = FALSE
  <2> SUFFICES ASSUME NEW u \in Threads, pc'[u] \in {"cancelled", "closing"}
               PROVE  queued'[ctx[u]] = FALSE
    OBVIOUS
  <2>1. CASE u = t
    BY <1>1, <1>2, <2>1 DEF Unwrapped, WrapperTypeOK
  <2>2. CASE u # t
    <3>1. pc[u] \in {"cancelled", "closing"} /\ queued[ctx[u]] = FALSE /\ Owns(u, ctx[u])
          /\ ctx[u] \in Contexts
      BY <1>1, <2>2 DEF HomeInv, Unwrapped, WrapperTypeOK, Owns
    <3>2. pc[t] \notin Unwrapped => ctx[t] # ctx[u]
      BY <1>2, <2>2, <3>1 DEF HomeInv
    <3> QED  BY <1>1, <1>2, <3>1, <3>2 DEF Unwrapped, WrapperTypeOK
  <2> QED  BY <2>1, <2>2
<1>7. \A c \in Contexts : queued'[c] = TRUE => queued[c] = TRUE \/ used[c] = TRUE
  BY <1>1, <1>2 DEF Unwrapped, WrapperTypeOK
<1> QED  BY <1>4, <1>5, <1>6, <1>7 DEF HomeInv

LEMMA WrapKeepsHome ==
  ASSUME HomeInv, NEW t \in Threads, Wrap(t)
  PROVE  HomeInv'
<1>1. PICK c \in Contexts :
        /\ ~used[c] /\ used' = [used EXCEPT ![c] = TRUE]
        /\ fd' = [fd EXCEPT ![c] = sock[t]] /\ ctx' = [ctx EXCEPT ![t] = c]
  BY DEF Wrap
<1>2. /\ pc[t] = "raw" /\ pc' = [pc EXCEPT ![t] = "open"]
      /\ UNCHANGED <<queued, worker, target>>
  BY DEF Wrap, work, poll, sockets
<1>3. /\ WrapperTypeOK
      /\ \A u \in Threads : /\ pc'[u] = IF u = t THEN "open" ELSE pc[u]
                            /\ ctx'[u] = IF u = t THEN c ELSE ctx[u]
      /\ \A d \in Contexts : /\ used'[d] = IF d = c THEN TRUE ELSE used[d]
                             /\ d # c => fd'[d] = fd[d]
  BY <1>1, <1>2 DEF HomeInv, Unwrapped, WrapperTypeOK
<1>4. used[c] = FALSE /\ queued[c] = FALSE /\ worker[c] = "idle"
  BY <1>1, <1>3 DEF HomeInv, Unwrapped, WrapperTypeOK
<1>5. WrapperTypeOK'
  BY <1>1, <1>2, <1>3 DEF Unwrapped, WrapperTypeOK
<1>6. \A u \in Threads, d \in Contexts :
        Owns(u, d)' <=> (Owns(u, d) \/ (u = t /\ d = c))
  BY <1>2, <1>3 DEF Unwrapped, Owns
<1>7. \A u \in Threads : ~Owns(u, c)
  BY <1>4 DEF HomeInv
<1>8. \A d \in Contexts : used'[d] = TRUE <=> \E u \in Threads : Owns(u, d)'
  BY <1>3, <1>6 DEF HomeInv
<1>9. \A u, v \in Threads, d \in Contexts : Owns(u, d)' /\ Owns(v, d)' => u = v
  BY <1>6, <1>7 DEF HomeInv
<1>10. \A u \in Threads : pc'[u] \in {"cancelled", "closing"} => queued'[ctx'[u]] = FALSE
  BY <1>2, <1>3 DEF HomeInv
<1>11. \A d \in Contexts : queued'[d] = TRUE \/ worker'[d] # "idle" => used'[d] = TRUE
  BY <1>2, <1>3 DEF HomeInv
<1>12. \A d \in Contexts : worker'[d] # "idle" => target'[d] = fd'[d]
  BY <1>2, <1>3, <1>4 DEF HomeInv
<1> QED  BY <1>5, <1>8, <1>9, <1>10, <1>11, <1>12 DEF HomeInv

\* The worker may be in any state, and only its poll of this socket ends.
LEMMA CloseSocketKeepsHome ==
  ASSUME HomeInv, NEW t \in Threads, CloseSocket(t)
  PROVE  HomeInv'
<1>1. /\ pc[t] = "cancelled" /\ pc' = [pc EXCEPT ![t] = "closing"]
      /\ UNCHANGED <<ctx, used, fd, queued, target>>
      /\ worker' = [c \in Contexts |->
                      IF worker[c] = "polling" /\ target[c] = sock[t] THEN "polled"
                                                                      ELSE worker[c]]
  BY DEF CloseSocket, contexts, poll
<1>2. /\ WrapperTypeOK
      /\ \A u \in Threads : pc'[u] = IF u = t THEN "closing" ELSE pc[u]
      /\ \A c \in Contexts : worker'[c] # "idle" <=> worker[c] # "idle"
  BY <1>1 DEF HomeInv, Unwrapped, WrapperTypeOK
<1>3. WrapperTypeOK'
  BY <1>1, <1>2 DEF Unwrapped, WrapperTypeOK
<1>4. \A u \in Threads, c \in Contexts : Owns(u, c)' <=> Owns(u, c)
  BY <1>1, <1>2 DEF Unwrapped, Owns
<1>5. \A u \in Threads : pc'[u] \in {"cancelled", "closing"} => queued'[ctx'[u]] = FALSE
  BY <1>1, <1>2 DEF HomeInv
<1> QED  BY <1>1, <1>2, <1>3, <1>4, <1>5 DEF HomeInv

\* The context is given up: its worker is idle and nothing queues it again.
LEMMA CloseEndKeepsHome ==
  ASSUME HomeInv, NEW t \in Threads, CloseEnd(t)
  PROVE  HomeInv'
<1> DEFINE c == ctx[t]
<1>1. /\ pc[t] = "closing" /\ pc' = [pc EXCEPT ![t] = "none"] /\ worker[c] = "idle"
      /\ ctx' = [ctx EXCEPT ![t] = None] /\ UNCHANGED <<queued, worker, target>>
      /\ used' = [used EXCEPT ![c] = FALSE] /\ fd' = [fd EXCEPT ![c] = None]
  BY DEF CloseEnd, Awaited, Freed, work
<1>2. WrapperTypeOK /\ c \in Contexts /\ queued[c] = FALSE /\ Owns(t, c)
  BY <1>1 DEF HomeInv, Unwrapped, WrapperTypeOK, Owns
<1> HIDE DEF c
<1>3. /\ \A u \in Threads : /\ pc'[u] = IF u = t THEN "none" ELSE pc[u]
                            /\ u # t => ctx'[u] = ctx[u]
      /\ \A d \in Contexts : /\ used'[d] = IF d = c THEN FALSE ELSE used[d]
                             /\ d # c => fd'[d] = fd[d]
  BY <1>1, <1>2 DEF Unwrapped, WrapperTypeOK
<1>4. WrapperTypeOK'
  BY <1>1, <1>2, <1>3 DEF Unwrapped, WrapperTypeOK
<1>5. \A u \in Threads, d \in Contexts : Owns(u, d)' <=> (Owns(u, d) /\ u # t)
  BY <1>3 DEF Unwrapped, Owns
<1>6. \A d \in Contexts : used'[d] = TRUE <=> \E u \in Threads : Owns(u, d)'
  <2> SUFFICES ASSUME NEW d \in Contexts
               PROVE  used'[d] = TRUE <=> \E u \in Threads : Owns(u, d)'
    OBVIOUS
  <2>1. CASE d = c
    BY <1>2, <1>3, <1>5, <2>1 DEF HomeInv
  <2>2. CASE d # c
    <3>1. ~Owns(t, d)
      BY <1>2, <2>2 DEF Unwrapped, Owns
    <3> QED  BY <1>3, <1>5, <2>2, <3>1 DEF HomeInv
  <2> QED  BY <2>1, <2>2
<1>7. \A u, v \in Threads, d \in Contexts : Owns(u, d)' /\ Owns(v, d)' => u = v
  BY <1>5 DEF HomeInv
<1>8. \A u \in Threads : pc'[u] \in {"cancelled", "closing"} => queued'[ctx'[u]] = FALSE
  BY <1>1, <1>3 DEF HomeInv
<1>9. \A d \in Contexts : queued'[d] = TRUE \/ worker'[d] # "idle" => used'[d] = TRUE
  BY <1>1, <1>2, <1>3 DEF HomeInv
<1>10. \A d \in Contexts : worker'[d] # "idle" => target'[d] = fd'[d]
  BY <1>1, <1>3 DEF HomeInv
<1> QED  BY <1>4, <1>6, <1>7, <1>8, <1>9, <1>10 DEF HomeInv

\* The worker starts only when queued, with the socket of its context, and keeps it
\* until it ends.
LEMMA WorkerKeepsHome ==
  ASSUME HomeInv, NEW c \in Contexts, Worker(c)
  PROVE  HomeInv'
<1>1. UNCHANGED <<pc, ctx, used, fd>>
  BY DEF Worker, WorkerStart, WorkerPoll, WorkerWakes,
         WorkerRaise, WorkerEnd, threads, contexts
<1>2. WrapperTypeOK
  BY DEF HomeInv
<1>3. PICK w \in {"idle", "started", "polling", "polled", "raised"} :
        worker' = [worker EXCEPT ![c] = w]
  BY DEF Worker, WorkerStart, WorkerPoll, WorkerWakes,
         WorkerRaise, WorkerEnd
<1>4. \/ /\ queued[c] /\ queued' = [queued EXCEPT ![c] = FALSE]
         /\ target' = [target EXCEPT ![c] = fd[c]]
      \/ UNCHANGED <<queued, target>> /\ worker[c] # "idle"
      \/ /\ UNCHANGED queued /\ target' = [target EXCEPT ![c] = None]
         /\ worker' = [worker EXCEPT ![c] = "idle"]
  BY DEF Worker, WorkerStart, WorkerPoll, WorkerWakes,
         WorkerRaise, WorkerEnd
<1>5. WrapperTypeOK'
  BY <1>1, <1>2, <1>3, <1>4 DEF Unwrapped, WrapperTypeOK
<1>6. \A u \in Threads, d \in Contexts : Owns(u, d)' <=> Owns(u, d)
  BY <1>1 DEF Unwrapped, Owns
<1>7. /\ \A d \in Contexts : queued'[d] = TRUE => queued[d] = TRUE
      /\ \A d \in Contexts : d # c => worker'[d] = worker[d] /\ target'[d] = target[d]
      /\ worker'[c] # "idle" => (queued[c] = TRUE \/ worker[c] # "idle")
      /\ worker'[c] # "idle" => target'[c] = fd[c]
  BY <1>2, <1>3, <1>4 DEF HomeInv, Unwrapped, WrapperTypeOK
<1>8. \A u \in Threads : pc[u] \in {"cancelled", "closing"} => queued'[ctx[u]] = FALSE
  BY <1>2, <1>5, <1>7 DEF HomeInv, Unwrapped, WrapperTypeOK
<1>9. \A d \in Contexts : queued'[d] = TRUE \/ worker'[d] # "idle" => used[d] = TRUE
  BY <1>7 DEF HomeInv
<1>10. \A d \in Contexts : worker'[d] # "idle" => target'[d] = fd[d]
  BY <1>7 DEF HomeInv
<1> QED  BY <1>1, <1>5, <1>6, <1>8, <1>9, <1>10 DEF HomeInv

LEMMA HomeStep == HomeInv /\ [WrapperNext]_wrapperVars => HomeInv'
<1> SUFFICES ASSUME HomeInv, [WrapperNext]_wrapperVars PROVE HomeInv'
  OBVIOUS
<1>1. CASE UNCHANGED <<pc, ctx, used, fd, queued, worker, target>>
  BY <1>1 DEF HomeInv, Unwrapped, WrapperTypeOK, Owns
<1>2. CASE UNCHANGED wrapperVars
  BY <1>1, <1>2 DEF wrapperVars, threads, contexts, work
<1>3. ASSUME NEW t \in Threads, Socket(t) \/ WrapFails(t) \/ CloseRefused(t)
      PROVE  HomeInv'
  <2>1. PICK p \in Unwrapped : pc' = [pc EXCEPT ![t] = p]
    BY <1>3 DEF Socket, WrapFails, CloseRefused, Unwrapped
  <2>2. pc[t] \in Unwrapped /\ UNCHANGED <<ctx, used, fd, queued, worker, target>>
    BY <1>3 DEF Socket, WrapFails, CloseRefused, contexts, work, Unwrapped
  <2> QED  BY <2>1, <2>2, ThreadGoesOn
<1>4. ASSUME NEW t \in Threads, PollPrepare(t) PROVE HomeInv'
  BY <1>4, ThreadGoesOn DEF PollPrepare, Submitted, contexts
<1>5. ASSUME NEW t \in Threads, Signalled(t) \/ OtherReady(t) PROVE HomeInv'
  BY <1>5, ThreadGoesOn
     DEF Signalled, OtherReady, contexts, work
<1>6. ASSUME NEW t \in Threads, PollUpdate(t) PROVE HomeInv'
  BY <1>6, ThreadGoesOn DEF PollUpdate, contexts, work
<1>7. ASSUME NEW t \in Threads, CloseBegin(t) PROVE HomeInv'
  BY <1>7, ThreadGoesOn DEF CloseBegin, contexts
<1>8. ASSUME NEW t \in Threads, Arrive(t) PROVE HomeInv'
  BY <1>1, <1>8 DEF Arrive, threads, contexts, work
<1> QED
  BY <1>2, <1>3, <1>4, <1>5, <1>6, <1>7, <1>8, WrapKeepsHome, CloseSocketKeepsHome,
     CloseEndKeepsHome, WorkerKeepsHome
     DEF WrapperNext, Close

\* The invariant: who has a context, and when its worker may be queued or running.
THEOREM WrapperInvariant == WrapperSpec => []HomeInv
BY HomeInit, HomeStep, PTL DEF WrapperSpec

\* A context changes hands only when its worker is idle and nothing has queued it.
THEOREM WorkerNeverStray == WrapperSpec => []WorkerStaysHome
<1>1. HomeInv => WorkerStaysHome
  BY DEF HomeInv, Unwrapped, WrapperTypeOK, WorkerStaysHome
<1> QED  BY <1>1, WrapperInvariant, PTL

-----------------------------------------------------------------------------
(* The Wi-Fi manager.                                                      *)

Bits == {"conn", "ip"}
Raised == {"joined", "failed", "lost", "addr_add", "addr_del"}

\* What a management event makes of the bits of the connection and the address.
Carried(bits, e) ==
  CASE e = "joined" -> bits \union {"conn"}
    [] e \in {"failed", "lost"} -> {}
    [] e = "addr_add" -> bits \union {"ip"}
    [] e = "addr_del" -> bits \ {"ip"}

\* The bits before and after each event of m, delivered one by one: there is never
\* an address without a connection.
Deliveries(m, bits, f) ==
  /\ f \in [0 .. Len(m) -> SUBSET Bits] /\ f[0] = bits
  /\ \A k \in 1 .. Len(m) : f[k] = Carried(f[k - 1], m[k])
  /\ \A k \in 0 .. Len(m) : "ip" \in f[k] => "conn" \in f[k]

Leads(m, from, to) ==
  \E f \in [0 .. Len(m) -> SUBSET Bits] : Deliveries(m, from, f) /\ f[Len(m)] = to

\* The bits of the driver's state; what is raised and not delivered leads to them.
Reached == {b \in Bits : (b = "conn" /\ link = "up") \/ (b = "ip" /\ addr = TRUE)}

DriverInv ==
  /\ mgmt \in Seq(Raised) /\ link \in {"down", "joining", "up"} /\ addr \in BOOLEAN
  /\ Leads(mgmt, net \intersect Bits, Reached)

Items == {"net", "event"}
Has(q, item) == \E k \in 1 .. Len(q) : q[k] = item
\* The work queue: each of the two items is in it at most once.
Queued(q) == q \in Seq(Items) /\ \A j, k \in 1 .. Len(q) : q[j] = q[k] => j = k

\* The work queue's thread, before the first request to connect and after.
StartInv ==
  state \in {"IDL", "LUP"} =>
    /\ link = "down" /\ mgmt = <<>> /\ net = {} /\ old = {} /\ ~Has(queue, "net")
    /\ step \in {"idle", "check"}
    /\ Has(queue, "event") => \/ event = "start"
                              \/ (event = "lower_up" /\ state = "LUP")

\* The event in the slot, once there is a connection to look after.
SlotInv ==
  Has(queue, "event") /\ state \in {"CON", "RDY"} =>
    \/ (event = "ip_add" /\ "ip" \in old)
    \/ (event \in {"ip_del", "disconnected", "connected"} /\ "ip" \notin old)

\* What net_mgmt_event_handle has read and not yet entered in net_state_old.
SeenInv ==
  /\ step = "changed" => state \in {"CON", "RDY"} /\ ("ip" \in seen => "conn" \in seen)
  /\ ~Has(queue, "net") => net = IF step = "changed" THEN seen ELSE old

\* An address makes the manager READY; READY may be left without one, where
\* "connected" overwrote "disconnected", but never without a connection.
ReadyInv ==
  /\ ~Has(queue, "event") => /\ "ip" \in old => state = "RDY"
                             /\ state = "RDY" => "conn" \in old
  /\ state = "RDY" /\ Has(queue, "event") /\ event = "connected" => "conn" \in old

ManagerInv ==
  /\ Queued(queue) /\ state \in {"IDL", "LUP", "CON", "RDY"}
  /\ step \in {"idle", "changed", "check", "connect", "request", "refused", "already"}
  /\ step \notin {"idle", "changed"} => ~Has(queue, "event") /\ state # "RDY"
  /\ step = "check" => state = "LUP"
  /\ "ip" \in old => "conn" \in old
  /\ StartInv /\ SlotInv /\ SeenInv /\ ReadyInv

WifiInv == DriverInv /\ ManagerInv

LEMMA WithItem ==
  ASSUME NEW q, Queued(q), NEW item \in Items
  PROVE  /\ Queued(With(q, item)) /\ Has(With(q, item), item)
         /\ \A other \in Items \ {item} : Has(With(q, item), other) <=> Has(q, other)
         /\ Head(With(q, item)) = IF q = <<>> THEN item ELSE Head(q)
<1>1. q \in Seq(Items) /\ Len(q) \in Nat /\ \A k \in 1 .. Len(q) : q[k] \in Items
  BY DEF Queued
<1>2. CASE Has(q, item)
  <2>1. With(q, item) = q /\ q # <<>>
    BY <1>1, <1>2 DEF With, Contains, Has
  <2> QED  BY <1>2, <2>1
<1>3. CASE ~Has(q, item)
  <2> DEFINE r == Append(q, item)
             n == Len(q)
  <2>1. With(q, item) = r
    BY <1>3 DEF With, Contains, Has
  <2>2. /\ r \in Seq(Items) /\ Len(r) = n + 1 /\ n \in Nat /\ r[n + 1] = item
        /\ \A k \in 1 .. n : r[k] = q[k] /\ q[k] # item
    BY <1>1, <1>3 DEF Has
  <2>3. Head(r) = IF q = <<>> THEN item ELSE Head(q)
    BY <1>1
  <2> HIDE DEF r, n
  <2>4. Queued(r)
    <3>1. \A j, k \in 1 .. n + 1 : r[j] = r[k] => j = k
      BY <2>2 DEF Queued, n
    <3> QED  BY <2>2, <3>1 DEF Queued
  <2>5. Has(r, item) /\ \A other \in Items \ {item} : Has(r, other) <=> Has(q, other)
    BY <2>2 DEF Has, n
  <2> QED  BY <2>1, <2>3, <2>4, <2>5
<1> QED  BY <1>2, <1>3

LEMMA Taken ==
  ASSUME NEW q, Queued(q), q # <<>>
  PROVE  /\ Queued(Tail(q)) /\ Head(q) \in Items /\ Has(q, Head(q)) /\ ~Has(Tail(q), Head(q))
         /\ \A other \in Items \ {Head(q)} : Has(Tail(q), other) <=> Has(q, other)
<1> DEFINE r == Tail(q)
           n == Len(q)
<1>1. /\ q \in Seq(Items) /\ n \in Nat \ {0} /\ Head(q) = q[1] /\ q[1] \in Items
      /\ r \in Seq(Items) /\ Len(r) = n - 1 /\ \A k \in 1 .. n - 1 : r[k] = q[k + 1]
      /\ \A j, k \in 1 .. n : q[j] = q[k] => j = k
  BY DEF Queued
<1> HIDE DEF n, r
<1>2. Queued(r)
  <2>1. \A j, k \in 1 .. n - 1 : r[j] = r[k] => j = k
    BY <1>1
  <2> QED  BY <1>1, <2>1 DEF Queued
<1>3. Has(q, q[1]) /\ ~Has(r, q[1])
  BY <1>1 DEF Has, n
<1>4. ASSUME NEW other \in Items \ {q[1]} PROVE Has(r, other) <=> Has(q, other)
  <2>1. ASSUME Has(r, other) PROVE Has(q, other)
    <3>1. PICK k \in 1 .. n - 1 : r[k] = other
      BY <1>1, <2>1 DEF Has
    <3>2. k + 1 \in 1 .. n /\ q[k + 1] = other
      BY <1>1, <3>1
    <3> QED  BY <3>2 DEF Has, n
  <2>2. ASSUME Has(q, other) PROVE Has(r, other)
    <3>1. PICK k \in 1 .. n : q[k] = other
      BY <2>2 DEF Has, n
    <3>2. k # 1
      BY <3>1
    <3>3. k - 1 \in 1 .. n - 1 /\ (k - 1) + 1 = k
      BY <1>1, <3>2
    <3>4. r[k - 1] = other
      BY <1>1, <3>1, <3>3
    <3> QED  BY <1>1, <3>3, <3>4 DEF Has
  <2> QED  BY <2>1, <2>2
<1> QED  BY <1>1, <1>2, <1>3, <1>4 DEF r

\* One event more under way: what it makes of the bits is added at the end.
LEMMA OneMore ==
  ASSUME NEW m \in Seq(Raised), NEW e \in Raised, NEW bits, NEW to, Leads(m, bits, to),
         e = "addr_add" => "conn" \in to
  PROVE  Append(m, e) \in Seq(Raised) /\ Leads(Append(m, e), bits, Carried(to, e))
<1> PICK f \in [0 .. Len(m) -> SUBSET Bits] : Deliveries(m, bits, f) /\ f[Len(m)] = to
  BY DEF Leads
<1> DEFINE n == Len(m) + 1
           g == [k \in 0 .. n |-> IF k = n THEN Carried(f[Len(m)], e) ELSE f[k]]
           l == Append(m, e)
<1>1. n \in Nat \ {0} /\ Len(m) = n - 1 /\ Len(m) \in Nat
  OBVIOUS
<1>2. l \in Seq(Raised) /\ Len(l) = n /\ l[n] = e /\ \A k \in 1 .. n - 1 : l[k] = m[k]
  OBVIOUS
<1>3. /\ f \in [0 .. n - 1 -> SUBSET Bits] /\ f[0] = bits
      /\ \A k \in 1 .. n - 1 : f[k] = Carried(f[k - 1], m[k])
      /\ \A k \in 0 .. n - 1 : "ip" \in f[k] => "conn" \in f[k]
  BY <1>1 DEF Deliveries
<1>4. f[Len(m)] \in SUBSET Bits /\ ("ip" \in f[Len(m)] => "conn" \in f[Len(m)])
  BY <1>1, <1>3
<1>5. /\ Carried(f[Len(m)], e) \in SUBSET Bits
      /\ "ip" \in Carried(f[Len(m)], e) => "conn" \in Carried(f[Len(m)], e)
  BY <1>4 DEF Carried, Raised, Bits
<1>6. /\ g \in [0 .. n -> SUBSET Bits] /\ g[n] = Carried(f[Len(m)], e)
      /\ \A k \in 0 .. n - 1 : g[k] = f[k]
  BY <1>1, <1>3, <1>5
<1> HIDE DEF g, n, l
<1>7. \A k \in 1 .. n : g[k] = Carried(g[k - 1], l[k])
  <2> SUFFICES ASSUME NEW k \in 1 .. n PROVE g[k] = Carried(g[k - 1], l[k])
    OBVIOUS
  <2>1. CASE k = n
    BY <1>1, <1>2, <1>6, <2>1
  <2>2. CASE k # n
    <3>1. k \in 1 .. n - 1 /\ k - 1 \in 0 .. n - 1 /\ k \in 0 .. n - 1
      BY <1>1, <2>2
    <3> QED  BY <1>2, <1>3, <1>6, <3>1
  <2> QED  BY <2>1, <2>2
<1>8. \A k \in 0 .. n : "ip" \in g[k] => "conn" \in g[k]
  <2> SUFFICES ASSUME NEW k \in 0 .. n PROVE "ip" \in g[k] => "conn" \in g[k]
    OBVIOUS
  <2>1. CASE k = n
    BY <1>5, <1>6, <2>1
  <2>2. CASE k # n
    <3>1. k \in 0 .. n - 1
      BY <1>1, <2>2
    <3> QED  BY <1>3, <1>6, <3>1
  <2> QED  BY <2>1, <2>2
<1>9. g[0] = bits
  BY <1>1, <1>3, <1>6
<1>10. Deliveries(l, bits, g)
  BY <1>2, <1>6, <1>7, <1>8, <1>9 DEF Deliveries
<1> QED  BY <1>2, <1>6, <1>10 DEF l, Leads

\* One event delivered: the bits after it are where the others start.
LEMMA OneLess ==
  ASSUME NEW m \in Seq(Raised), m # <<>>, NEW bits, NEW to, Leads(m, bits, to)
  PROVE  /\ Tail(m) \in Seq(Raised) /\ Head(m) \in Raised
         /\ Leads(Tail(m), Carried(bits, Head(m)), to)
<1> PICK f \in [0 .. Len(m) -> SUBSET Bits] : Deliveries(m, bits, f) /\ f[Len(m)] = to
  BY DEF Leads
<1> DEFINE n == Len(m)
           g == [k \in 0 .. n - 1 |-> f[k + 1]]
           l == Tail(m)
<1>1. n \in Nat \ {0}
  OBVIOUS
<1>2. /\ l \in Seq(Raised) /\ Len(l) = n - 1 /\ Head(m) = m[1] /\ m[1] \in Raised
      /\ \A k \in 1 .. n - 1 : l[k] = m[k + 1]
  OBVIOUS
<1>3. /\ f \in [0 .. n -> SUBSET Bits] /\ f[0] = bits
      /\ \A k \in 1 .. n : f[k] = Carried(f[k - 1], m[k])
      /\ \A k \in 0 .. n : "ip" \in f[k] => "conn" \in f[k]
  BY DEF Deliveries
<1>4. g \in [0 .. n - 1 -> SUBSET Bits] /\ \A k \in 0 .. n - 1 : g[k] = f[k + 1]
  BY <1>1, <1>3
<1> HIDE DEF g, n, l
<1>5. \A k \in 1 .. n - 1 : g[k] = Carried(g[k - 1], l[k])
  <2> SUFFICES ASSUME NEW k \in 1 .. n - 1 PROVE g[k] = Carried(g[k - 1], l[k])
    OBVIOUS
  <2>1. /\ k \in 0 .. n - 1 /\ k - 1 \in 0 .. n - 1 /\ k + 1 \in 1 .. n
        /\ (k + 1) - 1 = k /\ (k - 1) + 1 = k
    BY <1>1
  <2>2. f[k + 1] = Carried(f[k], m[k + 1])
    BY <1>3, <2>1
  <2> QED  BY <1>2, <1>4, <2>1, <2>2
<1>6. ASSUME NEW k \in 0 .. n - 1 PROVE "ip" \in g[k] => "conn" \in g[k]
  <2>1. k + 1 \in 0 .. n /\ g[k] = f[k + 1]
    BY <1>1, <1>4
  <2> QED  BY <1>3, <2>1
<1>7. g[0] = Carried(bits, Head(m))
  <2>1. 0 \in 0 .. n - 1 /\ 0 + 1 = 1 /\ 1 \in 1 .. n /\ 1 - 1 = 0 /\ 0 \in 0 .. n
    BY <1>1
  <2> QED  BY <1>2, <1>3, <1>4, <2>1
<1>8. g[n - 1] = f[n]
  BY <1>1, <1>4
<1>9. Deliveries(l, Carried(bits, Head(m)), g)
  BY <1>2, <1>4, <1>5, <1>6, <1>7 DEF Deliveries
<1> QED  BY <1>2, <1>4, <1>8, <1>9 DEF n, l, Leads

\* net_state never has an address without a connection, and is the driver's state
\* when nothing is under way.
LEMMA NetBits ==
  ASSUME DriverInv
  PROVE  /\ "ip" \in net => "conn" \in net
         /\ mgmt = <<>> => ("ip" \in net <=> addr = TRUE) /\ ("conn" \in net <=> link = "up")
<1>1. PICK f \in [0 .. Len(mgmt) -> SUBSET Bits] :
        Deliveries(mgmt, net \intersect Bits, f) /\ f[Len(mgmt)] = Reached
  BY DEF DriverInv, Leads
<1>2. 0 \in 0 .. Len(mgmt) /\ (mgmt = <<>> => Len(mgmt) = 0)
  BY DEF DriverInv
<1>3. f[0] = net \intersect Bits /\ ("ip" \in f[0] => "conn" \in f[0])
  BY <1>1, <1>2 DEF Deliveries
<1> QED  BY <1>1, <1>2, <1>3 DEF Bits, Reached

-----------------------------------------------------------------------------
(* The driver's part of the invariant.                                     *)

LEMMA DriverStays ==
  ASSUME DriverInv, UNCHANGED <<mgmt, addr>>, net' \intersect Bits = net \intersect Bits,
         link' \in {"down", "joining", "up"}, link' = "up" <=> link = "up"
  PROVE  DriverInv'
<1>1. Reached' = Reached
  BY DEF Reached
<1> QED  BY <1>1 DEF DriverInv

LEMMA DeliverKeepsDriver ==
  ASSUME DriverInv, Deliver
  PROVE  DriverInv'
<1>1. /\ mgmt # <<>> /\ net' = Updated(Head(mgmt)) /\ mgmt' = Tail(mgmt)
      /\ UNCHANGED <<link, addr>>
  BY DEF Deliver, driver
<1>2. Reached' = Reached
  BY <1>1 DEF Reached
<1>3. /\ mgmt' \in Seq(Raised) /\ Head(mgmt) \in Raised
      /\ Leads(mgmt', Carried(net \intersect Bits, Head(mgmt)), Reached)
  BY <1>1, OneLess DEF DriverInv
<1>4. net' \intersect Bits = Carried(net \intersect Bits, Head(mgmt))
  BY <1>1, <1>3 DEF Updated, Carried, Raised, Bits
<1> QED  BY <1>1, <1>2, <1>3, <1>4 DEF DriverInv

\* One event is raised with the change of the driver's state that it reports.
LEMMA RaiseKeepsDriver ==
  ASSUME DriverInv, NEW e \in Raised, Raise(<<e>>), e = "addr_add" => link = "up",
         UNCHANGED net, link' \in {"down", "joining", "up"}, addr' \in BOOLEAN,
         Reached' = Carried(Reached, e)
  PROVE  DriverInv'
<1>1. mgmt' = Append(mgmt, e)
  BY DEF Raise, DriverInv
<1>2. e = "addr_add" => "conn" \in Reached
  BY DEF Reached, Bits
<1>3. mgmt' \in Seq(Raised) /\ Leads(mgmt', net \intersect Bits, Carried(Reached, e))
  BY <1>1, <1>2, OneMore DEF DriverInv
<1> QED  BY <1>3 DEF DriverInv

LEMMA LostKeepsDriver ==
  ASSUME DriverInv, Lost
  PROVE  DriverInv'
<1>1. /\ link = "up" /\ link' = "down" /\ addr' = FALSE /\ net' = net
      /\ Reached' = {}
  BY DEF Lost, Reached
<1>2. CASE addr = FALSE
  <2>1. Raise(<<"lost">>)
    BY <1>2 DEF Lost
  <2>2. Carried(Reached, "lost") = {}
    BY DEF Carried
  <2> QED  BY <1>1, <2>1, <2>2, RaiseKeepsDriver DEF Raised
<1>3. CASE addr = TRUE
  <2>1. PICK d, e \in Raised : /\ {d, e} = {"lost", "addr_del"}
                               /\ mgmt' = mgmt \o <<d, e>>
    BY <1>3 DEF Lost, Raise, Raised
  <2>2. mgmt' = Append(Append(mgmt, d), e)
    BY <2>1 DEF DriverInv
  <2>3. Append(mgmt, d) \in Seq(Raised) /\ d # "addr_add" /\ e # "addr_add"
        /\ Leads(Append(mgmt, d), net \intersect Bits, Carried(Reached, d))
    BY <2>1, OneMore DEF DriverInv
  <2>4. /\ mgmt' \in Seq(Raised)
        /\ Leads(mgmt', net \intersect Bits, Carried(Carried(Reached, d), e))
    BY <2>1, <2>2, <2>3, OneMore
  <2>5. Carried(Carried(Reached, d), e) = {}
    <3>1. CASE d = "lost" /\ e = "addr_del"
      BY <3>1 DEF Carried
    <3>2. CASE d = "addr_del" /\ e = "lost"
      BY <3>2 DEF Carried
    <3> QED  BY <2>1, <3>1, <3>2
  <2> QED  BY <1>1, <2>4, <2>5 DEF DriverInv
<1> QED  BY <1>2, <1>3 DEF DriverInv

LEMMA DriverStep == WifiInv /\ [Next]_vars => DriverInv'
<1> SUFFICES ASSUME WifiInv, [Next]_vars PROVE DriverInv'
  OBVIOUS
<1> USE DEF WifiInv
<1>1. CASE UNCHANGED vars
  BY <1>1, DriverStays DEF vars, driver, DriverInv
<1>2. ASSUME \/ NetUnchanged \/ NetRead \/ NetChanged \/ EventIgnored \/ EventHandled
             \/ CheckLowerUp \/ LowerUp
      PROVE  DriverInv'
  BY <1>2, DriverStays
     DEF NetUnchanged, NetRead, NetChanged, EventIgnored, EventHandled, CheckLowerUp,
         LowerUp, driver, DriverInv
<1>3. CASE SetConnecting
  BY <1>3, DriverStays DEF SetConnecting, Connecting, driver, DriverInv, Bits
<1>4. CASE Request
  BY <1>4, DriverStays DEF Request, DriverInv
<1>5. CASE Answered
  BY <1>5, DriverStays DEF Answered, NotConnecting, driver, DriverInv, Bits
<1>6. CASE Joined
  <2>1. Reached' = Carried(Reached, "joined")
    BY <1>6 DEF Joined, Reached, Carried, Bits
  <2> QED  BY <1>6, <2>1, RaiseKeepsDriver DEF Joined, Raised, DriverInv
<1>7. CASE JoinFails
  <2>1. "conn" \notin Reached /\ "ip" \notin Reached
    <3>1. PICK f \in [0 .. Len(mgmt) -> SUBSET Bits] :
            Deliveries(mgmt, net \intersect Bits, f) /\ f[Len(mgmt)] = Reached
      BY DEF DriverInv, Leads
    <3>2. Len(mgmt) \in 0 .. Len(mgmt)
      BY DEF DriverInv
    <3>3. "ip" \in Reached => "conn" \in Reached
      BY <3>1, <3>2 DEF Deliveries
    <3> QED  BY <1>7, <3>3 DEF JoinFails, Reached
  <2>2. Reached' = Carried(Reached, "failed")
    BY <1>7, <2>1 DEF JoinFails, Reached, Carried, Bits
  <2> QED  BY <1>7, <2>2, RaiseKeepsDriver DEF JoinFails, Raised, DriverInv
<1>8. CASE AddrAdded
  <2>1. Reached' = Carried(Reached, "addr_add")
    BY <1>8 DEF AddrAdded, Reached, Carried, Bits
  <2> QED  BY <1>8, <2>1, RaiseKeepsDriver DEF AddrAdded, Raised, DriverInv
<1>9. CASE AddrRemoved
  <2>1. Reached' = Carried(Reached, "addr_del")
    BY <1>9 DEF AddrRemoved, Reached, Carried, Bits
  <2> QED  BY <1>9, <2>1, RaiseKeepsDriver DEF AddrRemoved, Raised, DriverInv
<1> QED
  BY <1>1, <1>2, <1>3, <1>4, <1>5, <1>6, <1>7, <1>8, <1>9, DeliverKeepsDriver,
     LostKeepsDriver DEF Next, WorkQueue

-----------------------------------------------------------------------------
(* The manager's part.                                                     *)

\* What the state map has for the events that can come.
LEMMA MapEntries ==
  /\ Map["start"]["IDL"] = "LUP" /\ Map["start"]["LUP"] = "WAIT"
  /\ Map["lower_up"]["LUP"] = "CON"
  /\ Map["connected"]["CON"] = "0" /\ Map["connected"]["RDY"] = "0"
  /\ Map["disconnected"]["CON"] = "WAIT" /\ Map["disconnected"]["RDY"] = "CON"
  /\ Map["ip_add"]["CON"] = "RDY" /\ Map["ip_add"]["RDY"] = "0"
  /\ Map["ip_del"]["CON"] = "0" /\ Map["ip_del"]["RDY"] = "CON"
BY DEF Map, Row, States

\* What wifi_event_handle makes of the event in the slot.
LEMMA EventMeans ==
  ASSUME WifiInv, Has(queue, "event")
  PROVE  \/ state = "IDL" /\ event = "start" /\ Map[event][state] = "LUP"
         \/ state = "LUP" /\ event = "start" /\ Map[event][state] = "WAIT"
         \/ state = "LUP" /\ event = "lower_up" /\ Map[event][state] = "CON"
         \/ /\ state = "CON" /\ event \in {"connected", "ip_del"} /\ "ip" \notin old
            /\ Map[event][state] = "0"
         \/ /\ state = "CON" /\ event = "disconnected" /\ "ip" \notin old
            /\ Map[event][state] = "WAIT"
         \/ state = "CON" /\ event = "ip_add" /\ "ip" \in old /\ Map[event][state] = "RDY"
         \/ state = "RDY" /\ event = "ip_add" /\ "ip" \in old /\ Map[event][state] = "0"
         \/ /\ state = "RDY" /\ event \in {"ip_del", "disconnected"} /\ "ip" \notin old
            /\ Map[event][state] = "CON"
         \/ /\ state = "RDY" /\ event = "connected" /\ "ip" \notin old
            /\ Map[event][state] = "0"
BY MapEntries DEF WifiInv, ManagerInv, StartInv, SlotInv

\* The queue after the item that runs was taken from it.
LEMMA ItemTaken ==
  ASSUME WifiInv, queue # <<>>
  PROVE  /\ Queued(Tail(queue)) /\ Has(queue, Head(queue)) /\ Head(queue) \in Items
         /\ Head(queue) = "net" => /\ ~Has(Tail(queue), "net")
                                   /\ Has(Tail(queue), "event") <=> Has(queue, "event")
         /\ Head(queue) = "event" => /\ ~Has(Tail(queue), "event")
                                     /\ Has(Tail(queue), "net") <=> Has(queue, "net")
BY Taken DEF WifiInv, ManagerInv, Items

LEMMA NetUnchangedKeeps ==
  ASSUME WifiInv, NetUnchanged
  PROVE  ManagerInv'
<1>1. /\ queue # <<>> /\ Head(queue) = "net" /\ old = net /\ step = "idle"
      /\ queue' = Tail(queue) /\ UNCHANGED <<net, old, state, event, step, seen, link, mgmt>>
  BY DEF NetUnchanged, manager, driver
<1>2. /\ Queued(queue') /\ ~Has(queue', "net") /\ Has(queue, "net")
      /\ Has(queue', "event") <=> Has(queue, "event")
  BY <1>1, ItemTaken
<1>3. StartInv' /\ SlotInv' /\ SeenInv' /\ ReadyInv'
  BY <1>1, <1>2 DEF WifiInv, ManagerInv, StartInv, SlotInv, SeenInv, ReadyInv
<1> QED  BY <1>1, <1>2, <1>3 DEF WifiInv, ManagerInv

LEMMA NetReadKeeps ==
  ASSUME WifiInv, NetRead
  PROVE  ManagerInv'
<1>1. /\ queue # <<>> /\ Head(queue) = "net" /\ step = "idle"
      /\ queue' = Tail(queue) /\ seen' = net /\ step' = "changed"
      /\ UNCHANGED <<net, old, state, event, link, mgmt>>
  BY DEF NetRead, manager, driver
<1>2. /\ Queued(queue') /\ ~Has(queue', "net") /\ Has(queue, "net")
      /\ Has(queue', "event") <=> Has(queue, "event")
  BY <1>1, ItemTaken
<1>3. state \in {"CON", "RDY"}
  BY <1>2 DEF WifiInv, ManagerInv, StartInv
<1>4. "ip" \in net => "conn" \in net
  BY NetBits DEF WifiInv
<1>5. StartInv' /\ SlotInv' /\ SeenInv' /\ ReadyInv'
  BY <1>1, <1>2, <1>3, <1>4 DEF WifiInv, ManagerInv, StartInv, SlotInv, SeenInv, ReadyInv
<1> QED  BY <1>1, <1>2, <1>5 DEF WifiInv, ManagerInv

\* The slot is overwritten by the event of the bits that net_state_old takes.
LEMMA NetChangedKeeps ==
  ASSUME WifiInv, NetChanged
  PROVE  ManagerInv'
<1>1. /\ step = "changed" /\ step' = "idle" /\ queue' = With(queue, "event")
      /\ event' = Change /\ old' = seen
      /\ UNCHANGED <<net, state, seen, link, mgmt>>
  BY DEF NetChanged, Notify, Handled, driver
<1>2. state \in {"CON", "RDY"} /\ ("ip" \in seen => "conn" \in seen) /\ Queued(queue)
  BY <1>1 DEF WifiInv, ManagerInv, SeenInv
<1>3. /\ Queued(queue') /\ Has(queue', "event")
      /\ Has(queue', "net") <=> Has(queue, "net")
  BY <1>1, <1>2, WithItem DEF Items
<1>4. \/ event' = "ip_add" /\ "ip" \in seen
      \/ event' = "connected" /\ "ip" \notin seen /\ "conn" \in seen
      \/ event' \in {"ip_del", "disconnected"} /\ "ip" \notin seen
  BY <1>1 DEF Change
<1>5. StartInv' /\ SlotInv' /\ SeenInv' /\ ReadyInv'
  BY <1>1, <1>2, <1>3, <1>4
     DEF WifiInv, ManagerInv, StartInv, SlotInv, SeenInv, ReadyInv
<1> QED  BY <1>1, <1>2, <1>3, <1>5 DEF WifiInv, ManagerInv

LEMMA EventIgnoredKeeps ==
  ASSUME WifiInv, EventIgnored
  PROVE  ManagerInv'
<1>1. /\ queue # <<>> /\ Head(queue) = "event" /\ step = "idle"
      /\ Map[event][state] \in {"0", "INV"}
      /\ queue' = Tail(queue) /\ UNCHANGED <<net, old, state, event, step, seen, link, mgmt>>
  BY DEF EventIgnored, manager, driver
<1>2. /\ Queued(queue') /\ ~Has(queue', "event") /\ Has(queue, "event")
      /\ Has(queue', "net") <=> Has(queue, "net")
  BY <1>1, ItemTaken
<1>3. /\ state \in {"CON", "RDY"} /\ ("ip" \in old => state = "RDY")
      /\ state = "RDY" => event \in {"ip_add", "connected"}
  BY <1>1, <1>2, EventMeans
<1>4. state = "RDY" => "conn" \in old
  BY <1>2, <1>3, EventMeans DEF WifiInv, ManagerInv, ReadyInv
<1>5. StartInv' /\ SlotInv' /\ SeenInv' /\ ReadyInv'
  BY <1>1, <1>2, <1>3, <1>4 DEF WifiInv, ManagerInv, StartInv, SlotInv, SeenInv, ReadyInv
<1> QED  BY <1>1, <1>2, <1>3, <1>5 DEF WifiInv, ManagerInv

LEMMA EventHandledKeeps ==
  ASSUME WifiInv, EventHandled
  PROVE  ManagerInv'
<1>1. /\ queue # <<>> /\ Head(queue) = "event" /\ step = "idle"
      /\ Map[event][state] \notin {"0", "INV"}
      /\ state' = (IF Map[event][state] = "WAIT" THEN state ELSE Map[event][state])
      /\ step' = Action(state')
      /\ queue' = Tail(queue) /\ UNCHANGED <<net, old, event, seen, link, mgmt>>
  BY DEF EventHandled, driver
<1>2. /\ Queued(queue') /\ ~Has(queue', "event") /\ Has(queue, "event")
      /\ Has(queue', "net") <=> Has(queue, "net")
  BY <1>1, ItemTaken
<1>3. \/ state \in {"IDL", "LUP"} /\ state' \in {"LUP", "CON"}
      \/ state \in {"CON", "RDY"} /\ state' = "CON" /\ "ip" \notin old
      \/ state = "CON" /\ state' = "RDY" /\ "ip" \in old
  BY <1>1, <1>2, EventMeans
<1>4. \/ state' = "LUP" /\ step' = "check"
      \/ state' = "CON" /\ step' = "connect"
      \/ state' = "RDY" /\ step' = "idle"
  BY <1>1, <1>3 DEF Action
<1>5. state \in {"IDL", "LUP"} => "ip" \notin old
  BY DEF WifiInv, ManagerInv, StartInv
<1>6. StartInv' /\ SlotInv' /\ SeenInv' /\ ReadyInv'
  BY <1>1, <1>2, <1>3, <1>4 DEF WifiInv, ManagerInv, StartInv, SlotInv, SeenInv, ReadyInv
<1> QED  BY <1>1, <1>2, <1>3, <1>4, <1>5, <1>6 DEF WifiInv, ManagerInv

LEMMA CheckLowerUpKeeps ==
  ASSUME WifiInv, CheckLowerUp
  PROVE  ManagerInv'
<1>1. /\ step = "check" /\ step' = "idle" /\ queue' = With(queue, "event")
      /\ event' \in {"lower_up", "start"} /\ UNCHANGED <<net, old, state, seen, link, mgmt>>
  BY DEF CheckLowerUp, Notify, driver
<1>2. state = "LUP" /\ Queued(queue)
  BY <1>1 DEF WifiInv, ManagerInv
<1>3. /\ Queued(queue') /\ Has(queue', "event")
      /\ Has(queue', "net") <=> Has(queue, "net")
  BY <1>1, <1>2, WithItem DEF Items
<1>4. StartInv' /\ SlotInv' /\ SeenInv' /\ ReadyInv'
  BY <1>1, <1>2, <1>3 DEF WifiInv, ManagerInv, StartInv, SlotInv, SeenInv, ReadyInv
<1> QED  BY <1>1, <1>2, <1>3, <1>4 DEF WifiInv, ManagerInv

\* Once it connects, the thread is in CONNECTING and knows of no address.
LEMMA InConnect ==
  ASSUME WifiInv, step \in {"connect", "request", "refused", "already"}
  PROVE  state = "CON" /\ "ip" \notin old /\ ~Has(queue, "event")
BY DEF WifiInv, ManagerInv, StartInv, ReadyInv

LEMMA SetConnectingKeeps ==
  ASSUME WifiInv, SetConnecting
  PROVE  ManagerInv'
<1>1. /\ step = "connect" /\ step' = "request"
      /\ net' = Connecting(net) /\ old' = Connecting(old)
      /\ UNCHANGED <<state, event, queue, seen, link, mgmt>>
  BY DEF SetConnecting, driver
<1>2. state = "CON" /\ ~Has(queue, "event") /\ "ip" \notin old
  BY <1>1, InConnect
<1>3. "ip" \notin old' /\ (net = old => net' = old')
  BY <1>1, <1>2 DEF Connecting
<1>4. StartInv' /\ SlotInv' /\ SeenInv' /\ ReadyInv'
  BY <1>1, <1>2, <1>3 DEF WifiInv, ManagerInv, StartInv, SlotInv, SeenInv, ReadyInv
<1> QED  BY <1>1, <1>2, <1>3, <1>4 DEF WifiInv, ManagerInv

LEMMA RequestKeeps ==
  ASSUME WifiInv, Request
  PROVE  ManagerInv'
<1>1. /\ step = "request" /\ step' \in {"idle", "refused", "already"}
      /\ UNCHANGED <<net, old, state, event, queue, seen, mgmt>>
  BY DEF Request, manager
<1>2. state = "CON" /\ ~Has(queue, "event") /\ "ip" \notin old
  BY <1>1, InConnect
<1>3. StartInv' /\ SlotInv' /\ SeenInv' /\ ReadyInv'
  BY <1>1, <1>2 DEF WifiInv, ManagerInv, StartInv, SlotInv, SeenInv, ReadyInv
<1> QED  BY <1>1, <1>2, <1>3 DEF WifiInv, ManagerInv

LEMMA AnsweredKeeps ==
  ASSUME WifiInv, Answered
  PROVE  ManagerInv'
<1>1. /\ step \in {"already", "refused"} /\ step' = "idle" /\ queue' = With(queue, "event")
      /\ event' \in {"connected", "disconnected"}
      /\ net' = NotConnecting(net) /\ old' = NotConnecting(old)
      /\ UNCHANGED <<state, seen, link, mgmt>>
  BY DEF Answered, Notify, driver
<1>2. state = "CON" /\ "ip" \notin old /\ Queued(queue)
  BY <1>1, InConnect DEF WifiInv, ManagerInv
<1>3. /\ Queued(queue') /\ Has(queue', "event")
      /\ Has(queue', "net") <=> Has(queue, "net")
  BY <1>1, <1>2, WithItem DEF Items
<1>4. "ip" \notin old' /\ (net = old => net' = old')
  BY <1>1, <1>2 DEF NotConnecting
<1>5. StartInv' /\ SlotInv' /\ SeenInv' /\ ReadyInv'
  BY <1>1, <1>2, <1>3, <1>4 DEF WifiInv, ManagerInv, StartInv, SlotInv, SeenInv, ReadyInv
<1> QED  BY <1>1, <1>2, <1>3, <1>4, <1>5 DEF WifiInv, ManagerInv

LEMMA DeliverKeeps ==
  ASSUME WifiInv, Deliver
  PROVE  ManagerInv'
<1>1. /\ mgmt # <<>> /\ queue' = With(queue, "net")
      /\ UNCHANGED <<old, state, event, step, seen, link>>
  BY DEF Deliver, manager, driver
<1>2. state \in {"CON", "RDY"} /\ Queued(queue)
  BY <1>1 DEF WifiInv, ManagerInv, StartInv
<1>3. /\ Queued(queue') /\ Has(queue', "net") /\ (Has(queue', "event") <=> Has(queue, "event"))
      /\ queue # <<>> => Head(queue') = Head(queue)
  BY <1>1, <1>2, WithItem DEF Items
<1>4. Has(queue, "event") => queue # <<>>
  BY DEF Has
<1>5. StartInv' /\ SlotInv' /\ SeenInv' /\ ReadyInv'
  BY <1>1, <1>2, <1>3 DEF WifiInv, ManagerInv, StartInv, SlotInv, SeenInv, ReadyInv
<1> QED  BY <1>1, <1>2, <1>3, <1>4, <1>5 DEF WifiInv, ManagerInv

\* The driver and DHCP leave the manager alone, and do nothing before it has asked.
LEMMA DriverLeavesManager ==
  ASSUME WifiInv, UNCHANGED <<net, old, state, event, queue, step, seen>>,
         UNCHANGED <<link, mgmt>> \/ link # "down"
  PROVE  ManagerInv'
<1>1. StartInv' /\ SlotInv' /\ SeenInv' /\ ReadyInv'
  BY DEF WifiInv, ManagerInv, StartInv, SlotInv, SeenInv, ReadyInv
<1> QED  BY <1>1 DEF WifiInv, ManagerInv

LEMMA ManagerStep == WifiInv /\ [Next]_vars => ManagerInv'
<1> SUFFICES ASSUME WifiInv, [Next]_vars PROVE ManagerInv'
  OBVIOUS
<1>1. addr = TRUE => link = "up"
  <2>1. PICK f \in [0 .. Len(mgmt) -> SUBSET Bits] :
          Deliveries(mgmt, net \intersect Bits, f) /\ f[Len(mgmt)] = Reached
    BY DEF WifiInv, DriverInv, Leads
  <2>2. Len(mgmt) \in 0 .. Len(mgmt)
    BY DEF WifiInv, DriverInv
  <2> QED  BY <2>1, <2>2 DEF Deliveries, Reached, Bits
<1>2. CASE UNCHANGED vars \/ LowerUp
  BY <1>2, DriverLeavesManager DEF vars, LowerUp, manager, driver
<1>3. CASE Joined \/ JoinFails \/ AddrAdded \/ Lost
  BY <1>3, DriverLeavesManager DEF Joined, JoinFails, AddrAdded, Lost, manager
<1>4. CASE AddrRemoved
  BY <1>1, <1>4, DriverLeavesManager DEF AddrRemoved, manager
<1> QED
  BY <1>2, <1>3, <1>4, NetUnchangedKeeps, NetReadKeeps, NetChangedKeeps,
     EventIgnoredKeeps, EventHandledKeeps, CheckLowerUpKeeps, SetConnectingKeeps,
     RequestKeeps, AnsweredKeeps, DeliverKeeps DEF Next, WorkQueue

LEMMA WifiInit == Init => WifiInv
<1> SUFFICES ASSUME Init PROVE WifiInv
  OBVIOUS
<1>1. Queued(queue) /\ Has(queue, "event") /\ ~Has(queue, "net")
  BY DEF Init, Queued, Has, Items
<1>2. ManagerInv
  BY <1>1 DEF Init, ManagerInv, StartInv, SlotInv, SeenInv, ReadyInv
<1>3. Leads(<<>>, {}, {})
  <2> DEFINE f == [k \in 0 .. 0 |-> {}]
  <2>1. f \in [0 .. Len(<<>>) -> SUBSET Bits] /\ Len(<<>>) = 0 /\ f[0] = {}
    OBVIOUS
  <2> HIDE DEF f
  <2>2. Deliveries(<<>>, {}, f)
    BY <2>1 DEF Deliveries
  <2> QED  BY <2>1, <2>2 DEF Leads
<1>4. Reached = {} /\ net \intersect Bits = {}
  BY DEF Init, Reached
<1>5. mgmt = <<>> /\ mgmt \in Seq(Raised) /\ link = "down" /\ addr = FALSE
  BY DEF Init
<1>6. DriverInv
  BY <1>3, <1>4, <1>5 DEF DriverInv
<1> QED  BY <1>2, <1>6 DEF WifiInv

\* The invariant: what is under way leads from what the manager knows to the driver's
\* state, and the event in the slot, or else the state, goes with the last bits seen.
THEOREM WifiInvariant == Spec => []WifiInv
<1>1. WifiInv /\ [Next]_vars => WifiInv'
  BY DriverStep, ManagerStep DEF WifiInv
<1> QED  BY <1>1, WifiInit, PTL DEF Spec

\* ReadyIsConnected for any number of events under way: neither the bits of
\* net_state nor the single slot lose an address, or the loss of the link, when the
\* system comes to rest.
THEOREM RestsAsConnected == Spec => []ReadyIsConnected
<1>1. WifiInv => ReadyIsConnected
  <2> SUFFICES ASSUME WifiInv, Quiet
               PROVE  (addr => state = "RDY") /\ (state = "RDY" => link = "up")
    BY DEF ReadyIsConnected
  <2>1. ~Has(queue, "net") /\ ~Has(queue, "event") /\ step = "idle"
    BY DEF Quiet, Has
  <2>2. net = old /\ ("ip" \in old => state = "RDY") /\ (state = "RDY" => "conn" \in old)
    BY <2>1 DEF WifiInv, ManagerInv, SeenInv, ReadyInv
  <2>3. ("ip" \in net <=> addr = TRUE) /\ ("conn" \in net <=> link = "up") /\ addr \in BOOLEAN
    BY NetBits DEF WifiInv, DriverInv, Quiet
  <2> QED  BY <2>2, <2>3
<1> QED  BY <1>1, WifiInvariant, PTL

\* NoInvalidEvent: no event meets a state that wifi_state_change_map calls invalid.
THEOREM EveryEventIsValid == Spec => []NoInvalidEvent
<1>1. WifiInv => NoInvalidEvent
  <2> SUFFICES ASSUME WifiInv, queue # <<>>, Head(queue) = "event"
               PROVE  Map[event][state] # "INV"
    BY DEF NoInvalidEvent
  <2>1. Has(queue, "event")
    BY ItemTaken
  <2> QED  BY <2>1, EventMeans
<1> QED  BY <1>1, WifiInvariant, PTL
=============================================================================
