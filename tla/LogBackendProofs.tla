-------------------------- MODULE LogBackendProofs --------------------------
(***************************************************************************)
(* Proofs about the client core and the logging backend, for any number of *)
(* descriptors, addresses and messages, and for any text.                  *)
(***************************************************************************)
EXTENDS LogBackend, TLAPS, SequenceTheorems

-----------------------------------------------------------------------------
(* The socket.                                                             *)

\* Where the client thread is in a system call.
Busy == {"handshake", "recv", "send", "send_ping", "send_data", "closing"}

\* golioth_connect has a descriptor; golioth_connect has returned.
Connecting == {"setup", "connect", "handshake", "connected", "abandon"}
Connected == {"up", "recv", "leave", "ack_ping", "ack_data", "send", "send_ping",
              "send_data", "close", "closing", "closed"}

\* Inductive: a thread in a system call has the lock and passed the client's own
\* socket, which is open but for the moment before it is reset.
SockInv ==
  /\ SockTypeOK
  /\ \A t \in Threads : using[t] # NoFd => lock = t /\ using[t] = sock
  /\ using[Client] # NoFd <=> at \in Busy
  /\ at = "closed" => lock = Client
  /\ fd # NoFd <=> at \in Connecting
  /\ at \in Connecting => addrs > 0
  /\ sock # NoFd <=> at \in Connected \union {"handshake", "connected"}
  /\ at \in {"handshake", "connected"} => sock = fd
  /\ \A d \in Fds : files[d] = "client" <=> d = fd \/ (d = sock /\ at # "closed")

\* What a thread that is not the client's does to the client core.
SenderStep(t) ==
  UNCHANGED at /\ (SendBegin(t) \/ SendEnd(t) \/ SendRefused(t))

LEMMA SockInvInit == SockInit => SockInv
BY SockAssumption DEF SockInit, SockInv, SockTypeOK, Busy, Connecting, Connected, Threads

LEMMA SenderKeeps ==
  ASSUME SockInv, NEW t \in Senders, SenderStep(t)
  PROVE  SockInv'
<1>1. t \in Threads /\ t # Client /\ t # NoOne
  BY SockAssumption DEF Threads
<1>2. CASE SendBegin(t)
  <2>1. /\ lock = NoOne /\ lock' = t /\ sock # NoFd /\ using' = [using EXCEPT ![t] = sock]
        /\ UNCHANGED <<sock, addrs, fd, at, files>>
    BY <1>2 DEF SenderStep, SendBegin, Acquire, Enter, connecting
  <2>2. /\ \A u \in Threads : using[u] = NoFd /\ u # NoOne
        /\ using \in [Threads -> Fds \union {NoFd}] /\ sock \in Fds \union {NoFd}
    BY <2>1, SockAssumption DEF SockInv, SockTypeOK, Threads
  <2>3. /\ using' \in [Threads -> Fds \union {NoFd}]
        /\ \A u \in Threads : using'[u] = IF u = t THEN sock ELSE NoFd
    BY <1>1, <2>1, <2>2
  <2>4. /\ at # "closed" /\ Client \in Threads
    BY <1>1, <2>1, <2>2 DEF SockInv, Threads
  <2>5. SockTypeOK'
    BY <1>1, <2>1, <2>3 DEF SockInv, SockTypeOK
  <2> QED  BY <1>1, <2>1, <2>2, <2>3, <2>4, <2>5 DEF SockInv
<1>3. CASE SendEnd(t)
  BY <1>1, <1>3, SockAssumption
     DEF SenderStep, SendEnd, Release, Leave, Enter, connecting, SockInv, SockTypeOK
<1>4. CASE SendRefused(t)
  BY <1>4 DEF SenderStep, SendRefused, connecting, SockInv, SockTypeOK
<1> QED  BY <1>2, <1>3, <1>4 DEF SenderStep

LEMMA OthersKeep ==
  ASSUME SockInv, OtherOpens \/ OtherCloses
  PROVE  SockInv'
BY SockAssumption DEF OtherOpens, OtherCloses, connecting, SockInv, SockTypeOK

\* A descriptor is opened for the client, set up, connected or given up.
LEMMA ConnectKeeps ==
  ASSUME SockInv, Connect
  PROVE  SockInv'
<1> USE DEF Connecting, Connected, Busy
<1>1. /\ SockTypeOK /\ Client \in Threads /\ Client # NoOne /\ NoFd \notin Fds /\ MaxAddrs \in Nat
  BY SockAssumption DEF SockInv, Threads
<1>2. CASE Resolve \/ NoSocket \/ Setup \/ Unreachable \/ OnConnect
  <2>1. /\ UNCHANGED <<sock, lock, using, files>> /\ addrs' \in 0 .. MaxAddrs
        /\ fd' = IF at = "connected" THEN NoFd ELSE fd
        /\ \/ at = "down" /\ at' = "try"
           \/ at = "try" /\ at' \in {"try", "down"}
           \/ at = "setup" /\ at' \in {"connect", "abandon"}
           \/ at = "connected" /\ at' = "up"
    BY <1>1, <1>2 DEF Resolve, NoSocket, Setup, Unreachable, OnConnect, connecting, SockTypeOK
  <2>2. SockTypeOK'
    BY <1>1, <2>1 DEF SockTypeOK
  <2>3. at \in {"setup", "connected"} => UNCHANGED addrs \/ at' = "up"
    BY <1>2 DEF Resolve, NoSocket, Setup, Unreachable, OnConnect, connecting
  <2> QED  BY <1>1, <2>1, <2>2, <2>3 DEF SockInv
<1>3. CASE Socket
  <2>1. PICK d \in Fds : files[d] = "free" /\ fd' = d /\ files' = [files EXCEPT ![d] = "client"]
    BY <1>3 DEF Socket
  <2>2. at = "try" /\ at' = "setup" /\ addrs > 0 /\ UNCHANGED <<sock, lock, addrs, using>>
    BY <1>3 DEF Socket
  <2>3. SockTypeOK'
    BY <1>1, <2>1, <2>2 DEF SockTypeOK
  <2> QED  BY <1>1, <2>1, <2>2, <2>3 DEF SockInv, SockTypeOK
<1>4. CASE Handshake
  <2>1. /\ at = "connect" /\ at' = "handshake" /\ lock = NoOne /\ lock' = Client
        /\ sock' = fd /\ using' = [using EXCEPT ![Client] = fd]
        /\ UNCHANGED <<addrs, fd, files>>
    BY <1>4 DEF Handshake, Acquire, Enter, connecting
  <2>2. \A u \in Threads : using[u] = NoFd
    BY <2>1, SockAssumption DEF SockInv, Threads
  <2>3. SockTypeOK'
    BY <1>1, <2>1 DEF SockTypeOK
  <2>4. \A u \in Threads : using'[u] = IF u = Client THEN fd ELSE NoFd
    BY <1>1, <2>1, <2>2 DEF SockTypeOK
  <2> QED  BY <1>1, <2>1, <2>2, <2>3, <2>4 DEF SockInv
<1>5. CASE HandshakeDone \/ HandshakeFails
  <2>1. /\ at = "handshake" /\ lock' = NoOne /\ using' = [using EXCEPT ![Client] = NoFd]
        /\ UNCHANGED <<addrs, fd, files>>
        /\ \/ at' = "connected" /\ sock' = sock
           \/ at' = "abandon" /\ sock' = NoFd
    BY <1>5 DEF HandshakeDone, HandshakeFails, Leave, Enter, Release, Unlocked, SockReset,
       connecting
  <2>2. \A u \in Threads : using'[u] = NoFd
    BY <1>1, <2>1 DEF SockInv, SockTypeOK
  <2>3. SockTypeOK'
    BY <1>1, <2>1 DEF SockTypeOK
  <2> QED  BY <1>1, <2>1, <2>2, <2>3 DEF SockInv
<1>6. CASE Abandon
  <2>1. /\ at = "abandon" /\ at' = "try" /\ fd' = NoFd /\ files' = [files EXCEPT ![fd] = "free"]
        /\ addrs' = addrs - 1 /\ UNCHANGED <<sock, lock, using>> /\ fd \in Fds
    BY <1>1, <1>6 DEF Abandon, FilesClosed, SockInv, SockTypeOK
  <2>2. addrs' \in 0 .. MaxAddrs
    BY <1>1, <2>1 DEF SockInv, SockTypeOK
  <2>3. SockTypeOK'
    BY <1>1, <2>1, <2>2 DEF SockTypeOK
  <2> QED  BY <1>1, <2>1, <2>3 DEF SockInv, SockTypeOK
<1> QED  BY <1>2, <1>3, <1>4, <1>5, <1>6 DEF Connect

\* Receiving, and sending on the client thread.
LEMMA ReceiveKeeps ==
  ASSUME SockInv, RecvBegin \/ RecvNothing \/ RecvPacket \/ ClientSend \/ ClientSent
  PROVE  SockInv'
<1>1. /\ SockTypeOK /\ Client \in Threads /\ Client # NoOne /\ NoFd \notin Fds
  BY SockAssumption DEF SockInv, Threads
<1>2. CASE RecvBegin \/ ClientSend
  <2>1. /\ lock = NoOne /\ lock' = Client /\ using' = [using EXCEPT ![Client] = sock]
        /\ at \in {"up", "ack_ping", "ack_data"}
        /\ at' \in {"recv", "send", "send_ping", "send_data"}
        /\ UNCHANGED <<sock, addrs, fd, files>>
    BY <1>2 DEF RecvBegin, ClientSend, Sending, SendBegin, Acquire, Enter, connecting
  <2>2. \A u \in Threads : using[u] = NoFd
    BY <2>1, SockAssumption DEF SockInv, Threads
  <2>3. SockTypeOK'
    BY <1>1, <2>1 DEF SockTypeOK
  <2>4. \A u \in Threads : using'[u] = IF u = Client THEN sock ELSE NoFd
    BY <1>1, <2>1, <2>2 DEF SockTypeOK
  <2> QED  BY <1>1, <2>1, <2>2, <2>3, <2>4 DEF SockInv, Busy, Connecting, Connected
<1>3. CASE RecvNothing \/ RecvPacket \/ ClientSent
  <2>1. /\ lock' = NoOne /\ using' = [using EXCEPT ![Client] = NoFd]
        /\ at \in {"recv", "send", "send_ping", "send_data"}
        /\ UNCHANGED <<sock, addrs, fd, files>>
    BY <1>3 DEF RecvNothing, RecvPacket, RecvEnd, ClientSent, SentFrom, SendEnd, Leave, Enter,
       Release, connecting
  <2>2. at' \in {"up", "leave", "ack_ping", "ack_data"}
    BY <1>3 DEF RecvNothing, RecvPacket, RecvEnd, After, Class, Packets, ClientSent, SentFrom
  <2>3. \A u \in Threads : using'[u] = NoFd
    BY <1>1, <2>1 DEF SockInv, SockTypeOK, Busy
  <2>4. SockTypeOK'
    BY <1>1, <2>1, <2>2 DEF SockTypeOK
  <2> QED  BY <1>1, <2>1, <2>2, <2>3, <2>4 DEF SockInv, Busy, Connecting, Connected
<1> QED  BY <1>2, <1>3

\* golioth_close: under the lock, the descriptor is closed, then forgotten.
LEMMA CloseKeeps ==
  ASSUME SockInv, Close
  PROVE  SockInv'
<1> USE DEF Connecting, Connected, Busy
<1>1. /\ SockTypeOK /\ Client \in Threads /\ Client # NoOne /\ NoFd \notin Fds
  BY SockAssumption DEF SockInv, Threads
<1>2. CASE Disconnect
  BY <1>1, <1>2 DEF Disconnect, connecting, SockInv, SockTypeOK
<1>3. CASE CloseBegin
  <2>1. /\ lock = NoOne /\ lock' = Client /\ using' = [using EXCEPT ![Client] = sock]
        /\ at = "close" /\ at' = "closing" /\ UNCHANGED <<sock, addrs, fd, files>>
    BY <1>3 DEF CloseBegin, Locked, Acquire, Enter, connecting
  <2>2. \A u \in Threads : using[u] = NoFd
    BY <2>1, SockAssumption DEF SockInv, Threads
  <2>3. SockTypeOK'
    BY <1>1, <2>1 DEF SockTypeOK
  <2>4. \A u \in Threads : using'[u] = IF u = Client THEN sock ELSE NoFd
    BY <1>1, <2>1, <2>2 DEF SockTypeOK
  <2> QED  BY <1>1, <2>1, <2>2, <2>3, <2>4 DEF SockInv
<1>4. CASE CloseFd
  <2>1. /\ at = "closing" /\ at' = "closed" /\ using' = [using EXCEPT ![Client] = NoFd]
        /\ files' = [files EXCEPT ![sock] = "free"] /\ UNCHANGED <<sock, lock, addrs, fd>>
    BY <1>4 DEF CloseFd, Leave, Enter, connecting
  <2>2. lock = Client /\ \A u \in Threads : using'[u] = NoFd
    BY <1>1, <2>1 DEF SockInv, SockTypeOK
  <2>3. SockTypeOK' /\ \A d \in Fds : files'[d] = IF d = sock THEN "free" ELSE files[d]
    BY <1>1, <2>1 DEF SockTypeOK
  <2> QED  BY <1>1, <2>1, <2>2, <2>3 DEF SockInv
<1>5. CASE CloseEnd
  <2>1. /\ at = "closed" /\ at' = "down" /\ sock' = NoFd /\ lock' = NoOne
        /\ UNCHANGED <<addrs, fd, using, files>>
    BY <1>5 DEF CloseEnd, Release, connecting
  <2>2. \A u \in Threads : using[u] = NoFd
    BY <1>1, <2>1 DEF SockInv
  <2>3. SockTypeOK'
    BY <1>1, <2>1 DEF SockTypeOK
  <2> QED  BY <1>1, <2>1, <2>2, <2>3 DEF SockInv
<1> QED  BY <1>2, <1>3, <1>4, <1>5 DEF Close

LEMMA SockInvStep == SockInv /\ [Next]_vars => SockInv'
<1> SUFFICES ASSUME SockInv, [Next]_vars PROVE SockInv'
  OBVIOUS
<1>1. CASE ClientNext
  BY <1>1, ConnectKeeps, ReceiveKeeps, CloseKeeps DEF ClientNext
<1>2. CASE OtherOpens \/ OtherCloses
  BY <1>2, OthersKeep
<1>3. CASE UNCHANGED sockVars
  BY <1>3 DEF sockVars, connecting, SockInv, SockTypeOK
<1>4. CASE Log \/ Panic \/ UNCHANGED vars
  BY <1>4, <1>3 DEF Log, Panic, vars
<1>5. ASSUME NEW t \in Loggers, LogNext(t) PROVE SockInv'
  <2>1. t \in Senders
    BY LogAssumption DEF Loggers
  <2>2. UNCHANGED sockVars \/ SenderStep(t)
    BY <1>5 DEF LogNext, Dropped, Discard, Build, LogSendBegin, LogSendEnd, LogSendRefused,
       Finish, Finished, SenderStep
  <2> QED  BY <1>3, <2>1, <2>2, SenderKeeps
<1>6. CASE HelloBegin \/ HelloEnd
  <2>1. App \in Senders /\ SenderStep(App)
    BY <1>6, LogAssumption DEF HelloBegin, HelloEnd, SenderStep
  <2> QED  BY <2>1, SenderKeeps
<1> QED  BY <1>1, <1>2, <1>4, <1>5, <1>6 DEF Next

\* The invariant of the client core.
THEOREM SockInvariant == Spec => []SockInv
<1>1. Init => SockInv
  BY SockInvInit DEF Init
<1> QED  BY <1>1, SockInvStep, PTL DEF Spec

\* golioth_send, golioth_recv, golioth_close and golioth_connect_sockaddr: whatever
\* the handshakes, the errors and the other threads do, a system call is made on a
\* descriptor that stays the client's until it ends, and none is leaked.
THEOREM SocketOwned == Spec => []OwnSocket
<1>1. SockInv => OwnSocket
  BY SockAssumption DEF SockInv, SockTypeOK, OwnSocket, Threads, Busy
<1> QED  BY <1>1, SockInvariant, PTL

-----------------------------------------------------------------------------
(* The packet.                                                             *)

\* A packet with room for n bytes.
Buffer(n) == [at : Nat, buf : [1 .. n -> Nat]]

LEMMA BufferLen ==
  ASSUME NEW n \in Nat, NEW e \in Buffer(n)
  PROVE  /\ e.at \in Nat /\ e.buf \in [1 .. n -> Nat]
         /\ Len(e.buf) = n /\ DOMAIN e.buf = 1 .. n
         /\ e = [at |-> e.at, buf |-> e.buf]
<1>1. e.at \in Nat /\ e.buf \in [1 .. n -> Nat] /\ e = [at |-> e.at, buf |-> e.buf]
  BY DEF Buffer
<1>2. e.buf \in Seq(Nat)
  BY <1>1
<1> QED  BY <1>1, <1>2

LEMMA PrefixBounds == \A n \in Int : Prefix(n) \in 1 .. 3
BY DEF Prefix

\* What follows a key is as it was.
LEMMA KeyEffect ==
  ASSUME NEW room \in Nat, NEW e \in Buffer(room), NEW n \in Nat,
         e.at + Prefix(n) + n <= room
  PROVE  /\ Key(e, n) \in Buffer(room)
         /\ Key(e, n).at = e.at + Prefix(n) + n
         /\ \A i \in 1 .. room : i > e.at + Prefix(n) + n => Key(e, n).buf[i] = e.buf[i]
<1> DEFINE end == e.at + Prefix(n) + n
           buf == [i \in 1 .. room |-> IF i \in e.at + 1 .. end THEN 0 ELSE e.buf[i]]
<1>1. Prefix(n) \in 1 .. 3
  BY PrefixBounds
<1>2. buf \in [1 .. room -> Nat] /\ end \in Nat
  BY <1>1, BufferLen
<1>3. Key(e, n) = [at |-> end, buf |-> buf]
  <2>1. Len(e.buf) = room /\ DOMAIN e.buf = 1 .. room /\ e = [at |-> e.at, buf |-> e.buf]
    BY BufferLen
  <2>2. ~(end > Len(e.buf))
    BY <1>2, <2>1
  <2>3. Key(e, n) = [[e EXCEPT !.at = end] EXCEPT !.buf = buf]
    BY <2>1, <2>2 DEF Key
  <2> HIDE DEF buf, end
  <2> QED  BY <2>1, <2>3
<1> QED  BY <1>1, <1>2, <1>3 DEF Buffer

\* A string that is moved down, or not at all, is not damaged by its own length, and
\* what follows it is as it was.
LEMMA PutEffect ==
  ASSUME NEW room \in Nat, NEW e \in Buffer(room), NEW n \in Nat, NEW from \in Nat,
         CanPut(e, n), e.at + Prefix(n) <= from, from + n <= room
  PROVE  /\ Put(e, from, n) \in Buffer(room)
         /\ Put(e, from, n).at = e.at + Prefix(n) + n
         /\ \A i \in 1 .. room : i > from + n => Put(e, from, n).buf[i] = e.buf[i]
         /\ \A i \in 1 .. n : Put(e, from, n).buf[e.at + Prefix(n) + i] = e.buf[from + i]
         /\ \A i \in 1 .. room : i > e.at + Prefix(n) + n => Put(e, from, n).buf[i] = e.buf[i]
<1> DEFINE to == e.at + Prefix(n)
           headed == [i \in 1 .. room |-> IF i \in e.at + 1 .. to THEN 0 ELSE e.buf[i]]
           buf == [i \in 1 .. room |->
                     IF i \in to + 1 .. to + n THEN headed[i - to + from] ELSE headed[i]]
<1>1. Prefix(n) \in 1 .. 3
  BY PrefixBounds
<1>2. /\ e.at \in Nat /\ e.buf \in [1 .. room -> Nat] /\ DOMAIN e.buf = 1 .. room
      /\ to \in Nat /\ e.at < to /\ to <= from /\ to + n <= room
  BY <1>1, BufferLen DEF CanPut
<1>3. headed \in [1 .. room -> Nat]
  BY <1>2
<1> HIDE DEF to
<1>4. \A i \in to + 1 .. to + n : i - to + from \in 1 .. room /\ i - to + from > to
  BY <1>2
<1>5. buf \in [1 .. room -> Nat]
  BY <1>2, <1>3, <1>4
<1>6. Put(e, from, n) = [at |-> to + n, buf |-> buf]
  BY <1>2 DEF Put, to
<1>7. \A i \in 1 .. n : buf[to + i] = e.buf[from + i]
  <2> SUFFICES ASSUME NEW i \in 1 .. n PROVE buf[to + i] = e.buf[from + i]
    OBVIOUS
  <2>1. /\ to + i \in 1 .. room /\ to + i \in to + 1 .. to + n
        /\ from + i \in 1 .. room /\ from + i > to /\ to + i - to + from = from + i
    BY <1>2
  <2>2. headed[from + i] = e.buf[from + i]
    BY <1>2, <2>1
  <2> HIDE DEF headed
  <2>3. buf[to + i] = headed[to + i - to + from]
    BY <1>2, <2>1
  <2> HIDE DEF buf
  <2> QED  BY <2>1, <2>2, <2>3
<1>8. \A i \in 1 .. room : i > to + n => buf[i] = e.buf[i]
  BY <1>1, <1>2
<1>9. \A i \in 1 .. room : i > from + n => i > to + n
  BY <1>2
<1> HIDE DEF buf, headed
<1>10. Put(e, from, n) \in Buffer(room)
  BY <1>2, <1>5, <1>6 DEF Buffer
<1> QED  BY <1>6, <1>7, <1>8, <1>9, <1>10 DEF to

\* n bytes of the text, behind the first k.
Part(k, n) == [i \in 1 .. n |-> k + i]

\* The string that was put last.
LEMMA ValueIs ==
  ASSUME NEW room \in Nat, NEW e \in Buffer(room), NEW n \in Nat, NEW k \in Nat,
         n <= e.at, e.at <= room, \A i \in 1 .. n : e.buf[e.at - n + i] = k + i
  PROVE  Value(e, n) = Part(k, n)
<1> DEFINE v == Value(e, n)
           w == Part(k, n)
<1>1. e.at \in Nat /\ e.buf \in [1 .. room -> Nat]
  BY BufferLen
<1>2. \A i \in e.at - n + 1 .. e.at : e.buf[i] \in Nat
  BY <1>1
<1>3. /\ v \in Seq(Nat) /\ Len(v) = n
      /\ \A i \in 1 .. n : v[i] = e.buf[e.at - n + i]
  <2> DEFINE m == e.at - n + 1
             h == e.at
  <2>1. m \in Int /\ h \in Int /\ \A i \in m .. h : e.buf[i] \in Nat
    BY <1>1, <1>2
  <2>2. v = SubSeq(e.buf, m, h)
    BY DEF Value
  <2>3. h \in Nat /\ m = h - n + 1
    BY <1>1
  <2> HIDE DEF v, m
  <2>4. /\ v \in Seq(Nat) /\ Len(v) = IF m <= h THEN h - m + 1 ELSE 0
        /\ \A i \in 1 .. h - m + 1 : v[i] = e.buf[m + i - 1]
    BY <2>1, <2>2, SubSeqProperties
  <2> HIDE DEF h
  <2>5. h - m + 1 = n /\ (m <= h <=> n > 0) /\ \A i \in 1 .. n : m + i - 1 = h - n + i
    BY <2>3
  <2>6. v \in Seq(Nat) /\ Len(v) = n
    BY <2>4, <2>5
  <2>7. ASSUME NEW i \in 1 .. n PROVE v[i] = e.buf[h - n + i]
    <3>1. i \in 1 .. h - m + 1 /\ m + i - 1 = h - n + i
      BY <2>5
    <3>2. v[i] = e.buf[m + i - 1]
      BY <2>4, <3>1
    <3> QED  BY <3>1, <3>2
  <2> QED  BY <2>6, <2>7 DEF h
<1>4. w \in Seq(Nat) /\ Len(w) = n /\ \A i \in 1 .. n : w[i] = k + i
  BY DEF Part
<1> HIDE DEF v, w
<1>5. v = w
  BY <1>3, <1>4, SeqEqual
<1> QED  BY <1>5 DEF v, w

\* The text as formatted, behind the reserved bytes.
LEMMA FormattedIs ==
  ASSUME NEW m \in [room : Nat, text : Nat, func : Nat, data : Nat], Reserved(m) <= m.room
  PROVE  /\ [at |-> 0, buf |-> Formatted(m)] \in Buffer(m.room)
         /\ Reserved(m) = IF m.func > 0 THEN 22 ELSE 8
         /\ Stored(m) \in Nat /\ Reserved(m) + Stored(m) <= m.room
         /\ \A i \in 1 .. Stored(m) : Formatted(m)[Reserved(m) + i] = i
<1>1. m.room \in Nat /\ m.text \in Nat /\ m.func \in Nat
  OBVIOUS
<1>2. Reserved(m) = (IF m.func > 0 THEN 22 ELSE 8) /\ Reserved(m) \in Nat
  BY <1>1 DEF Reserved
<1>3. Stored(m) \in Nat /\ Reserved(m) + Stored(m) <= m.room
  BY <1>1, <1>2 DEF Stored
<1> DEFINE r == Reserved(m)
           s == Stored(m)
           f == [i \in 1 .. m.room |-> IF i - r \in 1 .. s THEN i - r ELSE 0]
<1>4. f = Formatted(m)
  BY DEF Formatted
<1>5. r \in Nat /\ s \in Nat /\ r + s <= m.room
  BY <1>2, <1>3
<1> HIDE DEF r, s
<1>6. f \in [1 .. m.room -> Nat]
  BY <1>1, <1>5
<1>7. ASSUME NEW i \in 1 .. s PROVE f[r + i] = i
  <2>1. r + i \in 1 .. m.room /\ r + i - r = i
    BY <1>1, <1>5, <1>7
  <2>2. f[r + i] = IF r + i - r \in 1 .. s THEN r + i - r ELSE 0
    BY <1>5, <2>1
  <2> HIDE DEF f
  <2> QED  BY <1>7, <2>1, <2>2
<1>8. [at |-> 0, buf |-> f] \in Buffer(m.room)
  BY <1>6 DEF Buffer
<1> HIDE DEF f
<1> QED  BY <1>2, <1>3, <1>4, <1>7, <1>8 DEF r, s

\* A packet of function f and text t, or none because of a hexdump.
Says(m, b, f, t) ==
  \/ b.sent = TRUE /\ b.func = f /\ b.text = t
  \/ b.sent = FALSE /\ m.data > 0

\* A hexdump changes nothing else, or loses the packet.
LEMMA DataKeeps ==
  ASSUME NEW m, m.data \in Nat, NEW e, NEW f, NEW t
  PROVE  Says(m, WithData(m, e, Sends(f, t)), f, t)
<1> USE DEF Says, Sends
<1> DEFINE body == Sends(f, t)
           room == Len(e.buf) - (Key(e, 7).at + 8)
<1>1. CASE m.data = 0
  BY <1>1 DEF WithData
<1>2. CASE m.data # 0 /\ room < 0
  <2>1. WithData(m, e, body) = Lost
    BY <1>2 DEF WithData
  <2> QED  BY <1>2, <2>1 DEF Lost
<1>3. CASE m.data # 0 /\ ~(room < 0)
  <2>1. PICK d : WithData(m, e, body) = [body EXCEPT !.data = d]
    BY <1>3 DEF WithData
  <2> QED  BY <2>1
<1> QED  BY <1>1, <1>2, <1>3


\* A text with a colon: the function, then the rest.
LEMMA BothIntact ==
  ASSUME NEW m \in [room : Nat, text : Nat, func : Nat, data : Nat],
         Reserved(m) <= m.room, HasColon(m), m.func + 2 <= Stored(m)
  PROVE  LET start == [at |-> 0, buf |-> Formatted(m)]
             rest == Stored(m) - (m.func + 2)
             named == Put(Key(start, 4), Reserved(m), m.func)
             both == Put(Key(named, 3), Reserved(m) + (m.func + 2), rest)
         IN  /\ CanPut(Key(start, 4), m.func) /\ CanPut(Key(named, 3), rest)
             /\ Value(named, m.func) = Part(0, m.func)
             /\ Value(both, rest) = Part(m.func + 2, rest)
<1> DEFINE room == m.room
           func == m.func
           s == Stored(m)
           start == [at |-> 0, buf |-> Formatted(m)]
           key == Key(start, 4)
           named == Put(key, 22, func)
           more == Key(named, 3)
           rest == s - (func + 2)
           both == Put(more, 22 + (func + 2), rest)
<1>1. /\ room \in Nat /\ func \in Nat /\ func > 0 /\ Reserved(m) = 22 /\ s \in Nat
      /\ 22 + s <= room /\ func + 2 <= s /\ rest \in Nat
      /\ start \in Buffer(room) /\ start.at = 0
      /\ \A i \in 1 .. s : start.buf[22 + i] = i
  BY FormattedIs DEF HasColon
<1>2. /\ Prefix(4) = 1 /\ Prefix(3) = 1
      /\ Prefix(func) \in 1 .. 3 /\ Prefix(rest) \in 1 .. 3
  <2>1. Prefix(4) = 1 /\ Prefix(3) = 1
    BY DEF Prefix
  <2>2. func \in Int /\ rest \in Int
    BY <1>1
  <2> HIDE DEF func, rest
  <2> QED  BY <2>1, <2>2, PrefixBounds
<1> HIDE DEF start, room, func, s, rest
<1>3. /\ key \in Buffer(room) /\ key.at = 5
      /\ \A i \in 1 .. room : i > 5 => key.buf[i] = start.buf[i]
  <2>1. start.at + Prefix(4) + 4 = 5 /\ 5 <= room /\ 4 \in Nat
    BY <1>1, <1>2
  <2> QED  BY <1>1, <2>1, KeyEffect
<1> HIDE DEF key
<1>4. Len(key.buf) = room
  BY <1>1, <1>3, BufferLen
<1>5. CanPut(key, func) /\ key.at + Prefix(func) <= 22 /\ 22 + func <= room
  BY <1>1, <1>2, <1>3, <1>4 DEF CanPut
<1>6. /\ named \in Buffer(room) /\ named.at = 5 + Prefix(func) + func
      /\ \A i \in 1 .. room : i > 22 + func => named.buf[i] = key.buf[i]
      /\ \A i \in 1 .. func : named.buf[5 + Prefix(func) + i] = key.buf[22 + i]
  <2> DEFINE from == 22
  <2>1. from \in Nat /\ key.at + Prefix(func) <= from /\ from + func <= room
    BY <1>5
  <2>2. named = Put(key, from, func)
    OBVIOUS
  <2> HIDE DEF from, named
  <2>3. /\ named \in Buffer(room) /\ named.at = key.at + Prefix(func) + func
        /\ \A i \in 1 .. room : i > from + func => named.buf[i] = key.buf[i]
        /\ \A i \in 1 .. func : named.buf[key.at + Prefix(func) + i] = key.buf[from + i]
    BY <1>1, <1>3, <1>5, <2>1, <2>2, PutEffect
  <2> QED  BY <1>3, <2>3 DEF from
<1> HIDE DEF named
<1>7. Value(named, func) = Part(0, func)
  <2>1. \A i \in 1 .. func : named.buf[named.at - func + i] = 0 + i
    <3> SUFFICES ASSUME NEW i \in 1 .. func PROVE named.buf[named.at - func + i] = 0 + i
      OBVIOUS
    <3>1. named.at - func + i = 5 + Prefix(func) + i
      BY <1>1, <1>2, <1>6
    <3>2. 22 + i \in 1 .. room /\ 22 + i > 5 /\ i \in 1 .. s /\ 0 + i = i
      BY <1>1
    <3> QED  BY <1>1, <1>3, <1>6, <3>1, <3>2
  <2>2. func <= named.at /\ named.at <= room
    BY <1>1, <1>2, <1>6
  <2>3. \A k \in Nat : (\A i \in 1 .. func : named.buf[named.at - func + i] = k + i)
                          => Value(named, func) = Part(k, func)
    BY <1>1, <1>6, <2>2, ValueIs
  <2> QED  BY <2>1, <2>3
<1>8. /\ more \in Buffer(room) /\ more.at = 9 + Prefix(func) + func
      /\ \A i \in 1 .. room : i > 9 + Prefix(func) + func => more.buf[i] = named.buf[i]
  <2>1. named.at + Prefix(3) + 3 <= room /\ named.at + Prefix(3) + 3 = 9 + Prefix(func) + func
    BY <1>1, <1>2, <1>6
  <2> QED  BY <1>1, <1>6, <2>1, KeyEffect
<1> HIDE DEF more
<1>9. Len(more.buf) = room
  BY <1>1, <1>8, BufferLen
<1>10. /\ more.at + Prefix(rest) <= 22 + (func + 2) /\ 22 + (func + 2) + rest <= room
       /\ more.at + Prefix(rest) + rest <= room
  BY <1>1, <1>2, <1>8 DEF rest
<1>11. CanPut(more, rest)
  BY <1>1, <1>9, <1>10 DEF CanPut
<1>12. /\ both \in Buffer(room) /\ both.at = more.at + Prefix(rest) + rest
       /\ \A i \in 1 .. rest : both.buf[more.at + Prefix(rest) + i] = more.buf[22 + (func + 2) + i]
  <2> DEFINE from == 22 + (func + 2)
  <2>1. from \in Nat /\ more.at + Prefix(rest) <= from /\ from + rest <= room
    BY <1>1, <1>10
  <2>2. both = Put(more, from, rest)
    OBVIOUS
  <2> HIDE DEF from, both
  <2>3. /\ both \in Buffer(room) /\ both.at = more.at + Prefix(rest) + rest
        /\ \A i \in 1 .. rest : both.buf[more.at + Prefix(rest) + i] = more.buf[from + i]
    BY <1>1, <1>8, <1>11, <2>1, <2>2, PutEffect
  <2> QED  BY <2>3 DEF from
<1> HIDE DEF both
<1>13. Value(both, rest) = Part(func + 2, rest)
  <2>1. \A i \in 1 .. rest : both.buf[both.at - rest + i] = func + 2 + i
    <3> SUFFICES ASSUME NEW i \in 1 .. rest PROVE both.buf[both.at - rest + i] = func + 2 + i
      OBVIOUS
    <3>1. both.at - rest + i = more.at + Prefix(rest) + i
      BY <1>1, <1>2, <1>8, <1>12
    <3>2. both.buf[both.at - rest + i] = more.buf[22 + (func + 2) + i]
      BY <1>12, <3>1
    <3>3. /\ 22 + (func + 2) + i \in 1 .. room
          /\ 22 + (func + 2) + i > 9 + Prefix(func) + func
          /\ 22 + (func + 2) + i > 22 + func /\ 22 + (func + 2) + i > 5
          /\ 22 + (func + 2) + i = 22 + (func + 2 + i) /\ func + 2 + i \in 1 .. s
      BY <1>1, <1>2 DEF rest
    <3>4. more.buf[22 + (func + 2) + i] = start.buf[22 + (func + 2) + i]
      BY <1>3, <1>6, <1>8, <3>3
    <3>5. start.buf[22 + (func + 2 + i)] = func + 2 + i
      BY <1>1, <3>3
    <3> QED  BY <3>2, <3>3, <3>4, <3>5
  <2>2. rest <= both.at /\ both.at <= room /\ func + 2 \in Nat
    BY <1>1, <1>2, <1>8, <1>10, <1>12
  <2>3. \A k \in Nat : (\A i \in 1 .. rest : both.buf[both.at - rest + i] = k + i)
                          => Value(both, rest) = Part(k, rest)
    BY <1>1, <1>12, <2>2, ValueIs
  <2> QED  BY <2>1, <2>2, <2>3
<1> QED
  BY <1>1, <1>5, <1>7, <1>11, <1>13 DEF start, key, named, more, both, func, s, rest


\* A text without one: moved down to behind "msg" and its length.
LEMMA OnlyIntact ==
  ASSUME NEW m \in [room : Nat, text : Nat, func : Nat, data : Nat], Reserved(m) <= m.room
  PROVE  LET start == [at |-> 0, buf |-> Formatted(m)]
             only == Put(Key(start, 3), Reserved(m), Stored(m))
         IN  CanPut(Key(start, 3), Stored(m)) /\ Value(only, Stored(m)) = Part(0, Stored(m))
<1> DEFINE room == m.room
           r == Reserved(m)
           s == Stored(m)
           start == [at |-> 0, buf |-> Formatted(m)]
           key == Key(start, 3)
           only == Put(key, r, s)
<1>1. /\ room \in Nat /\ r \in Nat /\ r >= 8 /\ s \in Nat /\ r + s <= room
      /\ start \in Buffer(room) /\ start.at = 0
      /\ \A i \in 1 .. s : start.buf[r + i] = i
  BY FormattedIs
<1> HIDE DEF start, room, r, s
<1>2. Prefix(3) = 1 /\ Prefix(s) \in 1 .. 3
  <2>1. Prefix(3) = 1
    BY DEF Prefix
  <2> QED  BY <1>1, <2>1, PrefixBounds
<1>3. /\ key \in Buffer(room) /\ key.at = 4
      /\ \A i \in 1 .. room : i > 4 => key.buf[i] = start.buf[i]
  <2>1. start.at + Prefix(3) + 3 = 4 /\ 4 <= room /\ 3 \in Nat
    BY <1>1, <1>2
  <2> QED  BY <1>1, <2>1, KeyEffect
<1> HIDE DEF key
<1>4. CanPut(key, s) /\ key.at + Prefix(s) <= r
  <2>1. Len(key.buf) = room
    BY <1>1, <1>3, BufferLen
  <2> QED  BY <1>1, <1>2, <1>3, <2>1 DEF CanPut
<1>5. /\ only \in Buffer(room) /\ only.at = 4 + Prefix(s) + s
      /\ \A i \in 1 .. s : only.buf[4 + Prefix(s) + i] = key.buf[r + i]
  <2>1. only = Put(key, r, s)
    OBVIOUS
  <2> HIDE DEF only
  <2>2. /\ only \in Buffer(room) /\ only.at = key.at + Prefix(s) + s
        /\ \A i \in 1 .. s : only.buf[key.at + Prefix(s) + i] = key.buf[r + i]
    BY <1>1, <1>3, <1>4, <2>1, PutEffect
  <2> QED  BY <1>3, <2>2
<1> HIDE DEF only
<1>6. \A i \in 1 .. s : only.buf[only.at - s + i] = 0 + i
  <2> SUFFICES ASSUME NEW i \in 1 .. s PROVE only.buf[only.at - s + i] = 0 + i
    OBVIOUS
  <2>1. only.at - s + i = 4 + Prefix(s) + i
    BY <1>1, <1>2, <1>5
  <2>2. r + i \in 1 .. room /\ r + i > 4 /\ 0 + i = i
    BY <1>1
  <2> QED  BY <1>1, <1>3, <1>5, <2>1, <2>2
<1>7. s <= only.at /\ only.at <= room
  BY <1>1, <1>2, <1>4, <1>5
<1>8. \A k \in Nat : (\A i \in 1 .. s : only.buf[only.at - s + i] = k + i)
                      => Value(only, s) = Part(k, s)
  BY <1>1, <1>5, <1>7, ValueIs
<1>9. Value(only, s) = Part(0, s)
  BY <1>6, <1>8
<1> QED
  BY <1>4, <1>9 DEF start, key, only, r, s

\* Of every message, whatever its lengths: the packet that is sent has the text of
\* the message, and one that is given up had to be.  Strings are moved within the
\* buffer they are encoded into, over bytes that are still to be read if the room
\* reserved for a header (CBOR_SPACE_RESERVED) is too small.
THEOREM EncodingIntact ==
  ASSUME NEW m \in [room : Nat, text : Nat, func : Nat, data : Nat]
  PROVE  IF Encoding(m).sent THEN Intact(m, Encoding(m)) ELSE Unsendable(m)
<1> DEFINE start == [at |-> 0, buf |-> Formatted(m)]
           rest == Stored(m) - (m.func + 2)
           named == Put(Key(start, 4), Reserved(m), m.func)
           both == Put(Key(named, 3), Reserved(m) + (m.func + 2), rest)
           only == Put(Key(start, 3), Reserved(m), Stored(m))
           lost == Encoding(m) = Lost
           built(e, f, t) == Encoding(m) = WithData(m, e, Sends(f, t))
<1>1. m.room \in Nat /\ m.text \in Nat /\ m.func \in Nat /\ m.data \in Nat
  OBVIOUS
<1>2. Lost.sent = FALSE
  BY DEF Lost
<1>3. CASE m.room < 1 \/ (m.text > 0 /\ Reserved(m) > m.room)
  <2>1. Reserved(m) \in Nat /\ Reserved(m) > m.room
    BY <1>1, <1>3 DEF Reserved
  <2>2. lost
    BY <1>1, <1>3 DEF Encoding
  <2>3. Unsendable(m)
    BY <1>1, <2>1 DEF Unsendable
  <2> QED  BY <1>2, <2>2, <2>3
<1>4. CASE m.room >= 1 /\ m.text = 0
  <2>1. built(start, <<>>, <<>>)
    BY <1>1, <1>4 DEF Encoding
  <2>2. Says(m, Encoding(m), <<>>, <<>>)
    BY <1>1, <2>1, DataKeeps
  <2> QED  BY <1>1, <1>4, <2>2 DEF Says, Intact, Unsendable
<1>5. CASE m.room >= 1 /\ m.text > 0 /\ Reserved(m) <= m.room /\ HasColon(m)
  <2>1. Stored(m) \in Nat /\ Stored(m) > m.func
    BY <1>1, <1>5, FormattedIs DEF HasColon
  <2>2. CASE Stored(m) = m.func + 1
    <3>1. ~CanPut(Key(named, 3), rest)
      BY <1>1, <2>2 DEF CanPut
    <3>2. Reserved(m) \in Nat
      BY <1>1 DEF Reserved
    <3>3. lost
      BY <1>1, <1>5, <3>1, <3>2 DEF Encoding
    <3> QED  BY <1>2, <1>5, <2>2, <3>3 DEF Unsendable
  <2>3. CASE m.func + 2 <= Stored(m)
    <3>1. /\ CanPut(Key(start, 4), m.func) /\ CanPut(Key(named, 3), rest)
          /\ Value(named, m.func) = Part(0, m.func)
          /\ Value(both, rest) = Part(m.func + 2, rest)
      BY <1>5, <2>3, BothIntact
    <3>2. built(both, Value(named, m.func), Value(both, rest))
      <4>1. Reserved(m) \in Nat
        BY <1>1 DEF Reserved
      <4> QED  BY <1>1, <1>5, <3>1, <4>1 DEF Encoding
    <3> HIDE DEF start, named, both, rest
    <3>3. built(both, Part(0, m.func), Part(m.func + 2, rest))
      BY <3>1, <3>2
    <3>4. Says(m, Encoding(m), Part(0, m.func), Part(m.func + 2, rest))
      BY <1>1, <3>3, DataKeeps
    <3>5. Encoding(m).sent = TRUE => Intact(m, Encoding(m))
      <4>1. m.func - 0 = m.func /\ Stored(m) - (m.func + 2) = rest
        BY <1>1 DEF rest
      <4> QED  BY <1>1, <1>5, <3>4, <4>1 DEF Says, Intact, Part
    <3> QED  BY <3>4, <3>5 DEF Says, Unsendable
  <2> QED  BY <1>1, <2>1, <2>2, <2>3
<1>6. CASE m.room >= 1 /\ m.text > 0 /\ Reserved(m) <= m.room /\ ~HasColon(m)
  <2>1. CanPut(Key(start, 3), Stored(m)) /\ Value(only, Stored(m)) = Part(0, Stored(m))
    BY <1>6, OnlyIntact
  <2>2. built(only, <<>>, Part(0, Stored(m)))
    <3>1. Reserved(m) \in Nat
      BY <1>1 DEF Reserved
    <3> QED  BY <1>1, <1>6, <2>1, <3>1 DEF Encoding
  <2> HIDE DEF start, only
  <2>3. Says(m, Encoding(m), <<>>, Part(0, Stored(m)))
    BY <1>1, <2>2, DataKeeps
  <2>4. Encoding(m).sent = TRUE => Intact(m, Encoding(m))
    <3>1. Stored(m) \in Nat
      BY <1>1, <1>6, FormattedIs
    <3> QED  BY <1>1, <1>6, <2>3, <3>1 DEF Says, Intact, Part
  <2> QED  BY <2>3, <2>4 DEF Says, Unsendable
<1>7. Reserved(m) \in Nat
  BY <1>1 DEF Reserved
<1> QED
  BY <1>1, <1>3, <1>4, <1>5, <1>6, <1>7


-----------------------------------------------------------------------------
(* The backend.                                                            *)

\* Where a thread is, and what it holds.
BackendTypeOK ==
  /\ index \in Nat /\ overflow \in Nat /\ gone \in Nat /\ queued \in Nat
  /\ panicMode \in BOOLEAN /\ cloud \in Seq(Nat)
  /\ stage \in [Loggers -> {"idle", "flush", "built", "send", "sent", "failed", "finish"}]
  /\ reg \in [Loggers -> Nat]
  /\ \/ packet = NoPacket
     \/ /\ packet.index \in Nat /\ packet.of \in Messages
        /\ packet.body = Encoding(packet.of)

\* The thread that panics never gets past the flush, for panic_mode is set before.
FlushInv ==
  /\ stage[LogThread] # "flush"
  /\ stage[Panicker] \in {"idle", "flush"}
  /\ stage[Panicker] = "flush" => panicMode = TRUE

Below(n) == \A i \in DOMAIN cloud : cloud[i] < n
Increasing == \A i, j \in DOMAIN cloud : i < j => cloud[i] < cloud[j]

\* How far the indices that were sent have come, from one stage to the next: in a
\* panic the other thread may take indices while this one has a packet, and the
\* write of finish may undo that, but never below what was sent.
IndexInv ==
  LET s == stage[LogThread]
  IN  /\ Increasing
      /\ s = "idle" => Below(index)
      /\ s \in {"built", "send"} =>
           packet.index \in Nat /\ packet.index <= index /\ Below(packet.index)
      /\ s \in {"sent", "failed"} => Below(index + 1)
      /\ s = "finish" => Below(reg[LogThread])

\* Until a panic, an index was sent or its message is gone.
CountInv ==
  LET s == stage[LogThread]
      used == Len(cloud) + gone
  IN  panicMode = FALSE =>
        /\ s \in {"idle", "built", "send", "failed"} => index = used
        /\ s = "sent" => index + 1 = used
        /\ s = "finish" => reg[LogThread] = used

BackendInv == BackendTypeOK /\ FlushInv /\ IndexInv /\ CountInv

LEMMA BackendInvInit == Init => BackendInv
<1> SUFFICES ASSUME LogInit PROVE BackendInv
  BY DEF Init
<1>1. LogThread \in Loggers /\ Panicker \in Loggers
  BY DEF Loggers
<1>2. cloud = <<>> /\ cloud \in Seq(Nat) /\ Len(cloud) = 0 /\ DOMAIN cloud = {}
  BY DEF LogInit
<1>3. /\ stage = [t \in Loggers |-> "idle"] /\ reg = [t \in Loggers |-> 0]
      /\ stage[LogThread] = "idle" /\ stage[Panicker] = "idle"
  BY <1>1 DEF LogInit
<1>4. BackendTypeOK
  <2>1. stage \in [Loggers -> {"idle", "flush", "built", "send", "sent", "failed", "finish"}]
    BY <1>3
  <2>2. reg \in [Loggers -> Nat] /\ packet = NoPacket
    BY <1>3 DEF LogInit
  <2>3. /\ index \in Nat /\ overflow \in Nat /\ gone \in Nat /\ queued \in Nat
        /\ panicMode \in BOOLEAN
    BY DEF LogInit
  <2> QED  BY <1>2, <2>1, <2>2, <2>3 DEF BackendTypeOK
<1>5. FlushInv /\ IndexInv
  BY <1>2, <1>3 DEF FlushInv, IndexInv, Below, Increasing
<1>6. CountInv
  BY <1>2, <1>3 DEF LogInit, CountInv
<1> QED  BY <1>4, <1>5, <1>6 DEF BackendInv

\* Only the logger's thread has a packet.
LEMMA OneBuilds ==
  ASSUME BackendInv, NEW t \in Loggers,
         stage[t] \in {"built", "send", "sent", "failed", "finish"} \/ (Calls(t) /\ ~Discards)
  PROVE  t = LogThread
BY DEF BackendInv, FlushInv, Loggers, Calls, Discards

LEMMA LogKeeps ==
  ASSUME BackendInv, Log \/ Panic \/ UNCHANGED logVars \/ \E t \in Loggers : Discard(t)
  PROVE  BackendInv'
<1> USE DEF BackendInv
<1>1. /\ LogThread \in Loggers /\ Panicker \in Loggers /\ LogThread # Panicker
      /\ BackendTypeOK
  BY LogAssumption DEF Loggers
<1>2. CASE Log \/ UNCHANGED logVars \/ \E t \in Loggers : Discard(t)
  <2>1. UNCHANGED <<backend, outcome>> /\ queued' \in Nat /\ overflow' \in Nat
    BY <1>1, <1>2 DEF Log, Discard, logVars, logger, BackendTypeOK
  <2>2. UNCHANGED <<panicMode, index, packet, stage, reg, cloud, gone>>
    BY <2>1 DEF backend, outcome
  <2>3. BackendTypeOK'
    BY <1>1, <2>1, <2>2 DEF BackendTypeOK
  <2> QED  BY <2>2, <2>3 DEF FlushInv, IndexInv, CountInv, Below, Increasing
<1>3. CASE Panic
  <2>1. /\ panicMode' = TRUE /\ stage' = [stage EXCEPT ![Panicker] = "flush"]
        /\ UNCHANGED <<index, packet, reg, cloud, gone, queued, overflow>>
    BY <1>3 DEF Panic, To, logger, outcome
  <2>2. stage'[LogThread] = stage[LogThread] /\ stage'[Panicker] = "flush"
    BY <1>1, <2>1 DEF BackendTypeOK
  <2>3. BackendTypeOK'
    BY <1>1, <2>1 DEF BackendTypeOK
  <2>4. FlushInv' /\ CountInv'
    BY <2>1, <2>2 DEF FlushInv, CountInv
  <2>5. IndexInv'
    BY <2>1, <2>2 DEF IndexInv, Below, Increasing
  <2> QED  BY <2>3, <2>4, <2>5
<1> QED  BY <1>2, <1>3

LEMMA DroppedKeeps ==
  ASSUME BackendInv, NEW t \in Loggers, Dropped(t)
  PROVE  BackendInv'
<1> USE DEF BackendInv
<1>1. /\ BackendTypeOK /\ index' = index + overflow /\ gone' = gone + overflow /\ overflow' = 0
      /\ UNCHANGED <<queued, panicMode, packet, stage, reg, cloud>>
      /\ index \in Nat /\ overflow \in Nat /\ gone \in Nat /\ Len(cloud) \in Nat
      /\ \A i \in DOMAIN cloud : cloud[i] \in Nat
  BY DEF Dropped, BackendTypeOK
<1>2. BackendTypeOK' /\ index' \in Nat /\ index <= index'
  BY <1>1 DEF BackendTypeOK
<1>3. FlushInv'
  BY <1>1 DEF FlushInv
<1>4. IndexInv'
  BY <1>1, <1>2 DEF IndexInv, Below, Increasing
<1>5. panicMode = TRUE \/ stage[LogThread] = "idle"
  BY DEF Dropped, Calls, FlushInv, Loggers
<1>6. CountInv'
  BY <1>1, <1>5 DEF CountInv
<1> QED  BY <1>2, <1>3, <1>4, <1>6

LEMMA BuildKeeps ==
  ASSUME BackendInv, NEW t \in Loggers, Build(t)
  PROVE  BackendInv'
<1> USE DEF BackendInv
<1>1. /\ t = LogThread /\ LogThread \in Loggers /\ Panicker \in Loggers /\ LogThread # Panicker
      /\ stage[t] = "idle" /\ BackendTypeOK
  BY OneBuilds, LogAssumption DEF Build, Calls, Loggers
<1>2. PICK m \in Messages :
        /\ packet' = [index |-> index, of |-> m, body |-> Encodings[m]]
        /\ To(t, IF Encodings[m].sent THEN "built" ELSE "failed")
  BY DEF Build
<1>3. PICK s \in {"built", "failed"} : stage' = [stage EXCEPT ![t] = s]
  BY <1>2 DEF To
<1>4. packet'.index = index /\ packet'.of = m /\ packet'.body = Encoding(m)
  BY <1>2 DEF Encodings
<1>5. /\ UNCHANGED <<overflow, panicMode, index, reg, cloud, gone>> /\ queued' = queued - 1
      /\ queued > 0
  BY DEF Build, outcome
<1>6. stage'[LogThread] = s /\ stage'[Panicker] = stage[Panicker]
  BY <1>1, <1>3 DEF BackendTypeOK
<1>7. BackendTypeOK'
  <2>1. queued' \in Nat /\ index \in Nat
    BY <1>1, <1>5 DEF BackendTypeOK
  <2>2. stage' \in [Loggers -> {"idle", "flush", "built", "send", "sent", "failed", "finish"}]
    BY <1>1, <1>3 DEF BackendTypeOK
  <2>3. packet'.index \in Nat /\ packet'.of \in Messages /\ packet'.body = Encoding(packet'.of)
    BY <1>4, <2>1
  <2> QED  BY <1>1, <1>5, <2>1, <2>2, <2>3 DEF BackendTypeOK
<1>8. FlushInv' /\ CountInv'
  BY <1>1, <1>5, <1>6 DEF FlushInv, CountInv
<1>9. IndexInv'
  <2>1. Below(index) /\ Increasing /\ index \in Nat /\ \A i \in DOMAIN cloud : cloud[i] \in Nat
    BY <1>1 DEF IndexInv, BackendTypeOK
  <2> QED  BY <1>4, <1>5, <1>6, <2>1 DEF IndexInv, Below, Increasing
<1> QED  BY <1>7, <1>8, <1>9


LEMMA SendKeeps ==
  ASSUME BackendInv, NEW t \in Loggers, LogSendBegin(t) \/ LogSendEnd(t) \/ LogSendRefused(t)
  PROVE  BackendInv'
<1> USE DEF BackendInv
<1>1. /\ t = LogThread /\ LogThread \in Loggers /\ Panicker \in Loggers /\ LogThread # Panicker
      /\ BackendTypeOK /\ stage[t] \in {"built", "send"}
  BY OneBuilds, LogAssumption DEF LogSendBegin, LogSendEnd, LogSendRefused, Loggers
<1>2. /\ UNCHANGED <<queued, overflow, panicMode, index, packet, reg, gone>>
      /\ \/ To(t, "send") /\ UNCHANGED cloud
         \/ To(t, "failed") /\ UNCHANGED cloud
         \/ To(t, "sent") /\ cloud' = Append(cloud, packet.index)
  BY DEF LogSendBegin, LogSendEnd, LogSendRefused, logger, outcome
<1>3. PICK s \in {"send", "failed", "sent"} :
        /\ stage' = [stage EXCEPT ![t] = s]
        /\ cloud' = IF s = "sent" THEN Append(cloud, packet.index) ELSE cloud
  BY <1>2 DEF To
<1>4. stage'[LogThread] = s /\ stage'[Panicker] = stage[Panicker]
  BY <1>1, <1>3 DEF BackendTypeOK
<1>5. /\ packet.index \in Nat /\ index \in Nat /\ packet.index <= index /\ Below(packet.index)
      /\ Increasing /\ cloud \in Seq(Nat) /\ \A i \in DOMAIN cloud : cloud[i] \in Nat
  BY <1>1 DEF IndexInv, BackendTypeOK
<1>6. BackendTypeOK'
  <2>1. cloud' \in Seq(Nat)
    BY <1>3, <1>5
  <2>2. stage' \in [Loggers -> {"idle", "flush", "built", "send", "sent", "failed", "finish"}]
    BY <1>1, <1>3 DEF BackendTypeOK
  <2> QED  BY <1>1, <1>2, <2>1, <2>2 DEF BackendTypeOK
<1>7. FlushInv'
  BY <1>2, <1>4 DEF FlushInv
<1>8. CASE s \in {"send", "failed"}
  <2>1. UNCHANGED cloud
    BY <1>3, <1>8
  <2>2. CountInv'
    BY <1>1, <1>2, <1>4, <1>8, <2>1 DEF CountInv
  <2>3. IndexInv'
    BY <1>2, <1>4, <1>5, <1>8, <2>1 DEF IndexInv, Below, Increasing
  <2> QED  BY <1>6, <1>7, <2>2, <2>3
<1>9. CASE s = "sent"
  <2>1. cloud' = Append(cloud, packet.index)
    BY <1>3, <1>9
  <2>2. /\ Len(cloud') = Len(cloud) + 1 /\ DOMAIN cloud = 1 .. Len(cloud) /\ Len(cloud) \in Nat
        /\ DOMAIN cloud' = 1 .. Len(cloud) + 1
        /\ \A i \in 1 .. Len(cloud) : cloud'[i] = cloud[i]
        /\ cloud'[Len(cloud) + 1] = packet.index
    BY <1>5, <2>1
  <2> DEFINE n == Len(cloud)
  <2>3. /\ \A i \in 1 .. n : cloud[i] < packet.index /\ cloud[i] \in Nat
        /\ \A i, j \in 1 .. n : i < j => cloud[i] < cloud[j]
    BY <1>5, <2>2 DEF Below, Increasing
  <2>4. CountInv'
    <3>1. gone \in Nat /\ UNCHANGED <<panicMode, index, gone>>
      BY <1>1, <1>2 DEF BackendTypeOK
    <3> QED  BY <1>1, <1>4, <1>5, <1>9, <2>2, <3>1 DEF CountInv
  <2> HIDE DEF n
  <2>5. Below(index + 1)'
    <3>1. \A i \in 1 .. n + 1 : cloud'[i] <= packet.index
      BY <1>5, <2>2, <2>3 DEF n
    <3>2. \A i \in 1 .. n + 1 : cloud'[i] \in Nat
      BY <1>5, <2>2, <2>3 DEF n
    <3> QED  BY <1>2, <1>5, <2>2, <3>1, <3>2 DEF Below, n
  <2>6. Increasing'
    <3>1. n \in Nat
      BY <2>2 DEF n
    <3>2. ASSUME NEW i \in 1 .. n + 1, NEW j \in 1 .. n + 1, i < j PROVE cloud'[i] < cloud'[j]
      <4>1. i \in 1 .. n /\ cloud'[i] = cloud[i]
        BY <2>2, <3>1, <3>2 DEF n
      <4>2. CASE j = n + 1
        BY <2>2, <2>3, <4>1, <4>2 DEF n
      <4>3. CASE j \in 1 .. n
        BY <2>2, <2>3, <3>2, <4>1, <4>3 DEF n
      <4> QED  BY <3>1, <4>2, <4>3
    <3> QED  BY <2>2, <3>2 DEF Increasing, n
  <2>7. IndexInv'
    BY <1>4, <1>9, <2>5, <2>6 DEF IndexInv
  <2> QED  BY <1>6, <1>7, <2>4, <2>7
<1> QED  BY <1>8, <1>9

LEMMA FinishKeeps ==
  ASSUME BackendInv, NEW t \in Loggers, Finish(t) \/ Finished(t)
  PROVE  BackendInv'
<1> USE DEF BackendInv
<1>1. /\ t = LogThread /\ LogThread \in Loggers /\ Panicker \in Loggers /\ LogThread # Panicker
      /\ BackendTypeOK /\ stage[t] \in {"sent", "failed", "finish"}
  BY OneBuilds, LogAssumption DEF Finish, Finished, Loggers
<1>2. CASE Finish(t)
  <2>1. /\ stage' = [stage EXCEPT ![t] = "finish"] /\ reg' = [reg EXCEPT ![t] = index + 1]
        /\ gone' = IF stage[t] = "sent" THEN gone ELSE gone + 1
        /\ packet' = NoPacket /\ UNCHANGED <<queued, overflow, panicMode, index, cloud>>
        /\ stage[t] \in {"sent", "failed"}
    BY <1>2 DEF Finish, To, NextIndex, logger
  <2>2. /\ stage'[LogThread] = "finish" /\ stage'[Panicker] = stage[Panicker]
        /\ reg'[LogThread] = index + 1 /\ index \in Nat /\ gone \in Nat
    BY <1>1, <2>1 DEF BackendTypeOK
  <2>3. BackendTypeOK'
    <3>1. gone' \in Nat
      BY <2>1, <2>2
    <3>2. stage' \in [Loggers -> {"idle", "flush", "built", "send", "sent", "failed", "finish"}]
      BY <1>1, <2>1 DEF BackendTypeOK
    <3>3. reg' \in [Loggers -> Nat]
      BY <1>1, <2>1, <2>2 DEF BackendTypeOK
    <3> QED  BY <1>1, <2>1, <3>1, <3>2, <3>3 DEF BackendTypeOK
  <2>4. FlushInv'
    BY <2>1, <2>2 DEF FlushInv
  <2>5. IndexInv'
    BY <1>1, <2>1, <2>2 DEF IndexInv, Below, Increasing
  <2>6. CountInv'
    <3>1. Len(cloud) \in Nat
      BY <1>1 DEF BackendTypeOK
    <3> QED  BY <1>1, <2>1, <2>2, <3>1 DEF CountInv
  <2> QED  BY <2>3, <2>4, <2>5, <2>6
<1>3. CASE Finished(t)
  <2>1. /\ stage' = [stage EXCEPT ![t] = "idle"] /\ reg' = [reg EXCEPT ![t] = 0]
        /\ index' = reg[t] /\ stage[t] = "finish"
        /\ UNCHANGED <<queued, overflow, panicMode, packet, cloud, gone>>
    BY <1>1, <1>3 DEF Finished, To, logger, outcome
  <2>2. /\ stage'[LogThread] = "idle" /\ stage'[Panicker] = stage[Panicker]
        /\ reg[t] \in Nat
    BY <1>1, <2>1 DEF BackendTypeOK
  <2>3. BackendTypeOK'
    <3>1. stage' \in [Loggers -> {"idle", "flush", "built", "send", "sent", "failed", "finish"}]
      BY <1>1, <2>1 DEF BackendTypeOK
    <3>2. reg' \in [Loggers -> Nat]
      BY <1>1, <2>1 DEF BackendTypeOK
    <3> QED  BY <1>1, <2>1, <2>2, <3>1, <3>2 DEF BackendTypeOK
  <2>4. FlushInv'
    BY <2>1, <2>2 DEF FlushInv
  <2>5. IndexInv'
    BY <1>1, <2>1, <2>2 DEF IndexInv, Below, Increasing
  <2>6. CountInv'
    BY <1>1, <2>1, <2>2 DEF CountInv
  <2> QED  BY <2>3, <2>4, <2>5, <2>6
<1> QED  BY <1>2, <1>3

LEMMA BackendInvStep == BackendInv /\ [Next]_vars => BackendInv'
<1> SUFFICES ASSUME BackendInv, [Next]_vars PROVE BackendInv'
  OBVIOUS
<1>1. CASE UNCHANGED logVars \/ Log \/ Panic
  BY <1>1, LogKeeps
<1>2. ASSUME NEW t \in Loggers, LogNext(t) PROVE BackendInv'
  BY <1>2, LogKeeps, DroppedKeeps, BuildKeeps, SendKeeps, FinishKeeps DEF LogNext
<1>3. [Next]_vars => \/ UNCHANGED logVars \/ Log \/ Panic
                     \/ \E t \in Loggers : LogNext(t)
  BY DEF Next, HelloBegin, HelloEnd, vars
<1> QED  BY <1>1, <1>2, <1>3

\* The invariant of the backend.
THEOREM BackendInvariant == Spec => []BackendInv
BY BackendInvInit, BackendInvStep, PTL DEF Spec

\* panic and process of log_backend_golioth.c: the thread that panics enters the
\* backend at any step of the logger's own thread, and yet never touches its packet.
THEOREM PacketNotShared == Spec => []PacketOwned
<1>1. BackendInv => PacketOwned
  BY DEF BackendInv, FlushInv, PacketOwned, Loggers
<1> QED  BY <1>1, BackendInvariant, PTL

\* log_msg_process: whatever the lengths of the message, and wherever the thread is
\* interrupted, the text in the packet buffer is the message's.
THEOREM TextNotDamaged == Spec => []TextIntact
<1>1. BackendInv => TextIntact
  <2> SUFFICES ASSUME BackendInv, packet.of # NoOne
               PROVE  IF packet.body.sent THEN Intact(packet.of, packet.body)
                                          ELSE Unsendable(packet.of)
    BY DEF TextIntact
  <2>1. packet # NoPacket
    BY DEF NoPacket
  <2>2. packet.of \in Messages /\ packet.body = Encoding(packet.of)
    BY <2>1 DEF BackendInv, BackendTypeOK
  <2> QED  BY <2>2, EncodingIntact, LogAssumption
<1> QED  BY <1>1, BackendInvariant, PTL

\* msg_index in log_msg_process, send, finish and dropped: the indices that arrive
\* increase, also when a panic interrupts the read and the write of msg_index++,
\* and until then those that are missing count the messages that were lost.
THEOREM GapsCounted == Spec => []GapsAreLosses
<1>1. BackendInv => GapsAreLosses
  BY DEF BackendInv, BackendTypeOK, IndexInv, CountInv, Increasing, GapsAreLosses
<1> QED  BY <1>1, BackendInvariant, PTL
=============================================================================
