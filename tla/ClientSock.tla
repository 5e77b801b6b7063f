----------------------------- MODULE ClientSock -----------------------------
(***************************************************************************)
(* The client core, golioth.c: the socket of the client, the lock that     *)
(* every use of it takes, and the thread that opens it, receives from it   *)
(* and closes it.  Any thread may send.  Descriptors are numbers that the  *)
(* rest of the program uses, too, and gets again when they were closed.    *)
(*                                                                         *)
(* A system call begins and ends: using[t] is the descriptor that thread t *)
(* has passed to the one it is in.                                         *)
(***************************************************************************)
EXTENDS Naturals

CONSTANTS
  Fds,       \* descriptors
  NoFd,      \* -1
  Client,    \* the client thread
  Senders,   \* other threads that send
  NoOne,     \* holds no lock
  MaxAddrs   \* bound: addresses the host name resolves to

ASSUME SockAssumption ==
  /\ NoFd \notin Fds /\ Client \notin Senders
  /\ NoOne \notin Senders \union {Client} /\ MaxAddrs \in Nat \ {0}

VARIABLES
  sock,   \* client->sock
  lock,   \* who holds client->lock
  at,     \* where the client thread is
  addrs,  \* addresses it has not tried yet
  fd,     \* sock of golioth_connect_sockaddr
  using,  \* descriptor of the system call each thread is in, or NoFd
  files   \* whose each descriptor is: free, client or other

connecting == <<addrs, fd>>
sockVars == <<sock, lock, at, connecting, using, files>>

Threads == Senders \union {Client}

SockInit ==
  /\ sock = NoFd /\ lock = NoOne /\ at = "down"
  /\ addrs = 0 /\ fd = NoFd
  /\ using = [t \in Threads |-> NoFd]
  /\ files \in [Fds -> {"free", "other"}]

\* golioth_lock and golioth_unlock.
Acquire(t) == lock = NoOne /\ lock' = t
Release == lock' = NoOne

Enter(t, d) == using' = [using EXCEPT ![t] = d]
Leave(t) == Enter(t, NoFd)

-----------------------------------------------------------------------------
(* golioth_send and golioth_sendmsg, of any thread.                        *)

\* __golioth_send finds a socket ...
SendBegin(t) ==
  /\ Acquire(t) /\ sock # NoFd
  /\ Enter(t, sock)
  /\ UNCHANGED <<sock, connecting, files>>

\* ... or returns -ENOTCONN.
SendRefused(t) ==
  /\ lock = NoOne /\ sock = NoFd
  /\ UNCHANGED <<sock, lock, connecting, using, files>>

\* zsock_send ended, well or not.
SendEnd(t) ==
  /\ using[t] # NoFd
  /\ Leave(t) /\ Release
  /\ UNCHANGED <<sock, connecting, files>>

-----------------------------------------------------------------------------
(* golioth_connect: the addresses are tried one after the other.           *)
Resolve ==
  /\ at = "down"
  /\ addrs' \in 1 .. MaxAddrs /\ at' = "try"
  /\ UNCHANGED <<sock, lock, fd, using, files>>

\* golioth_connect_sockaddr: zsock_socket fails or opens a descriptor.
NoSocket ==
  /\ at = "try" /\ addrs > 0
  /\ addrs' = addrs - 1
  /\ UNCHANGED <<sock, lock, at, fd, using, files>>

Socket ==
  /\ at = "try" /\ addrs > 0
  /\ \E d \in Fds : files[d] = "free" /\ fd' = d /\ files' = [files EXCEPT ![d] = "client"]
  /\ at' = "setup"
  /\ UNCHANGED <<sock, lock, addrs, using>>

\* golioth_setsockopt_dtls and zsock_connect.
Setup ==
  /\ at = "setup"
  /\ at' \in {"connect", "abandon"}
  /\ UNCHANGED <<sock, lock, connecting, using, files>>

\* The first packet makes the DTLS handshake; the lock is held until it is done.
Handshake ==
  /\ at = "connect" /\ Acquire(Client)
  /\ sock' = fd /\ Enter(Client, fd)
  /\ at' = "handshake"
  /\ UNCHANGED <<connecting, files>>

HandshakeDone ==
  /\ at = "handshake"
  /\ Leave(Client) /\ Release
  /\ at' = "connected"
  /\ UNCHANGED <<sock, connecting, files>>

\* Mistaken: the descriptor that is about to be closed is left in client->sock.
SockLeft == UNCHANGED sock
SockReset == sock' = NoFd

\* Mistaken: the error path leaves the lock held.
LeftLocked == UNCHANGED lock
Unlocked == Release

HandshakeFails ==
  /\ at = "handshake"
  /\ SockReset /\ Leave(Client) /\ Unlocked
  /\ at' = "abandon"
  /\ UNCHANGED <<connecting, files>>

\* __golioth_close at close_sock; mistaken: the descriptor is leaked.
FilesLeaked == UNCHANGED files
FilesClosed == files' = [files EXCEPT ![fd] = "free"]

Abandon ==
  /\ at = "abandon"
  /\ FilesClosed
  /\ addrs' = addrs - 1 /\ fd' = NoFd /\ at' = "try"
  /\ UNCHANGED <<sock, lock, using>>

\* The last address failed.
Unreachable ==
  /\ at = "try" /\ addrs = 0
  /\ at' = "down"
  /\ UNCHANGED <<sock, lock, connecting, using, files>>

\* The engine and the application are told.
OnConnect ==
  /\ at = "connected"
  /\ at' = "up" /\ fd' = NoFd /\ addrs' = 0
  /\ UNCHANGED <<sock, lock, using, files>>

Connect ==
  \/ Resolve \/ NoSocket \/ Socket \/ Setup \/ Handshake \/ HandshakeDone
  \/ HandshakeFails \/ Abandon \/ Unreachable \/ OnConnect

-----------------------------------------------------------------------------
(* golioth_process_rx.                                                     *)

\* What is received: length, token length, type and code of a packet.
Packets == [len : {3, 4, 5}, tkl : {0, 9}, type : {"con", "non"}, empty : BOOLEAN]

\* coap_data_check_rx_packet_type.
Class(p) ==
  IF p.len < 4 \/ p.tkl > 8 THEN "invalid"
  ELSE IF p.tkl = 0 /\ p.len = 4 /\ p.type = "con" /\ p.empty THEN "ping"
  ELSE "data"

\* golioth_process_rx_ping and golioth_process_rx_data.  Parsing is the CoAP
\* library's, a packet that was parsed is the request engine's; only a ping's
\* acknowledgement that cannot be made or sent is an error.
After(p) ==
  CASE Class(p) = "invalid" -> {"leave"}
    [] Class(p) = "ping" -> {"leave", "ack_ping"}
    [] Class(p) = "data" -> {"leave", IF p.type = "con" THEN "ack_data" ELSE "up"}

RecvBegin ==
  /\ at = "up" /\ Acquire(Client)
  /\ Enter(Client, sock) /\ at' = "recv"
  /\ UNCHANGED <<sock, connecting, files>>

RecvEnd ==
  /\ at = "recv"
  /\ Leave(Client) /\ Release
  /\ UNCHANGED <<sock, connecting, files>>

\* -EAGAIN, or another error.
RecvNothing == RecvEnd /\ at' \in {"up", "leave"}
RecvPacket == RecvEnd /\ \E p \in Packets : at' \in After(p)

\* golioth_ack_packet, and what golioth_poll_prepare and golioth_ping send.
Sending == {"up", "ack_ping", "ack_data"}
SentFrom == [s \in {"send", "send_ping", "send_data"} |->
               CASE s = "send" -> {"up"}
                 [] s = "send_ping" -> {"up", "leave"}
                 [] s = "send_data" -> {"up"}]

ClientSend ==
  /\ at \in Sending /\ SendBegin(Client)
  /\ at' = CASE at = "up" -> "send" [] at = "ack_ping" -> "send_ping"
             [] at = "ack_data" -> "send_data"

ClientSent ==
  /\ at \in DOMAIN SentFrom /\ SendEnd(Client)
  /\ at' \in SentFrom[at]

-----------------------------------------------------------------------------
(* golioth_disconnect, after an error or at another thread's request; the  *)
(* requests are cancelled first.                                           *)
Disconnect ==
  /\ at \in {"up", "leave"}
  /\ at' = "close"
  /\ UNCHANGED <<sock, lock, connecting, using, files>>

\* golioth_close; mistaken: the lock is not taken.
NotLocked == UNCHANGED lock
Locked == Acquire(Client)

CloseBegin ==
  /\ at = "close" /\ Locked
  /\ Enter(Client, sock) /\ at' = "closing"
  /\ UNCHANGED <<sock, connecting, files>>

\* zsock_close has freed the descriptor; client->sock still names it.
CloseFd ==
  /\ at = "closing"
  /\ files' = [files EXCEPT ![sock] = "free"]
  /\ Leave(Client) /\ at' = "closed"
  /\ UNCHANGED <<sock, lock, connecting>>

CloseEnd ==
  /\ at = "closed"
  /\ sock' = NoFd /\ Release /\ at' = "down"
  /\ UNCHANGED <<connecting, using, files>>

Close == Disconnect \/ CloseBegin \/ CloseFd \/ CloseEnd

ClientNext ==
  Connect \/ RecvBegin \/ RecvNothing \/ RecvPacket \/ ClientSend \/ ClientSent \/ Close

-----------------------------------------------------------------------------
(* The rest of the program opens and closes descriptors of its own.        *)
OtherOpens ==
  /\ \E d \in Fds : files[d] = "free" /\ files' = [files EXCEPT ![d] = "other"]
  /\ UNCHANGED <<sock, lock, at, connecting, using>>

OtherCloses ==
  /\ \E d \in Fds : files[d] = "other" /\ files' = [files EXCEPT ![d] = "free"]
  /\ UNCHANGED <<sock, lock, at, connecting, using>>

-----------------------------------------------------------------------------
\* The state has the shape of golioth_client, and the lock is held by a thread
\* that is in a system call on the client's socket or about to reset it.
SockTypeOK ==
  /\ sock \in Fds \union {NoFd} /\ fd \in Fds \union {NoFd}
  /\ lock \in Threads \union {NoOne}
  /\ at \in {"down", "try", "setup", "connect", "handshake", "connected", "abandon",
             "up", "recv", "leave", "ack_ping", "ack_data", "send", "send_ping",
             "send_data", "close", "closing", "closed"}
  /\ addrs \in 0 .. MaxAddrs
  /\ using \in [Threads -> Fds \union {NoFd}]
  /\ files \in [Fds -> {"free", "client", "other"}]

\* A system call is made on a descriptor that is the client's own until the call
\* ends: no thread sends on, receives from or closes one that was closed by
\* another thread and opened by another part of the program meanwhile.  And no
\* error path leaks one: what the client holds is its socket, or the one it is
\* connecting (golioth_send, golioth_recv, golioth_close, golioth_connect_sockaddr).
OwnSocket ==
  /\ \A t \in Threads : using[t] # NoFd => files[using[t]] = "client"
  /\ \A d \in Fds : files[d] = "client" => d \in {sock, fd}
=============================================================================
