------------------------------ MODULE Observe ------------------------------
(***************************************************************************)
(* The notifications of one observation: the server numbers them modulo    *)
(* 2^24, the network delays, duplicates, reorders and loses them, and the  *)
(* client drops what is not newer than the last one it handed to the       *)
(* callback (coap_req.c, RFC 7641 section 3.4), then acknowledges it       *)
(* (golioth.c).                                                            *)
(*                                                                         *)
(* A notification is named by its version, the number it would have if the *)
(* server did not wrap; the code sees the version modulo Modulus only.     *)
(***************************************************************************)
EXTENDS Integers

CONSTANTS
  Half,     \* 1 << 23, half of the sequence numbers
  Fresh,    \* COAP_OBSERVE_TS_DIFF_NEWER
  Life,     \* the longest a notification is under way
  MaxTime   \* bound: k_uptime_get()

Modulus == 2 * Half

\* What is under way is fresh, and the server, which publishes at most once per
\* unit of time, does not use half of the numbers while the last notification
\* is fresh and the next one under way.
WindowAssumption ==
  /\ Half \in Nat \ {0} /\ Fresh \in Nat /\ Life \in Nat /\ MaxTime \in Nat
  /\ Life <= Fresh /\ Life + Fresh < Half
ASSUME WindowAssumption

VARIABLES
  now,       \* k_uptime_get()
  version,   \* the server's newest version
  at,        \* when it was published
  net,       \* notifications under way: their version and when it was published
  replySeq,  \* req->reply.seq
  replyTs,   \* req->reply.ts
  before,    \* the versions handed to the callback, 0 for none: before, then
  got,       \* got, the last one
  gotAt,     \* when got was published
  acked      \* the newest version acknowledged

server == <<version, at>>
reply == <<replySeq, replyTs>>
ghosts == <<before, got, gotAt, acked>>
vars == <<now, server, net, reply, ghosts>>

\* golioth_coap_req_new.
Registered ==
  /\ net' = {} /\ replySeq' = 0 /\ replyTs' = -Fresh
  /\ before' = 0 /\ got' = 0 /\ gotAt' = 0 /\ acked' = 0

Init ==
  /\ now = 1 /\ version = 0 /\ at = 0
  /\ net = {} /\ replySeq = 0 /\ replyTs = -Fresh
  /\ before = 0 /\ got = 0 /\ gotAt = 0 /\ acked = 0

-----------------------------------------------------------------------------
(* The server and the network.                                             *)
Publish ==
  /\ at < now
  /\ version' = version + 1 /\ at' = now
  /\ net' = net \union {[ver |-> version + 1, at |-> now]}
  /\ UNCHANGED <<now, reply, ghosts>>

Tick ==
  /\ now < MaxTime /\ now' = now + 1
  /\ net' = {p \in net : now + 1 - p.at <= Life}
  /\ UNCHANGED <<server, reply, ghosts>>

\* A new session, and a new token: what is under way finds no request.
Register == Registered /\ UNCHANGED <<now, server>>

-----------------------------------------------------------------------------
(* The client.                                                             *)

\* sequence_number_is_newer; mistaken: a duplicate passes.
IsNewerOrSame(v1, v2) ==
  (v1 <= v2 /\ v2 - v1 < Half) \/ (v1 > v2 /\ v1 - v2 > Half)
IsNewer(v1, v2) ==
  (v1 < v2 /\ v2 - v1 < Half) \/ (v1 > v2 /\ v1 - v2 > Half)

\* golioth_coap_reply_is_newer; mistaken: without the age of the last one.
ReplyNewerAlways(seq) == IsNewer(replySeq, seq)
ReplyNewer(seq) == now > replyTs + Fresh \/ IsNewer(replySeq, seq)

\* golioth_process_rx_data: the request, then the acknowledgement, which a
\* notification that is not confirmable does not get and which may fail.
Receive(p) ==
  LET seq == p.ver % Modulus IN
  /\ IF ReplyNewer(seq)
     THEN /\ replySeq' = seq /\ replyTs' = now
          /\ before' = got /\ got' = p.ver /\ gotAt' = p.at
     ELSE UNCHANGED <<reply, before, got, gotAt>>
  /\ acked' \in {acked, IF acked < p.ver THEN p.ver ELSE acked}
  /\ UNCHANGED <<now, server, net>>

Next == Publish \/ Tick \/ Register \/ \E p \in net : Receive(p)

Spec == Init /\ [][Next]_vars

-----------------------------------------------------------------------------
TypeOK ==
  /\ now \in Nat /\ version \in Nat /\ at \in Nat
  /\ net \subseteq [ver : Nat, at : Nat]
  /\ replySeq \in 0..(Modulus - 1) /\ replyTs \in Int
  /\ before \in Nat /\ got \in Nat /\ gotAt \in Nat /\ acked \in Nat

\* The callback sees versions that only grow, each at most once, although
\* sequence numbers wrap and packets overtake each other and come twice
\* (golioth_coap_reply_is_newer).
InOrder == got > 0 => before < got

\* A version is acknowledged only when the callback has seen it or a later one:
\* golioth_process_rx_data acknowledges what golioth_coap_req_process_rx
\* ignored, and the server will not send that again.
AckedIsSeen == acked <= got
=============================================================================
