--------------------------- MODULE ObserveProofs ---------------------------
(***************************************************************************)
(* Proofs about Observe, for every number of sequence numbers, every age   *)
(* and every delay that WindowAssumption allows.                           *)
(***************************************************************************)
EXTENDS Observe, TLAPS

\* Two numbers less than the modulus apart keep their distance, or lose the
\* modulus, when they wrap (coap_get_option_int returns wrapped numbers).
LEMMA ModDistance ==
  ASSUME NEW M \in Nat \ {0}, NEW a \in Nat, NEW b \in Nat, a <= b, b - a < M
  PROVE  /\ a % M \in 0..(M - 1) /\ b % M \in 0..(M - 1)
         /\ b % M = (a % M) + (b - a) \/ b % M = (a % M) + (b - a) - M
<1> DEFINE qa == a \div M
           qb == b \div M
           k == qb - qa
<1>1. qa \in Int /\ a % M \in 0..(M - 1) /\ a = M * qa + (a % M)
  OBVIOUS
<1>2. qb \in Int /\ b % M \in 0..(M - 1) /\ b = M * qb + (b % M)
  OBVIOUS
<1> HIDE DEF qa, qb
<1>3. k \in Int /\ M * k = M * qb - M * qa
  BY <1>1, <1>2
<1>4. M * k = (a % M) + (b - a) - (b % M)
  BY <1>1, <1>2, <1>3
<1> HIDE DEF k
<1>5. a % M \in Int /\ b % M \in Int /\ M * k \in Int
  BY <1>1, <1>2, <1>3
<1>6. M * k > -M /\ M * k < 2 * M
  BY <1>1, <1>2, <1>4, <1>5
<1>7. k = 0 \/ k = 1
  BY <1>3, <1>6
<1>8. M * k = 0 \/ M * k = M
  BY <1>7
<1>9. (a % M) + (b - a) - (b % M) = 0 \/ (a % M) + (b - a) - (b % M) = M
  BY <1>4, <1>8
<1>10. b % M = (a % M) + (b - a) \/ b % M = (a % M) + (b - a) - M
  BY <1>5, <1>9
<1> QED
  BY <1>1, <1>2, <1>10

\* sequence_number_is_newer is right about versions less than half the numbers
\* apart, in either order.
LEMMA NewerIsLater ==
  ASSUME NEW v \in Nat, NEW w \in Nat, v - w < Half, w - v < Half
  PROVE  IsNewer(v % Modulus, w % Modulus) <=> v < w
<1>1. Modulus \in Nat \ {0} /\ Half \in Nat \ {0} /\ Modulus = 2 * Half
  BY WindowAssumption DEF WindowAssumption, Modulus
<1>2. CASE v <= w
  <2>1. /\ v % Modulus \in 0..(Modulus - 1) /\ w % Modulus \in 0..(Modulus - 1)
        /\ \/ w % Modulus = (v % Modulus) + (w - v)
           \/ w % Modulus = (v % Modulus) + (w - v) - Modulus
    <3>1. w - v < Modulus
      BY <1>1
    <3> QED
      BY <1>1, <1>2, <3>1, ModDistance
  <2> QED
    BY <1>1, <1>2, <2>1 DEF IsNewer
<1>3. CASE w < v
  <2>1. /\ w % Modulus \in 0..(Modulus - 1) /\ v % Modulus \in 0..(Modulus - 1)
        /\ \/ v % Modulus = (w % Modulus) + (v - w)
           \/ v % Modulus = (w % Modulus) + (v - w) - Modulus
    <3>1. w <= v /\ v - w < Modulus
      BY <1>1, <1>3
    <3> QED
      BY <1>1, <1>3, <3>1, ModDistance
  <2> QED
    BY <1>1, <1>3, <2>1 DEF IsNewer
<1> QED
  BY <1>2, <1>3

-----------------------------------------------------------------------------
(* The inductive invariant.                                                *)

\* The versions the proof compares: those under way, the server's newest and
\* the callback's last.
Known ==
  net \union {[ver |-> version, at |-> at]}
      \union (IF got > 0 THEN {[ver |-> got, at |-> gotAt]} ELSE {})

\* One version per unit of time, and none newer than the server's.
Spaced == \A p, q \in Known : p.ver <= q.ver => q.ver - p.ver <= q.at - p.at
Published == at <= now /\ \A p \in Known : p.ver <= version /\ p.at <= now
UnderWay == \A p \in net : p.ver > 0 /\ now - p.at <= Life

\* What the reply structure says of the last version.
ReplyIsGot ==
  IF got = 0 THEN replyTs = -Fresh
  ELSE replySeq = got % Modulus /\ gotAt <= replyTs /\ replyTs - gotAt <= Life

WindowInv ==
  TypeOK /\ now > 0 /\ Spaced /\ Published /\ UnderWay /\ ReplyIsGot
    /\ InOrder /\ AckedIsSeen

LEMMA ModulusType == Modulus \in Nat \ {0} /\ Half \in Nat \ {0} /\ Half < Modulus
  BY WindowAssumption DEF WindowAssumption, Modulus

LEMMA SeqType == ASSUME NEW v \in Nat PROVE v % Modulus \in 0..(Modulus - 1)
  BY ModulusType, ModDistance

\* golioth_coap_reply_is_newer decides as if numbers did not wrap: a
\* notification passes exactly when it is later than the last one.
LEMMA PassesIfLater ==
  ASSUME WindowInv, NEW p \in net
  PROVE  ReplyNewer(p.ver % Modulus) <=> got < p.ver
<1>1. /\ now \in Nat /\ got \in Nat /\ gotAt \in Nat /\ replyTs \in Int
      /\ p.ver \in Nat /\ p.at \in Nat
      /\ p.ver > 0 /\ now - p.at <= Life /\ p.at <= now /\ now > 0
  BY DEF WindowInv, TypeOK, UnderWay, Published, Known
<1>2. Fresh \in Nat /\ Life \in Nat /\ Half \in Nat /\ Life <= Fresh /\ Life + Fresh < Half
  BY WindowAssumption DEF WindowAssumption
<1>3. CASE got = 0
  BY <1>1, <1>2, <1>3 DEF WindowInv, ReplyIsGot, ReplyNewer
<1>4. CASE got > 0
  <2> DEFINE g == [ver |-> got, at |-> gotAt]
  <2>1. p \in Known /\ g \in Known
    BY <1>4 DEF Known
  <2>2. /\ p.ver <= got => got - p.ver <= gotAt - p.at
        /\ got <= p.ver => p.ver - got <= p.at - gotAt
    BY <2>1 DEF WindowInv, Spaced
  <2>3. gotAt <= now
    BY <2>1 DEF WindowInv, Published
  <2>4. replySeq = got % Modulus /\ gotAt <= replyTs /\ replyTs - gotAt <= Life
    BY <1>1, <1>4 DEF WindowInv, ReplyIsGot
  <2>5. CASE now > replyTs + Fresh
    BY <1>1, <1>2, <2>2, <2>4, <2>5 DEF ReplyNewer
  <2>6. CASE now <= replyTs + Fresh
    <3>1. got - p.ver < Half /\ p.ver - got < Half
      BY <1>1, <1>2, <2>2, <2>3, <2>4, <2>6
    <3>2. IsNewer(got % Modulus, p.ver % Modulus) <=> got < p.ver
      BY <1>1, <3>1, NewerIsLater
    <3> QED
      BY <1>1, <1>2, <2>4, <2>6, <3>2 DEF ReplyNewer
  <2> QED
    BY <1>1, <1>2, <2>5, <2>6
<1> QED
  BY <1>1, <1>3, <1>4

-----------------------------------------------------------------------------
LEMMA WindowInit == Init => WindowInv
<1> SUFFICES ASSUME Init PROVE WindowInv
  OBVIOUS
<1>1. Fresh \in Nat /\ 0 \in 0..(Modulus - 1)
  BY WindowAssumption, ModulusType DEF WindowAssumption
<1>2. TypeOK
  BY <1>1 DEF Init, TypeOK
<1>3. Known = {[ver |-> 0, at |-> 0]}
  BY DEF Init, Known
<1> QED
  BY <1>2, <1>3 DEF Init, WindowInv, Spaced, Published, UnderWay, ReplyIsGot, InOrder, AckedIsSeen

LEMMA PublishKeeps == WindowInv /\ Publish => WindowInv'
<1> SUFFICES ASSUME WindowInv, Publish PROVE WindowInv'
  OBVIOUS
<1> DEFINE n == [ver |-> version + 1, at |-> now]
           c == [ver |-> version, at |-> at]
<1>1. /\ now \in Nat /\ version \in Nat /\ at \in Nat /\ got \in Nat /\ gotAt \in Nat
      /\ net \subseteq [ver : Nat, at : Nat]
  BY DEF WindowInv, TypeOK
<1>2. Known' \subseteq Known \union {n}
  BY DEF Publish, Known, reply, ghosts
<1>3. \A p \in Known : p.ver \in Nat /\ p.at \in Nat
  BY <1>1 DEF Known
<1>4. \A p \in Known : p.ver <= version /\ p.at <= now
  BY DEF WindowInv, Published
<1>5. \A p \in Known : version - p.ver <= at - p.at
  BY <1>4, c \in Known DEF WindowInv, Spaced, Known
<1>6. TypeOK'
  BY <1>1 DEF WindowInv, TypeOK, Publish, reply, ghosts
<1>7. Spaced'
  <2> SUFFICES ASSUME NEW p \in Known', NEW q \in Known', p.ver <= q.ver
               PROVE  q.ver - p.ver <= q.at - p.at
    BY DEF Spaced
  <2>1. CASE p \in Known /\ q \in Known
    BY <2>1 DEF WindowInv, Spaced
  <2>2. CASE p \in Known /\ q = n
    BY <1>1, <1>3, <1>5, <2>2 DEF Publish
  <2>3. CASE p = n /\ q \in Known
    BY <1>1, <1>3, <1>4, <2>3
  <2>4. CASE p = n /\ q = n
    BY <1>1, <2>4
  <2> QED
    BY <1>2, <2>1, <2>2, <2>3, <2>4
<1>8. Published'
  <2>1. \A p \in Known' : p.ver <= version + 1 /\ p.at <= now
    BY <1>1, <1>2, <1>3, <1>4
  <2> QED
    BY <1>1, <2>1 DEF Published, Publish
<1>9. UnderWay'
  <2>1. now - now <= Life /\ version + 1 > 0
    BY <1>1, WindowAssumption DEF WindowAssumption
  <2> QED
    BY <2>1 DEF WindowInv, UnderWay, Publish
<1> QED
  BY <1>6, <1>7, <1>8, <1>9
  DEF WindowInv, Publish, ReplyIsGot, InOrder, AckedIsSeen, reply, ghosts

LEMMA TickKeeps == WindowInv /\ Tick => WindowInv'
<1> SUFFICES ASSUME WindowInv, Tick PROVE WindowInv'
  OBVIOUS
<1>1. /\ now \in Nat /\ version \in Nat /\ at \in Nat /\ got \in Nat /\ gotAt \in Nat
      /\ net \subseteq [ver : Nat, at : Nat]
  BY DEF WindowInv, TypeOK
<1>2. Known' \subseteq Known
  BY DEF Tick, Known, server, reply, ghosts
<1>3. \A p \in Known : p.at \in Nat
  BY <1>1 DEF Known
<1>4. TypeOK'
  BY <1>1 DEF WindowInv, TypeOK, Tick, server, reply, ghosts
<1>5. Spaced'
  BY <1>2 DEF WindowInv, Spaced
<1>6. Published'
  BY <1>1, <1>2, <1>3 DEF WindowInv, Published, Tick, server
<1>7. UnderWay'
  <2> SUFFICES ASSUME NEW p \in net' PROVE p.ver > 0 /\ now' - p.at <= Life
    BY DEF UnderWay
  <2>1. p \in net /\ now' = now + 1 /\ now + 1 - p.at <= Life
    BY DEF Tick
  <2>2. p.at \in Nat
    BY <1>1, <2>1
  <2> QED
    BY <1>1, <2>1, <2>2, WindowAssumption DEF WindowAssumption, WindowInv, UnderWay
<1> QED
  BY <1>1, <1>4, <1>5, <1>6, <1>7
  DEF WindowInv, Tick, ReplyIsGot, InOrder, AckedIsSeen, reply, ghosts

LEMMA RegisterKeeps == WindowInv /\ Register => WindowInv'
<1> SUFFICES ASSUME WindowInv, Register PROVE WindowInv'
  OBVIOUS
<1>1. Fresh \in Nat /\ 0 \in 0..(Modulus - 1)
  BY WindowAssumption, ModulusType DEF WindowAssumption
<1>2. Known' \subseteq Known
  BY DEF Register, Registered, Known, server
<1>3. TypeOK'
  BY <1>1 DEF WindowInv, TypeOK, Register, Registered, server
<1>4. Spaced' /\ Published' /\ UnderWay'
  BY <1>2 DEF WindowInv, Spaced, Published, UnderWay, Register, Registered, server
<1> QED
  BY <1>3, <1>4
  DEF WindowInv, Register, Registered, ReplyIsGot, InOrder, AckedIsSeen

LEMMA ReceiveKeeps ==
  ASSUME WindowInv, NEW p \in net, Receive(p) PROVE WindowInv'
<1>1. /\ now \in Nat /\ version \in Nat /\ at \in Nat /\ got \in Nat /\ gotAt \in Nat
      /\ before \in Nat /\ acked \in Nat /\ p.ver \in Nat /\ p.at \in Nat
      /\ replySeq \in 0..(Modulus - 1) /\ replyTs \in Int
      /\ acked <= got /\ p.ver > 0 /\ p.at <= now /\ now - p.at <= Life
  BY DEF WindowInv, TypeOK, AckedIsSeen, UnderWay, Published, Known
<1>2. ReplyNewer(p.ver % Modulus) <=> got < p.ver
  BY PassesIfLater
<1>3. UNCHANGED <<now, version, at, net>>
  BY DEF Receive, server
<1>4. p = [ver |-> p.ver, at |-> p.at]
  BY DEF WindowInv, TypeOK
<1>5. CASE got < p.ver
  <2>1. /\ replySeq' = p.ver % Modulus /\ replyTs' = now
        /\ before' = got /\ got' = p.ver /\ gotAt' = p.at
    BY <1>2, <1>5 DEF Receive
  <2>2. acked' \in Nat /\ acked' <= got'
    BY <1>1, <1>5, <2>1 DEF Receive
  <2>3. TypeOK'
    BY <1>1, <1>3, <2>1, <2>2, SeqType DEF WindowInv, TypeOK
  <2>4. Known' \subseteq Known
    BY <1>3, <1>4, <2>1 DEF Known
  <2>5. Spaced' /\ Published' /\ UnderWay'
    BY <1>3, <2>4 DEF WindowInv, Spaced, Published, UnderWay
  <2>6. ReplyIsGot' /\ InOrder' /\ AckedIsSeen'
    BY <1>1, <1>5, <2>1, <2>2 DEF ReplyIsGot, InOrder, AckedIsSeen
  <2> QED
    BY <1>3, <2>3, <2>5, <2>6 DEF WindowInv
<1>6. CASE ~(got < p.ver)
  <2>1. UNCHANGED <<replySeq, replyTs, before, got, gotAt>>
    BY <1>2, <1>6 DEF Receive, reply
  <2>2. acked' \in Nat /\ acked' <= got'
    BY <1>1, <1>6, <2>1 DEF Receive
  <2>3. TypeOK'
    BY <1>3, <2>1, <2>2 DEF WindowInv, TypeOK
  <2>4. Known' = Known
    BY <1>3, <2>1 DEF Known
  <2> QED
    BY <1>3, <2>1, <2>2, <2>3, <2>4
    DEF WindowInv, Spaced, Published, UnderWay, ReplyIsGot, InOrder, AckedIsSeen
<1> QED
  BY <1>5, <1>6

\* The inductive invariant: versions are spaced in time as they are in number,
\* and the reply structure describes the last one handed to the callback.
THEOREM ObserveInvariant == Spec => []WindowInv
<1>1. WindowInv /\ [Next]_vars => WindowInv'
  <2> SUFFICES ASSUME WindowInv, [Next]_vars PROVE WindowInv'
    OBVIOUS
  <2>1. CASE Publish
    BY <2>1, PublishKeeps
  <2>2. CASE Tick
    BY <2>2, TickKeeps
  <2>3. CASE Register
    BY <2>3, RegisterKeeps
  <2>4. CASE \E p \in net : Receive(p)
    BY <2>4, ReceiveKeeps
  <2>5. CASE UNCHANGED vars
    BY <2>5 DEF vars, server, reply, ghosts, WindowInv, TypeOK, Known, Spaced, Published,
                UnderWay, ReplyIsGot, InOrder, AckedIsSeen
  <2> QED
    BY <2>1, <2>2, <2>3, <2>4, <2>5 DEF Next
<1> QED
  BY <1>1, WindowInit, PTL DEF Spec

\* For any modulus, age and delay in the window, the callback never sees an
\* older or the same version again (golioth_coap_reply_is_newer).
THEOREM DeliveredInOrder == Spec => []InOrder
  BY ObserveInvariant, PTL DEF WindowInv

\* Nothing the callback has not seen, or seen surpassed, is acknowledged
\* (golioth_process_rx_data).
THEOREM AcknowledgedIsSeen == Spec => []AckedIsSeen
  BY ObserveInvariant, PTL DEF WindowInv

\* Every reachable state is well typed, the stored sequence number below 2^24.
THEOREM ObserveTypes == Spec => []TypeOK
  BY ObserveInvariant, PTL DEF WindowInv
=============================================================================
