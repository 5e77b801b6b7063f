--------------------------- MODULE CoapReqsProofs ---------------------------
(***************************************************************************)
(* Theorems about the request engine for any number of requests, blocks,   *)
(* retries and delays: its list, the blocks it hands over, the contract it *)
(* implements, the deadline of every poll and the retransmissions before a *)
(* timeout.                                                                *)
(***************************************************************************)
EXTENDS CoapReqs, TLAPS, SequenceTheorems

\* Updating a field of one request keeps the field's type.
LEMMA UpdateType ==
  ASSUME NEW S, NEW T, NEW f \in [S -> T], NEW x, NEW v \in T
  PROVE  [f EXCEPT ![x] = v] \in [S -> T]
OBVIOUS

-----------------------------------------------------------------------------
(* The clock.                                                              *)

\* Adding a multiple of the divisor leaves the remainder.
LEMMA RemainderUnique ==
  ASSUME NEW m \in Nat \ {0}, NEW r \in 0 .. m - 1, NEW k \in Int
  PROVE  (m * k + r) % m = r
<1> DEFINE a == m * k + r
<1> DEFINE q == a \div m
<1> DEFINE s == a % m
<1>1. a \in Int
  BY SMT
<1>2. a = m * q + s /\ s \in 0 .. m - 1 /\ q \in Int
  BY <1>1, SMT
<1> HIDE DEF q, s
<1>3. m * (k - q) = s - r
  BY <1>2, SMT
<1>4. k = q
  <2>1. CASE k - q >= 1
    <3>1. m * (k - q) >= m
      BY <2>1, <1>2, SMT
    <3> QED  BY <3>1, <1>3, <1>2, SMT
  <2>2. CASE k - q <= -1
    <3>1. m * (k - q) <= -m
      BY <2>2, <1>2, SMT
    <3> QED  BY <3>1, <1>3, <1>2, SMT
  <2> QED  BY <2>1, <2>2, <1>2, SMT
<1>5. s = r
  BY <1>3, <1>4, <1>2, SMT
<1> QED  BY <1>5 DEF s

\* What Uint32 does to a time.
LEMMA Wrapped ==
  ASSUME NEW n \in Int
  PROVE  \E k \in Int : n = (2 * HalfRange) * k + Uint32(n)
<1> DEFINE m == 2 * HalfRange
<1>1. m \in Nat \ {0}
  BY TimingAssumption
<1> HIDE DEF m
<1>2. n = m * (n \div m) + (n % m) /\ n \div m \in Int
  BY <1>1, SMT
<1> QED  BY <1>2 DEF m, Uint32

\* Int32 undoes what Uint32 did, once a difference is within its range.
LEMMA Int32Small ==
  ASSUME NEW n \in Int, NEW k \in Int, -HalfRange <= n, n < HalfRange
  PROVE  Int32((2 * HalfRange) * k + n) = n
<1> DEFINE m == 2 * HalfRange
<1> DEFINE r == n + HalfRange
<1>1. m \in Nat \ {0} /\ r \in 0 .. m - 1 /\ HalfRange \in Nat
  BY TimingAssumption
<1>2. (m * k + r) % m = r
  BY <1>1, RemainderUnique
<1>3. m * k + n + HalfRange = m * k + r
  BY <1>1, SMT
<1> QED  BY <1>1, <1>2, <1>3 DEF Int32

\* golioth_coap_req_poll_prepare compares a deadline and the time, each a 32-bit
\* number: what it gets is their true distance wherever the clock has wrapped, as
\* long as that is less than 2^31.
THEOREM DifferencesExact ==
  ASSUME NEW deadline \in Int, NEW now \in Int,
         -HalfRange <= deadline - now, deadline - now < HalfRange
  PROVE  Int32(Uint32(deadline) - Uint32(now)) = deadline - now
<1>1. PICK j \in Int : deadline = (2 * HalfRange) * j + Uint32(deadline)
  BY Wrapped
<1>2. PICK k \in Int : now = (2 * HalfRange) * k + Uint32(now)
  BY Wrapped
<1>3. Uint32(deadline) \in Int /\ Uint32(now) \in Int /\ HalfRange \in Int
  BY TimingAssumption DEF Uint32
<1>4. Uint32(deadline) - Uint32(now) = (2 * HalfRange) * (k - j) + (deadline - now)
  BY <1>1, <1>2, <1>3, SMT
<1>5. Int32((2 * HalfRange) * (k - j) + (deadline - now)) = deadline - now
  BY Int32Small
<1> QED  BY <1>4, <1>5

-----------------------------------------------------------------------------
(* The list operations.                                                    *)

Distinct(l) == \A i, j \in 1 .. Len(l) : l[i] = l[j] => i = j

\* A member of a list has a position, the only one if members are distinct.
LEMMA PosProperties ==
  ASSUME NEW l \in Seq(Reqs), NEW r \in ToSet(l)
  PROVE  /\ Pos(l, r) \in 1 .. Len(l)
         /\ l[Pos(l, r)] = r
         /\ Distinct(l) => \A i \in 1 .. Len(l) : l[i] = r => i = Pos(l, r)
<1>1. \E i \in 1 .. Len(l) : l[i] = r
  BY DEF ToSet
<1>2. /\ Pos(l, r) \in 1 .. Len(l)
      /\ l[Pos(l, r)] = r
  BY <1>1 DEF Pos
<1>3. QED
  BY <1>2 DEF Distinct

\* sys_dlist_append adds one member and keeps members distinct.
LEMMA AppendMember ==
  ASSUME NEW l \in Seq(Reqs), NEW n \in Reqs, n \notin ToSet(l)
  PROVE  /\ Append(l, n) \in Seq(Reqs)
         /\ ToSet(Append(l, n)) = ToSet(l) \union {n}
         /\ Distinct(l) => Distinct(Append(l, n))
         /\ \A r \in ToSet(l) : Distinct(l) => Pos(Append(l, n), r) = Pos(l, r)
<1> DEFINE m == Append(l, n)
<1>1. /\ m \in Seq(Reqs) /\ Len(m) = Len(l) + 1 /\ m[Len(l) + 1] = n
      /\ \A i \in 1 .. Len(l) : m[i] = l[i]
  BY AppendProperties
<1>2. Len(l) \in Nat
  OBVIOUS
<1>3. ToSet(m) = ToSet(l) \union {n}
  BY <1>1, <1>2 DEF ToSet
<1>4. \A i \in 1 .. Len(l) : l[i] # n
  BY DEF ToSet
<1>5. Distinct(l) => Distinct(m)
  BY <1>1, <1>2, <1>4 DEF Distinct
<1>6. ASSUME NEW r \in ToSet(l), Distinct(l)
      PROVE  Pos(m, r) = Pos(l, r)
  <2>1. Pos(l, r) \in 1 .. Len(l) /\ l[Pos(l, r)] = r
    BY PosProperties
  <2>2. Pos(l, r) \in 1 .. Len(m) /\ m[Pos(l, r)] = r
    BY <2>1, <1>1, <1>2
  <2>3. QED
    BY <2>2, <1>1, <1>3, <1>5, <1>6, PosProperties
<1>7. QED
  BY <1>1, <1>3, <1>5, <1>6

\* sys_dlist_remove takes out one member and keeps members distinct.
LEMMA UnlinkMember ==
  ASSUME NEW l \in Seq(Reqs), Distinct(l), NEW r \in ToSet(l)
  PROVE  /\ Unlink(l, r) \in Seq(Reqs)
         /\ Distinct(Unlink(l, r))
         /\ ToSet(Unlink(l, r)) = ToSet(l) \ {r}
         /\ Len(Unlink(l, r)) = Len(l) - 1
         /\ \A i \in 1 .. Len(l) - 1 :
              Unlink(l, r)[i] = IF i < Pos(l, r) THEN l[i] ELSE l[i + 1]
<1> DEFINE p == Pos(l, r)
           a == SubSeq(l, 1, p - 1)
           b == SubSeq(l, p + 1, Len(l))
           u == Unlink(l, r)
<1>0. /\ p \in 1 .. Len(l) /\ l[p] = r /\ Len(l) \in Nat
      /\ \A i \in 1 .. Len(l) : l[i] = r => i = p
  BY PosProperties
<1>1. /\ a \in Seq(Reqs) /\ Len(a) = p - 1
      /\ \A i \in 1 .. p - 1 : a[i] = l[i]
  <2>1. \A i \in 1 .. p - 1 : l[i] \in Reqs
    BY <1>0
  <2>2. QED
    BY <2>1, <1>0, SubSeqProperties
<1>2. /\ b \in Seq(Reqs) /\ Len(b) = Len(l) - p
      /\ \A i \in 1 .. Len(l) - p : b[i] = l[p + i]
  <2>1. \A i \in p + 1 .. Len(l) : l[i] \in Reqs
    BY <1>0
  <2>2. QED
    BY <2>1, <1>0, SubSeqProperties
<1>3. u = a \o b
  BY DEF Unlink, RemoveAt
<1>4. /\ u \in Seq(Reqs) /\ Len(u) = Len(l) - 1
      /\ \A i \in 1 .. Len(l) - 1 : u[i] = IF i < p THEN l[i] ELSE l[i + 1]
  <2>1. /\ u \in Seq(Reqs) /\ Len(u) = Len(a) + Len(b)
        /\ \A i \in 1 .. Len(a) + Len(b) :
             u[i] = IF i <= Len(a) THEN a[i] ELSE b[i - Len(a)]
    BY <1>1, <1>2, <1>3, ConcatProperties
  <2> HIDE DEF a, b, u, p
  <2>2. Len(a) + Len(b) = Len(l) - 1 /\ p \in Nat
    BY <1>0, <1>1, <1>2
  <2>3. ASSUME NEW i \in 1 .. Len(l) - 1
        PROVE  u[i] = IF i < p THEN l[i] ELSE l[i + 1]
    <3>1. u[i] = IF i <= p - 1 THEN a[i] ELSE b[i - (p - 1)]
      BY <2>1, <2>2, <1>1
    <3>2. CASE i < p
      BY <3>1, <3>2, <2>2, <1>1
    <3>3. CASE i >= p
      <4>1. i - (p - 1) \in 1 .. Len(l) - p /\ p + (i - (p - 1)) = i + 1
        BY <3>3, <2>2, <1>0
      <4>2. QED
        BY <4>1, <3>1, <3>3, <2>2, <1>2
    <3>4. QED
      BY <3>2, <3>3, <2>2
  <2>4. QED
    BY <2>1, <2>2, <2>3
<1>5. Distinct(u)
  BY <1>0, <1>4 DEF Distinct
<1>6. ToSet(u) \subseteq ToSet(l) \ {r}
  BY <1>0, <1>4 DEF ToSet
<1>7. ASSUME NEW x \in ToSet(l) \ {r} PROVE x \in ToSet(u)
  <2>1. PICK i \in 1 .. Len(l) : l[i] = x
    BY DEF ToSet
  <2>2. i # p
    BY <2>1, <1>0
  <2>3. CASE i < p
    BY <2>1, <2>3, <1>0, <1>4 DEF ToSet
  <2>4. CASE i > p
    <3>1. i - 1 \in 1 .. Len(l) - 1 /\ u[i - 1] = x
      BY <2>1, <2>4, <1>0, <1>4
    <3>2. QED
      BY <3>1, <1>4 DEF ToSet
  <2>5. QED
    BY <2>2, <2>3, <2>4, <1>0
<1>8. QED
  BY <1>4, <1>5, <1>6, <1>7

-----------------------------------------------------------------------------
(* The inductive invariant.                                                *)

\* The engine is connected exactly while the client thread runs its loop.
ConnectedPc == connected <=> pc \in {"sampled", "prepare", "poll"}

\* Nothing can be added while requests are cancelled, so the cursor stays at the
\* head of the list and the prefetched element stays second: when the iteration
\* ends the list is empty.
CancelHead == pc = "cancel" => req = First(list) /\ next = After(list, req)

\* The inductive invariant.
ListInv ==
  /\ TypeOK /\ ExactlyOnce /\ CursorSafe /\ DownMeansDrained
  /\ ConnectedPc /\ CancelHead

\* Members of the list are requests.
LEMMA ListedType == ASSUME TypeOK PROVE Listed \subseteq Reqs
<1>1. \A i \in 1 .. Len(list) : list[i] \in Reqs
  BY DEF TypeOK
<1>2. QED
  BY <1>1 DEF Listed, ToSet

\* The members a successful submission adds.
Added(N) == IF connected THEN N ELSE {}

\* Submitting from a callback or from a thread adds what the engine accepts.
LEMMA SubmittedMember ==
  ASSUME TypeOK, ExactlyOnce, NEW N \in Submissions
  PROVE  /\ Submitted(N) \in Seq(Reqs)
         /\ Distinct(Submitted(N))
         /\ ToSet(Submitted(N)) = Listed \union Added(N)
         /\ \A r \in Listed : Pos(Submitted(N), r) = Pos(list, r)
         /\ N \subseteq Reqs /\ N \intersect Listed = {}
<1>1. list \in Seq(Reqs) /\ Distinct(list)
  BY DEF TypeOK, ExactlyOnce, Distinct
<1>2. CASE N = {}
  BY <1>1, <1>2 DEF Submitted, Added, Listed
<1>3. CASE N # {}
  <2>1. PICK n \in Unused : N = {n}
    BY <1>3 DEF Submissions
  <2>2. n \in Reqs /\ n \notin Listed
    BY <2>1 DEF Unused, ExactlyOnce
  <2>3. (CHOOSE m \in N : TRUE) = n
    BY <2>1
  <2>4. Submitted(N) = IF connected THEN Append(list, n) ELSE list
    BY <2>3, <1>3 DEF Submitted
  <2>5. QED
    BY <1>1, <2>1, <2>2, <2>4, AppendMember DEF Added, Listed
<1>4. QED
  BY <1>2, <1>3

\* The fates recorded with a submission have their type, and only the members
\* of N change theirs.
LEMMA FatesType ==
  ASSUME TypeOK, NEW N
  PROVE  Fates(N) \in [Reqs -> {"unused", "rejected", "accepted"}]
BY DEF TypeOK, Fates

\* A submission during a callback that is not the last one, or by a thread.
LEMMA ScheduleKeeps ==
  ASSUME TypeOK, ExactlyOnce, NEW N \in Submissions,
         list' = Submitted(N), status' = Fates(N), UNCHANGED ends
  PROVE  /\ list' \in Seq(Reqs) /\ ExactlyOnce'
         /\ Listed' = Listed \union Added(N)
<1>1. /\ list' \in Seq(Reqs) /\ Distinct(list')
      /\ Listed' = Listed \union Added(N)
      /\ N \subseteq Reqs /\ N \intersect Listed = {}
  BY SubmittedMember DEF Listed
<1>2. \A n \in N : status[n] = "unused" /\ ends[n] = 0
  BY <1>1 DEF Submissions, Unused, ExactlyOnce
<1>3. \A r \in Reqs : status'[r] = IF r \in N
                                     THEN IF connected THEN "accepted" ELSE "rejected"
                                     ELSE status[r]
  BY DEF Fates
<1>4. \A r \in Reqs : ends'[r] = IF status'[r] = "accepted" /\ r \notin Listed'
                                   THEN 1 ELSE 0
  BY <1>1, <1>2, <1>3 DEF ExactlyOnce, Added
<1>5. \A r \in Listed' : status'[r] = "accepted"
  BY <1>1, <1>3, ListedType DEF ExactlyOnce, Added
<1>6. QED
  BY <1>1, <1>4, <1>5 DEF ExactlyOnce, Distinct

\* The final callback of a listed request.
LEMMA FinishKeeps ==
  ASSUME TypeOK, ExactlyOnce, NEW N \in Submissions, NEW r \in Listed,
         list' = Unlink(Submitted(N), r), status' = Fates(N),
         ends' = [ends EXCEPT ![r] = @ + 1]
  PROVE  /\ list' \in Seq(Reqs) /\ ExactlyOnce' /\ ends' \in [Reqs -> Nat]
         /\ Listed' = (Listed \ {r}) \union Added(N)
<1>1. /\ Submitted(N) \in Seq(Reqs) /\ Distinct(Submitted(N))
      /\ ToSet(Submitted(N)) = Listed \union Added(N)
      /\ N \subseteq Reqs /\ N \intersect Listed = {}
  BY SubmittedMember
<1>2. /\ list' \in Seq(Reqs) /\ Distinct(list')
      /\ ToSet(list') = ToSet(Submitted(N)) \ {r}
  BY <1>1, UnlinkMember
<1>3. Listed' = (Listed \ {r}) \union Added(N)
  BY <1>1, <1>2 DEF Listed, Added
<1>4. r \in Reqs /\ status[r] = "accepted" /\ ends[r] = 0
  BY ListedType DEF ExactlyOnce
<1>5. \A n \in N : status[n] = "unused" /\ ends[n] = 0
  BY <1>1 DEF Submissions, Unused, ExactlyOnce
<1>6. \A q \in Reqs : status'[q] = IF q \in N
                                     THEN IF connected THEN "accepted" ELSE "rejected"
                                     ELSE status[q]
  BY DEF Fates
<1>7. /\ ends' \in [Reqs -> Nat]
      /\ \A q \in Reqs : ends'[q] = IF q = r THEN 1 ELSE ends[q]
  BY <1>4 DEF TypeOK
<1>8. \A q \in Reqs : ends'[q] = IF status'[q] = "accepted" /\ q \notin Listed'
                                   THEN 1 ELSE 0
  BY <1>1, <1>3, <1>4, <1>5, <1>6, <1>7 DEF ExactlyOnce, Added
<1>9. \A q \in Listed' : status'[q] = "accepted"
  BY <1>1, <1>3, <1>6, ListedType DEF ExactlyOnce, Added
<1>10. QED
  BY <1>2, <1>3, <1>7, <1>8, <1>9 DEF ExactlyOnce, Distinct

\* The head and the successor of a member are members; a successor is another
\* member.
LEMMA CursorMember ==
  ASSUME NEW l \in Seq(Reqs), Distinct(l)
  PROVE  /\ First(l) # None => First(l) \in ToSet(l)
         /\ First(l) = None <=> l = <<>>
         /\ \A r \in ToSet(l) \union {None} :
              After(l, r) # None => After(l, r) \in ToSet(l) /\ After(l, r) # r
         /\ After(l, None) = None
<1>1. Len(l) \in Nat /\ (l = <<>> <=> Len(l) = 0)
  OBVIOUS
<1>2. \A i \in 1 .. Len(l) : l[i] \in Reqs /\ l[i] # None
  BY ReqsAssumption
<1>3. First(l) # None => First(l) \in ToSet(l)
  BY <1>1 DEF First, ToSet
<1>4. First(l) = None <=> l = <<>>
  BY <1>1, <1>2 DEF First
<1>5. ASSUME NEW r \in ToSet(l), After(l, r) # None
      PROVE  After(l, r) \in ToSet(l) /\ After(l, r) # r
  <2>1. Pos(l, r) \in 1 .. Len(l) /\ l[Pos(l, r)] = r
    BY PosProperties
  <2>2. Pos(l, r) < Len(l) /\ After(l, r) = l[Pos(l, r) + 1]
    BY <1>5 DEF After
  <2>3. Pos(l, r) + 1 \in 1 .. Len(l)
    BY <2>1, <2>2, <1>1
  <2>4. QED
    BY <2>1, <2>2, <2>3 DEF Distinct, ToSet
<1>6. After(l, None) = None
  BY DEF After
<1>7. QED
  BY <1>3, <1>4, <1>5, <1>6

\* Why a request may end.
Reasons == {"ok", "error", "ack", "refused", "timedout", "shutdown"}

\* Every field keeps its type through a final callback.
LEMMA FinishType ==
  ASSUME TypeOK, ExactlyOnce, NEW N \in Submissions, NEW r \in Listed,
         NEW why \in Reasons, NEW w \in BOOLEAN, Finish(r, why, N, w)
  PROVE  /\ list' \in Seq(Reqs)
         /\ status' \in [Reqs -> {"unused", "rejected", "accepted"}]
         /\ wake' \in BOOLEAN /\ ends' \in [Reqs -> Nat]
         /\ result' \in [Reqs -> Reasons \union {"none"}]
         /\ left' \in [Reqs -> Int] /\ timeout' \in [Reqs -> Nat]
         /\ retries' \in [Reqs -> 0 .. MaxRetries]
         /\ block' \in [Reqs -> Nat] /\ pkt' \in [Reqs -> Nat]
         /\ pending' \in [Observes -> BOOLEAN]
         /\ tries' \in [Reqs -> Nat] /\ tx' \in SUBSET (Reqs \X Nat)
<1>1. r \in Reqs
  BY ListedType
<1>2. list' \in Seq(Reqs) /\ ends' \in [Reqs -> Nat]
  BY FinishKeeps DEF Finish
<1>3. status' \in [Reqs -> {"unused", "rejected", "accepted"}]
  BY FatesType DEF Finish
<1>4. wake' \in BOOLEAN
  BY DEF Finish
<1>5. result' \in [Reqs -> Reasons \union {"none"}]
  BY DEF Finish, TypeOK, Reasons
<1>6. /\ left' \in [Reqs -> Int] /\ timeout' \in [Reqs -> Nat]
      /\ retries' \in [Reqs -> 0 .. MaxRetries]
      /\ tries' \in [Reqs -> Nat]
  <2>1. /\ left' = [left EXCEPT ![r] = 0] /\ timeout' = [timeout EXCEPT ![r] = 0]
        /\ retries' = [retries EXCEPT ![r] = MaxRetries]
        /\ tries' = [tries EXCEPT ![r] = 0]
    BY DEF Finish
  <2>2. /\ left \in [Reqs -> Int] /\ timeout \in [Reqs -> Nat]
        /\ retries \in [Reqs -> 0 .. MaxRetries] /\ tries \in [Reqs -> Nat]
    BY DEF TypeOK
  <2>3. left' \in [Reqs -> Int]
    BY <2>1, <2>2, UpdateType
  <2>4. timeout' \in [Reqs -> Nat] /\ tries' \in [Reqs -> Nat]
    BY <2>1, <2>2, UpdateType
  <2>5. retries' \in [Reqs -> 0 .. MaxRetries]
    <3>1. MaxRetries \in 0 .. MaxRetries
      BY TimingAssumption
    <3> QED  BY <2>1, <2>2, <3>1, UpdateType
  <2>6. QED
    BY <2>3, <2>4, <2>5
<1>7. block' \in [Reqs -> Nat] /\ pkt' \in [Reqs -> Nat]
  BY DEF Finish, TypeOK
<1>8. pending' \in [Observes -> BOOLEAN]
  BY DEF Finish, TypeOK
<1>9. tx' \in SUBSET (Reqs \X Nat)
  BY DEF Finish, TypeOK
<1>10. QED
  BY <1>2, <1>3, <1>4, <1>5, <1>6, <1>7, <1>8, <1>9

\* Every field keeps its type when a callback or a thread submits.
LEMMA ScheduleType ==
  ASSUME TypeOK, ExactlyOnce, NEW N \in Submissions, NEW w \in BOOLEAN,
         Schedule(N, w)
  PROVE  /\ list' \in Seq(Reqs)
         /\ status' \in [Reqs -> {"unused", "rejected", "accepted"}]
         /\ wake' \in BOOLEAN
<1>1. list' \in Seq(Reqs)
  BY SubmittedMember DEF Schedule
<1>2. QED
  BY <1>1, FatesType DEF Schedule

\* Moving the cursor on, over the list as it is after the current element was
\* dealt with, keeps it on the list.
LEMMA AdvanceKeeps ==
  ASSUME TypeOK, ExactlyOnce', list' \in Seq(Reqs),
         next # None => next \in Listed', Advance(list')
  PROVE  /\ req' \in Reqs \union {None} /\ next' \in Reqs \union {None}
         /\ send' \in BOOLEAN
         /\ req' = None => next' = None
         /\ req' # None => req' \in Listed'
         /\ next' # None => next' = After(list', req')
<1>1. Distinct(list')
  BY DEF ExactlyOnce, Distinct
<1>2. next \in ToSet(list') \union {None}
  BY DEF Listed
<1>3. /\ next' = After(list', next) /\ req' = next /\ send' = FALSE
      /\ After(list', None) = None
      /\ After(list', next) # None => After(list', next) \in ToSet(list')
  BY <1>1, <1>2, CursorMember DEF Advance
<1>4. \A x \in ToSet(list') : x \in Reqs
  <2>1. \A i \in 1 .. Len(list') : list'[i] \in Reqs
    OBVIOUS
  <2>2. QED
    BY <2>1 DEF ToSet
<1>5. QED
  BY <1>2, <1>3, <1>4 DEF Listed

-----------------------------------------------------------------------------
(* The steps, by what they do to the list.                                 *)

\* The three things a step may do to the list: nothing, ...
Untouched == UNCHANGED <<list, status, ends>>

\* ... append what was submitted, ...
Submits ==
  \E N \in Submissions :
    ~Locked /\ list' = Submitted(N) /\ status' = Fates(N) /\ UNCHANGED ends

\* ... or take out a request with its final callback.
Finishes ==
  \E N \in Submissions, r \in Listed :
    /\ Locked => r = req
    /\ list' = Unlink(Submitted(N), r) /\ status' = Fates(N)
    /\ ends' = [ends EXCEPT ![r] = @ + 1]

\* No step does anything else to the list.
LEMMA StepKinds ==
  ASSUME ListInv, [Next]_vars
  PROVE  Untouched \/ Submits \/ Finishes
<1>1. CASE \/ Connect \/ DisconnectBegin \/ RxIgnored \/ Tick
           \/ PollWake \/ OnConnect \/ PrepareBegin \/ PrepareSend \/ PrepareSkip
           \/ PrepareCycle \/ PrepareEnd \/ CancelEnd \/ Close \/ UNCHANGED vars
  BY <1>1 DEF Connect, DisconnectBegin, RxIgnored, Tick, PollWake, OnConnect,
     PrepareBegin, PrepareSend, PrepareSkip, PrepareCycle, PrepareEnd, CancelEnd,
     Close, vars, ghosts, Untouched
<1>2. CASE PrepareExpire
  <2>1. PICK N \in Submissions : Finish(req, "timedout", N, wake)
    BY <1>2 DEF PrepareExpire
  <2>2. req \in Listed
    BY <1>2 DEF PrepareExpire, Expired, Timed
  <2>3. QED
    BY <2>1, <2>2 DEF Finish, Finishes
<1>3. CASE CancelOne
  <2>1. PICK N \in Submissions : Finish(req, "shutdown", N, wake)
    BY <1>3 DEF CancelOne
  <2>2. req \in Listed
    BY <1>3 DEF CancelOne, ListInv, CursorSafe, Locked
  <2>3. QED
    BY <2>1, <2>2 DEF Finish, Finishes
<1>4. ASSUME NEW r \in Reqs, AppSubmit(r) PROVE Submits
  <2>1. {r} \in Submissions
    BY <1>4 DEF AppSubmit, Submissions
  <2>2. QED
    BY <1>4, <2>1 DEF AppSubmit, Submits
<1>5. ASSUME NEW r \in Reqs, AppWakeup(r) PROVE Untouched
  BY <1>5 DEF AppWakeup, Untouched, ghosts
<1>6. ASSUME NEW r \in Reqs, RxError(r) PROVE Finishes
  <2>1. PICK N \in Submissions, w \in Drained : Finish(r, "error", N, w)
    BY <1>6 DEF RxError
  <2>2. r \in Listed /\ ~Locked
    BY <1>6 DEF RxError, Receives, Locked
  <2>3. QED
    BY <2>1, <2>2 DEF Finish, Finishes
<1>7. ASSUME NEW r \in Reqs, RxEmptyAck(r) PROVE Finishes
  <2>1. PICK N \in Submissions, w \in Drained : Finish(r, "ack", N, w)
    BY <1>7 DEF RxEmptyAck
  <2>2. r \in Listed /\ ~Locked
    BY <1>7 DEF RxEmptyAck, Receives, Locked
  <2>3. QED
    BY <2>1, <2>2 DEF Finish, Finishes
<1>8. ASSUME NEW r \in Reqs, RxNotify(r) PROVE Submits
  <2>1. PICK N \in Submissions, w \in Drained : Schedule(N, w)
    BY <1>8 DEF RxNotify
  <2>2. ~Locked /\ UNCHANGED ends
    BY <1>8 DEF RxNotify, Receives, Locked
  <2>3. QED
    BY <2>1, <2>2 DEF Schedule, Submits
<1>9. ASSUME NEW r \in Reqs, NEW b, RxMoreNext(r, b) \/ RxMoreHold(r, b)
      PROVE  Submits
  <2>1. PICK N \in Submissions, w \in Drained : Schedule(N, w)
    BY <1>9 DEF RxMoreNext, RxMoreHold
  <2>2. ~Locked /\ UNCHANGED ends
    BY <1>9 DEF RxMoreNext, RxMoreHold, MoreBlock, Receives, Locked
  <2>3. QED
    BY <2>1, <2>2 DEF Schedule, Submits
<1>10. ASSUME NEW r \in Reqs, NEW b, RxMoreRefuse(r, b) PROVE Finishes
  <2>1. PICK N \in Submissions, w \in Drained : Finish(r, "refused", N, w)
    BY <1>10 DEF RxMoreRefuse
  <2>2. r \in Listed /\ ~Locked
    BY <1>10 DEF RxMoreRefuse, MoreBlock, Receives, Locked
  <2>3. QED
    BY <2>1, <2>2 DEF Finish, Finishes
<1>11. ASSUME NEW r \in Reqs, NEW b, RxLast(r, b) PROVE Finishes
  <2>1. PICK N \in Submissions, w \in Drained : Finish(r, "ok", N, w)
    BY <1>11 DEF RxLast
  <2>2. r \in Listed /\ ~Locked
    BY <1>11 DEF RxLast, Receives, Locked
  <2>3. QED
    BY <2>1, <2>2 DEF Finish, Finishes
<1>12. QED
  BY <1>1, <1>2, <1>3, <1>4, <1>5, <1>6, <1>7, <1>8, <1>9, <1>10, <1>11
     DEF Next, Proceed, RxRequest

\* The list stays a list of requests, and each accepted request stays on it
\* until its one final callback.
LEMMA ExactlyOnceStep ==
  ASSUME ListInv, [Next]_vars
  PROVE  list' \in Seq(Reqs) /\ ExactlyOnce'
<1>1. TypeOK /\ ExactlyOnce
  BY DEF ListInv
<1>2. CASE Untouched
  BY <1>1, <1>2 DEF Untouched, TypeOK, ExactlyOnce, Listed
<1>3. CASE Submits
  BY <1>1, <1>3, ScheduleKeeps DEF Submits
<1>4. CASE Finishes
  BY <1>1, <1>4, FinishKeeps DEF Finishes
<1>5. QED
  BY <1>2, <1>3, <1>4, StepKinds

\* Steps that neither move the cursor nor touch the list, or that leave the
\* client thread outside its iterations.
CursorIdle ==
  \/ UNCHANGED <<pc, req, next, send, list>>
  \/ pc' \notin {"prepare", "cancel"} /\ UNCHANGED <<req, next, send>>

\* The type of the cursor.
CursorType ==
  /\ req \in Reqs \union {None} /\ next \in Reqs \union {None}
  /\ send \in BOOLEAN

\* The cursor stays on the list whatever step is taken.
LEMMA CursorStep ==
  ASSUME ListInv, [Next]_vars
  PROVE  CursorType' /\ CursorSafe'
<1> USE DEF Locked
<1>1. /\ TypeOK /\ ExactlyOnce /\ CursorSafe
      /\ list' \in Seq(Reqs) /\ ExactlyOnce'
  BY ExactlyOnceStep DEF ListInv
<1>2. list \in Seq(Reqs) /\ Distinct(list) /\ Listed \subseteq Reqs
  BY <1>1, ListedType DEF TypeOK, ExactlyOnce, Distinct
<1>3. Locked /\ next # None => next \in Listed \ {req}
  <2>1. ASSUME Locked, next # None PROVE next \in Listed \ {req}
    <3>1. req \in ToSet(list) /\ next = After(list, req)
      BY <1>1, <2>1 DEF CursorSafe, Listed
    <3>2. QED
      BY <3>1, <2>1, <1>2, CursorMember DEF Listed
  <2>2. QED
    BY <2>1
<1>4. CASE CursorIdle
  <2>1. CursorType'
    BY <1>1, <1>4 DEF CursorIdle, CursorType, TypeOK
  <2>2. CursorSafe'
    BY <1>1, <1>4 DEF CursorIdle, CursorSafe, Listed
  <2>3. QED
    BY <2>1, <2>2
<1>5. CASE PrepareBegin \/ DisconnectBegin
  <2>1. /\ req' = First(list) /\ next' = After(list, First(list))
        /\ list' = list
        /\ send' \in BOOLEAN
    BY <1>1, <1>5 DEF PrepareBegin, DisconnectBegin, TypeOK
  <2>2. First(list) \in ToSet(list) \union {None}
    BY <1>2, CursorMember
  <2>3. After(list, First(list)) \in ToSet(list) \union {None}
    BY <1>2, <2>2, CursorMember
  <2>4. After(list, None) = None
    BY DEF After
  <2>5. CursorType'
    BY <2>1, <2>2, <2>3, <1>2 DEF CursorType, Listed
  <2>6. CursorSafe'
    BY <2>1, <2>2, <2>4 DEF CursorSafe, Listed
  <2>7. QED
    BY <2>5, <2>6
<1>6. CASE PrepareSend \/ PrepareSkip
  <2>1. Locked /\ Advance(list) /\ list' = list
    BY <1>6 DEF PrepareSend, PrepareSkip
  <2>2. Advance(list')
    BY <2>1
  <2>3. next # None => next \in Listed'
    BY <2>1, <1>3 DEF Listed
  <2>4. QED
    BY <1>1, <2>2, <2>3, AdvanceKeeps DEF CursorType, CursorSafe
<1>7. CASE PrepareExpire \/ CancelOne
  <2>1. /\ Locked /\ req \in Listed /\ Advance(list')
        /\ \E N \in Submissions :
             Finish(req, "timedout", N, wake) \/ Finish(req, "shutdown", N, wake)
    BY <1>1, <1>7 DEF PrepareExpire, Expired, Timed, CancelOne, CursorSafe
  <2>2. PICK N \in Submissions :
          /\ list' = Unlink(Submitted(N), req) /\ status' = Fates(N)
          /\ ends' = [ends EXCEPT ![req] = @ + 1]
    BY <2>1 DEF Finish
  <2>3. Listed' = (Listed \ {req}) \union Added(N)
    BY <1>1, <2>1, <2>2, FinishKeeps
  <2>4. next # None => next \in Listed'
    BY <2>1, <2>3, <1>3
  <2>5. QED
    BY <1>1, <2>1, <2>4, AdvanceKeeps DEF CursorType, CursorSafe
<1>8. CASE \/ Connect \/ OnConnect \/ PollWake \/ PrepareEnd \/ CancelEnd \/ Close
           \/ Tick \/ PrepareCycle \/ RxIgnored \/ UNCHANGED vars
  <2>1. CASE PrepareCycle
    BY <2>1, <1>1 DEF PrepareCycle, CursorType, CursorSafe, TypeOK, Listed
  <2>2. CASE ~PrepareCycle
    <3>1. CursorIdle
      BY <1>8, <2>2 DEF Connect, OnConnect, PollWake, PrepareEnd, CancelEnd, Close,
         Tick, RxIgnored, AfterRx, vars, loop, CursorIdle
    <3>2. QED
      BY <3>1, <1>4
  <2>3. QED
    BY <2>1, <2>2
<1>9. ASSUME NEW r \in Reqs, AppSubmit(r) \/ AppWakeup(r) \/ RxRequest(r)
      PROVE  CursorIdle
  <2>1. CASE AppSubmit(r) \/ AppWakeup(r)
    BY <2>1 DEF AppSubmit, AppWakeup, CursorIdle
  <2>2. CASE RxRequest(r)
    <3>1. AfterRx
      BY <2>2 DEF RxRequest, RxError, RxEmptyAck, RxNotify, RxMoreNext, RxMoreHold,
         RxMoreRefuse, RxLast, MoreBlock
    <3>2. QED
      BY <3>1 DEF AfterRx, CursorIdle
  <2>3. QED
    BY <1>9, <2>1, <2>2
<1>10. QED
  BY <1>4, <1>5, <1>6, <1>7, <1>8, <1>9 DEF Next, Proceed

\* The cancelling iteration always works at the head of the list.
LEMMA CancelStep ==
  ASSUME ListInv, [Next]_vars
  PROVE  ConnectedPc' /\ CancelHead'
<1>1. TypeOK /\ ExactlyOnce /\ CursorSafe /\ ConnectedPc /\ CancelHead
  BY DEF ListInv
<1>2. list \in Seq(Reqs) /\ Distinct(list) /\ Len(list) \in Nat
  BY <1>1 DEF TypeOK, ExactlyOnce, Distinct
<1>3. CASE CancelOne
  <2>1. PICK N \in Submissions : list' = Unlink(Submitted(N), req)
    BY <1>3 DEF CancelOne, Finish
  <2>2. /\ pc = "cancel" /\ pc' = pc /\ connected' = connected
        /\ req # None /\ req = First(list) /\ next = After(list, req)
        /\ req' = next /\ next' = After(list', next)
    BY <1>1, <1>3 DEF CancelOne, CancelHead, Advance
  <2>3. ~connected /\ ConnectedPc'
    BY <1>1, <2>2 DEF ConnectedPc
  <2>4. list' = Unlink(list, req)
    BY <2>1, <2>3 DEF Submitted
  <2>5. list # <<>> /\ req = list[1] /\ req \in ToSet(list)
    BY <1>1, <1>2, <2>2, CursorMember DEF First
  <2>6. Pos(list, req) = 1 /\ 1 \in 1 .. Len(list)
    <3>1. 1 \in 1 .. Len(list)
      BY <1>2, <2>5
    <3>2. QED
      BY <3>1, <1>2, <2>5, PosProperties
  <2>7. /\ list' \in Seq(Reqs) /\ Len(list') = Len(list) - 1
        /\ \A i \in 1 .. Len(list) - 1 : list'[i] = list[i + 1]
    BY <1>2, <2>4, <2>5, <2>6, UnlinkMember
  <2>8. next = IF 1 < Len(list) THEN list[2] ELSE None
    BY <2>2, <2>6 DEF After
  <2>9. First(list') = next
    <3>1. CASE 1 < Len(list)
      BY <3>1, <2>7, <2>8, <1>2 DEF First
    <3>2. CASE ~(1 < Len(list))
      <4>1. Len(list') = 0
        BY <3>2, <2>6, <2>7, <1>2
      <4>2. QED
        BY <4>1, <3>2, <2>7, <2>8 DEF First
    <3>3. QED
      BY <3>1, <3>2
  <2>10. QED
    BY <2>2, <2>3, <2>9 DEF CancelHead
<1>4. CASE DisconnectBegin
  BY <1>4 DEF DisconnectBegin, CancelHead, ConnectedPc
<1>5. CASE UNCHANGED <<connected, pc, req, next, list>>
  BY <1>1, <1>5 DEF CancelHead, ConnectedPc
<1>6. CASE pc' # "cancel" /\ ConnectedPc'
  BY <1>6 DEF CancelHead
<1>7. CASE \/ PrepareBegin \/ PrepareSend \/ PrepareSkip \/ PrepareExpire
           \/ PrepareEnd \/ PollWake \/ OnConnect \/ Connect \/ CancelEnd \/ Close
           \/ PrepareCycle \/ RxIgnored
  <2>1. pc' # "cancel" /\ ConnectedPc'
    BY <1>1, <1>7 DEF PrepareBegin, PrepareSend, PrepareSkip, PrepareExpire, Expired,
       PrepareEnd, PollWake, OnConnect, Connect, CancelEnd, Close, PrepareCycle,
       RxIgnored, AfterRx, ConnectedPc
  <2>2. QED
    BY <2>1, <1>6
<1>8. CASE Tick \/ UNCHANGED vars
  BY <1>5, <1>8 DEF Tick, vars, loop
<1>9. ASSUME NEW r \in Reqs, AppSubmit(r) PROVE pc' # "cancel" /\ ConnectedPc'
  BY <1>1, <1>9 DEF AppSubmit, ConnectedPc, Locked
<1>10. ASSUME NEW r \in Reqs, AppWakeup(r)
       PROVE  UNCHANGED <<connected, pc, req, next, list>>
  BY <1>10 DEF AppWakeup
<1>11. ASSUME NEW r \in Reqs, RxRequest(r) PROVE pc' # "cancel" /\ ConnectedPc'
  <2>1. AfterRx /\ pc = "poll" /\ connected' = connected
    BY <1>11 DEF RxRequest, RxError, RxEmptyAck, RxNotify, RxMoreNext, RxMoreHold,
       RxMoreRefuse, RxLast, MoreBlock, Receives
  <2>2. QED
    BY <1>1, <2>1 DEF AfterRx, ConnectedPc
<1>12. QED
  BY <1>3, <1>4, <1>5, <1>6, <1>7, <1>8, <1>9, <1>10, <1>11 DEF Next, Proceed

\* Nothing is on the list while the socket is closed or being opened.
LEMMA DrainedStep ==
  ASSUME ListInv, [Next]_vars
  PROVE  DownMeansDrained'
<1>1. TypeOK /\ ExactlyOnce /\ ConnectedPc /\ CancelHead /\ DownMeansDrained
  BY DEF ListInv
<1>2. list \in Seq(Reqs) /\ Distinct(list)
  BY <1>1 DEF TypeOK, ExactlyOnce, Distinct
<1>3. CASE CancelEnd
  <2>1. First(list) = None /\ list' = list
    BY <1>1, <1>3 DEF CancelEnd, CancelHead
  <2>2. QED
    BY <1>2, <2>1, CursorMember DEF DownMeansDrained
<1>4. CASE pc' \notin {"closing", "closed", "opened"}
  BY <1>4 DEF DownMeansDrained
<1>5. CASE list' = list /\ pc \in {"closing", "closed", "opened"}
  BY <1>1, <1>5 DEF DownMeansDrained
<1>6. CASE \/ Connect \/ Close \/ DisconnectBegin \/ RxIgnored \/ Tick \/ PollWake
           \/ OnConnect \/ PrepareBegin \/ PrepareSend \/ PrepareSkip
           \/ PrepareCycle \/ PrepareExpire \/ PrepareEnd \/ CancelOne
           \/ UNCHANGED vars
  BY <1>1, <1>4, <1>5, <1>6 DEF Connect, Close, DisconnectBegin, RxIgnored, AfterRx,
     Tick, PollWake, OnConnect, PrepareBegin, PrepareSend, PrepareSkip, PrepareCycle,
     PrepareExpire, Expired, PrepareEnd, CancelOne, vars, loop
<1>7. ASSUME NEW r \in Reqs, AppSubmit(r) PROVE DownMeansDrained'
  <2>1. list' = Submitted({r}) /\ pc' = pc
    BY <1>7 DEF AppSubmit
  <2>2. pc \in {"closing", "closed", "opened"} => list' = list
    BY <1>1, <2>1 DEF ConnectedPc, Submitted
  <2>3. QED
    BY <1>1, <2>1, <2>2 DEF DownMeansDrained
<1>8. ASSUME NEW r \in Reqs, AppWakeup(r) PROVE DownMeansDrained'
  BY <1>1, <1>8 DEF AppWakeup, DownMeansDrained
<1>9. ASSUME NEW r \in Reqs, RxRequest(r)
      PROVE  pc' \notin {"closing", "closed", "opened"}
  BY <1>9 DEF RxRequest, RxError, RxEmptyAck, RxNotify, RxMoreNext, RxMoreHold,
     RxMoreRefuse, RxLast, MoreBlock, AfterRx
<1>10. QED
  BY <1>3, <1>4, <1>6, <1>7, <1>8, <1>9 DEF Next, Proceed

\* TypeOK in three parts: the cursor's is CursorType, the fields' this one ...
FieldType ==
  /\ connected \in BOOLEAN
  /\ left \in [Reqs -> Int] /\ timeout \in [Reqs -> Nat]
  /\ retries \in [Reqs -> 0 .. MaxRetries]
  /\ block \in [Reqs -> Nat] /\ pkt \in [Reqs -> Nat]
  /\ pending \in [Observes -> BOOLEAN]
  /\ skew \in 0 .. MaxSkew /\ wake \in BOOLEAN /\ waking \in SUBSET Reqs
  /\ wait \in Int /\ tx \in SUBSET (Reqs \X Nat)
  /\ status \in [Reqs -> {"unused", "rejected", "accepted"}]
  /\ ends \in [Reqs -> Nat] /\ result \in [Reqs -> Reasons \union {"none"}]
  /\ seen \in [OneShots -> Seq(Nat)] /\ tries \in [Reqs -> Nat]

\* ... and the client thread's this one.
PcType ==
  pc \in {"closed", "opened", "sampled", "prepare", "poll", "cancel", "closing"}

\* TypeOK is its three parts.
LEMMA TypeParts ==
  TypeOK <=> list \in Seq(Reqs) /\ CursorType /\ FieldType /\ PcType
BY DEF TypeOK, CursorType, FieldType, PcType, Reasons

\* A final callback in any context.
LEMMA FinishFields ==
  ASSUME TypeOK, ExactlyOnce, NEW N \in Submissions, NEW r \in Listed,
         NEW why \in Reasons, NEW w \in BOOLEAN, Finish(r, why, N, w),
         connected' = connected, skew' = skew, waking' = waking,
         wait' \in Int, seen' \in [OneShots -> Seq(Nat)]
  PROVE  FieldType'
<1>1. /\ connected' \in BOOLEAN /\ skew' \in 0 .. MaxSkew /\ waking' \in SUBSET Reqs
  BY DEF TypeOK
<1>2. QED
  BY <1>1, FinishType DEF FieldType

\* One more block was handed to the callback.
LEMMA SeenType ==
  ASSUME TypeOK, NEW r \in OneShots, NEW b \in Nat,
         seen' = [seen EXCEPT ![r] = Append(@, b)]
  PROVE  seen' \in [OneShots -> Seq(Nat)]
<1>1. seen \in [OneShots -> Seq(Nat)] /\ Append(seen[r], b) \in Seq(Nat)
  BY DEF TypeOK
<1>2. QED
  BY <1>1, UpdateType

\* Whether the eventfd was read is a Boolean.
LEMMA DrainedType == ASSUME TypeOK PROVE Drained \subseteq BOOLEAN
BY DEF TypeOK, Drained

\* The client thread's own steps.
LEMMA ProceedType ==
  ASSUME ListInv, Proceed
  PROVE  FieldType' /\ PcType'
<1>1. /\ TypeOK /\ ExactlyOnce /\ CursorSafe /\ FieldType /\ PcType
      /\ MaxRetries \in Nat /\ MaxSkew \in Nat /\ PollMax \in Nat
      /\ AckTimeouts \in SUBSET Nat /\ Listed \subseteq Reqs
  BY TypeParts, TimingAssumption, ListedType DEF ListInv
<1>2. CASE PollWake \/ OnConnect \/ PrepareBegin \/ PrepareSkip \/ PrepareEnd
           \/ CancelEnd \/ Close
  <2>1. CASE OnConnect \/ CancelEnd \/ Close \/ PrepareSkip
    BY <1>1, <2>1 DEF OnConnect, CancelEnd, Close, PrepareSkip, FieldType, PcType,
       timers, transfer, ghosts
  <2>2. CASE PollWake
    <3>1. wait' \in Int /\ wake' \in BOOLEAN /\ PcType'
      <4>1. wait' = 0 /\ wake' = FALSE /\ pc' = "sampled"
        BY <2>2, Zenon DEF PollWake
      <4>2. wake' \in BOOLEAN
        BY <4>1, Zenon
      <4>3. wait' \in Int /\ PcType'
        BY <4>1 DEF PcType
      <4>4. QED
        BY <4>2, <4>3
    <3>2. UNCHANGED <<connected, timers, transfer, skew, waking, tx, ghosts>>
      BY <2>2 DEF PollWake
    <3>3. QED
      BY <1>1, <3>1, <3>2 DEF FieldType, timers, transfer, ghosts
  <2>3. CASE PrepareBegin
    BY <1>1, <2>3 DEF PrepareBegin, FieldType, PcType, timers, transfer, ghosts
  <2>4. CASE PrepareEnd
    <3>1. 0 \in 0 .. MaxSkew
      BY <1>1
    <3>2. QED
      BY <1>1, <2>4, <3>1 DEF PrepareEnd, FieldType, PcType, timers, transfer, ghosts
  <2>5. QED
    BY <1>2, <2>1, <2>2, <2>3, <2>4
<1>3. CASE PrepareSend
  <2>1. req \in Reqs /\ req \in Listed
    BY <1>1, <1>3 DEF PrepareSend, Timed
  <2>2. pkt[req] \in Nat /\ left[req] \in Int /\ skew \in Int /\ wait \in Int
    BY <1>1, <2>1 DEF FieldType
  <2>3. tx' \in SUBSET (Reqs \X Nat)
    BY <1>1, <1>3, <2>1, <2>2 DEF PrepareSend, FieldType
  <2>4. wait' \in Int
    <3>1. left[req] + skew + HalfRange \in Int /\ 2 * HalfRange \in Nat \ {0}
      BY <2>2, TimingAssumption
    <3>2. (left[req] + skew + HalfRange) % (2 * HalfRange) \in Int
      BY <3>1
    <3>3. Remaining(req) \in Int
      BY <3>2, TimingAssumption DEF Remaining, Int32
    <3>4. QED
      BY <1>3, <2>2, <3>3 DEF PrepareSend, Smaller
  <2>5. tries' \in [Reqs -> Nat]
    <3>1. tries \in [Reqs -> Nat] /\ tries[req] + 1 \in Nat /\ tries[req] \in Nat
      BY <1>1, <2>1 DEF FieldType
    <3>2. tries' = [tries EXCEPT ![req] = IF send THEN tries[req] + 1 ELSE tries[req]]
      BY <1>3 DEF PrepareSend
    <3>3. QED
      BY <3>1, <3>2, UpdateType
  <2>6. QED
    BY <1>1, <1>3, <2>3, <2>4, <2>5 DEF PrepareSend, FieldType, PcType, timers,
       transfer
<1>4. CASE PrepareCycle
  <2>1. req \in Reqs
    BY <1>1, <1>4 DEF PrepareCycle, Timed
  <2>2. /\ timeout \in [Reqs -> Nat] /\ left \in [Reqs -> Int]
        /\ retries \in [Reqs -> 0 .. MaxRetries]
        /\ timeout[req] \in Nat /\ left[req] \in Int
        /\ retries[req] \in 0 .. MaxRetries
    BY <1>1, <2>1 DEF FieldType
  <2>3. CASE retries' = retries
    <3>1. PICK t \in AckTimeouts :
            \/ /\ timeout' = [timeout EXCEPT ![req] = t]
               /\ left' = [left EXCEPT ![req] = @ + t]
            \/ /\ timeout[req] > 0 /\ MayRetry(req)
               /\ left' = [left EXCEPT ![req] = @ + 2 * timeout[req]]
               /\ timeout' = [timeout EXCEPT ![req] = 2 * @]
      BY <1>4, TimingAssumption DEF PrepareCycle
    <3>2. t \in Nat /\ left[req] + t \in Int /\ 2 * timeout[req] \in Nat
          /\ left[req] + 2 * timeout[req] \in Int
      BY <1>1, <2>2
    <3>3. timeout' \in [Reqs -> Nat] /\ left' \in [Reqs -> Int]
      BY <3>1, <3>2, <2>2, UpdateType
    <3>4. QED
      BY <1>1, <1>4, <2>3, <3>3 DEF PrepareCycle, FieldType, PcType, transfer, ghosts
  <2>4. CASE /\ MayRetry(req)
             /\ left' = [left EXCEPT ![req] = @ + 2 * timeout[req]]
             /\ timeout' = [timeout EXCEPT ![req] = 2 * @]
             /\ retries' = [retries EXCEPT ![req] = @ - 1]
    <3>1. 2 * timeout[req] \in Nat /\ left[req] + 2 * timeout[req] \in Int
          /\ retries[req] - 1 \in 0 .. MaxRetries
      BY <1>1, <2>2, <2>4 DEF MayRetry
    <3>2. /\ timeout' \in [Reqs -> Nat] /\ left' \in [Reqs -> Int]
          /\ retries' \in [Reqs -> 0 .. MaxRetries]
      BY <3>1, <2>2, <2>4, UpdateType
    <3>3. QED
      BY <1>1, <1>4, <3>2 DEF PrepareCycle, FieldType, PcType, transfer, ghosts
  <2>5. QED
    BY <1>4, <2>3, <2>4 DEF PrepareCycle
<1>5. CASE PrepareExpire
  <2>1. PICK N \in Submissions : Finish(req, "timedout", N, wake)
    BY <1>5 DEF PrepareExpire
  <2>2. /\ req \in Listed /\ pc' = pc /\ connected' = connected /\ skew' = skew
        /\ waking' = waking /\ wait' \in Int /\ seen' \in [OneShots -> Seq(Nat)]
        /\ wake \in BOOLEAN /\ "timedout" \in Reasons
    BY <1>1, <1>5 DEF PrepareExpire, Expired, Timed, FieldType, Reasons
  <2>3. QED
    BY <1>1, <2>1, <2>2, FinishFields DEF PcType
<1>6. CASE CancelOne
  <2>1. PICK N \in Submissions : Finish(req, "shutdown", N, wake)
    BY <1>6 DEF CancelOne
  <2>2. /\ req \in Listed /\ pc' = pc /\ connected' = connected /\ skew' = skew
        /\ waking' = waking /\ wait' \in Int /\ seen' \in [OneShots -> Seq(Nat)]
        /\ wake \in BOOLEAN /\ "shutdown" \in Reasons
    BY <1>1, <1>6 DEF CancelOne, CursorSafe, Locked, FieldType, Reasons
  <2>3. QED
    BY <1>1, <2>1, <2>2, FinishFields DEF PcType
<1>7. QED
  BY <1>2, <1>3, <1>4, <1>5, <1>6 DEF Proceed

\* Handling one received packet.
LEMMA RxType ==
  ASSUME ListInv, NEW r \in Reqs, RxRequest(r)
  PROVE  FieldType' /\ PcType'
<1>1. /\ TypeOK /\ ExactlyOnce /\ FieldType /\ MaxRetries \in 0 .. MaxRetries
      /\ block[r] \in Nat
      /\ Drained \subseteq BOOLEAN /\ {"error", "ack", "refused", "ok"} \subseteq Reasons
  <2>1. TypeOK /\ ExactlyOnce /\ FieldType
    BY TypeParts DEF ListInv
  <2>2. MaxRetries \in 0 .. MaxRetries
    BY TimingAssumption
  <2>3. block[r] \in Nat
    BY <2>1 DEF FieldType
  <2>4. QED
    BY <2>1, <2>2, <2>3, DrainedType DEF Reasons
<1>2. ASSUME NEW why \in Reasons, NEW N \in Submissions, NEW w \in Drained,
             Finish(r, why, N, w), r \in Listed, AfterRx, connected' = connected,
             seen' \in [OneShots -> Seq(Nat)]
      PROVE  FieldType' /\ PcType'
  <2>1. /\ skew' = skew /\ waking' = waking /\ wait' \in Int /\ PcType'
    BY <1>2 DEF AfterRx, PcType
  <2>2. QED
    BY <1>1, <1>2, <2>1, FinishFields
<1>3. ASSUME NEW N \in Submissions, NEW w \in Drained, Schedule(N, w), AfterRx,
             UNCHANGED <<connected, tx, ends, result>>,
             left' \in [Reqs -> Int], timeout' \in [Reqs -> Nat],
             retries' \in [Reqs -> 0 .. MaxRetries],
             block' \in [Reqs -> Nat], pkt' \in [Reqs -> Nat],
             pending' \in [Observes -> BOOLEAN], tries' \in [Reqs -> Nat],
             seen' \in [OneShots -> Seq(Nat)]
      PROVE  FieldType' /\ PcType'
  <2>1. /\ skew' = skew /\ waking' = waking /\ wait' \in Int /\ PcType'
    BY <1>3 DEF AfterRx, PcType
  <2>2. wake' \in BOOLEAN /\ status' \in [Reqs -> {"unused", "rejected", "accepted"}]
    BY <1>1, <1>3, ScheduleType
  <2>3. QED
    BY <1>1, <1>3, <2>1, <2>2 DEF FieldType
<1>4. CASE RxError(r)
  <2>1. PICK N \in Submissions, w \in Drained : Finish(r, "error", N, w)
    BY <1>4 DEF RxError
  <2>2. QED
    BY <1>1, <1>2, <1>4, <2>1 DEF RxError, Receives, FieldType
<1>5. CASE RxEmptyAck(r)
  <2>1. PICK N \in Submissions, w \in Drained : Finish(r, "ack", N, w)
    BY <1>5 DEF RxEmptyAck
  <2>2. QED
    BY <1>1, <1>2, <1>5, <2>1 DEF RxEmptyAck, Receives, FieldType
<1>6. CASE RxNotify(r)
  <2>1. PICK N \in Submissions, w \in Drained : Schedule(N, w)
    BY <1>6 DEF RxNotify
  <2>2. pending' \in [Observes -> BOOLEAN]
    BY <1>1, <1>6 DEF RxNotify, FieldType
  <2>3. AfterRx /\ UNCHANGED <<connected, timers, block, pkt, tx, ends, result, seen, tries>>
    BY <1>6 DEF RxNotify
  <2>4. QED
    BY <1>1, <1>3, <2>1, <2>2, <2>3 DEF FieldType, timers
<1>7. ASSUME NEW b \in 0 .. block[r], MoreBlock(r, b)
      PROVE  /\ b \in Nat /\ r \in OneShots /\ r \in Listed /\ AfterRx
             /\ seen' \in [OneShots -> Seq(Nat)]
             /\ [block EXCEPT ![r] = b + 1] \in [Reqs -> Nat]
  <2>1. b \in Nat /\ r \in OneShots /\ r \in Listed /\ AfterRx
    BY <1>1, <1>7 DEF MoreBlock, Receives
  <2>2. seen' \in [OneShots -> Seq(Nat)]
    BY <1>1, <1>7, <2>1, SeenType DEF MoreBlock
  <2>3. b + 1 \in Nat /\ block \in [Reqs -> Nat]
    BY <1>1, <2>1 DEF FieldType
  <2>4. QED
    BY <2>1, <2>2, <2>3, UpdateType
<1>8. ASSUME NEW b \in 0 .. block[r], RxMoreNext(r, b)
      PROVE  FieldType' /\ PcType'
  <2>1. PICK N \in Submissions, w \in Drained : Schedule(N, w)
    BY <1>8 DEF RxMoreNext
  <2>2. /\ b \in Nat /\ AfterRx /\ seen' \in [OneShots -> Seq(Nat)]
        /\ block' \in [Reqs -> Nat]
    BY <1>7, <1>8 DEF RxMoreNext
  <2>3. pkt' \in [Reqs -> Nat]
    <3>1. b + 1 \in Nat /\ pkt \in [Reqs -> Nat]
      BY <1>1, <2>2 DEF FieldType
    <3>2. QED
      BY <1>8, <3>1, UpdateType DEF RxMoreNext
  <2>4. left' \in [Reqs -> Int] /\ timeout' \in [Reqs -> Nat]
    BY <1>1, <1>8, UpdateType DEF RxMoreNext, Restart, FieldType
  <2>5. retries' \in [Reqs -> 0 .. MaxRetries]
    BY <1>1, <1>8, UpdateType DEF RxMoreNext, Restart, FieldType
  <2>6. tries' \in [Reqs -> Nat]
    BY <1>1, <1>8, UpdateType DEF RxMoreNext, FieldType
  <2>7. UNCHANGED <<connected, pending, tx, ends, result>>
    BY <1>8 DEF RxMoreNext
  <2>8. QED
    BY <1>1, <1>3, <2>1, <2>2, <2>3, <2>4, <2>5, <2>6, <2>7 DEF FieldType
<1>9. ASSUME NEW b \in 0 .. block[r], RxMoreHold(r, b)
      PROVE  FieldType' /\ PcType'
  <2>1. PICK N \in Submissions, w \in Drained : Schedule(N, w)
    BY <1>9 DEF RxMoreHold
  <2>2. /\ AfterRx /\ seen' \in [OneShots -> Seq(Nat)] /\ block' \in [Reqs -> Nat]
    BY <1>7, <1>9 DEF RxMoreHold
  <2>3. UNCHANGED <<connected, timers, pkt, pending, tx, ends, result, tries>>
    BY <1>9 DEF RxMoreHold
  <2>4. QED
    BY <1>1, <1>3, <2>1, <2>2, <2>3 DEF FieldType, timers
<1>10. ASSUME NEW b \in 0 .. block[r], RxMoreRefuse(r, b)
       PROVE  FieldType' /\ PcType'
  <2>1. PICK N \in Submissions, w \in Drained : Finish(r, "refused", N, w)
    BY <1>10 DEF RxMoreRefuse
  <2>2. QED
    BY <1>1, <1>2, <1>7, <1>10, <2>1 DEF RxMoreRefuse
<1>11. ASSUME NEW b \in 0 .. block[r], RxLast(r, b)
       PROVE  FieldType' /\ PcType'
  <2>1. PICK N \in Submissions, w \in Drained : Finish(r, "ok", N, w)
    BY <1>11 DEF RxLast
  <2>2. b \in Nat /\ r \in OneShots /\ r \in Listed /\ AfterRx /\ connected' = connected
    BY <1>1, <1>11 DEF RxLast, Receives
  <2>3. seen' \in [OneShots -> Seq(Nat)]
    BY <1>1, <1>11, <2>2, SeenType DEF RxLast
  <2>4. QED
    BY <1>1, <1>2, <2>1, <2>2, <2>3
<1>12. QED
  BY <1>4, <1>5, <1>6, <1>8, <1>9, <1>10, <1>11 DEF RxRequest

\* TypeOK is preserved by every step.
LEMMA TypeStep ==
  ASSUME ListInv, [Next]_vars
  PROVE  TypeOK'
<1>1. list' \in Seq(Reqs) /\ CursorType'
  BY ExactlyOnceStep, CursorStep
<1> SUFFICES FieldType' /\ PcType'
  BY <1>1, TypeParts DEF TypeOK, CursorType, FieldType, PcType, Reasons
<1>2. TypeOK /\ ExactlyOnce /\ FieldType /\ PcType
  BY TypeParts DEF ListInv
<1>3. CASE Proceed
  BY <1>3, ProceedType
<1>4. CASE Connect \/ UNCHANGED vars
  BY <1>2, <1>4 DEF Connect, vars, loop, timers, transfer, ghosts, FieldType, PcType
<1>5. CASE DisconnectBegin \/ RxIgnored
  <2>1. wake' \in BOOLEAN /\ wait' \in Int
    BY <1>2, <1>5, DrainedType DEF DisconnectBegin, RxIgnored, AfterRx
  <2>2. /\ connected' \in BOOLEAN /\ PcType'
        /\ UNCHANGED <<timers, transfer, skew, waking, tx, ghosts>>
    BY <1>2, <1>5 DEF DisconnectBegin, RxIgnored, AfterRx, FieldType, PcType
  <2>3. QED
    BY <1>2, <2>1, <2>2 DEF FieldType, timers, transfer, ghosts
<1>6. CASE Tick
  <2>1. left' \in [Reqs -> Int]
    <3>1. \A r \in Reqs : left[r] \in Int
      BY <1>2 DEF FieldType
    <3>2. left' = [r \in Reqs |-> IF r \in Timed THEN left[r] - 1 ELSE left[r]]
      BY <1>6 DEF Tick
    <3>3. QED
      BY <3>1, <3>2
  <2>2. skew' \in 0 .. MaxSkew
    BY <1>2, <1>6, TimingAssumption DEF Tick, FieldType
  <2>3. wait' \in Int
    BY <1>2, <1>6 DEF Tick, FieldType
  <2>4. QED
    BY <1>2, <1>6, <2>1, <2>2, <2>3 DEF Tick, FieldType, PcType, transfer, ghosts
<1>7. ASSUME NEW r \in Reqs, AppSubmit(r) PROVE FieldType' /\ PcType'
  <2>1. status' \in [Reqs -> {"unused", "rejected", "accepted"}]
    BY <1>2, <1>7, FatesType DEF AppSubmit
  <2>2. waking' \in SUBSET Reqs
    BY <1>2, <1>7 DEF AppSubmit, FieldType
  <2>3. QED
    BY <1>2, <1>7, <2>1, <2>2 DEF AppSubmit, FieldType, PcType, timers, transfer
<1>8. ASSUME NEW r \in Reqs, AppWakeup(r) PROVE FieldType' /\ PcType'
  <2>1. wake' \in BOOLEAN /\ waking' \in SUBSET Reqs
    BY <1>2, <1>8 DEF AppWakeup, FieldType
  <2>2. QED
    BY <1>2, <1>8, <2>1 DEF AppWakeup, FieldType, PcType, timers, transfer, ghosts
<1>9. ASSUME NEW r \in Reqs, RxRequest(r) PROVE FieldType' /\ PcType'
  BY <1>9, RxType
<1>10. QED
  BY <1>3, <1>4, <1>5, <1>6, <1>7, <1>8, <1>9 DEF Next

-----------------------------------------------------------------------------
(* The theorems.                                                           *)

\* The initial state satisfies the inductive invariant ...
LEMMA ListInvInit == Init => ListInv
<1> SUFFICES ASSUME Init PROVE ListInv
  OBVIOUS
<1>1. list = <<>> /\ Len(list) = 0 /\ Listed = {}
  BY DEF Init, Listed, ToSet
<1>2. TypeOK
  <2>1. MaxRetries \in 0 .. MaxRetries /\ 0 \in 0 .. MaxSkew
    BY TimingAssumption
  <2>2. list \in Seq(Reqs) /\ CursorType /\ PcType
    <3>1. send \in BOOLEAN
      BY Zenon DEF Init
    <3>2. list \in Seq(Reqs) /\ PcType
      BY <1>1 DEF Init, PcType
    <3>3. req = None /\ next = None
      BY DEF Init
    <3>4. QED
      BY <3>1, <3>2, <3>3 DEF CursorType
  <2>3. retries \in [Reqs -> 0 .. MaxRetries]
    BY <2>1 DEF Init
  <2>4. seen \in [OneShots -> Seq(Nat)]
    BY DEF Init
  <2>5. /\ left \in [Reqs -> Int] /\ timeout \in [Reqs -> Nat]
        /\ block \in [Reqs -> Nat] /\ pkt \in [Reqs -> Nat]
        /\ ends \in [Reqs -> Nat] /\ tries \in [Reqs -> Nat]
    BY DEF Init
  <2>6. /\ connected \in BOOLEAN /\ wake \in BOOLEAN
        /\ pending \in [Observes -> BOOLEAN]
    BY Zenon DEF Init
  <2>7. /\ skew \in 0 .. MaxSkew /\ waking \in SUBSET Reqs /\ wait \in Int
        /\ tx \in SUBSET (Reqs \X Nat)
    BY <2>1 DEF Init
  <2>8. /\ status \in [Reqs -> {"unused", "rejected", "accepted"}]
        /\ result \in [Reqs -> Reasons \union {"none"}]
    BY DEF Init
  <2>9. QED
    BY <2>2, <2>3, <2>4, <2>5, <2>6, <2>7, <2>8, TypeParts DEF FieldType
<1>3. ExactlyOnce
  BY <1>1 DEF Init, ExactlyOnce
<1>4. CursorSafe /\ DownMeansDrained /\ ConnectedPc /\ CancelHead
  BY <1>1 DEF Init, CursorSafe, Locked, DownMeansDrained, ConnectedPc, CancelHead
<1>5. QED
  BY <1>2, <1>3, <1>4 DEF ListInv

\* ... and every step preserves it.
LEMMA ListInvStep == ListInv /\ [Next]_vars => ListInv'
BY TypeStep, ExactlyOnceStep, CursorStep, CancelStep, DrainedStep DEF ListInv

\* The invariant that the theorems below are read off.
THEOREM ListInvariant == Spec => []ListInv
BY ListInvInit, ListInvStep, PTL DEF Spec

\* Type correctness: retries in particular never wraps below zero.
THEOREM TypeCorrect == Spec => []TypeOK
<1>1. ListInv => TypeOK
  BY DEF ListInv
<1>2. QED
  BY <1>1, ListInvariant, PTL

\* Exactly one final callback for every accepted request, none for a rejected
\* one, for any number of requests, threads and sessions.
THEOREM CallbackExactlyOnce == Spec => []ExactlyOnce
<1>1. ListInv => ExactlyOnce
  BY DEF ListInv
<1>2. QED
  BY <1>1, ListInvariant, PTL

\* No iteration over the list touches a freed request, although callbacks
\* extend the list under it.
THEOREM IterationSafe == Spec => []CursorSafe
<1>1. ListInv => CursorSafe
  BY DEF ListInv
<1>2. QED
  BY <1>1, ListInvariant, PTL

\* No request outlives its session.
THEOREM SessionDrained == Spec => []DownMeansDrained
<1>1. ListInv => DownMeansDrained
  BY DEF ListInv
<1>2. QED
  BY <1>1, ListInvariant, PTL

-----------------------------------------------------------------------------
(* The steps, by what the callers of the engine see of them.               *)

\* Nothing.
Quiet == UNCHANGED <<list, status, ends, result, seen, block>>

\* A request is made.
Asks(N) ==
  /\ N \in Submissions /\ list' = Submitted(N) /\ status' = Fates(N)
  /\ UNCHANGED <<ends, result>>

\* The callback of r sees the block it waits for ...
Shows(r) ==
  /\ r \in OneShots
  /\ seen' = [seen EXCEPT ![r] = Append(@, block[r])]

\* ... and is called for the last time.
Closes(r, why, N) ==
  /\ N \in Submissions /\ list' = Unlink(Submitted(N), r) /\ status' = Fates(N)
  /\ ends' = [ends EXCEPT ![r] = @ + 1] /\ result' = [result EXCEPT ![r] = why]
  /\ block' = [block EXCEPT ![r] = 0]

\* The engine is as connected as before.
LinkSame == connected' = connected /\ (pc' = "cancel" <=> pc = "cancel")

Requests(N) == Asks(N) /\ UNCHANGED <<seen, block>> /\ LinkSame

Continues(r, N) ==
  /\ r \in Listed /\ pc = "poll" /\ LinkSame
  /\ Asks(N) /\ Shows(r) /\ block[r] + 1 < NBlocks[r]
  /\ block' = [block EXCEPT ![r] = @ + 1]

Ends(r, why, N) ==
  /\ r \in Listed /\ LinkSame /\ Closes(r, why, N)
  /\ pc = IF why = "shutdown" THEN "cancel" ELSE IF why = "timedout" THEN "prepare" ELSE "poll"
  /\ IF why \in {"ok", "refused"}
       THEN Shows(r) /\ (why = "ok" <=> block[r] + 1 = NBlocks[r])
       ELSE UNCHANGED seen

Relinks == Quiet /\ (LinkSame \/ OnConnect \/ DisconnectBegin \/ CancelEnd)

\* The block a callback is shown is the one it waits for: earlier ones are
\* recognised, and later ones have not been asked for.
LEMMA BlockWanted ==
  ASSUME TypeOK, NEW r \in Reqs, NEW b \in 0 .. block[r], Wanted(r, b)
  PROVE  b = block[r]
<1>1. block[r] \in Nat
  BY DEF TypeOK
<1> QED  BY <1>1 DEF Wanted

\* Finish is what its callers see of it.
LEMMA FinishCloses ==
  ASSUME NEW N \in Submissions, NEW r, NEW why, NEW w, Finish(r, why, N, w)
  PROVE  Closes(r, why, N)
BY DEF Finish, Closes

\* The steps that handle one received packet.
LEMMA RxShapes ==
  ASSUME ListInv, NEW r \in Reqs, RxRequest(r)
  PROVE  \E N \in Submissions :
           \/ Requests(N) \/ Continues(r, N) \/ \E why \in Reasons : Ends(r, why, N)
<1>1. TypeOK
  BY DEF ListInv
<1>2. r \in Listed /\ pc = "poll" /\ LinkSame
  BY DEF RxRequest, RxError, RxEmptyAck, RxNotify, RxMoreNext, RxMoreHold, RxMoreRefuse,
     RxLast, MoreBlock, AfterRx, Receives, LinkSame
<1>3. CASE RxError(r)
  <2>1. PICK N \in Submissions, w \in Drained : Finish(r, "error", N, w)
    BY <1>3 DEF RxError
  <2>2. Ends(r, "error", N)
    BY <1>2, <1>3, <2>1, FinishCloses DEF Ends, RxError
  <2> QED  BY <2>2 DEF Reasons
<1>4. CASE RxEmptyAck(r)
  <2>1. PICK N \in Submissions, w \in Drained : Finish(r, "ack", N, w)
    BY <1>4 DEF RxEmptyAck
  <2>2. Ends(r, "ack", N)
    BY <1>2, <1>4, <2>1, FinishCloses DEF Ends, RxEmptyAck
  <2> QED  BY <2>2 DEF Reasons
<1>5. CASE RxNotify(r)
  <2>1. PICK N \in Submissions, w \in Drained : Schedule(N, w)
    BY <1>5 DEF RxNotify
  <2>2. Requests(N)
    BY <1>2, <1>5, <2>1 DEF Requests, Asks, Schedule, RxNotify
  <2> QED  BY <2>2
<1>6. ASSUME NEW b \in 0 .. block[r], RxMoreNext(r, b) \/ RxMoreHold(r, b)
      PROVE  \E N \in Submissions : Continues(r, N)
  <2>1. PICK N \in Submissions, w \in Drained : Schedule(N, w)
    BY <1>6 DEF RxMoreNext, RxMoreHold
  <2>2. /\ MoreBlock(r, b) /\ block' = [block EXCEPT ![r] = b + 1]
        /\ UNCHANGED <<ends, result>>
    BY <1>6 DEF RxMoreNext, RxMoreHold
  <2>3. b = block[r]
    BY <1>1, <2>2, BlockWanted DEF MoreBlock
  <2>4. Shows(r) /\ block[r] + 1 < NBlocks[r]
    BY <2>2, <2>3 DEF Shows, MoreBlock
  <2> QED  BY <1>2, <2>1, <2>2, <2>3, <2>4 DEF Continues, Asks, Schedule
<1>7. ASSUME NEW b \in 0 .. block[r], RxMoreRefuse(r, b)
      PROVE  \E N \in Submissions : Ends(r, "refused", N)
  <2>1. PICK N \in Submissions, w \in Drained : Finish(r, "refused", N, w)
    BY <1>7 DEF RxMoreRefuse
  <2>2. b = block[r] /\ Shows(r) /\ block[r] + 1 < NBlocks[r]
    BY <1>1, <1>7, BlockWanted DEF Shows, RxMoreRefuse, MoreBlock
  <2>3. block[r] + 1 # NBlocks[r]
    BY <1>1, <2>2, BlocksAssumption DEF TypeOK, Shows
  <2> QED  BY <1>2, <2>1, <2>2, <2>3, FinishCloses DEF Ends
<1>8. ASSUME NEW b \in 0 .. block[r], RxLast(r, b)
      PROVE  \E N \in Submissions : Ends(r, "ok", N)
  <2>1. PICK N \in Submissions, w \in Drained : Finish(r, "ok", N, w)
    BY <1>8 DEF RxLast
  <2>2. b = block[r] /\ Shows(r) /\ block[r] + 1 = NBlocks[r]
    BY <1>1, <1>8, BlockWanted DEF Shows, RxLast
  <2> QED  BY <1>2, <2>1, <2>2, FinishCloses DEF Ends
<1> QED
  BY <1>3, <1>4, <1>5, <1>6, <1>7, <1>8 DEF RxRequest, Reasons

\* All steps.
LEMMA StepShapes ==
  ASSUME ListInv, [Next]_vars
  PROVE  \/ Relinks
         \/ \E N \in Submissions :
              \/ Requests(N)
              \/ \E r \in Reqs : Continues(r, N) \/ \E why \in Reasons : Ends(r, why, N)
<1>1. CASE \/ Connect \/ RxIgnored \/ Tick \/ PollWake \/ OnConnect \/ PrepareBegin
           \/ PrepareSend \/ PrepareSkip \/ PrepareCycle \/ PrepareEnd \/ CancelEnd
           \/ Close \/ DisconnectBegin \/ UNCHANGED vars
  BY <1>1 DEF Connect, RxIgnored, AfterRx, Tick, PollWake, OnConnect, PrepareBegin,
     PrepareSend, PrepareSkip, PrepareCycle, PrepareEnd, CancelEnd, Close,
     DisconnectBegin, vars, loop, transfer, ghosts, Relinks, Quiet, LinkSame
<1>2. CASE PrepareExpire
  <2>1. PICK N \in Submissions : Finish(req, "timedout", N, wake)
    BY <1>2 DEF PrepareExpire
  <2>2. req \in Listed /\ req \in Reqs /\ Ends(req, "timedout", N)
    BY <1>2, <2>1, FinishCloses, ListedType
       DEF PrepareExpire, Expired, Timed, Ends, LinkSame, ListInv
  <2> QED  BY <2>2 DEF Reasons
<1>3. CASE CancelOne
  <2>1. PICK N \in Submissions : Finish(req, "shutdown", N, wake)
    BY <1>3 DEF CancelOne
  <2>2. req \in Listed /\ req \in Reqs
    BY <1>3, ListedType DEF CancelOne, ListInv, CursorSafe, Locked
  <2>3. Ends(req, "shutdown", N)
    BY <1>3, <2>1, <2>2, FinishCloses DEF CancelOne, Ends, LinkSame
  <2> QED  BY <2>2, <2>3 DEF Reasons
<1>4. ASSUME NEW r \in Reqs, AppSubmit(r) PROVE Requests({r}) /\ {r} \in Submissions
  BY <1>4 DEF AppSubmit, Submissions, Requests, Asks, LinkSame, transfer
<1>5. ASSUME NEW r \in Reqs, AppWakeup(r) PROVE Relinks
  BY <1>5 DEF AppWakeup, Relinks, Quiet, LinkSame, ghosts, transfer
<1> QED
  BY <1>1, <1>2, <1>3, <1>4, <1>5, RxShapes DEF Next, Proceed

-----------------------------------------------------------------------------
(* Blocks in order.                                                        *)

\* The callback of r has seen the first blocks, and no more than block_ctx says.
Seen(r) ==
  /\ \A i \in 1 .. Len(seen[r]) : seen[r][i] = i - 1
  /\ r \in Listed => Len(seen[r]) = block[r] /\ block[r] < NBlocks[r]
  /\ r \notin Listed => block[r] = 0
  /\ status[r] # "accepted" => seen[r] = <<>>
  /\ result[r] = "ok" => Len(seen[r]) = NBlocks[r]

\* Together with ListInv, inductive.
BlockInv ==
  /\ \A r \in Reqs : result[r] = "none" <=> ends[r] = 0
  /\ \A r \in OneShots : Seen(r)

LEMMA BlockInvInit == Init => BlockInv
<1> SUFFICES ASSUME Init PROVE BlockInv
  OBVIOUS
<1>1. Listed = {}
  BY DEF Init, Listed, ToSet
<1>2. \A r \in OneShots : seen[r] = <<>> /\ Len(seen[r]) = 0
  BY DEF Init
<1>3. \A r \in OneShots : Seen(r)
  BY <1>1, <1>2 DEF Init, Seen, Reqs
<1> QED  BY <1>3 DEF Init, BlockInv

\* What a new request does to the others: nothing.
LEMMA AsksKeeps ==
  ASSUME ListInv, NEW N, Asks(N)
  PROVE  /\ Listed' = Listed \union Added(N)
         /\ N \subseteq Reqs /\ N \intersect Listed = {}
         /\ \A n \in N : status[n] = "unused"
         /\ \A q \in Reqs \ N : status'[q] = status[q]
<1>1. TypeOK /\ ExactlyOnce /\ N \in Submissions
  BY DEF ListInv, Asks
<1>2. Listed' = Listed \union Added(N)
  BY <1>1, ScheduleKeeps DEF Asks
<1> QED  BY <1>1, <1>2, SubmittedMember DEF Submissions, Unused, Asks, Fates

\* A final callback ends its request and leaves the others alone.
LEMMA ClosesKeeps ==
  ASSUME ListInv, NEW r \in Listed, NEW why, NEW N, Closes(r, why, N)
  PROVE  /\ Listed' = (Listed \ {r}) \union Added(N)
         /\ N \subseteq Reqs /\ N \intersect Listed = {}
         /\ \A n \in N : status[n] = "unused"
         /\ \A q \in Reqs \ N : status'[q] = status[q]
         /\ r \in Reqs /\ status[r] = "accepted" /\ ends[r] = 0
<1>1. TypeOK /\ ExactlyOnce /\ N \in Submissions
  BY DEF ListInv, Closes
<1>2. Listed' = (Listed \ {r}) \union Added(N)
  BY <1>1, FinishKeeps DEF Closes
<1>3. r \in Reqs /\ status[r] = "accepted" /\ ends[r] = 0
  BY <1>1, ListedType DEF ExactlyOnce
<1> QED  BY <1>1, <1>2, <1>3, SubmittedMember DEF Submissions, Unused, Closes, Fates

\* Seeing the block that is waited for keeps the blocks in order.
LEMMA ShowsInOrder ==
  ASSUME TypeOK, NEW r \in OneShots, Seen(r), r \in Listed, Shows(r)
  PROVE  /\ Len(seen'[r]) = block[r] + 1
         /\ \A i \in 1 .. Len(seen'[r]) : seen'[r][i] = i - 1
         /\ \A q \in OneShots \ {r} : seen'[q] = seen[q]
<1>1. /\ seen[r] \in Seq(Nat) /\ block[r] \in Nat /\ seen \in [OneShots -> Seq(Nat)]
      /\ Len(seen[r]) = block[r]
  BY DEF TypeOK, Seen, Reqs
<1>2. seen'[r] = Append(seen[r], block[r])
  BY <1>1 DEF Shows
<1>3. /\ Len(seen'[r]) = block[r] + 1 /\ seen'[r][block[r] + 1] = block[r]
      /\ \A i \in 1 .. block[r] : seen'[r][i] = seen[r][i]
  BY <1>1, <1>2, AppendProperties
<1>4. ASSUME NEW i \in 1 .. Len(seen'[r]) PROVE seen'[r][i] = i - 1
  <2>1. CASE i = block[r] + 1
    BY <2>1, <1>1, <1>3
  <2>2. CASE i # block[r] + 1
    <3>1. i \in 1 .. block[r]
      BY <2>2, <1>1, <1>3
    <3> QED  BY <3>1, <1>1, <1>3 DEF Seen
  <2> QED  BY <2>1, <2>2
<1> QED  BY <1>1, <1>3, <1>4 DEF Shows

LEMMA BlockInvStep == ListInv /\ BlockInv /\ [Next]_vars => BlockInv'
<1> SUFFICES ASSUME ListInv, BlockInv, [Next]_vars PROVE BlockInv'
  OBVIOUS
<1>1. /\ TypeOK /\ Listed \subseteq Reqs /\ OneShots \subseteq Reqs
      /\ result \in [Reqs -> Reasons \union {"none"}] /\ ends \in [Reqs -> Nat]
      /\ block \in [Reqs -> Nat] /\ NBlocks \in [OneShots -> Nat \ {0}]
  BY ListedType, BlocksAssumption DEF ListInv, TypeOK, Reqs, Reasons
<1>2. CASE Relinks
  BY <1>2 DEF Relinks, Quiet, BlockInv, Seen, Listed
<1>3. ASSUME NEW N, Requests(N) PROVE BlockInv'
  <2>1. ASSUME NEW q \in OneShots PROVE Seen(q)'
    <3>1. CASE q \in N
      <4>1. /\ q \notin Listed /\ status[q] = "unused" /\ seen'[q] = seen[q]
            /\ block'[q] = block[q] /\ result'[q] = result[q]
        BY <1>3, <3>1, AsksKeeps DEF Requests, Asks
      <4>2. block[q] = 0 /\ seen[q] = <<>> /\ Len(seen[q]) = 0 /\ 0 < NBlocks[q]
        BY <4>1, <1>1 DEF BlockInv, Seen
      <4> QED  BY <4>1, <4>2 DEF BlockInv, Seen
    <3>2. CASE q \notin N
      <4>1. /\ q \in Listed' <=> q \in Listed
            /\ status'[q] = status[q]
        BY <1>1, <1>3, <3>2, AsksKeeps DEF Requests, Asks, Added
      <4> QED  BY <1>3, <4>1 DEF Requests, Asks, BlockInv, Seen
    <3> QED  BY <3>1, <3>2
  <2> QED  BY <1>3, <2>1 DEF BlockInv, Requests, Asks
<1>4. ASSUME NEW N, NEW r \in Reqs, Continues(r, N) PROVE BlockInv'
  <2>1. /\ r \in OneShots /\ r \in Listed /\ Asks(N) /\ Shows(r) /\ Seen(r)
        /\ block'[r] = block[r] + 1 /\ \A q \in Reqs \ {r} : block'[q] = block[q]
    BY <1>1, <1>4 DEF Continues, Shows, BlockInv
  <2>2. /\ Len(seen'[r]) = block[r] + 1
        /\ \A i \in 1 .. Len(seen'[r]) : seen'[r][i] = i - 1
        /\ \A q \in OneShots \ {r} : seen'[q] = seen[q]
    BY <1>1, <2>1, ShowsInOrder
  <2>3. ASSUME NEW q \in OneShots PROVE Seen(q)'
    <3>1. CASE q = r
      <4>1. r \in Listed' /\ r \notin N /\ status'[r] = status[r] /\ status[r] = "accepted"
        BY <2>1, AsksKeeps DEF ListInv, ExactlyOnce
      <4>2. result'[r] # "ok"
        BY <1>1, <2>1 DEF ListInv, ExactlyOnce, BlockInv, Asks
      <4> QED  BY <1>4, <2>1, <2>2, <3>1, <4>1, <4>2 DEF Continues, Seen
    <3>2. CASE q \in N
      <4>1. /\ q \notin Listed /\ q # r /\ status[q] = "unused" /\ result'[q] = result[q]
            /\ seen'[q] = seen[q] /\ block'[q] = block[q]
        BY <1>1, <2>1, <2>2, <3>2, AsksKeeps DEF Asks
      <4>2. block[q] = 0 /\ seen[q] = <<>> /\ Len(seen[q]) = 0 /\ 0 < NBlocks[q]
        BY <4>1, <1>1 DEF BlockInv, Seen
      <4> QED  BY <4>1, <4>2 DEF BlockInv, Seen
    <3>3. CASE q # r /\ q \notin N
      <4>1. /\ q \in Listed' <=> q \in Listed
            /\ status'[q] = status[q] /\ result'[q] = result[q]
            /\ seen'[q] = seen[q] /\ block'[q] = block[q]
        BY <1>1, <2>1, <2>2, <3>3, AsksKeeps DEF Asks, Added
      <4> QED  BY <4>1 DEF BlockInv, Seen
    <3> QED  BY <3>1, <3>2, <3>3
  <2> QED  BY <2>1, <2>3 DEF BlockInv, Asks
<1>5. ASSUME NEW N, NEW r \in Reqs, NEW why \in Reasons, Ends(r, why, N) PROVE BlockInv'
  <2>1. r \in Listed /\ Closes(r, why, N)
    BY <1>5 DEF Ends
  <2>2. /\ Listed' = (Listed \ {r}) \union Added(N)
        /\ N \subseteq Reqs /\ N \intersect Listed = {}
        /\ \A n \in N : status[n] = "unused"
        /\ \A q \in Reqs \ N : status'[q] = status[q]
        /\ status[r] = "accepted" /\ ends[r] = 0
    BY <2>1, ClosesKeeps
  <2>3. /\ ends'[r] = 1 /\ result'[r] = why /\ block'[r] = 0
        /\ \A q \in Reqs \ {r} :
             ends'[q] = ends[q] /\ result'[q] = result[q] /\ block'[q] = block[q]
    BY <1>1, <2>1, <2>2 DEF Closes
  <2>4. \A q \in OneShots \ {r} : seen'[q] = seen[q]
    BY <1>1, <1>5 DEF Ends, Shows, TypeOK
  <2>5. ASSUME r \in OneShots PROVE Seen(r)'
    <3>1. r \notin Listed' /\ status'[r] = "accepted"
      BY <2>1, <2>2 DEF Added
    <3>2. Seen(r) /\ Len(seen[r]) = block[r]
      BY <2>1, <2>5 DEF BlockInv, Seen
    <3>3. CASE why \in {"ok", "refused"}
      <4>1. Shows(r) /\ (why = "ok" <=> block[r] + 1 = NBlocks[r])
        BY <1>5, <3>3 DEF Ends
      <4> QED  BY <1>1, <2>1, <2>3, <2>5, <3>1, <3>2, <4>1, ShowsInOrder DEF Seen
    <3>4. CASE why \notin {"ok", "refused"}
      <4>1. seen'[r] = seen[r]
        BY <1>5, <3>4 DEF Ends
      <4> QED  BY <2>3, <3>1, <3>2, <3>4, <4>1 DEF Seen
    <3> QED  BY <3>3, <3>4
  <2>6. ASSUME NEW q \in OneShots, q # r, q \in N PROVE Seen(q)'
    <3>1. /\ q \notin Listed /\ status[q] = "unused" /\ result'[q] = result[q]
          /\ seen'[q] = seen[q] /\ block'[q] = block[q]
      BY <1>1, <2>2, <2>3, <2>4, <2>6
    <3>2. block[q] = 0 /\ seen[q] = <<>> /\ Len(seen[q]) = 0 /\ 0 < NBlocks[q]
      BY <3>1, <1>1 DEF BlockInv, Seen
    <3> QED  BY <3>1, <3>2 DEF BlockInv, Seen
  <2>7. ASSUME NEW q \in OneShots, q # r, q \notin N PROVE Seen(q)'
    <3>1. /\ q \in Listed' <=> q \in Listed
          /\ status'[q] = status[q] /\ result'[q] = result[q]
          /\ seen'[q] = seen[q] /\ block'[q] = block[q]
      BY <1>1, <2>2, <2>3, <2>4, <2>7 DEF Added
    <3> QED  BY <3>1 DEF BlockInv, Seen
  <2>8. \A q \in Reqs : result'[q] = "none" <=> ends'[q] = 0
    BY <2>2, <2>3 DEF BlockInv, Reasons
  <2> QED  BY <2>5, <2>6, <2>7, <2>8 DEF BlockInv
<1> QED  BY <1>2, <1>3, <1>4, <1>5, StepShapes

\* The invariant the next theorem and the contract rest on.
THEOREM BlockInvariant == Spec => []BlockInv
<1>1. Spec => []ListInv
  BY ListInvariant
<1> QED  BY <1>1, BlockInvInit, BlockInvStep, PTL DEF Spec

\* golioth_coap_req_reply_handler: whatever the network loses, repeats or delays, a
\* callback sees the blocks of its response in order and once each, and all of
\* them when it is told that the transfer is complete.
THEOREM BlocksOnceInOrder == Spec => []BlocksInOrder
<1>1. BlockInv => BlocksInOrder
  BY DEF BlockInv, Seen, BlocksInOrder
<1> QED  BY <1>1, BlockInvariant, PTL

-----------------------------------------------------------------------------
(* The contract.                                                           *)

\* link and fate of the contract, in the terms of the engine.
LEMMA MappedLink ==
  ASSUME ListInv
  PROVE  /\ link = "up" <=> connected
         /\ link = "closing" <=> pc = "cancel"
         /\ link = "down" <=> ~connected /\ pc # "cancel"
BY DEF ListInv, ConnectedPc, link

LEMMA MappedFate ==
  ASSUME ListInv, BlockInv
  PROVE  /\ \A r \in Reqs : fate[r] = "open" <=> r \in Listed
         /\ \A r \in Reqs : fate[r] = "unused" <=> status[r] = "unused"
         /\ Contract!Open = Listed
<1>1. \A r \in Reqs : /\ fate[r] = IF status[r] = "accepted"
                                     THEN IF ends[r] = 0 THEN "open" ELSE result[r]
                                     ELSE status[r]
                      /\ status[r] \in {"unused", "rejected", "accepted"}
                      /\ result[r] \in Reasons \union {"none"}
                      /\ status[r] = "accepted" => (ends[r] = 0 <=> r \in Listed)
                      /\ result[r] = "none" <=> ends[r] = 0
                      /\ r \in Listed => status[r] = "accepted"
  <2> SUFFICES ASSUME NEW r \in Reqs
               PROVE  /\ fate[r] = IF status[r] = "accepted"
                                      THEN IF ends[r] = 0 THEN "open" ELSE result[r]
                                      ELSE status[r]
                      /\ status[r] \in {"unused", "rejected", "accepted"}
                      /\ result[r] \in Reasons \union {"none"}
                      /\ status[r] = "accepted" => (ends[r] = 0 <=> r \in Listed)
                      /\ result[r] = "none" <=> ends[r] = 0
                      /\ r \in Listed => status[r] = "accepted"
    OBVIOUS
  <2>1. fate[r] = IF status[r] = "accepted"
                    THEN IF ends[r] = 0 THEN "open" ELSE result[r]
                    ELSE status[r]
    BY DEF fate
  <2>2. status[r] \in {"unused", "rejected", "accepted"}
    BY DEF ListInv, TypeOK
  <2>3. result[r] \in Reasons \union {"none"}
    BY DEF ListInv, TypeOK, Reasons
  <2>4. /\ status[r] = "accepted" => (ends[r] = 0 <=> r \in Listed)
        /\ r \in Listed => status[r] = "accepted"
    BY DEF ListInv, ExactlyOnce
  <2>5. result[r] = "none" <=> ends[r] = 0
    BY DEF BlockInv
  <2> QED  BY <2>1, <2>2, <2>3, <2>4, <2>5
<1>2. \A r \in Reqs : fate[r] = "open" <=> r \in Listed
  BY <1>1 DEF Reasons
<1>3. \A r \in Reqs : fate[r] = "unused" <=> status[r] = "unused"
  BY <1>1 DEF Reasons
<1>4. Listed \subseteq Reqs
  BY ListedType DEF ListInv
<1> QED  BY <1>2, <1>3, <1>4 DEF Contract!Open, Contract!Requests, Reqs

\* What a submission is to the contract.
LEMMA MappedSubmission ==
  ASSUME ListInv, BlockInv, NEW N \in Submissions
  PROVE  /\ N \in Contract!NewRequests
         /\ \A r \in N : r \in Reqs /\ status[r] = "unused" /\ ends[r] = 0 /\ r \notin Listed
         /\ Contract!Answer(0) = IF connected THEN "open" ELSE "rejected"
<1>1. \A r \in Reqs : fate[r] = "unused" <=> status[r] = "unused"
  BY MappedFate
<1>2. \A r \in N : r \in Reqs /\ status[r] = "unused"
  BY DEF Submissions, Unused
<1>3. N \in Contract!NewRequests
  BY <1>1, <1>2 DEF Submissions, Unused, Contract!NewRequests, Contract!Requests, Reqs
<1>4. Contract!Answer(0) = IF connected THEN "open" ELSE "rejected"
  BY MappedLink DEF Contract!Answer
<1> QED  BY <1>2, <1>3, <1>4 DEF ListInv, ExactlyOnce

\* Fates of requests made without a final callback.
LEMMA AsksFate ==
  ASSUME ListInv, BlockInv, NEW N, Asks(N)
  PROVE  fate' = [r \in Contract!Requests |-> IF r \in N THEN Contract!Answer(r) ELSE fate[r]]
<1>1. N \in Submissions /\ UNCHANGED <<ends, result>> /\ status' = Fates(N)
  BY DEF Asks
<1>2. \A r \in Reqs : status'[r] = IF r \in N THEN IF connected THEN "accepted" ELSE "rejected"
                                              ELSE status[r]
  BY <1>1 DEF Fates
<1>3. \A r \in N : ends[r] = 0 /\ Contract!Answer(r) = IF connected THEN "open" ELSE "rejected"
  BY <1>1, MappedSubmission DEF Contract!Answer
<1>4. \A r \in Reqs : (IF status'[r] = "accepted" THEN IF ends'[r] = 0 THEN "open" ELSE result'[r]
                       ELSE status'[r])
                      = IF r \in N THEN Contract!Answer(r) ELSE fate[r]
  BY <1>1, <1>2, <1>3 DEF fate
<1> QED  BY <1>4 DEF fate, Contract!Requests, Reqs

\* Fates when a request ends.
LEMMA ClosesFate ==
  ASSUME ListInv, BlockInv, NEW r \in Listed, NEW why, NEW N, Closes(r, why, N)
  PROVE  fate' = [n \in Contract!Requests |->
                    IF n = r THEN why ELSE IF n \in N THEN Contract!Answer(n) ELSE fate[n]]
<1>1. /\ N \in Submissions /\ status' = Fates(N)
      /\ ends' = [ends EXCEPT ![r] = @ + 1] /\ result' = [result EXCEPT ![r] = why]
  BY DEF Closes
<1>2. /\ r \in Reqs /\ status[r] = "accepted" /\ ends[r] = 0 /\ r \notin N
      /\ ends \in [Reqs -> Nat] /\ result \in [Reqs -> Reasons \union {"none"}]
  BY ClosesKeeps DEF ListInv, TypeOK, Reasons
<1>3. \A n \in Reqs : status'[n] = IF n \in N THEN IF connected THEN "accepted" ELSE "rejected"
                                              ELSE status[n]
  BY <1>1 DEF Fates
<1>4. \A n \in N : ends[n] = 0 /\ Contract!Answer(n) = IF connected THEN "open" ELSE "rejected"
  BY <1>1, MappedSubmission DEF Contract!Answer
<1>5. /\ ends'[r] = 1 /\ result'[r] = why
      /\ \A n \in Reqs \ {r} : ends'[n] = ends[n] /\ result'[n] = result[n]
  BY <1>1, <1>2
<1>6. \A n \in Reqs : (IF status'[n] = "accepted" THEN IF ends'[n] = 0 THEN "open" ELSE result'[n]
                       ELSE status'[n])
                      = IF n = r THEN why ELSE IF n \in N THEN Contract!Answer(n) ELSE fate[n]
  BY <1>2, <1>3, <1>4, <1>5 DEF fate
<1> QED  BY <1>6 DEF fate, Contract!Requests, Reqs

LEMMA LinkKept ==
  ASSUME LinkSame
  PROVE  link' = link
BY DEF LinkSame, link

\* Every step of the engine is one of the contract's or none.
LEMMA ContractStep ==
  ListInv /\ BlockInv /\ [Next]_vars => [Contract!Next]_(Contract!cvars)
<1> SUFFICES ASSUME ListInv, BlockInv, [Next]_vars PROVE [Contract!Next]_(Contract!cvars)
  OBVIOUS
<1>1. CASE Relinks
  <2>1. fate' = fate /\ seen' = seen
    BY <1>1 DEF Relinks, Quiet, fate
  <2>2. CASE LinkSame
    BY <2>1, <2>2, LinkKept DEF Contract!cvars
  <2>3. CASE OnConnect
    <3>1. ~connected /\ link = "down" /\ link' = "up"
      BY <2>3, MappedLink DEF OnConnect, ListInv, ConnectedPc, link
    <3> QED  BY <2>1, <3>1 DEF Contract!Next, Contract!GoUp
  <2>4. CASE DisconnectBegin
    <3>1. link = "up" /\ link' = "closing"
      BY <2>4, MappedLink DEF DisconnectBegin, ListInv, ConnectedPc, link
    <3> QED  BY <2>1, <3>1 DEF Contract!Next, Contract!GoDown
  <2>5. CASE CancelEnd
    <3>1. link = "closing" /\ link' = "down"
      BY <2>5, MappedLink DEF CancelEnd, ListInv, ConnectedPc, link
    <3>2. list \in Seq(Reqs) /\ Distinct(list) /\ First(list) = None
      BY <2>5 DEF CancelEnd, ListInv, TypeOK, ExactlyOnce, Distinct, CancelHead
    <3>3. list = <<>>
      BY <3>2, CursorMember
    <3>4. Contract!Open = {}
      BY <3>3, MappedFate DEF Listed, ToSet
    <3> QED  BY <2>1, <3>1, <3>4 DEF Contract!Next, Contract!Down
  <2> QED  BY <1>1, <2>2, <2>3, <2>4, <2>5 DEF Relinks
<1>2. ASSUME NEW N \in Submissions, Requests(N) PROVE Contract!Next
  <2>1. Contract!Request(N)
    BY <1>2, AsksFate, LinkKept DEF Requests, Contract!Request
  <2> QED  BY <1>2, <2>1, MappedSubmission DEF Contract!Next
<1>3. ASSUME NEW N \in Submissions, NEW r \in Reqs, Continues(r, N) PROVE Contract!Next
  <2>1. /\ r \in OneShots /\ r \in Contract!Open /\ Len(seen[r]) = block[r]
        /\ Len(seen[r]) + 1 < NBlocks[r]
    BY <1>3, MappedFate DEF Continues, Shows, BlockInv, Seen
  <2>2. seen' = [seen EXCEPT ![r] = Append(@, Len(@))]
    BY <1>3, <2>1 DEF Continues, Shows
  <2>3. link = "up" /\ link' = link
    BY <1>3, MappedLink, LinkKept DEF Continues, ListInv, ConnectedPc
  <2>4. Contract!More(r, N)
    BY <1>3, <2>1, <2>2, <2>3, AsksFate DEF Continues, Contract!More
  <2> QED  BY <2>4, MappedSubmission DEF Contract!Next, Contract!Requests, Reqs
<1>4. ASSUME NEW N \in Submissions, NEW r \in Reqs, NEW why \in Reasons, Ends(r, why, N)
      PROVE  Contract!Next
  <2>1. r \in Listed /\ r \in Contract!Open /\ Closes(r, why, N)
    BY <1>4, MappedFate DEF Ends
  <2>2. why = "shutdown" <=> link = "closing"
    BY <1>4, MappedLink DEF Ends
  <2>3. link' = link
    BY <1>4, LinkKept DEF Ends
  <2>4. IF why \in {"ok", "refused"}
          THEN /\ r \in OneShots
               /\ why = "ok" <=> Len(seen[r]) + 1 = NBlocks[r]
               /\ seen' = [seen EXCEPT ![r] = Append(@, Len(@))]
          ELSE UNCHANGED seen
    BY <1>4, <2>1 DEF Ends, Shows, BlockInv, Seen
  <2>5. Contract!End(r, why, N)
    BY <2>1, <2>2, <2>3, <2>4, ClosesFate DEF Contract!End
  <2>6. why \in Contract!Reasons
    BY DEF Reasons, Contract!Reasons
  <2> QED  BY <2>5, <2>6, MappedSubmission DEF Contract!Next, Contract!Requests, Reqs
<1> QED  BY <1>1, <1>2, <1>3, <1>4, StepShapes

\* The engine implements the contract of golioth_coap_req_cb and its callback, for
\* any number of requests and blocks: what Calls and LightdbGet show on top of
\* ReqContract holds on top of coap_req.c.
THEOREM EngineImplementsContract == Spec => ImplementsContract
<1>1. Init => Contract!Init
  BY DEF Init, Contract!Init, Contract!Requests, link, fate, Reqs
<1>2. Spec => [](ListInv /\ BlockInv)
  BY ListInvariant, BlockInvariant, PTL
<1> QED  BY <1>1, <1>2, ContractStep, PTL DEF Spec, ImplementsContract, Contract!Spec

-----------------------------------------------------------------------------
(* The timers.                                                             *)

\* The longest timeout there is, by the retries left.
Longest == CHOOSE longest \in [0 .. MaxRetries -> 0 .. HalfRange - 1] : Fits(longest)

\* golioth_coap_pending_init.
Fresh(r) == left[r] = 0 /\ timeout[r] = 0 /\ retries[r] = MaxRetries /\ tries[r] = 0

\* A turn of the loop of golioth_coap_req_poll_prepare asked for a transmission.
Turn(r) == pc = "prepare" /\ req = r /\ send

\* Together with ListInv, inductive: no timer runs further ahead than its timeout,
\* none is later than MaxLag, and a request that is not on the list is as
\* golioth_coap_req_init leaves it.
TimerInv ==
  /\ pc \notin {"sampled", "prepare"} => skew = 0
  /\ \A r \in Reqs : /\ timeout[r] <= Longest[retries[r]]
                     /\ timeout[r] = 0 => retries[r] = MaxRetries
  /\ \A r \in Reqs \ Listed : Fresh(r)
  /\ \A r \in Timed :
       /\ -MaxLag <= left[r]
       /\ IF timeout[r] = 0 THEN left[r] <= 0 ELSE left[r] + skew <= timeout[r]

\* The sends of a request are the retries it has used, when no turn is swallowed.
Counted(r) ==
  IF timeout[r] = 0
    THEN retries[r] = MaxRetries /\ tries[r] = 0 /\ ~Turn(r)
    ELSE /\ MaxLag < timeout[r]
         /\ tries[r] + (IF Turn(r) THEN 1 ELSE 0) = MaxRetries - retries[r] + 1
         /\ Turn(r) => 0 < left[r] + skew

TriesInv == (\A t \in AckTimeouts : MaxLag < t) => \A r \in Timed : Counted(r)

\* The pass has been at r.
Visited(r) == req # None => Pos(list, r) < Pos(list, req)

\* The pass has lowered `wait` to the deadline of each request it has been at, or
\* a wakeup follows.
Covered ==
  pc = "prepare" /\ ~wake /\ waking = {} =>
    \A r \in Timed : Visited(r) => wait <= left[r] + skew

\* Together with TimerInv, inductive.
WakeupInv ==
  /\ pc = "prepare" => next = After(list, req)
  /\ Covered
  /\ NoLostWakeup

LEMMA LongestFits ==
  /\ Longest \in [0 .. MaxRetries -> 0 .. HalfRange - 1]
  /\ \A t \in AckTimeouts : t <= Longest[MaxRetries]
  /\ \A n \in 1 .. MaxRetries : 2 * Longest[n] <= Longest[n - 1]
BY TimersFit DEF Longest, Fits

\* The time golioth_coap_req_poll_prepare computes is the time there is.
LEMMA RemainingExact ==
  ASSUME ListInv, TimerInv, NEW r \in Timed
  PROVE  /\ Remaining(r) = left[r] + skew
         /\ left[r] \in Int /\ skew \in 0 .. MaxSkew /\ timeout[r] \in Nat /\ r \in Reqs
<1>1. /\ r \in Reqs /\ left[r] \in Int /\ skew \in 0 .. MaxSkew /\ timeout[r] \in Nat
      /\ retries[r] \in 0 .. MaxRetries
  BY ListedType DEF ListInv, TypeOK, Timed
<1>2. timeout[r] <= Longest[retries[r]] /\ Longest[retries[r]] \in 0 .. HalfRange - 1
  BY <1>1, LongestFits DEF TimerInv
<1>3. /\ -MaxLag <= left[r]
      /\ IF timeout[r] = 0 THEN left[r] <= 0 ELSE left[r] + skew <= timeout[r]
  BY DEF TimerInv
<1>4. MaxLag \in Nat /\ MaxSkew \in Nat /\ HalfRange \in Nat /\ MaxLag + MaxSkew < HalfRange
  BY TimingAssumption
<1>5. left[r] + skew \in Int /\ -HalfRange <= left[r] + skew /\ left[r] + skew < HalfRange
  BY <1>1, <1>2, <1>3, <1>4
<1>6. Int32((2 * HalfRange) * 0 + (left[r] + skew)) = left[r] + skew
  BY <1>5, Int32Small
<1>7. (2 * HalfRange) * 0 + (left[r] + skew) = left[r] + skew
  BY <1>4, <1>5
<1> QED  BY <1>1, <1>6, <1>7 DEF Remaining

LEMMA TimerInvInit == Init => TimerInv /\ TriesInv /\ WakeupInv
<1> SUFFICES ASSUME Init PROVE TimerInv /\ TriesInv /\ WakeupInv
  OBVIOUS
<1>1. Listed = {} /\ Timed = {}
  BY DEF Init, Listed, Timed, ToSet
<1>2. \A r \in Reqs : 0 <= Longest[MaxRetries]
  BY LongestFits, TimingAssumption
<1>3. TimerInv
  BY <1>1, <1>2 DEF Init, TimerInv, Fresh
<1> QED  BY <1>1, <1>3 DEF Init, TriesInv, WakeupInv, Covered, NoLostWakeup

\* What most steps do to a request: make it as golioth_coap_req_init does ...
Renewed(r) == Fresh(r)' /\ ~Turn(r)'

\* ... or leave its timer alone.
SameTimer(r) ==
  /\ left'[r] = left[r] /\ timeout'[r] = timeout[r] /\ retries'[r] = retries[r]
  /\ tries'[r] = tries[r]
  /\ r \in Observes => (pending'[r] => pending[r])

Kept(r) ==
  /\ SameTimer(r)
  /\ r \in Listed => r \in Listed'
  /\ r \in Timed' => r \in Timed /\ (Turn(r)' <=> Turn(r))

\* A step that renews the requests of X and is not a turn of the loop.
LEMMA RestKept ==
  ASSUME ListInv, TimerInv, NEW X, Listed \ X \subseteq Listed',
         \A r \in Reqs \intersect X : Fresh(r)', \A r \in Reqs \ X : SameTimer(r),
         pc' = "prepare" => ~send', \A r \in Timed \ X : ~Turn(r)
  PROVE  \A r \in Reqs : Renewed(r) \/ Kept(r)
<1> SUFFICES ASSUME NEW r \in Reqs PROVE Renewed(r) \/ Kept(r)
  OBVIOUS
<1>1. ~Turn(r)'
  BY DEF Turn
<1>2. CASE r \in X
  BY <1>1, <1>2 DEF Renewed
<1>3. CASE r \notin X /\ r \notin Listed
  BY <1>1, <1>3 DEF Renewed, TimerInv, Fresh, SameTimer
<1>4. CASE r \notin X /\ r \in Listed
  <2>1. r \in Timed' => r \in Timed
    BY <1>4 DEF Timed, SameTimer
  <2> QED  BY <1>1, <1>4, <2>1 DEF Kept
<1> QED  BY <1>2, <1>3, <1>4

\* A step that renews none.
LEMMA RestSame ==
  ASSUME ListInv, TimerInv, Listed \subseteq Listed', \A r \in Reqs : SameTimer(r),
         pc' = "prepare" => ~send', \A r \in Timed : ~Turn(r)
  PROVE  \A r \in Reqs : Renewed(r) \/ Kept(r)
<1>1. /\ Listed \ {} \subseteq Listed' /\ \A r \in Reqs \intersect {} : Fresh(r)'
      /\ \A r \in Reqs \ {} : SameTimer(r) /\ \A q \in Timed \ {} : ~Turn(q)
  OBVIOUS
<1> QED  BY <1>1, RestKept, Zenon

\* A final callback renews its request and no other.
LEMMA FinishRenews ==
  ASSUME ListInv, NEW N \in Submissions, NEW r \in Listed, NEW why, NEW w,
         Finish(r, why, N, w)
  PROVE  /\ Fresh(r)' /\ \A q \in Reqs \ {r} : SameTimer(q)
         /\ Listed \ {r} \subseteq Listed' /\ r \in Reqs
<1>1. TypeOK /\ ExactlyOnce /\ r \in Reqs
  BY ListedType DEF ListInv
<1>2. Listed \ {r} \subseteq Listed'
  BY <1>1, FinishKeeps DEF Finish
<1>3. Fresh(r)'
  BY <1>1 DEF TypeOK, Finish, Fresh
<1>4. ASSUME NEW q \in Reqs \ {r} PROVE SameTimer(q)
  BY <1>1, <1>4 DEF TypeOK, Finish, SameTimer
<1> QED  BY <1>1, <1>2, <1>3, <1>4

\* The steps that are not a turn of the loop, a send or a tick.
LEMMA TimerRest ==
  ASSUME ListInv, TimerInv, [Next]_vars
  PROVE  \/ Tick \/ PrepareCycle \/ PrepareSend
         \/ /\ \A r \in Reqs : Renewed(r) \/ Kept(r)
            /\ skew' = (IF pc' \in {"sampled", "prepare"} THEN skew ELSE 0)
<1>1. /\ TypeOK /\ Listed \subseteq Reqs /\ Timed \subseteq Listed
      /\ None \notin Reqs /\ (Locked => (req # None => req \in Listed))
  BY ListedType, ReqsAssumption DEF ListInv, CursorSafe, Timed
<1> DEFINE Skewed == skew' = (IF pc' \in {"sampled", "prepare"} THEN skew ELSE 0)
<1> DEFINE Rest == (\A r \in Reqs : Renewed(r) \/ Kept(r)) /\ Skewed
<1>2. CASE UNCHANGED vars \/ \E r \in Reqs : AppWakeup(r)
  <2>1. UNCHANGED <<list, timers, tries, pending, pc, req, send, skew>>
    BY <1>2 DEF AppWakeup, vars, loop, transfer, ghosts
  <2>2. \A r \in Reqs : Kept(r)
    BY <2>1 DEF timers, Kept, SameTimer, Turn, Listed, Timed
  <2> QED  BY <2>1, <2>2 DEF TimerInv
<1>3. CASE Connect \/ OnConnect \/ PollWake \/ RxIgnored \/ DisconnectBegin \/ CancelEnd
           \/ Close \/ PrepareBegin \/ PrepareSkip \/ PrepareEnd
  <2>1. /\ UNCHANGED <<list, timers, tries, pending>>
        /\ pc' = "prepare" => ~send'
    BY <1>3 DEF Connect, OnConnect, PollWake, RxIgnored, AfterRx, DisconnectBegin, CancelEnd,
       Close, PrepareBegin, PrepareSkip, PrepareEnd, Advance, transfer, ghosts
  <2>2. /\ Skewed
        /\ \A r \in Timed : ~Turn(r)
    BY <1>1, <1>3 DEF Connect, OnConnect, PollWake, RxIgnored, AfterRx, DisconnectBegin,
       CancelEnd, Close, PrepareBegin, PrepareSkip, PrepareEnd, TimerInv, Turn
  <2>3. \A r \in Reqs : SameTimer(r)
    BY <2>1 DEF timers, SameTimer
  <2>4. Listed \subseteq Listed'
    BY <2>1 DEF Listed
  <2>5. \A r \in Reqs : Renewed(r) \/ Kept(r)
    BY <2>1, <2>2, <2>3, <2>4, RestSame
  <2> QED  BY <2>2, <2>5
<1>4. ASSUME NEW n \in Reqs, AppSubmit(n) PROVE Rest
  <2>1. /\ Asks({n}) /\ pc # "prepare"
        /\ UNCHANGED <<timers, tries, pending, pc, skew>>
    BY <1>4 DEF AppSubmit, Asks, Submissions, transfer, Locked
  <2>2. \A r \in Reqs : SameTimer(r)
    BY <2>1 DEF timers, SameTimer
  <2>3. Listed \subseteq Listed'
    BY <2>1, AsksKeeps
  <2>4. \A r \in Timed : ~Turn(r)
    BY <2>1 DEF Turn
  <2>5. \A r \in Reqs : Renewed(r) \/ Kept(r)
    BY <2>1, <2>2, <2>3, <2>4, RestSame
  <2> QED  BY <2>1, <2>5 DEF TimerInv
<1>5. ASSUME NEW r \in Reqs, NEW b \in 0 .. block[r],
             RxNotify(r) \/ RxMoreHold(r, b) \/ RxMoreNext(r, b)
      PROVE  Rest
  <2>1. PICK N \in Submissions, w \in Drained : Schedule(N, w)
    BY <1>5 DEF RxNotify, RxMoreHold, RxMoreNext
  <2>2. /\ Asks(N) /\ pc = "poll" /\ pc' = "sampled" /\ UNCHANGED skew
    BY <1>5, <2>1 DEF RxNotify, RxMoreHold, RxMoreNext, MoreBlock, AfterRx, Receives,
       Asks, Schedule
  <2>3. Listed \subseteq Listed'
    BY <2>2, AsksKeeps
  <2>4. \A q \in Timed : ~Turn(q)
    BY <2>2 DEF Turn
  <2>5. \A q \in Reqs \ {r} : SameTimer(q)
    BY <1>1, <1>5 DEF RxNotify, RxMoreHold, RxMoreNext, Restart, timers, SameTimer, TypeOK
  <2>6. SameTimer(r) \/ Fresh(r)'
    BY <1>1, <1>5 DEF RxNotify, RxMoreHold, RxMoreNext, Restart, timers, SameTimer, Fresh,
       TypeOK
  <2>7. \A q \in Reqs : Renewed(q) \/ Kept(q)
    <3>1. CASE SameTimer(r)
      BY <3>1, <2>2, <2>3, <2>4, <2>5, RestSame
    <3>2. CASE Fresh(r)'
      <4>1. /\ Listed \ {r} \subseteq Listed' /\ \A q \in Reqs \intersect {r} : Fresh(q)'
            /\ \A q \in Timed \ {r} : ~Turn(q)
        BY <3>2, <2>3, <2>4
      <4> QED  BY <4>1, <2>2, <2>5, RestKept
    <3> QED  BY <2>6, <3>1, <3>2
  <2> QED  BY <2>2, <2>7 DEF TimerInv
<1>6. ASSUME NEW r \in Listed, NEW N \in Submissions, NEW why, NEW w, Finish(r, why, N, w),
             pc' = "prepare" => ~send', Turn(r) \/ \A q \in Reqs : ~Turn(q)
      PROVE  \A q \in Reqs : Renewed(q) \/ Kept(q)
  <2>1. \A q \in Timed \ {r} : ~Turn(q)
    BY <1>1, <1>6 DEF Turn
  <2> QED  BY <1>1, <1>6, <2>1, FinishRenews, RestKept
<1>7. ASSUME NEW r \in Reqs, NEW b \in 0 .. block[r],
             RxError(r) \/ RxEmptyAck(r) \/ RxMoreRefuse(r, b) \/ RxLast(r, b)
      PROVE  Rest
  <2>1. PICK N \in Submissions, w \in Drained, why \in Reasons : Finish(r, why, N, w)
    BY <1>7 DEF RxError, RxEmptyAck, RxMoreRefuse, RxLast, Reasons
  <2>2. r \in Listed /\ pc = "poll" /\ pc' = "sampled" /\ UNCHANGED skew
    BY <1>7 DEF RxError, RxEmptyAck, RxMoreRefuse, RxLast, MoreBlock, AfterRx, Receives
  <2>3. \A q \in Reqs : Renewed(q) \/ Kept(q)
    BY <1>6, <2>1, <2>2 DEF Turn
  <2> QED  BY <2>2, <2>3 DEF TimerInv
<1>8. CASE PrepareExpire \/ CancelOne
  <2>1. PICK N \in Submissions, why \in Reasons : Finish(req, why, N, wake)
    BY <1>8 DEF PrepareExpire, CancelOne, Reasons
  <2>2. req \in Listed /\ pc' = pc /\ UNCHANGED skew /\ ~send'
    BY <1>1, <1>8 DEF PrepareExpire, CancelOne, Expired, Advance, Locked
  <2>3. Turn(req) \/ \A q \in Reqs : ~Turn(q)
    BY DEF Turn
  <2>4. \A q \in Reqs : Renewed(q) \/ Kept(q)
    BY <1>6, <2>1, <2>2, <2>3
  <2> QED  BY <2>2, <2>4 DEF TimerInv
<1>9. ASSUME NEW r \in Reqs, RxError(r) \/ RxEmptyAck(r) \/ RxNotify(r)
      PROVE  0 \in 0 .. block[r]
  BY <1>1 DEF TypeOK
<1> QED
  BY <1>2, <1>3, <1>4, <1>5, <1>7, <1>8, <1>9 DEF Next, Proceed, RxRequest

\* Time spares what is not listed, and passes for the deadline as for the clock.
LEMMA TickEffect ==
  ASSUME ListInv, Tick
  PROVE  /\ UNCHANGED <<list, timeout, retries, tries, pending, pc, req, next, send, wake, waking>>
         /\ Listed' = Listed /\ Timed' = Timed
         /\ \A r \in Reqs \ Timed : left'[r] = left[r]
         /\ \A r \in Timed : left'[r] = left[r] - 1 /\ -MaxLag < left[r]
         /\ skew' = (IF pc \in {"sampled", "prepare"} THEN skew + 1 ELSE skew)
         /\ wait' = (IF pc = "poll" /\ wait > 0 THEN wait - 1 ELSE wait)
<1>1. Timed \subseteq Reqs
  BY ListedType DEF ListInv, Timed
<1>2. UNCHANGED <<list, timeout, retries, tries, pending, pc, req, next, send, wake, waking>>
  BY DEF Tick, transfer, ghosts
<1>3. Listed' = Listed /\ Timed' = Timed
  BY <1>2 DEF Listed, Timed
<1> QED  BY <1>1, <1>2, <1>3 DEF Tick

\* One turn of the loop of golioth_coap_req_poll_prepare: the timer of the cursor
\* restarts, from the initial timeout or from twice the last one.
LEMMA CycleEffect ==
  ASSUME ListInv, TimerInv, PrepareCycle
  PROVE  /\ UNCHANGED <<list, tries, pending, pc, req, next, skew, wake, waking, wait>>
         /\ Listed' = Listed /\ Timed' = Timed /\ pc = "prepare" /\ send' = TRUE
         /\ req \in Timed /\ left[req] + skew <= 0
         /\ \A r \in Reqs \ {req} :
              left'[r] = left[r] /\ timeout'[r] = timeout[r] /\ retries'[r] = retries[r]
         /\ left'[req] = left[req] + timeout'[req]
         /\ \/ /\ timeout[req] = 0 /\ timeout'[req] \in AckTimeouts
               /\ retries'[req] = retries[req]
            \/ /\ timeout[req] > 0 /\ timeout'[req] = 2 * timeout[req]
               /\ retries[req] > 0 /\ retries'[req] = retries[req] - 1
<1>1. req \in Timed /\ Timed \subseteq Reqs /\ TypeOK
  BY ListedType DEF PrepareCycle, Timed, ListInv
<1>2. /\ UNCHANGED <<list, tries, pending, pc, req, next, skew, wake, waking, wait>>
      /\ pc = "prepare" /\ send' = TRUE /\ Remaining(req) <= 0
  BY DEF PrepareCycle, transfer, ghosts
<1>3. Listed' = Listed /\ Timed' = Timed
  BY <1>2 DEF Listed, Timed
<1>4. left[req] + skew <= 0
  BY <1>1, <1>2, RemainingExact
<1>5. /\ left \in [Reqs -> Int] /\ timeout \in [Reqs -> Nat]
      /\ retries \in [Reqs -> 0 .. MaxRetries]
      /\ req \in Reqs
  BY <1>1 DEF TypeOK
<1>6. CASE /\ timeout[req] = 0
           /\ \E t \in AckTimeouts :
                timeout' = [timeout EXCEPT ![req] = t] /\ left' = [left EXCEPT ![req] = @ + t]
           /\ UNCHANGED retries
  BY <1>1, <1>2, <1>3, <1>4, <1>5, <1>6
<1>7. CASE /\ timeout[req] > 0 /\ MayRetry(req)
           /\ left' = [left EXCEPT ![req] = @ + 2 * timeout[req]]
           /\ timeout' = [timeout EXCEPT ![req] = 2 * @]
           /\ retries' = [retries EXCEPT ![req] = @ - 1]
  BY <1>1, <1>2, <1>3, <1>4, <1>5, <1>7 DEF MayRetry
<1> QED  BY <1>6, <1>7 DEF PrepareCycle

\* A transmission leaves the timers alone.
LEMMA SendEffect ==
  ASSUME ListInv, TimerInv, PrepareSend
  PROVE  /\ UNCHANGED <<list, timers, pending, pc, skew, wake, waking>>
         /\ Listed' = Listed /\ Timed' = Timed /\ pc = "prepare" /\ send' = FALSE
         /\ req \in Timed /\ req' = next /\ next' = After(list, next)
         /\ wait' = Smaller(wait, left[req] + skew)
         /\ tries'[req] = (IF send THEN tries[req] + 1 ELSE tries[req])
         /\ \A r \in Reqs \ {req} : tries'[r] = tries[r]
<1>1. req \in Timed /\ req \in Reqs /\ tries \in [Reqs -> Nat]
  BY ListedType DEF PrepareSend, Timed, ListInv, TypeOK
<1>2. UNCHANGED <<list, timers, pending, pc, skew, wake, waking>>
  BY DEF PrepareSend, transfer
<1>3. Listed' = Listed /\ Timed' = Timed
  BY <1>2 DEF Listed, Timed
<1>4. Remaining(req) = left[req] + skew
  BY <1>1, RemainingExact
<1> QED  BY <1>1, <1>2, <1>3, <1>4 DEF PrepareSend, Advance

LEMMA TimerInvStep == ListInv /\ TimerInv /\ [Next]_vars => TimerInv'
<1> SUFFICES ASSUME ListInv, TimerInv, [Next]_vars PROVE TimerInv'
  OBVIOUS
<1>1. /\ Timed \subseteq Reqs /\ left \in [Reqs -> Int] /\ timeout \in [Reqs -> Nat]
      /\ retries \in [Reqs -> 0 .. MaxRetries] /\ skew \in 0 .. MaxSkew
  BY ListedType DEF Timed, ListInv, TypeOK
<1>2. /\ MaxRetries \in Nat /\ MaxLag \in Nat /\ MaxSkew \in Nat /\ AckTimeouts \subseteq Nat \ {0}
      /\ HalfRange \in Nat
  BY TimingAssumption
<1>3. CASE Tick
  <2>1. skew' = (IF pc' \in {"sampled", "prepare"} THEN skew + 1 ELSE skew)
    BY <1>3, TickEffect
  <2>2. pc' \notin {"sampled", "prepare"} => skew' = 0
    BY <1>3, <2>1, TickEffect DEF TimerInv
  <2>3. \A r \in Reqs : /\ timeout'[r] <= Longest[retries'[r]]
                        /\ timeout'[r] = 0 => retries'[r] = MaxRetries
    BY <1>3, TickEffect DEF TimerInv
  <2>4. \A r \in Reqs \ Listed' : Fresh(r)'
    BY <1>3, TickEffect DEF TimerInv, Fresh, Timed
  <2>5. ASSUME NEW r \in Timed'
        PROVE  /\ -MaxLag <= left'[r]
               /\ IF timeout'[r] = 0 THEN left'[r] <= 0 ELSE left'[r] + skew' <= timeout'[r]
    <3>1. /\ r \in Timed /\ r \in Reqs /\ left'[r] = left[r] - 1 /\ -MaxLag < left[r]
          /\ timeout'[r] = timeout[r] /\ skew' <= skew + 1 /\ skew' \in Int
      BY <1>1, <1>2, <1>3, <2>1, <2>5, TickEffect
    <3> QED  BY <1>1, <1>2, <3>1 DEF TimerInv
  <2> QED  BY <2>2, <2>3, <2>4, <2>5 DEF TimerInv
<1>4. CASE PrepareSend
  BY <1>4, <1>1, SendEffect DEF TimerInv, timers, Fresh, Timed
<1>5. CASE PrepareCycle
  <2>1. /\ req \in Reqs /\ req \in Timed /\ req \in Listed
        /\ Listed' = Listed /\ Timed' = Timed /\ UNCHANGED <<tries, pc, req, skew>>
        /\ \A r \in Reqs \ {req} :
             left'[r] = left[r] /\ timeout'[r] = timeout[r] /\ retries'[r] = retries[r]
        /\ left'[req] = left[req] + timeout'[req] /\ left[req] + skew <= 0
    BY <1>1, <1>5, CycleEffect DEF Timed
  <2>2. \/ /\ timeout[req] = 0 /\ timeout'[req] \in AckTimeouts
           /\ retries'[req] = retries[req]
        \/ /\ timeout[req] > 0 /\ timeout'[req] = 2 * timeout[req]
           /\ retries[req] > 0 /\ retries'[req] = retries[req] - 1
    BY <1>5, CycleEffect
  <2>3. timeout'[req] <= Longest[retries'[req]] /\ timeout'[req] \in Nat \ {0}
    <3>1. CASE timeout[req] = 0 /\ timeout'[req] \in AckTimeouts /\ retries'[req] = retries[req]
      <4>1. retries'[req] = MaxRetries
        BY <2>1, <3>1 DEF TimerInv
      <4> QED  BY <1>2, <3>1, <4>1, LongestFits
    <3>2. CASE /\ timeout[req] > 0 /\ timeout'[req] = 2 * timeout[req]
               /\ retries[req] > 0 /\ retries'[req] = retries[req] - 1
      <4>1. retries[req] \in 1 .. MaxRetries /\ timeout[req] <= Longest[retries[req]]
        BY <1>1, <1>2, <2>1, <3>2 DEF TimerInv
      <4>2. /\ 2 * Longest[retries[req]] <= Longest[retries[req] - 1]
            /\ Longest[retries[req]] \in Nat /\ Longest[retries[req] - 1] \in Nat
        <5>1. retries[req] \in 0 .. MaxRetries /\ retries[req] - 1 \in 0 .. MaxRetries
          BY <1>2, <4>1
        <5>2. /\ Longest[retries[req]] \in 0 .. HalfRange - 1
              /\ Longest[retries[req] - 1] \in 0 .. HalfRange - 1
          BY <5>1, LongestFits
        <5> QED  BY <1>2, <4>1, <5>2, LongestFits
      <4> QED  BY <1>1, <2>1, <3>2, <4>1, <4>2
    <3> QED  BY <2>2, <3>1, <3>2
  <2>4. /\ -MaxLag <= left'[req]
        /\ IF timeout'[req] = 0 THEN left'[req] <= 0 ELSE left'[req] + skew' <= timeout'[req]
    BY <1>1, <1>2, <2>1, <2>3 DEF TimerInv
  <2>5. \A r \in Reqs : /\ timeout'[r] <= Longest[retries'[r]]
                        /\ timeout'[r] = 0 => retries'[r] = MaxRetries
    BY <2>1, <2>3 DEF TimerInv
  <2>6. \A r \in Timed' :
          /\ -MaxLag <= left'[r]
          /\ IF timeout'[r] = 0 THEN left'[r] <= 0 ELSE left'[r] + skew' <= timeout'[r]
    BY <1>1, <2>1, <2>4 DEF TimerInv
  <2>7. \A r \in Reqs \ Listed' : Fresh(r)'
    BY <2>1 DEF TimerInv, Fresh
  <2>8. pc' \notin {"sampled", "prepare"} => skew' = 0
    BY <2>1 DEF TimerInv
  <2> QED  BY <2>5, <2>6, <2>7, <2>8 DEF TimerInv
<1>6. CASE /\ \A r \in Reqs : Renewed(r) \/ Kept(r)
           /\ skew' = (IF pc' \in {"sampled", "prepare"} THEN skew ELSE 0)
  <2>1. 0 <= Longest[MaxRetries]
    BY <1>2, LongestFits
  <2>2. Timed' \subseteq Reqs /\ Listed' \subseteq Reqs /\ skew' \in 0 .. MaxSkew
    <3>1. list' \in Seq(Reqs) /\ skew' \in 0 .. MaxSkew
      BY ListInvStep DEF ListInv, TypeOK
    <3>2. \A i \in 1 .. Len(list') : list'[i] \in Reqs
      BY <3>1
    <3> QED  BY <3>1, <3>2 DEF Timed, Listed, ToSet
  <2>3. ASSUME NEW r \in Reqs
        PROVE  /\ timeout'[r] <= Longest[retries'[r]]
               /\ timeout'[r] = 0 => retries'[r] = MaxRetries
               /\ r \notin Listed' => Fresh(r)'
               /\ r \in Timed' =>
                    /\ -MaxLag <= left'[r]
                    /\ IF timeout'[r] = 0 THEN left'[r] <= 0 ELSE left'[r] + skew' <= timeout'[r]
    <3>1. CASE Renewed(r)
      BY <1>2, <2>1, <3>1 DEF Renewed, Fresh
    <3>2. CASE Kept(r)
      <4>1. skew' <= skew
        BY <1>1, <1>6
      <4>2. r \notin Listed' => Fresh(r)'
        BY <3>2 DEF Kept, SameTimer, Fresh, TimerInv
      <4>3. /\ timeout'[r] = timeout[r] /\ left'[r] = left[r] /\ retries'[r] = retries[r]
            /\ r \in Timed' => r \in Timed
        BY <3>2 DEF Kept, SameTimer
      <4> QED  BY <1>1, <2>2, <4>1, <4>2, <4>3 DEF TimerInv
    <3> QED  BY <1>6, <3>1, <3>2
  <2> QED  BY <1>6, <2>2, <2>3 DEF TimerInv
<1> QED  BY <1>3, <1>4, <1>5, <1>6, TimerRest

LEMMA TriesStep ==
  ListInv /\ TimerInv /\ TriesInv /\ [Next]_vars => TriesInv'
<1> SUFFICES ASSUME ListInv, TimerInv, TriesInv, [Next]_vars,
                    \A t \in AckTimeouts : MaxLag < t,
                    NEW r \in Timed'
             PROVE  Counted(r)'
  BY DEF TriesInv
<1>1. /\ Timed \subseteq Reqs /\ None \notin Reqs
      /\ left \in [Reqs -> Int] /\ timeout \in [Reqs -> Nat]
      /\ retries \in [Reqs -> 0 .. MaxRetries] /\ skew \in 0 .. MaxSkew
      /\ tries \in [Reqs -> Nat]
  BY ListedType, ReqsAssumption DEF Timed, ListInv, TypeOK
<1>2. MaxRetries \in Nat /\ MaxLag \in Nat /\ MaxSkew \in Nat /\ AckTimeouts \subseteq Nat \ {0}
  BY TimingAssumption
<1>3. \A q \in Timed : Counted(q)
  BY DEF TriesInv
<1>4. CASE Tick
  <2>1. /\ r \in Timed /\ left'[r] = left[r] - 1 /\ timeout'[r] = timeout[r]
        /\ retries'[r] = retries[r] /\ tries'[r] = tries[r] /\ (Turn(r)' <=> Turn(r))
        /\ pc = "prepare" => skew' = skew + 1
    BY <1>4, TickEffect DEF Turn
  <2>2. Turn(r) => left'[r] + skew' = left[r] + skew
    BY <1>1, <2>1 DEF Turn
  <2> QED  BY <1>3, <2>1, <2>2 DEF Counted
<1>5. CASE PrepareSend
  <2>1. /\ r \in Timed /\ UNCHANGED <<left, timeout, retries, skew>> /\ ~Turn(r)'
        /\ pc = "prepare" /\ req \in Timed
        /\ tries'[req] = (IF send THEN tries[req] + 1 ELSE tries[req])
        /\ \A q \in Reqs \ {req} : tries'[q] = tries[q]
    BY <1>5, SendEffect DEF timers, Turn
  <2>2. CASE r = req
    <3>1. Turn(r) <=> send
      BY <2>1, <2>2 DEF Turn
    <3> QED  BY <1>1, <1>2, <1>3, <2>1, <2>2, <3>1 DEF Counted
  <2>3. CASE r # req
    <3>1. ~Turn(r) /\ tries'[r] = tries[r]
      BY <1>1, <2>1, <2>3 DEF Turn
    <3> QED  BY <1>3, <2>1, <3>1 DEF Counted
  <2> QED  BY <2>2, <2>3
<1>6. CASE PrepareCycle
  <2>1. /\ r \in Timed /\ UNCHANGED <<tries, pc, req, skew>> /\ pc = "prepare" /\ send' = TRUE
        /\ req \in Timed /\ left[req] + skew <= 0
        /\ left'[req] = left[req] + timeout'[req]
    BY <1>6, CycleEffect
  <2>2. CASE r # req
    <3>1. ~Turn(r)' /\ ~Turn(r)
      BY <2>1, <2>2 DEF Turn
    <3>2. left'[r] = left[r] /\ timeout'[r] = timeout[r] /\ retries'[r] = retries[r]
      BY <1>1, <1>6, <2>1, <2>2, CycleEffect
    <3> QED  BY <1>3, <2>1, <3>1, <3>2 DEF Counted
  <2>3. CASE r = req
    <3>1. Turn(r)' /\ -MaxLag <= left[r] /\ Counted(r)
      BY <1>3, <2>1, <2>3 DEF Turn, TimerInv
    <3>2. \/ /\ timeout[r] = 0 /\ timeout'[r] \in AckTimeouts /\ retries'[r] = retries[r]
          \/ /\ timeout[r] > 0 /\ timeout'[r] = 2 * timeout[r]
             /\ retries[r] > 0 /\ retries'[r] = retries[r] - 1
      BY <1>6, <2>3, CycleEffect
    <3>3. ~Turn(r)
      <4>1. ~(0 < left[r] + skew)
        BY <1>1, <2>1, <2>3
      <4> QED  BY <3>1, <4>1 DEF Counted
    <3>4. MaxLag < timeout'[r] /\ timeout'[r] \in Nat
      <4>1. timeout[r] \in Nat /\ (timeout[r] > 0 => MaxLag < timeout[r])
        BY <1>1, <2>1, <3>1 DEF Counted
      <4>2. ASSUME timeout'[r] \in AckTimeouts
            PROVE  MaxLag < timeout'[r] /\ timeout'[r] \in Nat
        BY <1>2, <4>2
      <4>3. ASSUME timeout[r] > 0, timeout'[r] = 2 * timeout[r]
            PROVE  MaxLag < timeout'[r] /\ timeout'[r] \in Nat
        BY <1>2, <4>1, <4>3
      <4> QED  BY <3>2, <4>2, <4>3
    <3>5. 0 < left'[r] + skew'
      BY <1>1, <1>2, <2>1, <2>3, <3>1, <3>4
    <3>6. tries[r] + 1 = MaxRetries - retries'[r] + 1
      BY <1>1, <1>2, <2>1, <2>3, <3>1, <3>2, <3>3 DEF Counted
    <3> QED  BY <1>1, <1>2, <2>1, <3>1, <3>4, <3>5, <3>6 DEF Counted
  <2> QED  BY <2>2, <2>3
<1>7. CASE /\ \A q \in Reqs : Renewed(q) \/ Kept(q)
           /\ skew' = (IF pc' \in {"sampled", "prepare"} THEN skew ELSE 0)
  <2>1. r \in Reqs
    <3>1. list' \in Seq(Reqs)
      BY ListInvStep DEF ListInv, TypeOK
    <3>2. \A i \in 1 .. Len(list') : list'[i] \in Reqs
      BY <3>1
    <3> QED  BY <3>1, <3>2 DEF Timed, Listed, ToSet
  <2>2. CASE Renewed(r)
    BY <2>2 DEF Renewed, Fresh, Counted
  <2>3. CASE Kept(r)
    <3>1. /\ r \in Timed /\ left'[r] = left[r] /\ timeout'[r] = timeout[r]
          /\ retries'[r] = retries[r] /\ tries'[r] = tries[r] /\ (Turn(r)' <=> Turn(r))
      BY <2>3 DEF Kept, SameTimer
    <3>2. Turn(r)' => skew' = skew
      BY <1>7 DEF Turn
    <3> QED  BY <1>3, <3>1, <3>2 DEF Counted
  <2> QED  BY <1>7, <2>1, <2>2, <2>3
<1> QED  BY <1>4, <1>5, <1>6, <1>7, TimerRest

\* The element after r is one position further; after the last there is none.
LEMMA AfterPos ==
  ASSUME NEW l \in Seq(Reqs), Distinct(l), NEW r \in ToSet(l)
  PROVE  /\ After(l, r) = None => Pos(l, r) = Len(l)
         /\ After(l, r) # None => /\ After(l, r) \in ToSet(l)
                                  /\ Pos(l, After(l, r)) = Pos(l, r) + 1
<1>1. /\ Pos(l, r) \in 1 .. Len(l) /\ l[Pos(l, r)] = r /\ Len(l) \in Nat
      /\ \A i \in 1 .. Len(l) : l[i] \in Reqs /\ l[i] # None
  BY PosProperties, ReqsAssumption
<1>2. r # None
  BY <1>1
<1>3. CASE Pos(l, r) < Len(l)
  <2>1. After(l, r) = l[Pos(l, r) + 1] /\ Pos(l, r) + 1 \in 1 .. Len(l)
    BY <1>1, <1>2, <1>3 DEF After
  <2>2. After(l, r) \in ToSet(l)
    BY <2>1 DEF ToSet
  <2>3. Pos(l, r) + 1 = Pos(l, After(l, r))
    BY <2>1, <2>2, PosProperties
  <2> QED  BY <1>1, <2>1, <2>2, <2>3
<1>4. CASE Pos(l, r) = Len(l)
  BY <1>1, <1>4 DEF After
<1> QED  BY <1>1, <1>3, <1>4

\* Removing r moves those after it one position up.
LEMMA UnlinkPos ==
  ASSUME NEW l \in Seq(Reqs), Distinct(l), NEW r \in ToSet(l), NEW q \in ToSet(l), q # r
  PROVE  /\ q \in ToSet(Unlink(l, r))
         /\ Pos(Unlink(l, r), q) = IF Pos(l, q) < Pos(l, r) THEN Pos(l, q) ELSE Pos(l, q) - 1
         /\ Pos(l, q) # Pos(l, r)
<1> DEFINE u == Unlink(l, r)
           i == IF Pos(l, q) < Pos(l, r) THEN Pos(l, q) ELSE Pos(l, q) - 1
<1>1. /\ Pos(l, r) \in 1 .. Len(l) /\ l[Pos(l, r)] = r
      /\ Pos(l, q) \in 1 .. Len(l) /\ l[Pos(l, q)] = q /\ Len(l) \in Nat
  BY PosProperties
<1>2. /\ u \in Seq(Reqs) /\ Distinct(u) /\ ToSet(u) = ToSet(l) \ {r} /\ Len(u) = Len(l) - 1
      /\ \A j \in 1 .. Len(l) - 1 : u[j] = IF j < Pos(l, r) THEN l[j] ELSE l[j + 1]
  BY UnlinkMember
<1>3. Pos(l, q) # Pos(l, r)
  BY <1>1
<1>4. i \in 1 .. Len(l) - 1 /\ u[i] = q
  BY <1>1, <1>2, <1>3
<1>5. q \in ToSet(u)
  BY <1>2
<1> HIDE DEF u
<1>6. i = Pos(u, q)
  BY <1>2, <1>4, <1>5, PosProperties
<1> QED  BY <1>3, <1>5, <1>6 DEF u

\* One step of the iteration: what lies before the new cursor lay before the old
\* one, or is the old one.
LEMMA AdvanceVisits ==
  ASSUME ListInv, NEW r \in Listed, req \in Listed, next = After(list, req),
         next # None => Pos(list, r) < Pos(list, next)
  PROVE  r = req \/ Visited(r)
<1>1. list \in Seq(Reqs) /\ Distinct(list) /\ Len(list) \in Nat
  BY DEF ListInv, TypeOK, ExactlyOnce, Distinct
<1>2. /\ Pos(list, req) \in 1 .. Len(list) /\ list[Pos(list, req)] = req
      /\ Pos(list, r) \in 1 .. Len(list) /\ list[Pos(list, r)] = r
  BY <1>1, PosProperties DEF Listed
<1>3. Pos(list, r) <= Pos(list, req)
  BY <1>1, <1>2, AfterPos DEF Listed
<1>4. Pos(list, r) = Pos(list, req) => r = req
  BY <1>2
<1> QED  BY <1>2, <1>3, <1>4 DEF Visited

\* The same when the old cursor's request was removed on the way.
LEMMA UnlinkVisits ==
  ASSUME ListInv, req \in Listed, next = After(list, req), list' = Unlink(list, req),
         NEW r \in Listed', next # None => Pos(list', r) < Pos(list', next)
  PROVE  r \in Listed /\ Visited(r)
<1>1. list \in Seq(Reqs) /\ Distinct(list) /\ Len(list) \in Nat
  BY DEF ListInv, TypeOK, ExactlyOnce, Distinct
<1>2. r \in Listed /\ r # req
  BY <1>1, UnlinkMember DEF Listed
<1>3. /\ Pos(list, req) \in 1 .. Len(list) /\ Pos(list, r) \in 1 .. Len(list)
      /\ Pos(list, r) # Pos(list, req)
      /\ Pos(list', r) = IF Pos(list, r) < Pos(list, req) THEN Pos(list, r) ELSE Pos(list, r) - 1
  BY <1>1, <1>2, PosProperties, UnlinkPos DEF Listed
<1>4. CASE next = None
  <2>1. Pos(list, req) = Len(list)
    BY <1>1, <1>4, AfterPos DEF Listed
  <2> QED  BY <1>1, <1>2, <1>3, <2>1 DEF Visited
<1>5. CASE next # None
  <2>1. next \in Listed /\ Pos(list, next) = Pos(list, req) + 1
    BY <1>1, <1>5, AfterPos DEF Listed
  <2>2. Pos(list', next) = Pos(list, req)
    BY <1>1, <1>3, <2>1, UnlinkPos DEF Listed
  <2> QED  BY <1>2, <1>3, <1>5, <2>2 DEF Visited
<1> QED  BY <1>4, <1>5

LEMMA WakeupStep ==
  ListInv /\ TimerInv /\ WakeupInv /\ [Next]_vars => WakeupInv'
<1> SUFFICES ASSUME ListInv, TimerInv, WakeupInv, [Next]_vars PROVE WakeupInv'
  OBVIOUS
<1> USE DEF WakeupInv, Covered
<1>1. /\ Timed \subseteq Reqs /\ Timed \subseteq Listed /\ None \notin Reqs
      /\ left \in [Reqs -> Int] /\ skew \in 0 .. MaxSkew /\ wait \in Int
      /\ MaxSkew \in Nat /\ MaxLag \in Nat /\ (connected <=> pc \in {"sampled", "prepare", "poll"})
      /\ (pc = "prepare" /\ req # None => req \in Listed)
  BY ListedType, ReqsAssumption, TimingAssumption
     DEF Timed, ListInv, TypeOK, ConnectedPc, CursorSafe, Locked
<1>2. CASE \/ Connect \/ OnConnect \/ PollWake \/ RxIgnored \/ DisconnectBegin
           \/ CancelOne \/ CancelEnd \/ Close \/ \E r \in Reqs : RxRequest(r)
  <2>1. pc' \notin {"prepare", "poll"}
    BY <1>2 DEF Connect, OnConnect, PollWake, RxIgnored, DisconnectBegin, CancelOne, CancelEnd,
       Close, RxRequest, RxError, RxEmptyAck, RxNotify, RxMoreNext, RxMoreHold, RxMoreRefuse,
       RxLast, MoreBlock, AfterRx
  <2> QED  BY <2>1 DEF NoLostWakeup
<1>3. CASE UNCHANGED vars
  BY <1>3 DEF vars, loop, timers, transfer, NoLostWakeup, Visited, Timed, Listed
<1>4. ASSUME NEW r \in Reqs, AppWakeup(r) PROVE WakeupInv'
  <2>1. wake' /\ UNCHANGED <<list, pc, req, next>>
    BY <1>4 DEF AppWakeup
  <2> QED  BY <2>1 DEF NoLostWakeup
<1>5. ASSUME NEW n \in Reqs, AppSubmit(n) PROVE WakeupInv'
  <2>1. /\ pc' = pc /\ pc # "prepare"
        /\ pc = "poll" => waking' = waking \union {n}
    BY <1>1, <1>5 DEF AppSubmit, Locked, Wakes
  <2> QED  BY <2>1 DEF NoLostWakeup
<1>6. CASE Tick
  <2>1. /\ UNCHANGED <<list, pc, req, next, wake, waking>> /\ Timed' = Timed
        /\ \A r \in Timed : left'[r] = left[r] - 1
        /\ skew' = (IF pc \in {"sampled", "prepare"} THEN skew + 1 ELSE skew)
        /\ wait' = (IF pc = "poll" /\ wait > 0 THEN wait - 1 ELSE wait)
    BY <1>6, TickEffect
  <2>2. Covered'
    <3> SUFFICES ASSUME pc' = "prepare", ~wake', waking' = {}, NEW r \in Timed', Visited(r)'
                 PROVE  wait' <= left'[r] + skew'
      BY DEF Covered
    <3>1. r \in Timed /\ Visited(r) /\ pc = "prepare" /\ ~wake /\ waking = {} /\ left[r] \in Int
      BY <1>1, <2>1 DEF Visited
    <3>2. wait <= left[r] + skew
      BY <3>1
    <3>3. left'[r] = left[r] - 1 /\ skew' = skew + 1 /\ wait' = wait
      BY <2>1, <3>1
    <3> QED  BY <1>1, <3>1, <3>2, <3>3
  <2>3. NoLostWakeup'
    BY <1>1, <2>1 DEF NoLostWakeup
  <2> QED  BY <2>1, <2>2, <2>3
<1>7. CASE PrepareBegin
  <2>1. /\ pc' = "prepare" /\ req' = First(list) /\ next' = After(list, First(list))
        /\ UNCHANGED list
    BY <1>7 DEF PrepareBegin
  <2>2. list \in Seq(Reqs) /\ Distinct(list) /\ Len(list) \in Nat
    BY DEF ListInv, TypeOK, ExactlyOnce, Distinct
  <2>3. ASSUME NEW r \in Timed' PROVE ~Visited(r)'
    <3>1. r \in Listed
      BY <2>1, <2>3 DEF Timed, Listed
    <3>2. list # <<>> /\ First(list) # None /\ First(list) = list[1] /\ First(list) \in Listed
      BY <2>2, <3>1, CursorMember DEF Listed, ToSet, First
    <3>3. /\ Pos(list, r) \in 1 .. Len(list)
          /\ Pos(list, First(list)) = 1
      BY <2>2, <3>1, <3>2, PosProperties DEF Listed
    <3> QED  BY <2>1, <3>2, <3>3 DEF Visited
  <2> QED  BY <2>1, <2>3 DEF NoLostWakeup
<1>8. CASE PrepareSend
  <2>1. /\ UNCHANGED <<list, left, pc, skew, wake, waking>> /\ pc = "prepare"
        /\ Timed' = Timed /\ req \in Timed /\ req' = next /\ next' = After(list, next)
        /\ wait' = Smaller(wait, left[req] + skew)
    BY <1>8, SendEffect DEF timers
  <2>2. /\ wait' \in Int /\ wait' <= wait /\ wait' <= left[req] + skew
    BY <1>1, <2>1 DEF Smaller
  <2>3. ASSUME NEW r \in Timed, Visited(r)' PROVE r = req \/ Visited(r)
    BY <1>1, <2>1, <2>3, AdvanceVisits DEF Visited
  <2>4. Covered'
    <3> SUFFICES ASSUME ~wake, waking = {}, NEW r \in Timed, Visited(r)'
                 PROVE  wait' <= left[r] + skew
      BY <2>1 DEF Covered
    <3>1. r = req \/ wait <= left[r] + skew
      BY <2>1, <2>3
    <3> QED  BY <1>1, <2>2, <3>1
  <2> QED  BY <2>1, <2>4 DEF NoLostWakeup
<1>9. CASE PrepareSkip
  <2>1. /\ UNCHANGED <<list, left, pending, pc, skew, wake, waking, wait>> /\ pc = "prepare"
        /\ req \in Listed \ Timed /\ req' = next /\ next' = After(list, next)
    BY <1>9 DEF PrepareSkip, Advance, timers, transfer
  <2>2. Timed' = Timed
    BY <2>1 DEF Timed, Listed
  <2>3. ASSUME NEW r \in Timed, Visited(r)' PROVE Visited(r)
    BY <1>1, <2>1, <2>3, AdvanceVisits DEF Visited
  <2> QED  BY <2>1, <2>2, <2>3 DEF NoLostWakeup
<1>10. CASE PrepareCycle
  <2>1. /\ UNCHANGED <<list, pc, req, next, skew, wake, waking, wait>> /\ pc = "prepare"
        /\ Timed' = Timed /\ req \in Timed
        /\ \A r \in Reqs \ {req} : left'[r] = left[r]
    BY <1>10, CycleEffect
  <2>2. ~Visited(req)
    <3>1. list \in Seq(Reqs) /\ req \in ToSet(list) /\ req # None
      BY <1>1, <2>1 DEF ListInv, TypeOK, Listed
    <3>2. Pos(list, req) \in 1 .. Len(list) /\ Len(list) \in Nat
      BY <3>1, PosProperties
    <3> QED  BY <3>1, <3>2 DEF Visited
  <2> QED  BY <1>1, <2>1, <2>2 DEF Visited, NoLostWakeup
<1>11. CASE PrepareEnd
  <2>1. /\ UNCHANGED <<list, left, pending, wake, waking, wait>> /\ pc = "prepare"
        /\ pc' = "poll" /\ req = None
    BY <1>11 DEF PrepareEnd, timers, transfer
  <2>2. Timed' = Timed
    BY <2>1 DEF Timed, Listed
  <2>3. \A r \in Timed : Visited(r)
    BY <2>1 DEF Visited
  <2>4. ASSUME NEW r \in Timed, ~wake, waking = {} PROVE wait <= left[r] + MaxSkew
    <3>1. wait <= left[r] + skew
      BY <2>1, <2>3, <2>4
    <3> QED  BY <1>1, <3>1
  <2> QED  BY <2>1, <2>2, <2>4 DEF NoLostWakeup
<1>12. CASE PrepareExpire
  <2>1. PICK N \in Submissions : Finish(req, "timedout", N, wake)
    BY <1>12 DEF PrepareExpire
  <2>2. /\ pc = "prepare" /\ req \in Listed /\ req' = next /\ next' = After(list', next)
        /\ UNCHANGED <<pc, skew, waking, wait>>
    BY <1>1, <1>12 DEF PrepareExpire, Expired, Advance
  <2>3. CASE N # {}
    BY <1>1, <2>1, <2>2, <2>3 DEF Finish, Wakes, NoLostWakeup
  <2>4. CASE N = {}
    <3>1. list' = Unlink(list, req) /\ (wake' <=> wake)
      BY <2>1, <2>4 DEF Finish, Submitted, Wakes, ListInv, TypeOK
    <3>2. ASSUME NEW r \in Timed', Visited(r)'
          PROVE  r \in Timed /\ Visited(r) /\ left'[r] = left[r]
      <4>1. r \in Listed' /\ r # req
        <5>1. list \in Seq(Reqs) /\ Distinct(list)
          BY DEF ListInv, TypeOK, ExactlyOnce, Distinct
        <5> QED  BY <2>2, <3>1, <3>2, <5>1, UnlinkMember DEF Timed, Listed
      <4>2. r \in Listed /\ Visited(r)
        BY <2>2, <3>1, <3>2, <4>1, UnlinkVisits DEF Visited
      <4>3. SameTimer(r)
        BY <1>1, <2>1, <2>2, <4>1, <4>2, FinishRenews, ListedType DEF ListInv
      <4> QED  BY <3>2, <4>2, <4>3 DEF SameTimer, Timed
    <3> QED  BY <2>2, <3>1, <3>2 DEF NoLostWakeup
  <2> QED  BY <2>3, <2>4
<1> QED
  BY <1>2, <1>3, <1>4, <1>5, <1>6, <1>7, <1>8, <1>9, <1>10, <1>11, <1>12 DEF Next, Proceed

\* The invariant of the timers.
THEOREM TimerInvariant == Spec => [](TimerInv /\ TriesInv /\ WakeupInv)
<1>1. Spec => []ListInv
  BY ListInvariant
<1> QED  BY <1>1, TimerInvInit, TimerInvStep, TriesStep, WakeupStep, PTL DEF Spec

\* golioth_coap_req_schedule and poll_prepare: whatever threads and callbacks submit
\* during a pass, no request the client thread must look at is left without a
\* wakeup or a poll that ends by its deadline, give or take the pass itself.
THEOREM NoWakeupLost == Spec => []NoLostWakeup
<1>1. WakeupInv => NoLostWakeup
  BY DEF WakeupInv
<1> QED  BY <1>1, TimerInvariant, PTL

\* golioth_coap_req_poll_prepare and golioth_coap_pending_cycle: a request that
\* times out was sent and sent again as often as it may, whatever its timeouts.
THEOREM TimeoutIsLast == Spec => []TimeoutAfterAllRetries
<1>1. ListInv /\ TimerInv /\ TriesInv => TimeoutAfterAllRetries
  <2> SUFFICES ASSUME ListInv, TimerInv, TriesInv,
                      \A t \in AckTimeouts : MaxLag < t, Expired
               PROVE  tries[req] = MaxRetries + 1
    BY DEF TimeoutAfterAllRetries
  <2>1. req \in Timed /\ timeout[req] > 0 /\ ~(retries[req] > 0) /\ left[req] + skew <= 0
    BY RemainingExact DEF Expired, MayRetry
  <2>2. /\ req \in Reqs /\ retries[req] \in 0 .. MaxRetries /\ tries[req] \in Nat
        /\ left[req] \in Int /\ skew \in Int /\ timeout[req] \in Nat
    BY <2>1, ListedType DEF Timed, ListInv, TypeOK
  <2>3. Counted(req) /\ MaxRetries \in Nat
    BY <2>1, TimingAssumption DEF TriesInv
  <2>4. ~Turn(req)
    <3>1. ~(0 < left[req] + skew)
      BY <2>1, <2>2
    <3> QED  BY <2>1, <2>2, <2>3, <3>1 DEF Counted
  <2> QED  BY <2>1, <2>2, <2>3, <2>4 DEF Counted
<1> QED  BY <1>1, ListInvariant, TimerInvariant, PTL
=============================================================================
