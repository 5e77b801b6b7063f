--------------------------- MODULE SettingsProofs ---------------------------
(***************************************************************************)
(* Proofs about zcbor_map_decode, for any wanted keys and any maps, and    *)
(* about on_setting, which decodes its map that way, so that what is       *)
(* proved of MapDecode holds of it, for any notification and any sizes.    *)
(***************************************************************************)
EXTENDS Settings, FiniteSetTheorems, TLAPS

-----------------------------------------------------------------------------
(* zcbor_map_decode.                                                       *)

TypeOK ==
  /\ map \in Seq(Keys) /\ at \in 1..(Len(map) + 1) /\ decoded \in Nat
  /\ found \subseteq Wanted /\ intact \in BOOLEAN
  /\ pc \in {"start", "loop", "value", "end", "returned"}
  /\ ret \in {"ok", "badmsg", "noent"}

\* The keys the walk is past.
Past == {map[j] : j \in 1..(at - 1)}

\* num_decoded counts the values that were stored, when no key occurs twice.
CountsFound ==
  /\ found = Wanted \intersect Past
  /\ Distinct => decoded = Cardinality(found)
  /\ pc = "value" => at <= Len(map) /\ map[at] \in Wanted

\* What the loop ended with.
Judged ==
  /\ decoded <= Cardinality(Wanted) /\ (pc = "value" => WantsMore)
  /\ pc \in {"start", "loop", "value"} => ret = "ok" /\ intact
  /\ pc \in {"end", "returned"} /\ ret = "ok" => Enough
  /\ pc \in {"end", "returned"} /\ ret = "noent" /\ intact => decoded = 0 /\ at > Len(map)
  /\ pc = "end" => ret # "badmsg"
  /\ pc = "returned" /\ ret = "badmsg" /\ intact =>
       decoded # 0 /\ decoded # Cardinality(Wanted) /\ at > Len(map)

WalkInv == TypeOK /\ CountsFound /\ Judged

-----------------------------------------------------------------------------
LEMMA WantedCount ==
  /\ IsFiniteSet(Wanted) /\ Cardinality(Wanted) \in Nat \ {0}
  /\ \A S \in SUBSET Wanted :
       /\ IsFiniteSet(S) /\ Cardinality(S) \in Nat
       /\ Cardinality(S) = Cardinality(Wanted) => S = Wanted
       /\ Cardinality(S) = 0 <=> S = {}
<1>1. IsFiniteSet(Wanted) /\ Wanted # {}
  BY MapsAssumption
<1>2. Cardinality(Wanted) \in Nat \ {0}
  BY <1>1, FS_CardinalityType, FS_EmptySet
<1>3. ASSUME NEW S \in SUBSET Wanted
      PROVE  /\ IsFiniteSet(S) /\ Cardinality(S) \in Nat
             /\ Cardinality(S) = Cardinality(Wanted) => S = Wanted
             /\ Cardinality(S) = 0 <=> S = {}
  <2>1. IsFiniteSet(S) /\ (Cardinality(S) = Cardinality(Wanted) => S = Wanted)
    BY <1>1, FS_Subset
  <2>2. Cardinality(S) \in Nat /\ (Cardinality(S) = 0 <=> S = {})
    BY <2>1, FS_CardinalityType, FS_EmptySet
  <2> QED
    BY <2>1, <2>2
<1> QED
  BY <1>1, <1>2, <1>3

\* A key that does not occur twice is met once.
LEMMA KeyIsNew ==
  ASSUME TypeOK, at <= Len(map), Distinct
  PROVE  map[at] \notin Past
<1>1. at \in 1..Len(map) /\ DOMAIN map = 1..Len(map) /\ Len(map) \in Nat
  BY DEF TypeOK
<1> SUFFICES ASSUME NEW j \in 1..(at - 1), map[j] = map[at] PROVE FALSE
  BY DEF Past
<1>2. j \in DOMAIN map /\ at \in DOMAIN map /\ j # at
  BY <1>1
<1> QED
  BY <1>2 DEF Distinct, IsInjective

\* One more key is past.
LEMMA PastGrows ==
  ASSUME TypeOK, at <= Len(map), UNCHANGED map, at' = at + 1
  PROVE  Past' = Past \union {map[at]} /\ (Distinct => map[at] \notin Past)
<1>1. at \in 1..Len(map)
  BY DEF TypeOK
<1>2. 1..((at + 1) - 1) = 1..(at - 1) \union {at}
  BY <1>1
<1>3. Past' = {map[j] : j \in 1..((at + 1) - 1)}
  BY DEF Past
<1>4. Past' = Past \union {map[at]}
  BY <1>2, <1>3 DEF Past
<1> QED
  BY <1>4, KeyIsNew

LEMMA WalkInit == MapInit => WalkInv
<1> SUFFICES ASSUME MapInit PROVE WalkInv
  OBVIOUS
<1>1. TypeOK
  BY MapsAssumption DEF MapInit, TypeOK
<1>2. Past = {}
  BY DEF MapInit, Past
<1> QED
  BY <1>1, <1>2, FS_EmptySet, WantedCount DEF MapInit, WalkInv, CountsFound, Judged

LEMMA SkipKeeps == WalkInv /\ Skip => WalkInv'
<1> SUFFICES ASSUME WalkInv, Skip PROVE WalkInv'
  OBVIOUS
<1>1. TypeOK'
  BY DEF WalkInv, TypeOK, Skip
<1>2. Past' = Past \union {map[at]}
  BY PastGrows DEF WalkInv, Skip
<1>3. CountsFound'
  BY <1>2 DEF WalkInv, CountsFound, Skip, Distinct
<1>4. Judged'
  BY DEF WalkInv, Judged, Skip
<1> QED
  BY <1>1, <1>3, <1>4 DEF WalkInv

LEMMA ValueStoredKeeps == WalkInv /\ ValueStored => WalkInv'
<1> SUFFICES ASSUME WalkInv, ValueStored PROVE WalkInv'
  OBVIOUS
<1>1. at <= Len(map) /\ map[at] \in Wanted /\ found = Wanted \intersect Past
  BY DEF WalkInv, CountsFound, ValueStored
<1>2. TypeOK'
  BY <1>1 DEF WalkInv, TypeOK, ValueStored
<1>3. Past' = Past \union {map[at]} /\ (Distinct => map[at] \notin Past)
  BY <1>1, PastGrows DEF WalkInv, ValueStored
<1>4. found' = Wanted \intersect Past'
  BY <1>1, <1>3 DEF ValueStored
<1>5. Distinct => decoded' = Cardinality(found')
  <2> SUFFICES ASSUME Distinct PROVE decoded' = Cardinality(found')
    OBVIOUS
  <2>1. map[at] \notin found /\ decoded = Cardinality(found)
    BY <1>3 DEF WalkInv, CountsFound
  <2>2. IsFiniteSet(found)
    BY WantedCount DEF WalkInv, TypeOK
  <2>3. Cardinality(found \cup {map[at]}) = Cardinality(found) + 1
    BY <2>1, <2>2, FS_AddElement
  <2> QED
    BY <2>1, <2>3 DEF ValueStored
<1>6. CountsFound'
  BY <1>4, <1>5 DEF CountsFound, ValueStored, Distinct
<1>7. Judged'
  <2>1. decoded' <= Cardinality(Wanted)
    BY WantedCount DEF WalkInv, TypeOK, Judged, ValueStored, WantsMore
  <2> QED
    BY <2>1 DEF WalkInv, Judged, ValueStored
<1> QED
  BY <1>2, <1>6, <1>7 DEF WalkInv

LEMMA LoopEndKeeps == WalkInv /\ LoopEnd => WalkInv'
<1> SUFFICES ASSUME WalkInv, LoopEnd PROVE WalkInv'
  OBVIOUS
<1>1. UNCHANGED <<map, at, decoded, found, intact>> /\ pc = "loop"
  BY DEF LoopEnd, input
<1>2. TypeOK'
  BY <1>1 DEF WalkInv, TypeOK, LoopEnd, Return
<1>3. CountsFound'
  BY <1>1 DEF WalkInv, CountsFound, LoopEnd, Return, Past, Distinct
<1>4. decoded \in Nat /\ Cardinality(Wanted) \in Nat \ {0} /\ at \in Nat /\ Len(map) \in Nat
  BY WantedCount DEF WalkInv, TypeOK
<1>5. Judged'
  <2>1. CASE Enough
    BY <1>1, <1>4, <2>1 DEF WalkInv, Judged, LoopEnd, Enough
  <2>2. CASE ~Enough /\ decoded = 0
    BY <1>1, <1>4, <2>2 DEF WalkInv, Judged, LoopEnd, Enough, WantsMore
  <2>3. CASE ~Enough /\ decoded # 0 /\ at > Len(map)
    BY <1>1, <1>4, <2>3 DEF WalkInv, Judged, LoopEnd, Enough, Return
  <2>4. CASE ~Enough /\ decoded # 0 /\ ~(at > Len(map))
    BY <1>1, <1>4, <2>4 DEF WalkInv, Judged, LoopEnd, Enough, WantsMore, Return
  <2> QED
    BY <2>1, <2>2, <2>3, <2>4
<1> QED
  BY <1>2, <1>3, <1>5 DEF WalkInv

\* The inductive invariant: num_decoded counts the values that were stored.
THEOREM WalkInvariant == MapSpec => []WalkInv
<1>1. WalkInv /\ [MapNext]_mapVars => WalkInv'
  <2> SUFFICES ASSUME WalkInv, [MapNext]_mapVars PROVE WalkInv'
    OBVIOUS
  <2>1. CASE Broken
    BY <2>1 DEF Broken, Return, input, WalkInv, TypeOK, CountsFound, Past, Distinct, Judged
  <2>2. CASE MapStart
    BY <2>2 DEF MapStart, input, WalkInv, TypeOK, CountsFound, Past, Distinct, Judged
  <2>3. CASE Skip
    BY <2>3, SkipKeeps
  <2>4. CASE KeyFound
    BY <2>4 DEF KeyFound, input, WalkInv, TypeOK, CountsFound, Past, Distinct, Judged, WantsMore
  <2>5. CASE ValueStored
    BY <2>5, ValueStoredKeeps
  <2>6. ASSUME NEW err \in {"badmsg", "noent"}, ValueFails(err) PROVE WalkInv'
    BY <2>6 DEF ValueFails, Return, input, WalkInv, TypeOK, CountsFound, Past, Distinct, Judged
  <2>7. CASE LoopEnd
    BY <2>7, LoopEndKeeps
  <2>8. CASE MapEnd
    BY <2>8 DEF MapEnd, Return, input, WalkInv, TypeOK, CountsFound, Past, Distinct, Judged, Enough
  <2>9. CASE UNCHANGED mapVars
    BY <2>9
       DEF mapVars, input, WalkInv, TypeOK, CountsFound, Past, Distinct, Judged, Enough, WantsMore
  <2> QED
    BY <2>1, <2>2, <2>3, <2>4, <2>5, <2>6, <2>7, <2>8, <2>9 DEF MapNext, Walk
<1> QED
  BY <1>1, WalkInit, PTL DEF MapSpec

\* For any entries array: if no key occurs twice, zcbor_map_decode returns 0 only
\* when it has stored every value.
THEOREM AcceptedIsComplete == MapSpec => []DistinctMeansAll
<1>1. WalkInv => DistinctMeansAll
  <2> SUFFICES ASSUME WalkInv, Distinct, pc = "returned", ret = "ok" PROVE found = Wanted
    BY DEF DistinctMeansAll
  <2>1. decoded = Cardinality(found) /\ decoded = Cardinality(Wanted)
    BY DEF WalkInv, CountsFound, Judged, Enough
  <2> QED
    BY <2>1, WantedCount DEF WalkInv, TypeOK
<1> QED
  BY <1>1, WalkInvariant, PTL

\* What zcbor_map_decode returns for a well-formed map depends on which wanted
\* keys it has, and neither on their order nor on the other keys.
THEOREM WellFormedJudged == MapSpec => []WellFormedIsJudged
<1>1. WalkInv => WellFormedIsJudged
  <2> SUFFICES ASSUME WalkInv, pc = "returned", intact, Distinct
               PROVE  LET has == Wanted \intersect Range(map) IN
                      ret = IF has = Wanted THEN "ok"
                            ELSE IF has = {} THEN "noent" ELSE "badmsg"
    BY DEF WellFormedIsJudged
  <2> DEFINE has == Wanted \intersect Range(map)
  <2>1. /\ found \subseteq has /\ found \subseteq Wanted /\ has \subseteq Wanted
        /\ decoded = Cardinality(found)
    BY DEF WalkInv, TypeOK, CountsFound, Past, Range
  <2>2. at > Len(map) => found = has
    <3> SUFFICES ASSUME at > Len(map) PROVE Past = Range(map)
      BY DEF WalkInv, CountsFound
    <3>1. at - 1 = Len(map) /\ DOMAIN map = 1..Len(map)
      BY DEF WalkInv, TypeOK
    <3> QED
      BY <3>1 DEF Past, Range
  <2>3. CASE ret = "ok"
    <3>1. found = Wanted
      BY <2>1, <2>3, WantedCount DEF WalkInv, Judged, Enough
    <3> QED
      BY <2>1, <2>3, <3>1
  <2>4. CASE ret = "noent"
    <3>1. has = {} /\ Wanted # {}
      BY <2>1, <2>2, <2>4, WantedCount, MapsAssumption DEF WalkInv, Judged
    <3> QED
      BY <2>4, <3>1
  <2>5. CASE ret = "badmsg"
    <3>1. decoded # 0 /\ decoded # Cardinality(Wanted) /\ found = has
      BY <2>2, <2>5 DEF WalkInv, Judged
    <3>2. has # {} /\ has # Wanted
      BY <2>1, <3>1, WantedCount
    <3> QED
      BY <2>5, <3>2
  <2> QED
    BY <2>3, <2>4, <2>5 DEF WalkInv, TypeOK
<1> QED
  BY <1>1, WalkInvariant, PTL

-----------------------------------------------------------------------------
(* on_setting.                                                             *)

\* settings_decode ends as a decode callback of the map does.
LEMMA SettingsDecodeMaps == SettingsDecode => MapNext \/ UNCHANGED mapVars
<1> SUFFICES ASSUME SettingsDecode PROVE MapNext \/ UNCHANGED mapVars
  OBVIOUS
<1>1. CASE SettingsNil
  BY <1>1 DEF SettingsNil, MapNext
<1>2. CASE SettingsStart
  BY <1>2 DEF SettingsStart
<1>3. CASE SettingsBroken
  BY <1>3 DEF SettingsBroken, MapNext
<1>4. CASE Given \/ NotGiven \/ Skipped
  BY <1>4 DEF Given, NotGiven, Skipped
<1>5. CASE SettingsEnd
  BY <1>5 DEF SettingsEnd, MapNext
<1> QED
  BY <1>1, <1>2, <1>3, <1>4, <1>5 DEF SettingsDecode

\* Every step of on_setting is one of zcbor_map_decode, or leaves the map alone.
LEMMA StepMaps == [Next]_vars => [MapNext]_mapVars
<1> SUFFICES ASSUME [Next]_vars PROVE [MapNext]_mapVars
  OBVIOUS
<1>1. CASE Walk /\ UNCHANGED <<items, app, response>>
  BY <1>1 DEF MapNext
<1>2. CASE Version
  BY <1>2 DEF Version, MapNext
<1>3. CASE SettingsDecode
  BY <1>3, SettingsDecodeMaps
<1>4. CASE Finalize
  BY <1>4 DEF Finalize
<1>5. CASE UNCHANGED vars
  BY <1>5 DEF vars
<1> QED
  BY <1>1, <1>2, <1>3, <1>4, <1>5 DEF Next, Decode

\* on_setting implements zcbor_map_decode (settings.c:260).
THEOREM SettingsDecodesMap == Spec => MapSpec
<1>1. Init => MapInit
  BY DEF Init
<1>2. [Next]_vars => [MapNext]_mapVars
  BY StepMaps
<1> QED
  BY <1>1, <1>2, PTL DEF Spec, MapSpec

\* A notification is taken for complete only when it has the settings and their
\* version, if it has no key twice (settings.c:267-280).
THEOREM NotificationComplete == Spec => []DistinctMeansAll
  BY SettingsDecodesMap, AcceptedIsComplete

\* What on_setting makes of a well-formed map depends on the wanted keys it has.
THEOREM NotificationJudged == Spec => []WellFormedIsJudged
  BY SettingsDecodesMap, WellFormedJudged

-----------------------------------------------------------------------------
(* What is given and reported.                                             *)

Setting == [label : Labels, value : Values]

\* Settings up to position n were given and reported as they should be.
DoneTo(n) ==
  /\ GivenAre(SupportedTo(n)) /\ ErrorsAre(FailedTo(n))
  /\ Len(errors) = Cardinality(FailedTo(n))
  /\ HasRoom => room = Room - Len(errors) * (KeyRoom + 1)

\* How many of the settings are done, at each point of on_setting.
Position(n) ==
  /\ item # 0 => n = IF skipping = TRUE THEN item ELSE item - 1
  /\ item = 0 /\ pc # "returned" /\ "settings" \notin found => n = 0
  /\ "settings" \in found => n = Len(items)

ReportType ==
  /\ items \in Seq(Setting) /\ item \in 0..(Len(items) + 1) /\ skipping \in BOOLEAN
  /\ given \in Seq(Setting) /\ room \in Nat
  /\ errors \in Seq([label : Labels \union {"missing"}, code : BOOLEAN])

ReportInv ==
  /\ ReportType
  /\ item # 0 => InSettings
  /\ skipping = TRUE => pc = "returned" \/ item \in 1..Len(items)
  /\ Distinct => \E n \in 0..Len(items) : DoneTo(n) /\ Position(n)
  /\ status = "sent" => pc = "returned" /\ ret = "ok"

LEMMA InitialSettings ==
  ASSUME Init
  PROVE  items \in Seq(Setting)
<1>1. PICK m \in 0..MaxItems : items \in [1..m -> Setting]
  BY DEF Init, BoundedSeq, SeqOf, Setting
<1>2. m \in Nat
  BY SettingsAssumption
<1> QED  BY <1>1, <1>2

\* An enumeration p of n numbers, and one more.
Extended(p, n, i) == [k \in 1..(n + 1) |-> IF k = n + 1 THEN i ELSE p[k]]

LEMMA AscendingGrows ==
  ASSUME NEW n \in Nat, NEW S \in SUBSET Nat, NEW i \in Nat, \A x \in S : x < i,
         NEW p \in Ascending(n, S)
  PROVE  Extended(p, n, i) \in Ascending(n + 1, S \union {i})
<1> DEFINE q == Extended(p, n, i)
           T == S \union {i}
<1>1. /\ p \in [1..n -> S] /\ \A j, k \in 1..n : p[j] = p[k] => j = k
      /\ \A x \in S : \E k \in 1..n : p[k] = x
      /\ \A j, k \in 1..n : j < k => p[j] < p[k]
  BY DEF Ascending, Bijection, Injection, Surjection, IsInjective
<1>2. q \in [1..(n + 1) -> T] /\ q[n + 1] = i /\ \A k \in 1..n : q[k] = p[k] /\ p[k] \in S
  BY <1>1 DEF Extended
<1> HIDE DEF q
<1>3. \A k \in 1..(n + 1) : k = n + 1 \/ k \in 1..n
  OBVIOUS
<1>4. \A j, k \in 1..(n + 1) : j < k => q[j] < q[k]
  <2> SUFFICES ASSUME NEW j \in 1..(n + 1), NEW k \in 1..(n + 1), j < k PROVE q[j] < q[k]
    OBVIOUS
  <2>1. j \in 1..n
    OBVIOUS
  <2>2. CASE k = n + 1
    BY <1>2, <2>1, <2>2
  <2>3. CASE k \in 1..n
    BY <1>1, <1>2, <2>1, <2>3
  <2> QED  BY <1>3, <2>2, <2>3
<1>5. \A k \in 1..(n + 1) : q[k] \in Nat
  BY <1>2
<1>6. \A j, k \in 1..(n + 1) : q[j] = q[k] => j = k
  <2> SUFFICES ASSUME NEW j \in 1..(n + 1), NEW k \in 1..(n + 1), q[j] = q[k], j # k PROVE FALSE
    OBVIOUS
  <2>1. j < k \/ k < j
    OBVIOUS
  <2> QED  BY <1>4, <1>5, <2>1
<1>7. \A x \in T : \E k \in 1..(n + 1) : q[k] = x
  <2> SUFFICES ASSUME NEW x \in T PROVE \E k \in 1..(n + 1) : q[k] = x
    OBVIOUS
  <2>1. CASE x = i
    BY <1>2, <2>1
  <2>2. CASE x # i
    <3>1. PICK k \in 1..n : p[k] = x
      BY <1>1, <2>2
    <3> QED  BY <1>2, <3>1
  <2> QED  BY <2>1, <2>2
<1>8. q \in Ascending(n + 1, T)
  BY <1>2, <1>4, <1>6, <1>7 DEF Ascending, Bijection, Injection, Surjection, IsInjective
<1> QED  BY <1>8 DEF q

\* One more setting done.
LEMMA OneMoreDone ==
  ASSUME NEW n \in Nat
  PROVE  /\ SupportedTo(n) \in SUBSET Nat /\ \A x \in SupportedTo(n) : x < n + 1
         /\ FailedTo(n) \in SUBSET Nat /\ \A x \in FailedTo(n) : x < n + 1
         /\ IsFiniteSet(FailedTo(n)) /\ Cardinality(FailedTo(n)) \in Nat
         /\ SupportedTo(n + 1) = IF items[n + 1].value # "unsupported"
                                 THEN SupportedTo(n) \union {n + 1} ELSE SupportedTo(n)
         /\ items[n + 1].value = "accepted" => FailedTo(n + 1) = FailedTo(n)
         /\ items[n + 1].value # "accepted" =>
              /\ FailedTo(n + 1) = FailedTo(n) \union {n + 1}
              /\ Cardinality(FailedTo(n + 1)) = Cardinality(FailedTo(n)) + 1
<1>1. 1..(n + 1) = 1..n \union {n + 1} /\ n + 1 \notin 1..n /\ \A x \in 1..n : x < n + 1
  OBVIOUS
<1>2. /\ SupportedTo(n) \in SUBSET Nat /\ \A x \in SupportedTo(n) : x < n + 1
      /\ FailedTo(n) \in SUBSET Nat /\ \A x \in FailedTo(n) : x < n + 1
  BY DEF SupportedTo, FailedTo
<1>3. SupportedTo(n + 1) = IF items[n + 1].value # "unsupported"
                           THEN SupportedTo(n) \union {n + 1} ELSE SupportedTo(n)
  BY <1>1 DEF SupportedTo
<1>4. FailedTo(n + 1) = IF items[n + 1].value # "accepted"
                        THEN FailedTo(n) \union {n + 1} ELSE FailedTo(n)
  BY <1>1 DEF FailedTo
<1>5. IsFiniteSet(FailedTo(n)) /\ Cardinality(FailedTo(n)) \in Nat
  <2>1. IsFiniteSet(1..n)
    BY FS_Interval
  <2>2. FailedTo(n) \subseteq 1..n
    BY DEF FailedTo
  <2> QED  BY <2>1, <2>2, FS_Subset, FS_CardinalityType
<1>6. Cardinality(FailedTo(n) \cup {n + 1}) = Cardinality(FailedTo(n)) + 1
  <2>1. n + 1 \notin FailedTo(n)
    BY <1>1 DEF FailedTo
  <2> QED  BY <1>5, <2>1, FS_AddElement
<1> QED  BY <1>2, <1>3, <1>4, <1>5, <1>6

\* There are at least as many failures in all.
LEMMA FailuresSoFar ==
  ASSUME items \in Seq(Setting), NEW n \in 0..Len(items)
  PROVE  /\ Cardinality(FailedTo(n)) <= Cardinality(FailedTo(Len(items)))
         /\ Cardinality(FailedTo(Len(items))) \in Nat
<1>1. Len(items) \in Nat
  OBVIOUS
<1>2. FailedTo(n) \subseteq FailedTo(Len(items))
  BY <1>1 DEF FailedTo
<1>3. IsFiniteSet(FailedTo(Len(items))) /\ Cardinality(FailedTo(Len(items))) \in Nat
  BY <1>1, OneMoreDone
<1> QED  BY <1>2, <1>3, FS_Subset

LEMMA GivenGrows ==
  ASSUME ReportType, NEW n \in 0..(Len(items) - 1), GivenAre(SupportedTo(n)),
         items[n + 1].value # "unsupported",
         UNCHANGED items, given' = Append(given, items[n + 1])
  PROVE  GivenAre(SupportedTo(n + 1))'
<1> DEFINE g == Len(given)
<1>1. PICK p \in Ascending(g, SupportedTo(n)) : \A k \in 1..g : given[k] = items[p[k]]
  BY DEF GivenAre
<1>2. /\ g \in Nat /\ n \in Nat /\ Len(given') = g + 1 /\ given'[g + 1] = items[n + 1]
      /\ \A k \in 1..g : given'[k] = given[k]
  BY DEF ReportType
<1> DEFINE q == Extended(p, g, n + 1)
<1>3. q \in Ascending(g + 1, SupportedTo(n + 1))
  <2>1. SupportedTo(n + 1) = SupportedTo(n) \union {n + 1}
    BY <1>2, OneMoreDone
  <2>2. SupportedTo(n) \in SUBSET Nat /\ \A x \in SupportedTo(n) : x < n + 1
    BY <1>2, OneMoreDone
  <2>3. n + 1 \in Nat
    BY <1>2
  <2> HIDE DEF g
  <2>4. q \in Ascending(g + 1, SupportedTo(n) \union {n + 1})
    BY <1>1, <1>2, <2>2, <2>3, AscendingGrows
  <2> QED  BY <2>1, <2>4
<1>4. \A k \in 1..(g + 1) : given'[k] = items[q[k]]
  BY <1>1, <1>2 DEF Extended
<1> HIDE DEF q, g
<1>5. SupportedTo(n + 1)' = SupportedTo(n + 1)
  BY DEF SupportedTo
<1> QED  BY <1>2, <1>3, <1>4, <1>5 DEF GivenAre

LEMMA ErrorType ==
  ASSUME ReportType, NEW label \in Labels, ErrorAdded(label)
  PROVE  /\ room' \in Nat
         /\ errors' \in Seq([label : Labels \union {"missing"}, code : BOOLEAN])
<1> DEFINE keyed == room >= KeyRoom
           left == IF keyed THEN room - KeyRoom ELSE room
           error == [label |-> IF keyed THEN label ELSE "missing", code |-> left >= 1]
           R == [label : Labels \union {"missing"}, code : BOOLEAN]
<1>1. errors' = Append(errors, error) /\ room' = IF left >= 1 THEN left - 1 ELSE left
  BY DEF ErrorAdded
<1>2. KeyRoom \in Nat /\ room \in Nat /\ errors \in Seq(R)
  BY SettingsAssumption DEF ReportType
<1>3. left \in Nat
  BY <1>2
<1>4. error \in R
  OBVIOUS
<1> HIDE DEF error, left, keyed, R
<1>5. room' \in Nat /\ errors' \in Seq(R)
  BY <1>1, <1>2, <1>3, <1>4
<1> QED  BY <1>5 DEF R

\* add_error_to_response, for the setting that is next.
LEMMA ErrorsGrow ==
  ASSUME ReportType, NEW n \in 0..(Len(items) - 1), DoneTo(n),
         items[n + 1].value # "accepted",
         UNCHANGED items, ErrorAdded(items[n + 1].label)
  PROVE  /\ ErrorsAre(FailedTo(n + 1))' /\ Len(errors') = Cardinality(FailedTo(n + 1)')
         /\ HasRoom' => room' = Room - Len(errors') * (KeyRoom + 1)
<1> DEFINE e == Len(errors)
           label == items[n + 1].label
           keyed == room >= KeyRoom
           left == IF keyed THEN room - KeyRoom ELSE room
           error == [label |-> IF keyed THEN label ELSE "missing", code |-> left >= 1]
<1>1. /\ n \in Nat /\ n + 1 \in 1..Len(items) /\ n + 1 \in 0..Len(items) /\ e \in Nat
      /\ Room \in Nat /\ KeyRoom \in Nat /\ room \in Nat /\ label \in Labels
  <2>1. Room \in Nat /\ KeyRoom \in Nat
    BY SettingsAssumption
  <2>2. Len(items) \in Nat /\ items \in Seq(Setting) /\ e \in Nat /\ room \in Nat
    BY DEF ReportType
  <2>3. n \in Nat /\ n + 1 \in 1..Len(items) /\ n + 1 \in 0..Len(items)
    BY <2>2
  <2>4. items[n + 1] \in Setting
    BY <2>2, <2>3
  <2> QED  BY <2>1, <2>2, <2>3, <2>4 DEF Setting
<1>2. errors' = Append(errors, error) /\ room' = IF left >= 1 THEN left - 1 ELSE left
  BY DEF ErrorAdded
<1>3. left \in Nat
  BY <1>1
<1>4. error \in [label : Labels \union {"missing"}, code : BOOLEAN]
  BY <1>1
<1>5. HasRoom => error = [label |-> label, code |-> TRUE] /\ room' = room - (KeyRoom + 1)
  <2> SUFFICES ASSUME HasRoom
               PROVE  error = [label |-> label, code |-> TRUE] /\ room' = room - (KeyRoom + 1)
    OBVIOUS
  <2> DEFINE all == Cardinality(FailedTo(Len(items)))
             c == KeyRoom + 1
  <2>1. /\ Cardinality(FailedTo(n + 1)) = e + 1
        /\ Cardinality(FailedTo(n + 1)) <= all /\ all \in Nat
    BY <1>1, OneMoreDone, FailuresSoFar DEF DoneTo, ReportType
  <2>2. room = Room - e * c /\ Room > all * c
    BY Zenon DEF DoneTo, HasRoom
  <2>7. c \in Nat
    BY <1>1
  <2> HIDE DEF all, c, e
  <2>3. e + 1 <= all /\ e \in Nat /\ all \in Nat /\ c \in Nat
    BY <1>1, <2>1, <2>7
  <2>4. (e + 1) * c <= all * c /\ (e + 1) * c = e * c + c
    BY <2>3
  <2>5. e * c \in Nat /\ all * c \in Nat
    BY <2>3
  <2>6. room >= c
    BY <1>1, <2>2, <2>3, <2>4, <2>5
  <2> HIDE DEF left, keyed, label
  <2>8. /\ keyed = TRUE /\ left = room - KeyRoom /\ (left >= 1) = TRUE
        /\ left - 1 = room - (KeyRoom + 1)
    BY <1>1, <2>6 DEF c, left, keyed
  <2>9. error = [label |-> label, code |-> TRUE]
    BY <2>8
  <2> QED  BY <1>2, <2>8, <2>9
<1> HIDE DEF error, left, keyed
<1>6. /\ Len(errors') = e + 1 /\ errors'[e + 1] = error
      /\ \A k \in 1..e : errors'[k] = errors[k]
  BY <1>2, <1>4 DEF ReportType
<1>7. /\ FailedTo(n + 1) = FailedTo(n) \union {n + 1}
      /\ Cardinality(FailedTo(n + 1)) = e + 1
  BY <1>1, OneMoreDone DEF DoneTo
<1>8. FailedTo(n + 1)' = FailedTo(n + 1) /\ (HasRoom' <=> HasRoom)
  BY DEF FailedTo, HasRoom
<1>9. HasRoom' => room' = Room - Len(errors') * (KeyRoom + 1)
  <2> SUFFICES ASSUME HasRoom PROVE room' = Room - (e + 1) * (KeyRoom + 1)
    BY <1>6, <1>8
  <2> DEFINE c == KeyRoom + 1
  <2>1. room = Room - e * c /\ room' = room - c /\ c \in Nat
    BY <1>1, <1>5 DEF DoneTo
  <2> HIDE DEF c, e
  <2>2. (e + 1) * c = e * c + c /\ e * c \in Nat
    BY <1>1, <2>1
  <2>3. room' = Room - (e + 1) * c
    BY <1>1, <2>1, <2>2
  <2> QED  BY <2>3 DEF c
<1>10. ErrorsAre(FailedTo(n + 1))'
  <2>1. PICK p \in Ascending(e, FailedTo(n)) :
          HasRoom => \A k \in 1..e : errors[k] = [label |-> items[p[k]].label, code |-> TRUE]
    BY DEF DoneTo, ErrorsAre
  <2> DEFINE q == Extended(p, e, n + 1)
  <2>2. q \in Ascending(e + 1, FailedTo(n + 1))
    <3>1. FailedTo(n) \in SUBSET Nat /\ \A x \in FailedTo(n) : x < n + 1
      BY <1>1, OneMoreDone
    <3>2. n + 1 \in Nat /\ e \in Nat
      BY <1>1
    <3> HIDE DEF e
    <3>3. q \in Ascending(e + 1, FailedTo(n) \union {n + 1})
      BY <2>1, <3>1, <3>2, AscendingGrows
    <3> QED  BY <1>7, <3>3
  <2>3. ASSUME HasRoom, NEW k \in 1..(e + 1)
        PROVE  errors'[k] = [label |-> items[q[k]].label, code |-> TRUE]
    <3>1. CASE k = e + 1
      BY <1>1, <1>5, <1>6, <2>3, <3>1 DEF Extended
    <3>2. CASE k # e + 1
      <4>1. k \in 1..e /\ q[k] = p[k]
        BY <1>1, <3>2 DEF Extended
      <4> QED  BY <1>6, <2>1, <2>3, <4>1
    <3> QED  BY <3>1, <3>2
  <2> HIDE DEF q
  <2> QED  BY <1>6, <1>8, <2>2, <2>3 DEF ErrorsAre
<1> QED  BY <1>6, <1>7, <1>8, <1>9, <1>10

LEMMA DoneStays ==
  ASSUME NEW n, DoneTo(n), UNCHANGED <<items, given, errors, room>>
  PROVE  DoneTo(n)'
BY DEF DoneTo, GivenAre, ErrorsAre, HasRoom, SupportedTo, FailedTo

LEMMA ReportInit == Init => ReportInv
<1> SUFFICES ASSUME Init PROVE ReportInv
  OBVIOUS
<1>1. /\ items \in Seq(Setting) /\ item = 0 /\ skipping = FALSE /\ given = <<>> /\ errors = <<>>
      /\ room = Room /\ status = "none" /\ pc = "start" /\ found = {}
  BY InitialSettings DEF Init, MapInit
<1>2. Len(items) \in Nat /\ Room \in Nat /\ KeyRoom \in Nat
  BY <1>1, SettingsAssumption
<1>3. ReportType
  <2>1. room \in Nat /\ skipping \in BOOLEAN
    BY <1>1, <1>2
  <2>2. item \in 0..(Len(items) + 1)
    BY <1>1, <1>2
  <2>3. \A S : <<>> \in Seq(S)
    OBVIOUS
  <2> QED  BY <1>1, <2>1, <2>2, <2>3 DEF ReportType
<1>4. DoneTo(0)
  <2>1. SupportedTo(0) = {} /\ FailedTo(0) = {} /\ Len(given) = 0 /\ Len(errors) = 0
    BY <1>1 DEF SupportedTo, FailedTo
  <2>2. [k \in 1..0 |-> 0] \in Ascending(0, {})
    BY DEF Ascending, Bijection, Injection, Surjection, IsInjective
  <2>3. GivenAre({}) /\ ErrorsAre({})
    BY <2>1, <2>2 DEF GivenAre, ErrorsAre
  <2>4. Cardinality({}) = 0
    BY FS_EmptySet
  <2>5. Room = Room - 0 * (KeyRoom + 1)
    BY <1>2
  <2> QED  BY <1>1, <2>1, <2>3, <2>4, <2>5 DEF DoneTo
<1>5. Position(0)
  BY <1>1 DEF Position
<1> QED  BY <1>1, <1>2, <1>3, <1>4, <1>5 DEF ReportInv

\* While settings_decode runs, "settings" was not met before.
LEMMA SettingsAreNew ==
  ASSUME WalkInv, InSettings, Distinct
  PROVE  "settings" \notin found
<1>1. at <= Len(map) /\ found \subseteq Past
  BY DEF WalkInv, CountsFound, InSettings
<1> QED  BY <1>1, KeyIsNew DEF WalkInv, InSettings

\* The walk goes on, or ends, outside of settings_decode's loop.
LEMMA NothingDone ==
  ASSUME ReportInv, item = 0, pc # "returned",
         UNCHANGED <<items, map, app, response>>, "settings" \in found' <=> "settings" \in found
  PROVE  ReportInv'
<1>1. UNCHANGED <<items, map, item, skipping, given, errors, room, status>>
  BY DEF app, response
<1>2. ReportType' /\ status' # "sent" /\ skipping' = FALSE
  BY <1>1 DEF ReportInv, ReportType
<1>3. Distinct' => \E n \in 0..Len(items') : DoneTo(n)' /\ Position(n)'
  <2> SUFFICES ASSUME Distinct PROVE \E n \in 0..Len(items) : DoneTo(n)' /\ Position(n)'
    BY <1>1 DEF Distinct
  <2>1. PICK n \in 0..Len(items) : DoneTo(n) /\ Position(n)
    BY DEF ReportInv
  <2>2. DoneTo(n)'
    BY <1>1, <2>1, DoneStays
  <2>3. Position(n)'
    BY <1>1, <2>1 DEF Position
  <2> QED  BY <2>2, <2>3
<1> QED  BY <1>1, <1>2, <1>3 DEF ReportInv

LEMMA SettingsStartKeeps ==
  ASSUME WalkInv, ReportInv, SettingsStart
  PROVE  ReportInv'
<1>1. /\ InSettings /\ item = 0 /\ item' = 1 /\ pc = "value"
      /\ UNCHANGED <<items, map, at, found, pc, ret, skipping, given, errors, room, status>>
  BY DEF SettingsStart, InSettings, mapVars, input, response
<1>2. skipping = FALSE /\ Len(items) \in Nat
  BY <1>1 DEF ReportInv, ReportType
<1>3. ReportType' /\ InSettings' /\ status' # "sent"
  BY <1>1, <1>2 DEF ReportInv, ReportType, InSettings
<1>4. Distinct' => \E n \in 0..Len(items') : DoneTo(n)' /\ Position(n)'
  <2> SUFFICES ASSUME Distinct PROVE \E n \in 0..Len(items) : DoneTo(n)' /\ Position(n)'
    BY <1>1 DEF Distinct
  <2>1. PICK n \in 0..Len(items) : DoneTo(n) /\ Position(n)
    BY DEF ReportInv
  <2>2. n = 0 /\ "settings" \notin found
    BY <1>1, <2>1, SettingsAreNew DEF Position
  <2>3. DoneTo(n)'
    BY <1>1, <2>1, DoneStays
  <2>4. Position(n)'
    BY <1>1, <1>2, <2>2 DEF Position
  <2> QED  BY <2>3, <2>4
<1> QED  BY <1>1, <1>2, <1>3, <1>4 DEF ReportInv

LEMMA SettingsBrokenKeeps ==
  ASSUME ReportInv, SettingsBroken
  PROVE  ReportInv'
<1>1. /\ pc = "value" /\ item' = 0 /\ pc' = "returned" /\ ret' = "badmsg"
      /\ UNCHANGED <<items, map, found, skipping, given, errors, room, status>>
  BY DEF SettingsBroken, InSettings, ValueFails, Return, input, response
<1>2. ReportType' /\ status' # "sent"
  BY <1>1 DEF ReportInv, ReportType
<1>3. Distinct' => \E n \in 0..Len(items') : DoneTo(n)' /\ Position(n)'
  <2> SUFFICES ASSUME Distinct PROVE \E n \in 0..Len(items) : DoneTo(n)' /\ Position(n)'
    BY <1>1 DEF Distinct
  <2>1. PICK n \in 0..Len(items) : DoneTo(n) /\ Position(n)
    BY DEF ReportInv
  <2>2. DoneTo(n)'
    BY <1>1, <2>1, DoneStays
  <2>3. Position(n)'
    BY <1>1, <2>1 DEF Position
  <2> QED  BY <2>2, <2>3
<1> QED  BY <1>1, <1>2, <1>3 DEF ReportInv

\* The loop of settings_decode goes on to position m, with one setting done.
LEMMA LoopKeeps ==
  ASSUME WalkInv, ReportInv, InSettings, item \in 1..Len(items), skipping = FALSE,
         UNCHANGED <<items, mapVars, status>>, ReportType',
         \/ item' = item + 1 /\ skipping' = FALSE
         \/ item' = item /\ skipping' = TRUE,
         Distinct /\ DoneTo(item - 1) => \E n \in 0..Len(items) : n = item /\ DoneTo(n)'
  PROVE  ReportInv'
<1>1. items \in Seq(Setting) /\ item \in Nat
  BY DEF ReportInv, ReportType
<1>2. /\ UNCHANGED <<map, at, found, pc, ret>> /\ pc = "value" /\ Len(items) \in Nat
      /\ item' # 0 /\ item = IF skipping' = TRUE THEN item' ELSE item' - 1
      /\ item \in Nat /\ (skipping' = TRUE => item' \in 1..Len(items'))
  <2>1. UNCHANGED <<map, at, found, pc, ret>> /\ pc = "value"
    BY DEF mapVars, input, InSettings
  <2>2. Len(items') = Len(items) /\ Len(items) \in Nat
    BY <1>1
  <2> QED  BY <1>1, <2>1, <2>2
<1>3. InSettings' /\ status' # "sent"
  BY <1>2 DEF InSettings, ReportInv
<1>4. Distinct' => \E n \in 0..Len(items') : DoneTo(n)' /\ Position(n)'
  <2> SUFFICES ASSUME Distinct PROVE \E n \in 0..Len(items) : DoneTo(n)' /\ Position(n)'
    BY <1>2 DEF Distinct
  <2>1. PICK n \in 0..Len(items) : DoneTo(n) /\ Position(n)
    BY DEF ReportInv
  <2>2. n = item - 1
    BY <2>1 DEF Position
  <2>3. PICK k \in 0..Len(items) : k = item /\ DoneTo(k)'
    BY <2>1, <2>2
  <2>4. "settings" \notin found
    BY SettingsAreNew
  <2>5. Position(k)'
    BY <1>2, <2>3, <2>4 DEF Position
  <2> QED  BY <2>3, <2>5
<1> QED  BY <1>2, <1>3, <1>4 DEF ReportInv

\* client->settings.callback was called, and its answer kept.
LEMMA GivenKeeps ==
  ASSUME WalkInv, ReportInv, Given
  PROVE  ReportInv'
<1> PICK n : n = item - 1
  OBVIOUS
<1>1. /\ InSettings /\ item \in 1..Len(items) /\ skipping = FALSE
      /\ UNCHANGED <<items, mapVars, status>>
  BY DEF Given, AtItem, ReportInv, ReportType
<1>2. ReportType /\ items \in Seq(Setting) /\ Len(items) \in Nat
  BY DEF ReportInv, ReportType
<1>3. n \in 0..(Len(items) - 1) /\ n \in Nat /\ item = n + 1 /\ n + 1 \in 0..Len(items)
  BY <1>1, <1>2
<1>4. items[n + 1] \in Setting /\ items[n + 1].label \in Labels /\ items[n + 1].value \in Values
  <2>1. items[n + 1] \in Setting
    BY <1>2, <1>3
  <2> QED  BY <2>1 DEF Setting
<1>5. /\ given' = Append(given, items[n + 1]) /\ items[n + 1].value # "unsupported"
      /\ item' = item + 1 /\ skipping' = FALSE
      /\ IF items[n + 1].value = "refused" THEN ErrorAdded(items[n + 1].label)
                                           ELSE UNCHANGED <<errors, room>>
  BY <1>1, <1>3 DEF Given, Valid
<1>6. ReportType'
  <2>1. given' \in Seq(Setting)
    BY <1>2, <1>4, <1>5 DEF ReportType
  <2>2. /\ room' \in Nat
        /\ errors' \in Seq([label : Labels \union {"missing"}, code : BOOLEAN])
    BY <1>2, <1>4, <1>5, ErrorType DEF ReportType
  <2>3. item' \in 0..(Len(items) + 1)
    BY <1>1, <1>2, <1>5
  <2> QED  BY <1>1, <1>2, <1>5, <2>1, <2>2, <2>3 DEF ReportType
<1>7. ASSUME DoneTo(n) PROVE DoneTo(n + 1)'
  <2>1. GivenAre(SupportedTo(n + 1))'
    BY <1>1, <1>2, <1>3, <1>5, <1>7, GivenGrows DEF DoneTo
  <2>2. CASE items[n + 1].value = "refused"
    BY <1>1, <1>2, <1>3, <1>5, <1>7, <2>1, <2>2, ErrorsGrow DEF DoneTo
  <2>3. CASE items[n + 1].value # "refused"
    <3>1. items[n + 1].value = "accepted" /\ UNCHANGED <<errors, room>>
      BY <1>4, <1>5, <2>3 DEF Values
    <3>2. FailedTo(n + 1) = FailedTo(n) /\ FailedTo(n + 1)' = FailedTo(n + 1)
      BY <1>1, <1>3, <3>1, OneMoreDone DEF FailedTo
    <3>3. HasRoom' <=> HasRoom
      BY <1>1 DEF HasRoom, FailedTo
    <3>4. ErrorsAre(FailedTo(n + 1))'
      <4>1. PICK p \in Ascending(Len(errors), FailedTo(n)) :
              HasRoom => \A k \in 1..Len(errors) :
                           errors[k] = [label |-> items[p[k]].label, code |-> TRUE]
        BY <1>7 DEF DoneTo, ErrorsAre
      <4>2. /\ p \in Ascending(Len(errors'), FailedTo(n + 1)')
            /\ HasRoom' => \A k \in 1..Len(errors') :
                            errors'[k] = [label |-> items'[p[k]].label, code |-> TRUE]
        BY <1>1, <3>1, <3>2, <3>3, <4>1
      <4> QED  BY <4>2 DEF ErrorsAre
    <3> QED  BY <1>7, <2>1, <3>1, <3>2, <3>3, <3>4 DEF DoneTo
  <2> QED  BY <2>2, <2>3
<1>8. DoneTo(item - 1) => \E k \in 0..Len(items) : k = item /\ DoneTo(k)'
  <2>1. item - 1 = n
    BY <1>3
  <2> QED  BY <1>3, <1>7, <2>1
<1> QED  BY <1>1, <1>5, <1>6, <1>8, LoopKeeps

\* The type of the value is not supported.
LEMMA NotGivenKeeps ==
  ASSUME WalkInv, ReportInv, NotGiven
  PROVE  ReportInv'
<1> PICK n : n = item - 1
  OBVIOUS
<1>1. /\ InSettings /\ item \in 1..Len(items) /\ skipping = FALSE
      /\ UNCHANGED <<items, mapVars, status>>
  BY DEF NotGiven, AtItem, ReportInv, ReportType
<1>2. ReportType /\ items \in Seq(Setting) /\ Len(items) \in Nat
  BY DEF ReportInv, ReportType
<1>3. n \in 0..(Len(items) - 1) /\ n \in Nat /\ item = n + 1 /\ n + 1 \in 0..Len(items)
  BY <1>1, <1>2
<1>4. items[n + 1] \in Setting /\ items[n + 1].label \in Labels
  <2>1. items[n + 1] \in Setting
    BY <1>2, <1>3
  <2> QED  BY <2>1 DEF Setting
<1>5. /\ items[n + 1].value = "unsupported" /\ ErrorAdded(items[n + 1].label)
      /\ item' = item /\ skipping' = TRUE /\ given' = given
  BY <1>1, <1>3 DEF NotGiven, Valid
<1>6. ReportType'
  <2>1. /\ room' \in Nat
        /\ errors' \in Seq([label : Labels \union {"missing"}, code : BOOLEAN])
    BY <1>2, <1>4, <1>5, ErrorType
  <2> QED  BY <1>1, <1>2, <1>5, <2>1 DEF ReportType
<1>7. ASSUME DoneTo(n) PROVE DoneTo(n + 1)'
  <2>1. SupportedTo(n + 1) = SupportedTo(n) /\ SupportedTo(n + 1)' = SupportedTo(n + 1)
    BY <1>1, <1>3, <1>5, OneMoreDone DEF SupportedTo
  <2>2. GivenAre(SupportedTo(n + 1))'
    BY <1>1, <1>5, <1>7, <2>1 DEF DoneTo, GivenAre
  <2> QED  BY <1>1, <1>2, <1>3, <1>5, <1>7, <2>2, ErrorsGrow DEF DoneTo
<1>8. DoneTo(item - 1) => \E k \in 0..Len(items) : k = item /\ DoneTo(k)'
  <2>1. item - 1 = n
    BY <1>3
  <2> QED  BY <1>3, <1>7, <2>1
<1> QED  BY <1>1, <1>5, <1>6, <1>8, LoopKeeps

LEMMA SkippedKeeps ==
  ASSUME WalkInv, ReportInv, Skipped
  PROVE  ReportInv'
<1>1. /\ InSettings /\ pc = "value" /\ skipping = TRUE /\ skipping' = FALSE /\ item' = item + 1
      /\ UNCHANGED <<items, map, at, found, pc, ret, given, errors, room, status>>
  BY DEF Skipped, InSettings, mapVars, input, response, ReportInv, ReportType
<1>2. /\ item \in 1..Len(items) /\ Len(items) \in Nat /\ item' # 0 /\ item' - 1 = item
      /\ item' \in 0..(Len(items) + 1)
  BY <1>1 DEF ReportInv, ReportType
<1>3. ReportType' /\ InSettings' /\ status' # "sent"
  BY <1>1, <1>2 DEF ReportInv, ReportType, InSettings
<1>4. Distinct' => \E n \in 0..Len(items') : DoneTo(n)' /\ Position(n)'
  <2> SUFFICES ASSUME Distinct PROVE \E n \in 0..Len(items) : DoneTo(n)' /\ Position(n)'
    BY <1>1 DEF Distinct
  <2>1. PICK n \in 0..Len(items) : DoneTo(n) /\ Position(n)
    BY DEF ReportInv
  <2>2. DoneTo(n)'
    BY <1>1, <2>1, DoneStays
  <2>3. n = item
    BY <1>1, <1>2, <2>1 DEF Position
  <2>4. "settings" \notin found
    BY <1>1, SettingsAreNew
  <2>5. Position(n)'
    BY <1>1, <1>2, <2>3, <2>4 DEF Position
  <2> QED  BY <2>2, <2>5
<1> QED  BY <1>1, <1>3, <1>4 DEF ReportInv

LEMMA SettingsEndKeeps ==
  ASSUME ReportInv, SettingsEnd
  PROVE  ReportInv'
<1>1. /\ pc = "value" /\ pc' = "loop" /\ item = Len(items) + 1 /\ item' = 0 /\ skipping = FALSE
      /\ UNCHANGED <<items, map, skipping, given, errors, room, status>>
  BY DEF SettingsEnd, ValueStored, InSettings, response, ReportInv, ReportType
<1>2. Len(items) \in Nat
  BY DEF ReportInv, ReportType
<1>3. ReportType' /\ status' # "sent"
  BY <1>1, <1>2 DEF ReportInv, ReportType
<1>4. "settings" \in found'
  BY DEF SettingsEnd, InSettings, ValueStored
<1>5. Distinct' => \E n \in 0..Len(items') : DoneTo(n)' /\ Position(n)'
  <2> SUFFICES ASSUME Distinct PROVE \E n \in 0..Len(items) : DoneTo(n)' /\ Position(n)'
    BY <1>1 DEF Distinct
  <2>1. PICK n \in 0..Len(items) : DoneTo(n) /\ Position(n)
    BY DEF ReportInv
  <2>2. DoneTo(n)'
    BY <1>1, <2>1, DoneStays
  <2>3. n = Len(items)
    BY <1>1, <1>2, <2>1 DEF Position
  <2>4. Position(n)'
    BY <1>1, <1>4, <2>3 DEF Position
  <2> QED  BY <2>2, <2>4
<1> QED  BY <1>1, <1>3, <1>5 DEF ReportInv

LEMMA FinalizeKeeps ==
  ASSUME ReportInv, Finalize
  PROVE  ReportInv'
<1>1. /\ pc = "returned"
      /\ UNCHANGED <<items, map, found, pc, ret, item, skipping, given, errors, room>>
      /\ status' = "sent" => ret = "ok"
  BY DEF Finalize, MaySend, mapVars, input, app
<1>2. ReportType' /\ item = 0
  BY <1>1 DEF ReportInv, ReportType, InSettings
<1>3. Distinct' => \E n \in 0..Len(items') : DoneTo(n)' /\ Position(n)'
  <2> SUFFICES ASSUME Distinct PROVE \E n \in 0..Len(items) : DoneTo(n)' /\ Position(n)'
    BY <1>1 DEF Distinct
  <2>1. PICK n \in 0..Len(items) : DoneTo(n) /\ Position(n)
    BY DEF ReportInv
  <2>2. DoneTo(n)'
    BY <1>1, <2>1, DoneStays
  <2>3. Position(n)'
    BY <1>1, <2>1 DEF Position
  <2> QED  BY <2>2, <2>3
<1> QED  BY <1>1, <1>2, <1>3 DEF ReportInv

LEMMA ReportStep == WalkInv /\ ReportInv /\ [Next]_vars => ReportInv'
<1> SUFFICES ASSUME WalkInv, ReportInv, [Next]_vars PROVE ReportInv'
  OBVIOUS
<1>1. CASE Walk /\ UNCHANGED <<items, app, response>>
  <2>1. pc \notin {"value", "returned"} /\ UNCHANGED <<map, found>>
    BY <1>1 DEF Walk, MapStart, Broken, Skip, KeyFound, LoopEnd, MapEnd, input
  <2>2. item = 0
    BY <2>1 DEF ReportInv, InSettings
  <2> QED  BY <1>1, <2>1, <2>2, NothingDone
<1>2. CASE Version
  <2>1. pc = "value" /\ ~InSettings /\ UNCHANGED <<items, map, app, response>>
    BY <1>2 DEF Version, InSettings, ValueStored, ValueFails, input
  <2>2. "settings" \in found' <=> "settings" \in found
    BY <1>2 DEF Version, ValueStored, ValueFails
  <2> QED  BY <2>1, <2>2, NothingDone DEF ReportInv
<1>3. CASE SettingsNil
  <2>1. item = 0 /\ pc = "value" /\ UNCHANGED <<items, map, found, app, response>>
    BY <1>3 DEF SettingsNil, ValueFails, input
  <2> QED  BY <2>1, NothingDone
<1>4. CASE UNCHANGED vars
  <2>1. UNCHANGED <<items, map, at, found, pc, ret, item, skipping, given, errors, room, status>>
    BY <1>4 DEF vars, mapVars, input, app, response
  <2>2. ReportType' /\ (InSettings' <=> InSettings) /\ (Distinct' <=> Distinct)
    BY <2>1 DEF ReportInv, ReportType, InSettings, Distinct
  <2>3. \A n : (DoneTo(n) => DoneTo(n)') /\ (Position(n) => Position(n)')
    BY <2>1, DoneStays DEF Position
  <2> QED  BY <2>1, <2>2, <2>3 DEF ReportInv
<1> QED
  BY <1>1, <1>2, <1>3, <1>4, SettingsStartKeeps, SettingsBrokenKeeps, GivenKeeps,
     NotGivenKeeps, SkippedKeeps, SettingsEndKeeps, FinalizeKeeps
     DEF Next, Decode, SettingsDecode

\* The invariant: up to where the settings are done, at each point of on_setting.
THEOREM ReportInvariant == Spec => [](WalkInv /\ ReportInv)
<1>1. Spec => []WalkInv
  BY SettingsDecodesMap, WalkInvariant
<1>2. WalkInv /\ ReportInv /\ [Next]_vars => ReportInv'
  BY ReportStep
<1> QED  BY <1>1, <1>2, ReportInit, PTL DEF Spec

\* StatusFaithful for any names, number of settings and sizes: a status that is sent
\* is about every setting of the notification.
THEOREM StatusIsFaithful == Spec => []StatusFaithful
<1>1. WalkInv /\ ReportInv => StatusFaithful
  <2> SUFFICES ASSUME WalkInv, ReportInv, Distinct, status = "sent"
               PROVE  /\ "version" \in found
                      /\ GivenAre(SupportedTo(Len(items))) /\ ErrorsAre(FailedTo(Len(items)))
    BY DEF StatusFaithful
  <2>1. decoded = Cardinality(found) /\ decoded = Cardinality(Wanted)
    BY DEF ReportInv, WalkInv, CountsFound, Judged, Enough
  <2>2. found = {"settings", "version"}
    BY <2>1, WantedCount, SettingsAssumption DEF WalkInv, TypeOK
  <2>3. PICK n \in 0..Len(items) : DoneTo(n) /\ Position(n)
    BY DEF ReportInv
  <2>4. n = Len(items)
    BY <2>2, <2>3 DEF Position
  <2> QED  BY <2>2, <2>3, <2>4 DEF DoneTo
<1> QED  BY <1>1, ReportInvariant, PTL

\* GivenInOrder for any notification, wherever decoding ends.
THEOREM EachGivenInOrder == Spec => []GivenInOrder
<1>1. ReportInv => GivenInOrder
  BY DEF ReportInv, DoneTo, GivenInOrder
<1> QED  BY <1>1, ReportInvariant, PTL
=============================================================================
