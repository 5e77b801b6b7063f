----------------------------- MODULE MapDecode -----------------------------
(***************************************************************************)
(* zcbor_map_decode (zcbor_utils.c): walks over the entries of a CBOR map, *)
(* gives the values of wanted keys to their decode callbacks and skips the *)
(* others.  A map is the sequence of its keys, of the wanted ones' type;   *)
(* values are the business of the callbacks, which return 0 or an error.   *)
(***************************************************************************)
EXTENDS Naturals, Sequences, FiniteSets, Functions

CONSTANTS
  Wanted,   \* keys of the entries array
  Keys,     \* keys of the maps that are received
  Maps      \* those maps

ASSUME MapsAssumption ==
  IsFiniteSet(Wanted) /\ Wanted # {} /\ Wanted \subseteq Keys /\ Maps \subseteq Seq(Keys)

VARIABLES
  map,      \* the map received
  at,       \* position of the next key
  decoded,  \* num_decoded
  found,    \* keys whose value was stored
  intact,   \* nothing has failed to decode
  pc,       \* start, loop, value (in a decode callback), end or returned
  ret       \* 0 as ok, -EBADMSG as badmsg, -ENOENT as noent

input == <<map, at>>
mapVars == <<input, decoded, found, intact, pc, ret>>

MapInit ==
  /\ map \in Maps /\ at = 1 /\ decoded = 0 /\ found = {}
  /\ intact = TRUE /\ pc = "start" /\ ret = "ok"

Return(err) == pc' = "returned" /\ ret' = err

\* What is not CBOR, or not what is expected, at any step.
Broken ==
  /\ pc \in {"start", "loop", "end"}
  /\ pc = "loop" => decoded < Cardinality(Wanted) /\ at <= Len(map)
  /\ Return("badmsg") /\ intact' = FALSE
  /\ UNCHANGED <<input, decoded, found>>

MapStart ==
  /\ pc = "start" /\ pc' = "loop"
  /\ UNCHANGED <<input, decoded, found, intact, ret>>

\* The loop's condition; mistaken: keys are sought in the whole map only while
\* none was decoded.
WantsMoreFirst == decoded < 1
WantsMore == decoded < Cardinality(Wanted)

Skip ==
  /\ pc = "loop" /\ WantsMore /\ at <= Len(map) /\ map[at] \notin Wanted
  /\ at' = at + 1
  /\ UNCHANGED <<map, decoded, found, intact, pc, ret>>

KeyFound ==
  /\ pc = "loop" /\ WantsMore /\ at <= Len(map) /\ map[at] \in Wanted
  /\ pc' = "value"
  /\ UNCHANGED <<input, decoded, found, intact, ret>>

\* entry->decode returns.
ValueStored ==
  /\ pc = "value" /\ pc' = "loop"
  /\ decoded' = decoded + 1 /\ found' = found \union {map[at]} /\ at' = at + 1
  /\ UNCHANGED <<map, intact, ret>>

ValueFails(err) ==
  /\ pc = "value" /\ Return(err) /\ intact' = FALSE
  /\ UNCHANGED <<input, decoded, found>>

\* After the loop; mistaken: some wanted key is enough.
EnoughIfAny == decoded > 0
Enough == decoded = Cardinality(Wanted)

LoopEnd ==
  /\ pc = "loop" /\ (~WantsMore \/ at > Len(map))
  /\ IF Enough THEN pc' = "end" /\ UNCHANGED ret
     ELSE IF decoded = 0 THEN pc' = "end" /\ ret' = "noent"
     ELSE Return("badmsg")
  /\ UNCHANGED <<input, decoded, found, intact>>

MapEnd ==
  /\ pc = "end" /\ Return(ret)
  /\ UNCHANGED <<input, decoded, found, intact>>

Walk == MapStart \/ Broken \/ Skip \/ KeyFound \/ LoopEnd \/ MapEnd

MapNext == Walk \/ ValueStored \/ \E err \in {"badmsg", "noent"} : ValueFails(err)

MapSpec == MapInit /\ [][MapNext]_mapVars

-----------------------------------------------------------------------------
\* No key occurs twice.
Distinct == IsInjective(map)

\* zcbor_utils.h:80, "All specified entries need to exist in processed CBOR
\* map": 0 means that every value was stored, if no key occurs twice.  A key that
\* does counts twice (num_decoded), and may stand for one that is missing.
DistinctMeansAll == Distinct /\ pc = "returned" /\ ret = "ok" => found = Wanted

\* A well-formed map with every wanted key is accepted, in whatever order its
\* keys are and whatever else it has; one that has some only is refused, and one
\* that has none is reported as empty.
WellFormedIsJudged ==
  pc = "returned" /\ intact /\ Distinct =>
    LET has == Wanted \intersect Range(map) IN
    ret = IF has = Wanted THEN "ok" ELSE IF has = {} THEN "noent" ELSE "badmsg"
=============================================================================
