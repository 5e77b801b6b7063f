------------------------------ MODULE Settings ------------------------------
(***************************************************************************)
(* The settings service (settings.c): a notification is decoded with       *)
(* zcbor_map_decode, each setting is handed to the application while it is *)
(* decoded, failures are collected in the buffer of the response, and the  *)
(* response is sent if all of the notification could be decoded.           *)
(*                                                                         *)
(* Notifications are handled one after the other and leave nothing behind, *)
(* so one of them is enough.  Errors reported on the observation and the   *)
(* "OK" that answers it end on_setting at once and are left out.           *)
(***************************************************************************)
EXTENDS MapDecode, Sequences, SequencesExt

CONSTANTS
  Labels,   \* names of settings
  MaxItems, \* bound: settings in a notification
  Room,     \* room in settings_response.buf
  KeyRoom   \* what a name takes of it, an error code or the version taking 1

ASSUME SettingsAssumption ==
  /\ {MaxItems, Room, KeyRoom} \subseteq Nat
  /\ Wanted = {"settings", "version"}

VARIABLES
  items,    \* the settings of the notification
  item,     \* position in items, 0 outside of settings_decode
  skipping, \* a value of another type is to be skipped
  given,    \* settings given to the application, with its answer
  errors,   \* what the response says of errors
  room,     \* what is left of the buffer
  status    \* of the response: none, sent, refused by the engine, dropped

app == <<item, skipping, given>>
response == <<errors, room, status>>
vars == <<items, mapVars, app, response>>

\* A setting's value is one the application accepts or refuses, one of a type
\* that is not supported.
Values == {"accepted", "refused", "unsupported"}

Init ==
  /\ items \in BoundedSeq([label : Labels, value : Values], MaxItems)
  /\ MapInit
  /\ item = 0 /\ skipping = FALSE /\ given = <<>>
  /\ errors = <<>> /\ room = Room /\ status = "none"

-----------------------------------------------------------------------------
(* settings_decode, the decode callback of "settings".                     *)
InSettings == pc = "value" /\ map[at] = "settings"

\* nil stands for no settings.
SettingsNil ==
  /\ InSettings /\ items = <<>> /\ item = 0
  /\ ValueFails("noent")
  /\ UNCHANGED <<items, app, response>>

SettingsStart ==
  /\ InSettings /\ item = 0
  /\ item' = 1
  /\ UNCHANGED <<items, mapVars, skipping, given, response>>

\* The list, a name, a value that is to be skipped or the end is not CBOR.
SettingsBroken ==
  /\ InSettings
  /\ ValueFails("badmsg")
  /\ item' = 0
  /\ UNCHANGED <<items, skipping, given, response>>

\* add_error_to_response does not look at what the puts return: each takes room
\* or leaves nothing.  Mistaken: nothing is added.
NoErrorAdded(label) == UNCHANGED <<errors, room>>
ErrorAdded(label) ==
  LET keyed == room >= KeyRoom
      left == IF keyed THEN room - KeyRoom ELSE room
  IN /\ errors' = Append(errors,
                         [label |-> IF keyed THEN label ELSE "missing", code |-> left >= 1])
     /\ room' = IF left >= 1 THEN left - 1 ELSE left

AtItem == InSettings /\ item \in 1..Len(items) /\ ~skipping

\* data_type_valid; mistaken: set for every type.
ValidAlways(value) == TRUE
Valid(value) == value # "unsupported"

\* client->settings.callback.
Given ==
  /\ AtItem /\ Valid(items[item].value)
  /\ given' = Append(given, items[item])
  /\ IF items[item].value = "refused" THEN ErrorAdded(items[item].label)
                                      ELSE UNCHANGED <<errors, room>>
  /\ item' = item + 1
  /\ UNCHANGED <<items, mapVars, skipping, status>>

NotGiven ==
  /\ AtItem /\ ~Valid(items[item].value)
  /\ ErrorAdded(items[item].label)
  /\ skipping' = TRUE
  /\ UNCHANGED <<items, mapVars, item, given, status>>

\* zcbor_any_skip.
Skipped ==
  /\ InSettings /\ skipping
  /\ skipping' = FALSE /\ item' = item + 1
  /\ UNCHANGED <<items, mapVars, given, response>>

SettingsEnd ==
  /\ InSettings /\ item = Len(items) + 1 /\ ~skipping
  /\ ValueStored
  /\ item' = 0
  /\ UNCHANGED <<items, skipping, given, response>>

SettingsDecode ==
  SettingsNil \/ SettingsStart \/ SettingsBroken \/ Given \/ NotGiven \/ Skipped
    \/ SettingsEnd

-----------------------------------------------------------------------------
(* on_setting.                                                             *)

\* zcbor_map_int64_decode of the version.
Version ==
  /\ pc = "value" /\ map[at] = "version"
  /\ ValueStored \/ ValueFails("badmsg")
  /\ UNCHANGED <<items, app, response>>

Decode == (Walk /\ UNCHANGED <<items, app, response>>) \/ Version \/ SettingsDecode

\* Mistaken: an error of the map does not end on_setting.
SendAnyway == TRUE
MaySend == ret = "ok"

\* finalize_and_send_response, which the engine may refuse.
Finalize ==
  /\ pc = "returned" /\ status = "none"
  /\ status' \in IF MaySend /\ room >= 1
                  THEN {"sent", "refused"} ELSE {"dropped"}
  /\ UNCHANGED <<items, mapVars, app, errors, room>>

Next == Decode \/ Finalize

Spec == Init /\ [][Next]_vars

-----------------------------------------------------------------------------
\* Positions of the settings that are supported, and of those that fail.
SupportedTo(n) == {i \in 1..n : items[i].value # "unsupported"}
FailedTo(n) == {i \in 1..n : items[i].value # "accepted"}

\* The buffer takes all failures and the version.
HasRoom == Room > Cardinality(FailedTo(Len(items))) * (KeyRoom + 1)

\* The numbers of a set in ascending order.
Ascending(n, S) ==
  {p \in Bijection(1..n, S) : \A j, k \in 1..n : j < k => p[j] < p[k]}

\* The settings given are those at the positions in S, in the order of the
\* notification; the failures in the response are, and if the buffer is large
\* enough each is there under its name.
GivenAre(S) ==
  \E p \in Ascending(Len(given), S) : \A k \in 1..Len(given) : given[k] = items[p[k]]
ErrorsAre(S) ==
  \E p \in Ascending(Len(errors), S) :
    HasRoom => \A k \in 1..Len(errors) :
                 errors[k] = [label |-> items[p[k]].label, code |-> TRUE]

\* A status that is sent is about all of the notification, if no key is in it
\* twice: every setting was given to the application or found to be of a wrong
\* type, and exactly those that failed are listed (finalize_and_send_response).
\* A buffer that is too small takes errors without their names, since
\* add_error_to_response ignores failures.
StatusFaithful ==
  Distinct /\ status = "sent" =>
    /\ "version" \in found
    /\ GivenAre(SupportedTo(Len(items))) /\ ErrorsAre(FailedTo(Len(items)))

\* No setting is given to the application more often or in another order than the
\* notification has it, wherever decoding ends (settings_decode), if "settings"
\* is there once.
GivenInOrder == Distinct => \E n \in 0..Len(items) : GivenAre(SupportedTo(n))
=============================================================================
