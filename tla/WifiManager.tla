---------------------------- MODULE WifiManager ----------------------------
(***************************************************************************)
(* The Wi-Fi manager of samples/common/wifi.c: callbacks of the network    *)
(* management thread keep three bits of network state up to date; two work *)
(* items on one queue turn changes of them into an event, kept in a single *)
(* slot, and the event into a transition of a state map.                   *)
(*                                                                         *)
(* No entry of the map leads to DISCONNECTING and nothing sets             *)
(* WIFI_FLAG_RECONNECT, so wifi_disconnect and the request made on that    *)
(* flag are never reached and are left out.                                *)
(***************************************************************************)
EXTENDS Naturals, Sequences, SequencesExt

CONSTANT MaxEvents  \* bound: management events not yet delivered

ASSUME DriverAssumption == MaxEvents \in Nat \ {0, 1}

VARIABLES
  net, old,  \* net_state and net_state_old, as sets of bits
  state,     \* wifi_mgmt->state
  event,     \* wifi_mgmt->event
  queue,     \* the work queue: net for net_mgmt_event_work, event for event_work
  step,      \* what the queue's thread still has to do of the item it runs
  seen,      \* net_state as net_mgmt_event_handle read it
  lower,     \* NET_IF_LOWER_UP
  link,      \* the driver's connection
  addr,      \* the interface has an IPv4 address
  mgmt       \* management events raised and not delivered

manager == <<old, state, event>>
driver == <<link, addr>>
vars == <<net, manager, queue, step, seen, lower, driver, mgmt>>

\* wifi_state_change_map.  WAIT keeps the state, after a pause, and runs its
\* action again; 0 is "nothing to do".
States == {"IDL", "LUP", "CON", "DIS", "RDY"}
Row(idl, lup, con, dis, rdy) ==
  [s \in States |-> CASE s = "IDL" -> idl [] s = "LUP" -> lup [] s = "CON" -> con
                      [] s = "DIS" -> dis [] s = "RDY" -> rdy]
\* MapFromLowerUp, mistaken: a lost address starts over from the interface.
MapFromLowerUp == [
  start        |-> Row("LUP", "WAIT", "INV", "INV", "INV"),
  lower_up     |-> Row("INV", "CON", "INV", "INV", "INV"),
  connected    |-> Row("INV", "INV", "0", "WAIT", "0"),
  disconnected |-> Row("INV", "INV", "WAIT", "IDL", "CON"),
  ip_add       |-> Row("INV", "INV", "RDY", "RDY", "0"),
  ip_del       |-> Row("INV", "INV", "0", "0", "LUP")]
Map == [
  start        |-> Row("LUP", "WAIT", "INV", "INV", "INV"),
  lower_up     |-> Row("INV", "CON", "INV", "INV", "INV"),
  connected    |-> Row("INV", "INV", "0", "WAIT", "0"),
  disconnected |-> Row("INV", "INV", "WAIT", "IDL", "CON"),
  ip_add       |-> Row("INV", "INV", "RDY", "RDY", "0"),
  ip_del       |-> Row("INV", "INV", "0", "0", "CON")]

\* k_work_submit_to_queue of an item that may be in the queue.
With(q, item) == IF Contains(q, item) THEN q ELSE Append(q, item)

\* wifi_event_notify, from the thread of the queue.
Notify(e, q) == event' = e /\ queue' = With(q, "event")

\* wifi_mgmt_init.  It submits the first event once more after the links of its
\* context are set up: the item is still in the queue, whose thread has a lower
\* priority than main by default, and the second submission changes nothing.
Init ==
  /\ net = {} /\ old = {} /\ state = "IDL"
  /\ event = "start" /\ queue = <<"event">> /\ step = "idle" /\ seen = {}
  /\ lower = FALSE /\ link = "down" /\ addr = FALSE /\ mgmt = <<>>

-----------------------------------------------------------------------------
(* net_mgmt_event_handle.                                                  *)

\* Mistaken: the address is looked at last.
ChangeLinkFirst ==
  IF "conn" \in seen THEN IF "conn" \in old THEN "ip_del" ELSE "connected"
  ELSE IF "ip" \in seen THEN "ip_add" ELSE "disconnected"
Change ==
  IF "ip" \in seen THEN "ip_add"
  ELSE IF "conn" \in seen THEN IF "conn" \in old THEN "ip_del" ELSE "connected"
  ELSE "disconnected"

\* What net_state_old becomes; mistaken: what net_state is by then, with changes
\* that were not looked at.
HandledNewest == net
Handled == seen

NetUnchanged ==
  /\ step = "idle" /\ queue # <<>> /\ Head(queue) = "net" /\ old = net
  /\ queue' = Tail(queue)
  /\ UNCHANGED <<net, manager, step, seen, lower, driver, mgmt>>

\* The state is read once; the management thread may change it, and queue the
\* item again, before the event for it is in the slot.
NetRead ==
  /\ step = "idle" /\ queue # <<>> /\ Head(queue) = "net" /\ old # net
  /\ seen' = net /\ step' = "changed"
  /\ queue' = Tail(queue)
  /\ UNCHANGED <<net, manager, lower, driver, mgmt>>

NetChanged ==
  /\ step = "changed"
  /\ Notify(Change, queue)
  /\ old' = Handled
  /\ step' = "idle"
  /\ UNCHANGED <<net, state, seen, lower, driver, mgmt>>

-----------------------------------------------------------------------------
(* wifi_event_handle.                                                      *)
Action(s) == CASE s = "LUP" -> "check" [] s = "CON" -> "connect" [] OTHER -> "idle"

EventIgnored ==
  /\ step = "idle" /\ queue # <<>> /\ Head(queue) = "event"
  /\ Map[event][state] \in {"0", "INV"}
  /\ queue' = Tail(queue)
  /\ UNCHANGED <<net, manager, step, seen, lower, driver, mgmt>>

EventHandled ==
  /\ step = "idle" /\ queue # <<>> /\ Head(queue) = "event"
  /\ Map[event][state] \notin {"0", "INV"}
  /\ LET m == Map[event][state] IN state' = IF m = "WAIT" THEN state ELSE m
  /\ step' = Action(state')
  /\ queue' = Tail(queue)
  /\ UNCHANGED <<net, old, event, seen, lower, driver, mgmt>>

\* wifi_check_lower_up.
CheckLowerUp ==
  /\ step = "check"
  /\ Notify(IF lower THEN "lower_up" ELSE "start", queue)
  /\ step' = "idle"
  /\ UNCHANGED <<net, old, state, seen, lower, driver, mgmt>>

\* wifi_mgmt_connecting_update.
Connecting(bits) == bits \union {"connecting"}
NotConnecting(bits) == bits \ {"connecting"}

\* wifi_connect up to the request.
SetConnecting ==
  /\ step = "connect"
  /\ net' = Connecting(net) /\ old' = Connecting(old)
  /\ step' = "request"
  /\ UNCHANGED <<state, event, queue, seen, lower, driver, mgmt>>

\* NET_REQUEST_WIFI_CONNECT; drivers differ in the answer while they join.
Request ==
  /\ step = "request"
  /\ \/ link = "down" /\ link' = "joining" /\ step' = "idle"
     \/ link # "up" /\ step' = "refused" /\ UNCHANGED link
     \/ link # "down" /\ step' = "already" /\ UNCHANGED link
  /\ UNCHANGED <<net, manager, queue, seen, lower, addr, mgmt>>

\* -EALREADY, or another error.
Answered ==
  /\ step \in {"already", "refused"}
  /\ net' = NotConnecting(net) /\ old' = NotConnecting(old)
  /\ IF step = "already" THEN Notify("connected", queue) ELSE Notify("disconnected", queue)
  /\ step' = "idle"
  /\ UNCHANGED <<state, seen, lower, driver, mgmt>>

WorkQueue ==
  \/ NetUnchanged \/ NetRead \/ NetChanged \/ EventIgnored \/ EventHandled
  \/ CheckLowerUp \/ SetConnecting \/ Request \/ Answered

-----------------------------------------------------------------------------
(* wifi_mgmt_event_handler and ipv4_changed, on the management thread.     *)
Updated(e) ==
  CASE e = "joined" -> (net \ {"connecting"}) \union {"conn"}
    [] e \in {"failed", "lost"} -> net \ {"conn", "connecting", "ip"}
    [] e = "addr_add" -> net \union {"ip"}
    [] e = "addr_del" -> net \ {"ip"}

Deliver ==
  /\ mgmt # <<>>
  /\ net' = Updated(Head(mgmt)) /\ mgmt' = Tail(mgmt)
  /\ queue' = With(queue, "net")
  /\ UNCHANGED <<manager, step, seen, lower, driver>>

-----------------------------------------------------------------------------
(* The driver and DHCP.                                                    *)
Raise(es) == Len(mgmt) + Len(es) <= MaxEvents /\ mgmt' = mgmt \o es

LowerUp ==
  /\ ~lower /\ lower' = TRUE
  /\ UNCHANGED <<net, manager, queue, step, seen, driver, mgmt>>

Joined ==
  /\ link = "joining" /\ link' = "up" /\ Raise(<<"joined">>)
  /\ UNCHANGED <<net, manager, queue, step, seen, lower, addr>>

JoinFails ==
  /\ link = "joining" /\ link' = "down" /\ Raise(<<"failed">>)
  /\ UNCHANGED <<net, manager, queue, step, seen, lower, addr>>

\* The access point is gone; the address goes with it, before or after.
Lost ==
  /\ link = "up" /\ link' = "down" /\ addr' = FALSE
  /\ IF addr THEN Raise(<<"addr_del", "lost">>) \/ Raise(<<"lost", "addr_del">>)
             ELSE Raise(<<"lost">>)
  /\ UNCHANGED <<net, manager, queue, step, seen, lower>>

AddrAdded ==
  /\ link = "up" /\ ~addr /\ addr' = TRUE /\ Raise(<<"addr_add">>)
  /\ UNCHANGED <<net, manager, queue, step, seen, lower, link>>

AddrRemoved ==
  /\ addr /\ addr' = FALSE /\ Raise(<<"addr_del">>)
  /\ UNCHANGED <<net, manager, queue, step, seen, lower, link>>

Next ==
  \/ WorkQueue \/ Deliver
  \/ LowerUp \/ Joined \/ JoinFails \/ AddrAdded \/ AddrRemoved \/ Lost

Spec == Init /\ [][Next]_vars

\* The two threads are scheduled; the interface comes up, a join ends, DHCP
\* answers, and a driver asked for ever does not always refuse.
FairSpec ==
  /\ Spec
  /\ WF_vars(WorkQueue) /\ WF_vars(Deliver) /\ WF_vars(LowerUp)
  /\ WF_vars(Joined \/ JoinFails) /\ WF_vars(AddrAdded)
  /\ SF_vars(Request /\ link' = "joining")

-----------------------------------------------------------------------------
\* All that was raised has been delivered and handled.
Quiet == mgmt = <<>> /\ queue = <<>> /\ step = "idle"

\* When all is handled, whatever was coalesced in net_state or overwritten in the
\* slot: with an address the manager is READY, and without a link it is not.
\* READY on a link without an address is possible: see README.md, section 3.
ReadyIsConnected ==
  Quiet => (addr => state = "RDY") /\ (state = "RDY" => link = "up")

\* CHANGELOG.md:16, "WiFi state machine (with implemented reconnects)": the
\* manager never rests while the link is down.
Reconnects == Quiet => link # "down"

\* wifi_event_handle reports an invalid event for none of the states it is in.
NoInvalidEvent ==
  step = "idle" /\ queue # <<>> /\ Head(queue) = "event" => Map[event][state] # "INV"

\* Once links stay up and joins succeed, whatever was refused, failed, lost or
\* taken away before only delays the manager: it becomes READY for good, or it is
\* where Reconnects does not hold.
BecomesReady ==
  <>[][~(JoinFails \/ AddrRemoved \/ Lost)]_vars =>
    <>[](state = "RDY") \/ <>[](Quiet /\ state = "CON" /\ link = "down")
=============================================================================
