---------------------------- MODULE ReqContract ----------------------------
(***************************************************************************)
(* What golioth_coap_req_cb and the callback type golioth_req_cb_t promise *)
(* to the callers of the request engine, without lists, timers or packets. *)
(*                                                                         *)
(* A request is refused at once or accepted.  An accepted request may be   *)
(* handed parts of its response in order; it ends exactly once, for one    *)
(* reason.  When the link closes every open request ends with "shutdown"   *)
(* before the link is down, and none is accepted meanwhile.                *)
(***************************************************************************)
EXTENDS Naturals, Sequences

CONSTANTS OneShots, Observes, NBlocks

VARIABLES
  link,   \* is the engine connected, and is it being shut down
  fate,   \* of each request: unused, rejected, open, or why it ended
  seen    \* blocks handed to the callbacks

cvars == <<link, fate, seen>>

Requests == OneShots \union Observes
Reasons == {"ok", "error", "ack", "refused", "timedout", "shutdown"}

Open == {r \in Requests : fate[r] = "open"}

\* At most one new request, by an application or by a callback.
NewRequests ==
  {{}} \union {{n} : n \in {r \in Requests : fate[r] = "unused"}}

Answer(n) == IF link = "up" THEN "open" ELSE "rejected"

Init ==
  /\ link = "down"
  /\ fate = [r \in Requests |-> "unused"]
  /\ seen = [r \in OneShots |-> <<>>]

\* golioth_coap_req_cb returns 0 or -ENETDOWN.
Request(N) ==
  /\ fate' = [r \in Requests |-> IF r \in N THEN Answer(r) ELSE fate[r]]
  /\ UNCHANGED <<link, seen>>

\* Another block of the response; the callback may make a request.
More(r, N) ==
  /\ r \in OneShots \intersect Open
  /\ link = "up"
  /\ Len(seen[r]) + 1 < NBlocks[r]
  /\ seen' = [seen EXCEPT ![r] = Append(@, Len(@))]
  /\ fate' = [n \in Requests |-> IF n \in N THEN Answer(n) ELSE fate[n]]
  /\ UNCHANGED link

\* The final callback.  A complete response comes with its last block; one the
\* callback refuses comes with a block that is not the last.
End(r, why, N) ==
  /\ r \in Open
  /\ why = "shutdown" <=> link = "closing"
  /\ IF why \in {"ok", "refused"}
       THEN /\ r \in OneShots
            /\ why = "ok" <=> Len(seen[r]) + 1 = NBlocks[r]
            /\ seen' = [seen EXCEPT ![r] = Append(@, Len(@))]
       ELSE UNCHANGED seen
  /\ fate' = [n \in Requests |-> IF n = r THEN why
                                 ELSE IF n \in N THEN Answer(n) ELSE fate[n]]
  /\ UNCHANGED link

GoUp == link = "down" /\ link' = "up" /\ UNCHANGED <<fate, seen>>
GoDown == link = "up" /\ link' = "closing" /\ UNCHANGED <<fate, seen>>
Down == link = "closing" /\ Open = {} /\ link' = "down" /\ UNCHANGED <<fate, seen>>

Next ==
  \/ GoUp \/ GoDown \/ Down
  \/ \E N \in NewRequests :
       \/ Request(N)
       \/ \E r \in Requests : More(r, N) \/ \E why \in Reasons : End(r, why, N)

Spec == Init /\ [][Next]_cvars
=============================================================================
