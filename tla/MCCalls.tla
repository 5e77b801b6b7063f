------------------------------ MODULE MCCalls ------------------------------
(* Calls on a small instance: two threads and a callback that register for a
   table of two, and two callers of golioth_lightdb_get. *)
EXTENDS Calls, TLC

CONSTANTS t1, t2, client, none, big, tight

MCNames == {"reboot", "led"}

\* Every choice of names, up to a permutation of the names or of the threads.
MCNew ==
  {[t \in Registrars |-> IF t \in other THEN "led" ELSE "reboot"] :
     other \in {{}, {client}, {t1}}}

\* The response has two blocks.  big's buffer holds it, tight's only the first.
MCBlocks == big :> 2 @@ tight :> 2
MCBuffers == big :> 2 @@ tight :> 1
=============================================================================
