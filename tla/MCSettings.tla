---------------------------- MODULE MCSettings ----------------------------
(* Settings on small instances: maps of up to three entries, which may have a
   key twice, and notifications of up to three settings. *)
EXTENDS Settings

MCKeys == Wanted \union {"other"}
MCMaps == BoundedSeq(MCKeys, 3)
=============================================================================
