----------------------------- MODULE MCCoapReqs -----------------------------
(* CoapReqs on small instances. *)
EXTENDS CoapReqs, TLC

CONSTANTS get, put, obs

\* A transfer of two blocks beside a request answered in one packet.
MCBlocks == [r \in OneShots |-> IF r = get THEN 2 ELSE 1]
=============================================================================
