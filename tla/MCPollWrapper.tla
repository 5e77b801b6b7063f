--------------------------- MODULE MCPollWrapper ---------------------------
(* PollWrapper on small instances. *)
EXTENDS PollWrapper

CONSTANTS t1, t2, c1, c2, f1, f2
=============================================================================
