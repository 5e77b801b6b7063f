---------------------------- MODULE MCLogBackend ----------------------------
(* The client core and the log backend on a small instance. *)
EXTENDS LogBackend

CONSTANTS client, core, panicker, app, none, nofd, f1, f2

Message(room, text, func, data) == [room |-> room, text |-> text, func |-> func, data |-> data]

\* A short text; one with a function, cut or whole, with a hexdump that is cut; one
\* that fills the packet before the hexdump; one cut right behind the colon.
MCMessages ==
  {Message(40, 6, 0, 0), Message(30, 20, 3, 0), Message(60, 26, 4, 30),
   Message(20, 30, 0, 4), Message(26, 20, 3, 0)}
=============================================================================
