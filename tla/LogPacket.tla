----------------------------- MODULE LogPacket -----------------------------
(***************************************************************************)
(* How log_msg_process writes a message into the rest of a packet: the     *)
(* text is formatted behind some reserved bytes, then encoded in place,    *)
(* keys and lengths first, each string moved down to where it belongs.     *)
(*                                                                         *)
(* A message is a record: room, the bytes left behind its first fields     *)
(* ("uptime" to "index"), one of which ends the map; text, the length of   *)
(* its text; func, that of the function name the text starts with, or 0;   *)
(* data, the bytes of its hexdump.                                         *)
(***************************************************************************)
EXTENDS Integers, Sequences

\* A CBOR string of n bytes begins with its length.
Prefix(n) == CASE n < 24 -> 1 [] n \in 24 .. 255 -> 2 [] OTHER -> 3

\* Reserved bytes of log_pdu_prepare and log_pdu_prepare_ext: CBOR_SPACE_RESERVED
\* for an element, and the key "func".  Mistaken: one element for all messages.
ReservedOnce(m) == 8
Reserved(m) == IF m.func > 0 THEN 2 * 8 + 6 ELSE 8

\* cbprintf_out_func keeps what fits.  A byte of the text is named by its place.
Stored(m) == IF m.text < m.room - Reserved(m) THEN m.text ELSE m.room - Reserved(m)
Formatted(m) ==
  [i \in 1 .. m.room |-> IF i - Reserved(m) \in 1 .. Stored(m) THEN i - Reserved(m) ELSE 0]

\* find_colon, when the whole name was stored.
HasColon(m) == m.func > 0 /\ m.func < Stored(m)

-----------------------------------------------------------------------------
(* zcbor: e.at bytes of e.buf are encoded.                                 *)

\* zcbor_tstr_put_lit of a key of n bytes, which changes nothing without room.
Key(e, n) ==
  LET end == e.at + Prefix(n) + n
  IN  IF end > Len(e.buf) THEN e
      ELSE [e EXCEPT !.at = end,
                     !.buf = [i \in DOMAIN @ |-> IF i \in e.at + 1 .. end THEN 0 ELSE @[i]]]

\* zcbor_tstr_encode_ptr of the n bytes behind the first `from` of the buffer.
CanPut(e, n) == n >= 0 /\ e.at + Prefix(n) + n <= Len(e.buf)
Put(e, from, n) ==
  LET to == e.at + Prefix(n)
      headed == [i \in DOMAIN e.buf |-> IF i \in e.at + 1 .. to THEN 0 ELSE e.buf[i]]
  IN  [at |-> to + n,
       buf |-> [i \in DOMAIN e.buf |->
                  IF i \in to + 1 .. to + n THEN headed[i - to + from] ELSE headed[i]]]
Value(e, n) == SubSeq(e.buf, e.at - n + 1, e.at)

-----------------------------------------------------------------------------
Lost == [sent |-> FALSE, func |-> <<>>, text |-> <<>>, data |-> 0]
Sends(func, text) == [sent |-> TRUE, func |-> func, text |-> text, data |-> 0]

\* "hexdump", of as many bytes as fit, behind the text that ends at e.at; the
\* packet is given up when nothing can follow the key.
WithData(m, e, body) ==
  LET key == Key(e, 7)
      room == Len(e.buf) - (key.at + 8)
  IN  IF m.data = 0 THEN body
      ELSE IF room < 0 THEN Lost
      ELSE [body EXCEPT !.data = IF m.data > room THEN room ELSE m.data]

\* "func" and "msg", from a text with a colon, or "msg" alone.
Encoding(m) ==
  LET start == [at |-> 0, buf |-> Formatted(m)]
      post == m.func + 2  \* behind ": "
      rest == Stored(m) - post
      named == Put(Key(start, 4), Reserved(m), m.func)
      both == Put(Key(named, 3), Reserved(m) + post, rest)
      only == Put(Key(start, 3), Reserved(m), Stored(m))
  IN  IF m.room < 1 THEN Lost
      ELSE IF m.text = 0
        THEN WithData(m, start, Sends(<<>>, <<>>))
      ELSE IF Reserved(m) > m.room THEN Lost
      ELSE IF HasColon(m)
        THEN IF ~CanPut(Key(start, 4), m.func) \/ ~CanPut(Key(named, 3), rest) THEN Lost
             ELSE WithData(m, both, Sends(Value(named, m.func), Value(both, rest)))
      ELSE IF ~CanPut(Key(start, 3), Stored(m)) THEN Lost
      ELSE WithData(m, only, Sends(<<>>, Value(only, Stored(m))))

\* A packet that is sent has the bytes of the text as they were formatted: moving
\* one string down never writes over another.
Intact(m, body) ==
  LET part(from, to) == [i \in 1 .. to - from |-> from + i]
  IN  m.text > 0 =>
        IF HasColon(m)
          THEN body.func = part(0, m.func) /\ body.text = part(m.func + 2, Stored(m))
          ELSE body.func = <<>> /\ body.text = part(0, Stored(m))

\* One that is not had no room for the reserved bytes, lost what follows the colon,
\* or has a hexdump.
Unsendable(m) ==
  \/ m.room < Reserved(m) \/ m.data > 0
  \/ HasColon(m) /\ Stored(m) = m.func + 1
=============================================================================
