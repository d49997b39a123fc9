--------------------------- MODULE MCROMConnection ---------------------------
(***************************************************************************)
(* ROMConnection on small sizes: a header of 2 bytes, keys of 1 byte,      *)
(* packets shorter than 5 bytes and the smallest buffer BufferAssumption   *)
(* allows.  A stream is any three of the packets below, back to back; the  *)
(* offsets inside a packet and after the last one read as yet another      *)
(* acceptable packet, so that a slip off the boundaries is not just a      *)
(* closed connection.                                                      *)
(***************************************************************************)
EXTENDS ROMConnection, FiniteSetsExt

CONSTANTS k1, k2

P(len, flags, keynum, hdrok, key, accepts) ==
    [length |-> len, flags |-> flags, keynum |-> keynum, hdrok |-> hdrok,
     key |-> key, accepts |-> accepts]

DataFor(len, keynum, accepts) == P(len, {"ENCRYPTED"}, keynum, TRUE, k1, accepts)
KeyPacket(len, key) == P(len, {"KEY", "ENCRYPTED"}, "fixed", TRUE, key, {FixedKey})

Kinds ==
    { KeyPacket(3, k1), KeyPacket(3, k2), KeyPacket(4, k1),
      DataFor(3, "table", {k1}), DataFor(4, "table", {k1, k2}),
      DataFor(2, "fixed", {FixedKey}), DataFor(4, "beyond", {}),
      P(2, {"ALIVE_REQUEST"}, "fixed", TRUE, k1, {}),
      P(3, {"ALIVE_REPLY"}, "fixed", TRUE, k1, {}),
      P(2, {"ENCRYPTED"}, "table", FALSE, k1, {k1}),
      P(1, {"ENCRYPTED"}, "table", TRUE, k1, {k1}),
      P(5, {"ENCRYPTED"}, "table", TRUE, k1, {k1}) }

Filler == DataFor(4, "table", {k1})

StreamOf(a, b, c) ==
    [o \in 0 .. StreamLen |->
        CASE o = 0                   -> a
          [] o = a.length            -> b
          [] o = a.length + b.length -> c
          [] OTHER                   -> Filler]

MCKeys == {k1, k2}
MCStreams == {StreamOf(a, b, c) : a, b, c \in Kinds}

=============================================================================
