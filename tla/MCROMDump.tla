------------------------------ MODULE MCROMDump ------------------------------
(* ROMDump on files of two flows, the server's and the client's, of at most *)
(* two packets each.                                                        *)
EXTENDS ROMDump

CONSTANTS k1, k2, s2c, c2s

P(len, flags, keynum, key, accepts) ==
    [length |-> len, flags |-> flags, keynum |-> keynum, hdrok |-> TRUE,
     key |-> key, accepts |-> accepts]

Kinds ==
    { P(3, {"KEY", "ENCRYPTED"}, "fixed", k1, {FixedKey}),
      P(3, {"KEY", "ENCRYPTED"}, "fixed", k2, {FixedKey}),
      P(4, {"KEY"}, "fixed", k1, {FixedKey}),
      P(4, {"ENCRYPTED"}, "table", k1, {k1}),
      P(2, {"ALIVE_REPLY"}, "fixed", k1, {FixedKey}),
      P(2, {}, "beyond", k1, {k1}),
      P(1, {"ENCRYPTED"}, "table", k1, {k1}),
      P(6, {"ENCRYPTED"}, "beyond", k1, {k1}) }

StreamOf(a, b) ==
    [o \in 0 .. StreamLen |-> IF o = 0 THEN a ELSE IF o = a.length THEN b
                              ELSE P(3, {"ENCRYPTED"}, "table", k1, {k1})]

MCKeys == {k1, k2}
MCConns == {s2c, c2s}
MCStreams == {StreamOf(a, b) : a, b \in Kinds}
=============================================================================
