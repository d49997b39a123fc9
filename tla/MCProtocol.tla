----------------------------- MODULE MCProtocol -----------------------------
(* A definition with the shapes of def/protocol.xml in small, read in two   *)
(* versions, another with the other types, and files that are refused; the  *)
(* payloads are those of the packets, cut short or one byte too long.       *)
EXTENDS ProtocolDecode

E(tag, name, children) == [tag |-> tag, name |-> name, children |-> children]
F(name, type) == [tag |-> "field", name |-> name, type |-> type]
N(n) == [num |-> n]
W(w) == [word |-> w]
Fixed(name, type, n) == F(name, type) @@ ("fixed_value" :> N(n))
Str(name, least, most) ==
    F(name, "string") @@ [min_length |-> least, length |-> most]
P(name, source, children) == E("packet", name, children) @@ ("source" :> source)
Filter(version, children) == [tag |-> "filter", version |-> version, children |-> children]
Action1(do, name) == [tag |-> do, name |-> name]
EnumValue(n, name) == [tag |-> "value", name |-> name, number |-> N(n)]

Two == [tag |-> "define", name |-> "two", value |-> N(2)]
Races == E("enum", "races", <<EnumValue(1, "elf")>>)
Pos == E("struct", "Pos", <<F("x", "u8"), F("y", "u16")>>)

Spawn == E("subpacket", "Spawn",
           <<Fixed("op", "u8", 0), F("objectid", "u8"),
             F("race", "u8") @@ [enumeration |-> "races", annotation |-> "sys_name"],
             F("name", "string") @@ ("length" :> W("two")), Action1("annotation", "objectid")>>)
Owner == E("subpacket", "Owner",
           <<Fixed("op", "u8", 1), F("charid", "s8"),
             F("objectid", "u8") @@ ("annotation" :> "charid"),
             Action1("annotation", "charid"), Filter(2, <<F("since", "unixtime")>>)>>)
Zipped == E("subpacket", "Zipped",
            <<Fixed("op", "u8", 2), F("packed", "length"), Action1("transformation", "rompack"),
              F("at", "Pos")>>)
Rest == E("subpacket", "Rest",
          <<Fixed("op", "u8", 3), F("data", "u8") @@ [count |-> W("two"), min_count |-> N(0)]>>)

World == <<Two, Races, Pos,
           P("Hello", "server", <<Fixed("kind", "u8", 0), F("rest", "length"), Str("text", N(1), W("two"))>>),
           P("Move", "client", <<Fixed("kind", "u8", 1), F("at", "Pos"), F("speed", "u8")>>),
           P("World", "server", <<Fixed("kind", "u8", 2), F("at", "Pos"), F("rest", "length"),
                                  Spawn, Owner, Zipped, Rest>>)>>

\* Two fields packed one by one, like ActivityCosts.
Costs == E("subpacket", "Costs",
           <<Fixed("op", "u8", 3), F("packed", "length"), Action1("transformation", "rompack"),
             F("cost1", "Pos"), F("cost2", "Pos")>>)

\* A field that may vary, like that of ItemShopInfo: one byte of it is packed.
All == E("subpacket", "All",
         <<Action1("transformation", "rompack"),
           F("n", "u8") @@ [count |-> N(2), min_count |-> N(0)]>>)

\* The other types; a subpacket that starts with a transformation.
Others == <<Pos,
            P("Load", "client",
              <<Fixed("kind", "s8", 1), F("load", "float") @@ [count |-> N(2), display |-> N(1)],
                F("level", "s16") @@ ("format" :> "decimal"), F("x", "double")>>),
            P("Zip", "server", <<Fixed("kind", "u8", 2), F("rest", "length"),
                                 All, E("subpacket", "One", <<F("n", "u8") @@ ("annotation" :> "objectid")>>),
                                 Costs>>)>>

Bad == {<<[tag |-> "define", name |-> "two"]>>,
        <<Two, Two>>,
        <<E("enum", "races", <<EnumValue(1, "elf"), EnumValue(1, "orc")>>)>>,
        <<[tag |-> "struct", children |-> <<>>]>>,
        <<E("struct", "S", <<F("x", "u99")>>)>>,
        <<E("struct", "S", <<F("x", "string")>>)>>,
        <<E("struct", "S", <<F("x", "u8") @@ ("format" :> "hex")>>)>>,
        <<E("struct", "S", <<F("x", "u8") @@ ("count" :> W("two"))>>)>>,
        <<E("struct", "S", <<F("x", "u8") @@ ("enumeration" :> "races")>>)>>,
        <<E("struct", "S", <<Action1("transformation", "zip")>>)>>,
        <<P("P", "server", <<Action1("annotation", "objectid")>>)>>,
        <<P("P", "nobody", <<F("x", "u8")>>)>>,
        <<P("P", "server", <<Str("s", N(0), N(2)), Rest>>), Two>>,
        <<E("unknown", "x", <<>>)>>}

MCFiles == {World, Others} \cup Bad

Cuts(body) == {SubSeq(body, 1, n) : n \in 0..Len(body)} \cup {Append(body, 1)}

\* One byte that a server has packed well, as Pack cannot.
MCEndMarker == <<17, 0, 0>>
Packed1(x) == <<18, x>> \o EndMarker

Bodies == UNION {Cuts(b) : b \in {<<0, 3, 1, 7, 0>>, <<1, 2, 3, 4>>, <<2, 0>>}}
            \cup {<<0, 4, 6, 0, 7>>, <<0, 3, 5, 7, 8>>, <<3>>, <<3, 6, 7>>}
            \cup {<<2, Len(s)>> \o s : s \in {Pack(Copies(3, 5)), Pack(<<1, 2, 3, 4>>), <<17, 0, 0>>}}

MCPayloads ==
    {<<2, 1, 0, 1, Len(b)>> \o b : b \in Bodies}
      \cup {<<2, 1, 0, 1, 4, 3, 6, 7>>, <<2, 1, 0, 1>>}
      \cup Cuts(<<1, 4, 0, 4, 7>>)
      \cup {<<0, 1, 5>>, <<0, 2, 5, 6>>, <<0, 2, 5>>}
      \cup {<<1, 2, 3, 4, 0, 5, 6>>, <<2, 5>> \o Packed1(5), <<2, 1, 9>>, <<2, 0>>, <<9, 9>>}

\* What Unpack makes of these streams, and of a text that is too long.
MCTexts ==
    [stream \in {Pack(Copies(3, x)) : x \in Fills} \cup {Packed1(5), Pack(<<1, 2, 3, 4>>)} |->
        SubSeq(stream, IF stream = Packed1(5) THEN 2 ELSE 3, Len(stream) - 3)]
MCSysNames == (6 :> <<"bear">>)
=============================================================================
