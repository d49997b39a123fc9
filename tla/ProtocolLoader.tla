--------------------------- MODULE ProtocolLoader ---------------------------
(***************************************************************************)
(* lib/protocoldefinition.cc: Load, which reads def/protocol.xml into the  *)
(* lists of definitions, enumerations, types and packets.  An element of   *)
(* the file is a record of its tag, its attributes, those it has, and its  *)
(* children.  A number is written as such, [num |-> n], or as the name of  *)
(* a definition, [word |-> w].  What a parser builds is returned as a set: *)
(* empty if it fails.                                                      *)
(***************************************************************************)
EXTENDS ProtocolTypes, SequencesExt

CONSTANTS Files,            \* sequences of elements
          Versions,         \* versions to load; below zero for the latest
          Transformations,  \* registered by name
          Annotations       \* registered by name

VARIABLES nodes,  \* elements of the file still to be read
          def,    \* the ProtocolDefinition
          load    \* "loading", "loaded", or "refused"

loaderVars == <<nodes, def, load>>

-----------------------------------------------------------------------------
Given(node, attr) == attr \in DOMAIN node
Attribute(node, attr) == IF Given(node, attr) THEN {node[attr]} ELSE {}

\* ResolveStringToNumber: the definition of that name, if any, else the string.
Resolve(d, value) ==
    LET known == Given(value, "word") /\ value.word \in DOMAIN d.definitions
        text == IF known THEN d.definitions[value.word] ELSE value
    IN Attribute(text, "num")

Resolves(d, node, attrs) == \A a \in attrs \cap DOMAIN node : Resolve(d, node[a]) # {}
Numbers(d, node, attr) == IF Given(node, attr) THEN Resolve(d, node[attr]) ELSE {}
NumberOr(d, node, attr, default) ==
    IF Numbers(d, node, attr) = {} THEN default ELSE CHOOSE n \in Numbers(d, node, attr) : TRUE

\* Without min_count the smallest count is the count.  format="hex" is set,
\* and then refused by the else of the next test.
ParseUnsigned(d, t, node) ==
    LET count == NumberOr(d, node, "count", 1) IN
    {u \in {[t EXCEPT !.count = count,
                      !.min = NumberOr(d, node, "min_count", count),
                      !.fixed = Numbers(d, node, "fixed_value"),
                      !.display = Numbers(d, node, "display"),
                      !.decimal = Given(node, "format"),
                      !.enumeration = Attribute(node, "enumeration"),
                      !.annotation = Attribute(node, "annotation")]} :
        /\ Resolves(d, node, {"fixed_value", "count", "min_count", "display"})
        /\ Attribute(node, "format") \subseteq {"decimal"}
        /\ u.enumeration \subseteq DOMAIN d.enums
        /\ u.annotation \subseteq Annotations}

ParseString(d, t, node) ==
    LET length == NumberOr(d, node, "length", 0) IN
    {u \in {[t EXCEPT !.count = length, !.min = NumberOr(d, node, "min_length", length)]} :
        Given(node, "length") /\ Resolves(d, node, {"length", "min_length"})}

ParseFloat(d, t, node) ==
    LET count == NumberOr(d, node, "count", 1) IN
    {u \in {[t EXCEPT !.count = count, !.min = count,
                      !.display = Numbers(d, node, "display")]} :
        Resolves(d, node, {"count", "display"})}

\* ParseNode of the field's type, a copy of the one looked up by name.
ParseType(d, t, node) ==
    CASE t.kind \in {"unsigned", "signed"} -> ParseUnsigned(d, t, node)
      [] t.kind = "string"                 -> ParseString(d, t, node)
      [] t.kind \in {"float", "double"}    -> ParseFloat(d, t, node)
      [] OTHER                             -> {t}

ParseChildNode(d, node) ==
    IF ~Given(node, "name") THEN {}
    ELSE CASE node.tag = "field" ->
                {Field(node.name, t) :
                    t \in UNION {ParseType(d, d.types[name], node) :
                                    name \in Attribute(node, "type") \cap DOMAIN d.types}}
           [] node.tag = "transformation" ->
                {Step(node.tag, name) : name \in {node.name} \cap Transformations}
           [] node.tag = "annotation" ->
                {Step(node.tag, name) : name \in {node.name} \cap Annotations}
           [] OTHER -> {}

Keeps(version, node) == version < 0 \/ version >= node.version

\* A filter stands for its children, or for nothing.
Filtered(version, node) ==
    IF node.tag # "filter" \/ ~Given(node, "version") THEN <<node>>
    ELSE IF Keeps(version, node) THEN node.children ELSE <<>>
Kept(version, children) ==
    LET kept[i \in 0..Len(children)] ==
          IF i = 0 THEN <<>> ELSE kept[i - 1] \o Filtered(version, children[i])
    IN kept[Len(children)]

\* Struct::ParseNode, with Parse for ParseChildNode: nothing if a child fails.
ParseAll(d, children, Parse(_)) ==
    LET kept == Kept(d.version, children)
    IN IF \E i \in DOMAIN kept : Parse(kept[i]) = {} THEN {}
       ELSE {[i \in DOMAIN kept |-> CHOOSE a \in Parse(kept[i]) : TRUE]}

-----------------------------------------------------------------------------
StructSize(actions) ==
    IF \E i \in DOMAIN actions : actions[i].do = "field" /\ ConstantSize(actions[i].type) <= 0 THEN 0
    ELSE Total(Sizes(actions, ConstantSize))

\* sizeof of the C++ structure: every field at its full size.
FullWidth(actions) == Total(Sizes(actions, FullSize))

Struct(name, actions) ==
    [Builtin("struct", name, FullWidth(actions)) EXCEPT
        !.actions = actions, !.size = StructSize(actions), !.places = PlacesIn(actions)]

\* The first of a name is the one found by it.
Registered(f, name, x) ==
    [n \in DOMAIN f \cup {name} |-> IF n \in DOMAIN f THEN f[n] ELSE x]
AddType(d, t) == [d EXCEPT !.types = Registered(d.types, t.name, t)]

\* The structure is registered before it is read, so that it finds itself.
ParseStruct(d, node) ==
    LET kept == Kept(d.version, node.children)
        Self(acts) == AddType(d, Struct(node.name, acts))
        built[i \in 0..Len(kept)] ==
          IF i = 0 THEN {<<>>}
          ELSE UNION {{Append(acts, a) : a \in ParseChildNode(Self(acts), kept[i])} : acts \in built[i - 1]}
    IN IF Given(node, "name") THEN {Self(acts) : acts \in built[Len(kept)]} ELSE {}

ParseSubpacket(d, node) ==
    {[do |-> "subpacket", name |-> node.name, actions |-> acts] :
        acts \in ParseAll(d, node.children, LAMBDA child : ParseChildNode(d, child))}

\* Of what is not a field, a packet takes subpackets only.
ParsePacketChild(d, node) ==
    CASE Given(node, "name") /\ node.tag = "subpacket" -> ParseSubpacket(d, node)
      [] node.tag = "field" -> ParseChildNode(d, node)
      [] OTHER -> {}

\* The header in front of the subpackets must have a constant size.
ParsePacket(d, node) ==
    LET Packet(parts) ==
          [name |-> node.name, source |-> node.source, actions |-> Fields(parts),
           header |-> StructSize(Fields(parts)),
           subpackets |-> Only("subpacket", parts)]
    IN IF Attribute(node, "name") = {} \/ Attribute(node, "source") \cap {"server", "client"} = {}
       THEN {}
       ELSE {[d EXCEPT !.packets = Append(d.packets, p)] :
               p \in {q \in {Packet(parts) :
                               parts \in ParseAll(d, node.children,
                                                  LAMBDA child : ParsePacketChild(d, child))} :
                        q.subpackets = <<>> \/ q.header # 0}}

\* Enumeration::Add refuses a number that has a name.
ParseEnum(d, node) ==
    LET Valid(v) == v.tag = "value" /\ Given(v, "name") /\ Given(v, "number") /\ Given(v.number, "num")
        vals == node.children
    IN IF /\ Given(node, "name")
          /\ \A i \in DOMAIN vals : Valid(vals[i])
          /\ \A i, j \in DOMAIN vals : vals[i].number = vals[j].number => i = j
       THEN LET map == [n \in {vals[i].number.num : i \in DOMAIN vals} |->
                            (CHOOSE v \in Range(vals) : v.number.num = n).name]
            IN {[d EXCEPT !.enums = Registered(d.enums, node.name, map)]}
       ELSE {}

ParseDefinition(d, node) ==
    IF Given(node, "name") /\ Given(node, "value") /\ node.name \notin DOMAIN d.definitions
    THEN {[d EXCEPT !.definitions = Registered(d.definitions, node.name, node.value)]}
    ELSE {}

-----------------------------------------------------------------------------
BuiltinTypes ==
    LET All == {Builtin("unsigned", "u8", 1), Builtin("unsigned", "u16", 2),
                Builtin("unsigned", "u32", Word), Builtin("signed", "s8", 1),
                Builtin("signed", "s16", 2), Builtin("signed", "s32", Word),
                Builtin("string", "string", 1), Builtin("float", "float", Word),
                Builtin("double", "double", 2 * Word), Builtin("length", "length", Word),
                Builtin("unixtime", "unixtime", Word)}
    IN [name \in {t.name : t \in All} |-> CHOOSE t \in All : t.name = name]

-----------------------------------------------------------------------------
(* What def/protocol.xml keeps to, although no parser insists on it.       *)

IsSequence(s) == s \in Seq({s[i] : i \in DOMAIN s})

\* The numbers that a value of the file may come to.
Meanings(file, value) ==
    Attribute(value, "num") \cup
      UNION {Attribute(file[i].value, "num") :
                i \in {j \in DOMAIN file : /\ file[j].tag = "define" /\ Given(file[j], "value")
                                           /\ Attribute(file[j], "name") = Attribute(value, "word")}}

\* Sizes are natural numbers, the least one is no more than the size, and a
\* field with a fixed value is one entry.
FieldFits(file, node) ==
    LET May(attr) == IF Given(node, attr) THEN Meanings(file, node[attr]) ELSE {}
        Counts == IF Given(node, "count") THEN May("count") ELSE {1}
    IN /\ \A attr \in {"count", "min_count", "length", "min_length", "fixed_value"} :
             May(attr) \subseteq Nat
       /\ \A least \in May("min_count"), most \in Counts : least <= most
       /\ \A least \in May("min_length"), most \in May("length") : least <= most
       /\ Given(node, "fixed_value") => ~Given(node, "count") /\ ~Given(node, "min_count")

\* The fields that romdump's annotations look up.
LooksFor(annotation) ==
    IF annotation = "objectid" THEN {"objectid", "race", "name"}
    ELSE IF annotation = "charid" THEN {"charid", "objectid"} ELSE {}

\* What an annotation takes for a number without asking: romdump would crash
\* for an object id of a character, or print another name for a race.
TakesForNumber(annotation) ==
    IF annotation = "charid" THEN {"objectid"} ELSE IF annotation = "objectid" THEN {"race"} ELSE {}
NumberTypes == {name \in DOMAIN BuiltinTypes : BuiltinTypes[name].kind = "unsigned"}

\* A subpacket unpacks once.  What its annotations look up stands before them
\* and is of a builtin type that does not vary.
SubpacketMade(parts) ==
    /\ \A i, j \in DOMAIN parts :
          parts[i].tag = "transformation" /\ parts[j].tag = "transformation" => i = j
    /\ \A i, j \in DOMAIN parts :
          (/\ parts[i].tag = "annotation" /\ parts[j].tag = "field"
           /\ \E a \in Attribute(parts[i], "name") : Attribute(parts[j], "name") \cap LooksFor(a) # {})
          => /\ j < i /\ Attribute(parts[j], "type") \subseteq DOMAIN BuiltinTypes
             /\ ~Given(parts[j], "min_count") /\ ~Given(parts[j], "min_length")
             /\ \A a \in Attribute(parts[i], "name") :
                   Attribute(parts[j], "name") \cap TakesForNumber(a) # {}
                   => Attribute(parts[j], "type") \subseteq NumberTypes

\* Structures are made of fields only.
StructMade(parts) ==
    \A i \in DOMAIN parts :
        /\ parts[i].tag = "transformation" => Attribute(parts[i], "name") \cap Transformations = {}
        /\ parts[i].tag = "annotation" => Attribute(parts[i], "name") \cap Annotations = {}

Parts(version, node) == Kept(version, node.children)

PartsFit(file, version, node) ==
    /\ IsSequence(node.children)
    /\ \A i \in DOMAIN node.children :
          node.children[i].tag = "filter" => IsSequence(node.children[i].children)
    /\ \A i \in DOMAIN Parts(version, node) :
          Parts(version, node)[i].tag = "field" => FieldFits(file, Parts(version, node)[i])

PacketMade(file, version, node) ==
    /\ PartsFit(file, version, node)
    /\ \A i \in DOMAIN Parts(version, node) :
          LET part == Parts(version, node)[i] IN
          part.tag = "subpacket" =>
              PartsFit(file, version, part) /\ SubpacketMade(Parts(version, part))

WellFormed(file, version) ==
    /\ IsSequence(file)
    /\ \A i \in DOMAIN file :
          /\ file[i].tag = "struct" =>
                PartsFit(file, version, file[i]) /\ StructMade(Parts(version, file[i]))
          /\ file[i].tag = "packet" => PacketMade(file, version, file[i])

ASSUME FilesAssumption == \A file \in Files, version \in Versions : WellFormed(file, version)

-----------------------------------------------------------------------------
Fresh(version) ==
    [version |-> version, definitions |-> <<>>, enums |-> <<>>,
     types |-> BuiltinTypes, packets |-> <<>>]

LoaderInit ==
    /\ nodes \in Files
    /\ \E version \in Versions : def = Fresh(version)
    /\ load = "loading"

ParseElement(d, node) ==
    CASE node.tag = "enum"   -> ParseEnum(d, node)
      [] node.tag = "struct" -> ParseStruct(d, node)
      [] node.tag = "packet" -> ParsePacket(d, node)
      [] node.tag = "define" -> ParseDefinition(d, node)
      [] OTHER               -> {}

LoadElement ==
    /\ load = "loading" /\ nodes # <<>>
    /\ def' \in ParseElement(def, Head(nodes))
    /\ nodes' = Tail(nodes)
    /\ UNCHANGED load

\* The programs exit if Load fails.
Refuse ==
    /\ load = "loading" /\ nodes # <<>>
    /\ ParseElement(def, Head(nodes)) = {}
    /\ load' = "refused"
    /\ UNCHANGED <<nodes, def>>

Loaded ==
    /\ load = "loading" /\ nodes = <<>>
    /\ load' = "loaded"
    /\ UNCHANGED <<nodes, def>>

Load == LoadElement \/ Refuse \/ Loaded
=============================================================================
