--------------------------- MODULE ProtocolDecode ---------------------------
(***************************************************************************)
(* lib/protocoldecode.cc: Process tries the packets of a definition on a   *)
(* payload, one after the other, and within a packet its subpackets.  What *)
(* a trial leaves in the fields, and what annotations store on the way     *)
(* (romdump.cc), stays when the trial fails.  Payloads come from anywhere, *)
(* or from the Send functions that mkdef generates.                        *)
(*                                                                         *)
(* A field is named by the path <<packet, subpacket, action, ...>>, with   *)
(* subpacket 0 for the packet's own actions.                               *)
(***************************************************************************)
EXTENDS ProtocolLoader, ProtocolCode

CONSTANTS Payloads,     \* byte sequences that may arrive
          Fills,        \* bytes a program fills generated packets with
          Texts,        \* function: what ROMPack::Unpack makes of packed bytes
          SysNames,     \* function: the names of sysname.csv, by number
          BufferSize,   \* what EstimateBufferSize returns
          HeapJunk,     \* bytes that memory nobody has written may be full of
          MaxPayloads   \* bound: payloads in a behaviour

Byte == 0..(ByteBase - 1)

ASSUME DataAssumption ==
    /\ Payloads \subseteq Seq(Byte) /\ Fills \subseteq Byte
    /\ \A packed \in DOMAIN Texts : Texts[packed] \in Seq(Byte)
    /\ BufferSize \in Nat /\ HeapJunk \subseteq Byte

VARIABLES payload,    \* pData and iLength of Process
          sent,       \* ghost: <<packet, subpacket>> that payload was generated as
          received,   \* payloads so far
          pc,         \* "idle", "packets", "struct", "subpackets", "verdict"
          pkt, sub,   \* the packet and subpacket being tried
          start,      \* the DecodeState that Process hands to every packet
          stack,      \* the Fill functions under way, innermost last
          text,       \* the buffer of the transformation
          memory,     \* the values in the types of the fields, by path
          last,       \* m_LastSubpacket of every packet
          processed,  \* iNum of Packet::Fill
          result,     \* what Process returned: a packet, 0 for NULL
          ids,        \* ObjectIdStore: object id to name
          chars,      \* CharId2ObjectIdAnnotation: character id to object id
          spans       \* ghost: what was taken in this trial, from where

tryVars == <<pkt, sub, start, stack, text, memory, last, processed, result, spans>>
storeVars == <<ids, chars>>
decodeVars == <<payload, sent, received, pc, tryVars, storeVars>>
vars == <<loaderVars, decodeVars>>

-----------------------------------------------------------------------------
Packet(k) == def.packets[k]
Subpacket(k, s) == Packet(k).subpackets[s]
ActionsOf(k, s) == IF s = 0 THEN Packet(k).actions ELSE Subpacket(k, s).actions

\* What a DecodeState points into: the payload or the transformed text.
Data(buf) == IF buf = 0 THEN payload ELSE text

\* Struct::Fill works on a copy of the state; i is the action it has come to.
Frame(path, acts, state) ==
    [path |-> path, acts |-> acts, i |-> 1, state |-> state, left0 |-> state.left]

Top == stack[Len(stack)]
State == Top.state
Ended == Top.i > Len(Top.acts)
Action == Top.acts[Top.i]
Path == Append(Top.path, Top.i)

\* m_Data += r, m_DataLeft -= r; offsets are for display only.
Moved(state, r) == [state EXCEPT !.pos = @ + r, !.left = @ - r]

Onward(frame, state) == [frame EXCEPT !.i = @ + 1, !.state = state]

\* An action that fails ends the loop of Struct::Fill.
Broken_NextField(frame) == [frame EXCEPT !.i = @ + 1]
Broken_Retry(frame) == frame
Broken(frame) == [frame EXCEPT !.i = Len(frame.acts) + 1]

Replace(frame) == stack' = [stack EXCEPT ![Len(stack)] = frame]

\* The function f with the value v at x.
Put(f, x, v) == [y \in DOMAIN f \cup {x} |-> IF y = x THEN v ELSE f[y]]

\* Field's constructor clones the type: every field has values of its own.
Cell_Shared(path, t) == <<t.name>>
Cell(path, t) == path

\* What nobody has written is junk.
Old(path, t) ==
    [k \in 1..t.count |->
        IF Cell(path, t) \in DOMAIN memory /\ k \in DOMAIN memory[Cell(path, t)]
        THEN memory[Cell(path, t)][k] ELSE Junk]

Span(len) ==
    [path |-> Path, buf |-> State.buf, from |-> State.pos, len |-> len,
     cell |-> IF Action.do = "field" THEN Cell(Path, Action.type) ELSE <<>>,
     kind |-> IF Action.do = "field" THEN Action.type.kind ELSE "",
     width |-> IF Action.do = "field" THEN Action.type.width ELSE 0]

-----------------------------------------------------------------------------
(* Actions of a structure.                                                 *)

Running(do) ==
    /\ load = "loaded" /\ pc = "struct"
    /\ ~Ended /\ Action.do = do

\* Field::Process of a builtin type.  Values are stored before they are judged.
FillField ==
    /\ Running("field") /\ ~IsStruct(Action.type)
    /\ LET t == Action.type
           value == Read(t, Data(State.buf), State.pos, Entries(t, State.left), Old(Path, t))
           r == IF Entries(t, State.left) = 0 THEN 0 ELSE Taken(t, value, State.left)
       IN /\ memory' = IF Entries(t, State.left) = 0 THEN memory
                       ELSE Put(memory, Cell(Path, t), value)
          /\ IF r > 0
             THEN /\ Replace(Onward(Top, Moved(State, r)))
                  /\ spans' = Append(spans, Span(r))
             ELSE Replace(Broken(Top)) /\ UNCHANGED spans
    /\ UNCHANGED <<loaderVars, payload, sent, received, pc, pkt, sub, start, text, last,
                   processed, result, storeVars>>

EnterStruct ==
    /\ Running("field") /\ IsStruct(Action.type)
    /\ stack' = Append(stack, Frame(Path, Action.type.actions, State))
    /\ UNCHANGED <<loaderVars, payload, sent, received, pc, pkt, sub, start, text, memory,
                   last, processed, result, storeVars, spans>>

\* Back in Field::Process.  A structure in which an action failed has still
\* taken what the actions before it took.
LeaveStruct ==
    /\ load = "loaded" /\ pc = "struct" /\ Len(stack) > 1 /\ Ended
    /\ LET depth == Len(stack) - 1
           outer == stack[depth]
           r == Top.left0 - State.left
       IN stack' = [k \in 1..depth |->
                      IF k < depth THEN stack[k]
                      ELSE IF r > 0 THEN Onward(outer, Moved(outer.state, r)) ELSE Broken(outer)]
    /\ UNCHANGED <<loaderVars, payload, sent, received, pc, pkt, sub, start, text, memory,
                   last, processed, result, storeVars, spans>>

\* ROMPacking::Apply.  With nothing to unpack it reports success and leaves the
\* length as it was: all of an unwritten buffer.
Unpacked(bytes) ==
    IF bytes = <<>> THEN {Copies(BufferSize, x) : x \in HeapJunk}
    ELSE IF bytes \in DOMAIN Texts THEN {Texts[bytes]} ELSE {}

Packing == SubSeq(Data(State.buf), State.pos + 1, State.pos + State.left)

\* TransformationAction::Process.
Transform ==
    /\ Running("transformation")
    /\ IF Unpacked(Packing) = {}
       THEN Replace(Broken(Top)) /\ UNCHANGED <<text, spans>>
       ELSE /\ text' \in Unpacked(Packing)
            /\ Replace(Onward(Top, [buf |-> 1, pos |-> 0, left |-> Len(text')]))
            /\ spans' = Append(spans, Span(State.left))
    /\ UNCHANGED <<loaderVars, payload, sent, received, pc, pkt, sub, start, memory, last,
                   processed, result, storeVars>>

-----------------------------------------------------------------------------
(* Annotations (romdump.cc) and what they look up.                         *)

Named(f, x) == IF x \in DOMAIN f THEN f[x] ELSE <<"?">>

\* Lookup of the annotation: names of the system, of statistics, of objects.
Lookup(annotation, v) ==
    CASE annotation = "sys_name"  -> Named(SysNames, v)
      [] annotation = "stat_name" -> Named(SysNames, 500000 + v)
      [] annotation = "objectid"  -> Named(ids, v)
      [] annotation = "charid"    -> IF v \in DOMAIN chars THEN Named(ids, chars[v]) ELSE <<"?">>

\* GetHumanReadableContent of an unsigned field, without the number in angle
\* brackets: the enumeration's name, else the annotation's, else the number.
Human(t, value) ==
    LET v == value[1]
        names == UNION {{def.enums[e][n] : n \in {v} \cap DOMAIN def.enums[e]} : e \in t.enumeration}
    IN IF names # {} THEN <<CHOOSE n \in names : TRUE>>
       ELSE IF t.annotation # {} THEN Lookup(CHOOSE a \in t.annotation : TRUE, v)
       ELSE IF t.enumeration # {} THEN <<"?">>
       ELSE IF t.count # 1 THEN <<"length", ToString(t.count)>>
       ELSE <<ToString(v)>>

\* FindFieldByName: the place of the first field of that name, 0 if none.
FindField(acts, name) ==
    SelectInSeq(acts, LAMBDA a : a.do = "field" /\ a.name = name)

Value(i) == Old(Append(Top.path, i), Top.acts[i].type)
Kind(i) == Top.acts[i].type.kind

\* dynamic_cast to unsignedType, from which signedType is derived.
Numeric(i) == Kind(i) \in {"unsigned", "signed"}

\* A name ends at its first zero; without one, strncpy goes on behind it.
UpToZero(s) ==
    LET zero == SelectInSeq(s, LAMBDA c : c = 0)
    IN IF zero > 0 THEN {SubSeq(s, 1, zero - 1)} ELSE {s, Append(s, Junk)}

\* ObjectIdStore::Apply: the name of an object, or that of its race.  insert
\* keeps the name that is there.
NameObject ==
    LET id == FindField(Top.acts, "objectid")
        race == FindField(Top.acts, "race")
        name == FindField(Top.acts, "name")
    IN IF 0 \in {id, race, name} THEN UNCHANGED ids
       ELSE IF ~Numeric(id) \/ Kind(name) # "string" THEN UNCHANGED ids
       ELSE \E n \in IF Value(name)[1] # 0 THEN UpToZero(Value(name))
                     ELSE {Human(Top.acts[race].type, Value(race))} :
              ids' = ids @@ (Value(id)[1] :> n)

\* CharId2ObjectIdAnnotation::Apply.  The cast of the character id is tested,
\* that of the object id is not: it is a number (SubpacketMade).
NameCharacter ==
    LET charid == FindField(Top.acts, "charid")
        id == FindField(Top.acts, "objectid")
    IN IF 0 \in {charid, id} THEN UNCHANGED chars
       ELSE IF ~Numeric(charid) THEN UNCHANGED chars
       ELSE chars' = chars @@ (Value(charid)[1] :> Value(id)[1])

\* AnnotationAction::Process always succeeds.
Annotate ==
    /\ Running("annotation")
    /\ IF Action.name = "objectid" THEN NameObject ELSE UNCHANGED ids
    /\ IF Action.name = "charid" THEN NameCharacter ELSE UNCHANGED chars
    /\ Replace(Onward(Top, State))
    /\ UNCHANGED <<loaderVars, payload, sent, received, pc, pkt, sub, start, text, memory,
                   last, processed, result, spans>>

-----------------------------------------------------------------------------
(* Packet::Fill and Process.                                               *)

\* Process is called with a payload.
Process(bytes, from) ==
    /\ load = "loaded" /\ pc = "idle" /\ received < MaxPayloads
    /\ payload' = bytes /\ sent' = from /\ received' = received + 1
    /\ start' = [buf |-> 0, pos |-> 0, left |-> Len(bytes)]
    /\ pc' = "packets" /\ pkt' = 0 /\ result' = 0
    /\ UNCHANGED <<loaderVars, sub, stack, text, memory, last, processed, storeVars, spans>>

Receive == \E bytes \in Payloads : Process(bytes, <<0, 0>>)

TryPacket ==
    /\ pc = "packets" /\ pkt < Len(def.packets)
    /\ pkt' = pkt + 1 /\ sub' = 0 /\ processed' = 0
    /\ last' = Put(last, pkt', 0)
    /\ stack' = <<Frame(<<pkt', 0>>, Packet(pkt').actions, start)>>
    /\ spans' = <<>> /\ text' = <<>>
    /\ pc' = "struct"
    /\ UNCHANGED <<loaderVars, payload, sent, received, start, memory, result, storeVars>>

\* No packet matches: Process returns NULL.
NoPacket ==
    /\ pc = "packets" /\ pkt = Len(def.packets)
    /\ pc' = "idle"
    /\ UNCHANGED <<loaderVars, payload, sent, received, tryVars, storeVars>>

Filled == pc = "struct" /\ Len(stack) = 1 /\ Ended
Taking == Top.left0 - State.left

\* A header without subpackets is all there is; one in front of subpackets has
\* to have its constant size.
HeaderDone_AnySize ==
    /\ Filled /\ sub = 0
    /\ processed' = Taking /\ pc' = "subpackets" /\ stack' = <<>>
    /\ UNCHANGED <<loaderVars, payload, sent, received, pkt, sub, start, text, memory, last,
                   result, storeVars, spans>>

HeaderDone ==
    /\ Filled /\ sub = 0
    /\ IF Packet(pkt).subpackets # <<>> /\ Taking # Packet(pkt).header
       THEN processed' = 0 /\ pc' = "verdict"
       ELSE processed' = Taking /\ pc' = "subpackets"
    /\ stack' = <<>>
    /\ UNCHANGED <<loaderVars, payload, sent, received, pkt, sub, start, text, memory, last,
                   result, storeVars, spans>>

Behind(n) == Moved(start, n)

\* The data pointer is left where it is.
TrySub_SameData ==
    /\ pc = "subpackets" /\ sub < Len(Packet(pkt).subpackets)
    /\ sub' = sub + 1
    /\ stack' = <<Frame(<<pkt, sub'>>, Subpacket(pkt, sub').actions,
                        [Behind(Packet(pkt).header) EXCEPT !.pos = start.pos])>>
    /\ pc' = "struct"
    /\ UNCHANGED <<loaderVars, payload, sent, received, pkt, start, text, memory, last,
                   processed, result, storeVars, spans>>

TrySub ==
    /\ pc = "subpackets" /\ sub < Len(Packet(pkt).subpackets)
    /\ sub' = sub + 1
    /\ stack' = <<Frame(<<pkt, sub'>>, Subpacket(pkt, sub').actions, Behind(Packet(pkt).header))>>
    /\ pc' = "struct"
    /\ UNCHANGED <<loaderVars, payload, sent, received, pkt, start, text, memory, last,
                   processed, result, storeVars, spans>>

NoSub ==
    /\ pc = "subpackets" /\ sub = Len(Packet(pkt).subpackets)
    /\ pc' = "verdict"
    /\ UNCHANGED <<loaderVars, payload, sent, received, tryVars, storeVars>>

\* How many of the spans are the header's.
HeaderSpans == Max({0} \cup {i \in DOMAIN spans : spans[i].path[2] = 0})

\* A subpacket that takes anything will do.
SubDone_Any ==
    /\ Filled /\ sub > 0
    /\ IF Taking > 0
       THEN /\ processed' = processed + Top.left0
            /\ last' = Put(last, pkt, sub)
            /\ pc' = "verdict" /\ UNCHANGED <<text, spans>>
       ELSE /\ spans' = SubSeq(spans, 1, HeaderSpans) /\ text' = <<>>
            /\ pc' = "subpackets" /\ UNCHANGED <<processed, last>>
    /\ stack' = <<>>
    /\ UNCHANGED <<loaderVars, payload, sent, received, pkt, sub, start, memory, result,
                   storeVars>>

\* It has to take all that is left behind the header.
SubDone ==
    /\ Filled /\ sub > 0
    /\ IF Taking = Top.left0
       THEN /\ processed' = processed + Top.left0
            /\ last' = Put(last, pkt, sub)
            /\ pc' = "verdict" /\ UNCHANGED <<text, spans>>
       ELSE /\ spans' = SubSeq(spans, 1, HeaderSpans) /\ text' = <<>>
            /\ pc' = "subpackets" /\ UNCHANGED <<processed, last>>
    /\ stack' = <<>>
    /\ UNCHANGED <<loaderVars, payload, sent, received, pkt, sub, start, memory, result,
                   storeVars>>

\* The first packet that takes the whole payload is the one.
Verdict ==
    /\ pc = "verdict"
    /\ IF processed = Len(payload)
       THEN result' = pkt /\ pc' = "idle"
       ELSE pc' = "packets" /\ UNCHANGED result
    /\ UNCHANGED <<loaderVars, payload, sent, received, pkt, sub, start, stack, text, memory,
                   last, processed, spans, storeVars>>

-----------------------------------------------------------------------------
\* What a program may add to the length of a packet whose last field varies.
Deltas(acts) ==
    LET f == Fields(acts)
        t == f[Len(f)].type
    IN IF f = <<>> \/ TransformAt(acts) > 0 THEN {0}
       ELSE IF IsStruct(t) \/ t.count = t.min THEN {0} ELSE {t.width * n : n \in t.min..t.count}

\* Pack's assertion ends the program before anything is sent.
CanPack(acts, x) ==
    TransformAt(acts) > 0 => \A i \in DOMAIN Arguments(acts, x) : ~PackStops(Arguments(acts, x)[i])

\* The payload is one that a generated Send wrote.
Send ==
    \E k \in DOMAIN def.packets : \E s \in 0..Len(Packet(k).subpackets) :
        /\ s = 0 => Packet(k).subpackets = <<>>
        /\ \E delta \in Deltas(ActionsOf(k, s)), x \in Fills, junk \in HeapJunk :
              /\ CanPack(ActionsOf(k, s), x)
              /\ Process(SendAny(Packet(k), s, delta, x, junk), <<k, s>>)

Init ==
    /\ LoaderInit
    /\ payload = <<>> /\ sent = <<0, 0>> /\ received = 0 /\ pc = "idle"
    /\ pkt = 0 /\ sub = 0 /\ start = [buf |-> 0, pos |-> 0, left |-> 0]
    /\ stack = <<>> /\ text = <<>> /\ memory = <<>> /\ last = <<>>
    /\ processed = 0 /\ result = 0 /\ ids = <<>> /\ chars = <<>> /\ spans = <<>>

Decode ==
    \/ FillField \/ EnterStruct \/ LeaveStruct \/ Transform \/ Annotate
    \/ TryPacket \/ NoPacket \/ HeaderDone \/ TrySub \/ NoSub \/ SubDone \/ Verdict

Loading == Load /\ UNCHANGED decodeVars

Next == Loading \/ Receive \/ Send \/ Decode

Spec == Init /\ [][Next]_vars

\* Load and Process run to their end once they are called.
FairSpec == Spec /\ WF_vars(Loading \/ Decode)

-----------------------------------------------------------------------------
\* Every state points where as many bytes follow as it says are left, and a
\* value is made of bytes that were read, or was never written.
TypeOK ==
    /\ pc \in {"idle", "packets", "struct", "subpackets", "verdict"}
    /\ pkt \in 0..Len(def.packets) /\ result \in 0..Len(def.packets)
    /\ \A i \in DOMAIN stack :
          LET st == stack[i].state
          IN st.buf \in {0, 1} /\ st.left \in Nat /\ st.pos + st.left = Len(Data(st.buf))
    /\ \A c \in DOMAIN memory : \A k \in DOMAIN memory[c] : memory[c][k] \in Nat \cup {Junk}
    /\ \A k \in DOMAIN last : last[k] \in 0..Len(Packet(k).subpackets)

Identified == pc = "idle" /\ result # 0 /\ payload # <<>>

End(s) == s.from + s.len

\* Where the last of the first i spans that lies in a buffer ends.
EndBefore(buf, i) ==
    LET mine == {j \in 1..i : spans[j].buf = buf} IN
    IF mine = {} THEN 0 ELSE End(spans[Max(mine)])

Tiled(buf, size) ==
    /\ \A i \in DOMAIN spans : spans[i].buf = buf => spans[i].from = EndBefore(buf, i - 1)
    /\ size = EndBefore(buf, Len(spans))

\* The fields printed for an identified payload, and the transformation, if
\* any, account for each byte of the payload and of the unpacked text once and
\* in order.
WellTiled == Identified => \A buf \in {0, 1} : Tiled(buf, Len(Data(buf)))

\* What is printed for a field that this payload supplied are the numbers at
\* its place, although many trials have stored values before.
PrintedIsDecoded ==
    Identified => \A i \in DOMAIN spans : spans[i].width > 0 =>
        LET s == spans[i]
        IN \A n \in 1..(s.len \div s.width) :
              memory[s.cell][n] = Stored(s.kind, Number(Data(s.buf), s.from + (n - 1) * s.width, s.width))

\* The spans of a field, if it is a structure those of its fields.
Within(path, p) == Len(p) >= Len(path) /\ SubSeq(p, 1, Len(path)) = path
Under(path) == {i \in DOMAIN spans : Within(path, spans[i].path)}
Supplied(path) == Under(path) # {}

\* One after the other, they are size bytes from some place on.
SuppliedInFull(path, size) ==
    \E a, b \in DOMAIN spans :
        /\ a <= b /\ Under(path) = a..b
        /\ \A i \in (a + 1)..b : spans[i].from = End(spans[i - 1])
        /\ End(spans[b]) - spans[a].from = size

\* Subpackets are tried only behind a header that the payload supplied in full,
\* nested structures included, with its fixed values.
HeaderIsWhole ==
    pc = "struct" /\ sub > 0 =>
        \A i \in DOMAIN Packet(pkt).actions :
            LET t == Packet(pkt).actions[i].type
                path == <<pkt, 0, i>>
            IN /\ SuppliedInFull(path, FullSize(t))
               /\ \A f \in t.fixed : memory[path][1] = f

PlacesOf(k, s) == {<<k, s>> \o place : place \in PlacesIn(ActionsOf(k, s))}

\* Packet::Print: the fields of the packet, then those of m_LastSubpacket.
Printed(k) == PlacesOf(k, 0) \cup PlacesOf(k, last[k])

\* Where p is printed before q: the length of the path at which they are, or lie
\* in, two actions of one list; the packet's own actions come first.
Parting(p, q) ==
    {d \in DOMAIN p \cap DOMAIN q :
        \/ d > 2 /\ SubSeq(p, 1, d - 1) = SubSeq(q, 1, d - 1) /\ p[d] < q[d]
        \/ d = 3 /\ p[2] < q[2]}

\* Old values are printed only behind what the payload supplied: of two actions
\* of one list, at any depth, the earlier one got something if the later one
\* did.  A field of a structure may be old in front of a supplied one: the
\* structure was cut short, but took something.
StaleIsLast ==
    Identified => \A p, q \in Printed(result) :
        Supplied(q) => \A d \in Parting(p, q) : Supplied(SubSeq(p, 1, d))

\* Whether this payload supplied all of the named field of the current structure.
Whole(name) ==
    LET at == FindField(Top.acts, name)
    IN \E i \in DOMAIN spans :
          spans[i].path = Append(Top.path, at) /\ spans[i].len = FullSize(Top.acts[at].type)

\* An object is named, and a character tied to an object, by fields of one and
\* the same payload, although annotations run before it is known whether the
\* definition matches.
StoredFromOnePayload ==
    [][/\ ids' # ids => Whole("objectid") /\ Whole("race") /\ Whole("name")
       /\ chars' # chars => Whole("charid") /\ Whole("objectid")]_vars

PackedFields(c) ==
    LET acts == ActionsOf(c[1], c[2])
    IN IF TransformAt(acts) = 0 THEN <<>> ELSE Fields(After(acts))

\* Fields that Pack and Send are made for: Pack counts right what is longer than
\* its command implies, and Send takes an argument of one entry for the field.
Packable(c) ==
    \A i \in DOMAIN PackedFields(c) :
        LET t == PackedFields(c)[i].type
        IN ArgumentSize(t) > Implied /\ ConstantSize(t) = ArgumentSize(t)

\* The payload is decoded as the packet and subpacket that was sent, and the
\* generated Parser calls that one's handler, whatever lies behind the data, if
\* it has a fixed value to be known by.
HandledAsSent ==
    /\ result = sent[1] /\ last[result] = sent[2]
    /\ FixedValues(ActionsOf(sent[1], sent[2]), 0) # {} =>
          \A wild \in BOOLEAN : Parsed(payload, def.packets, wild) = sent

\* What a generated Send writes is handled as what was sent, if it packs nothing
\* or one field that Pack and Send are made for.  ItemShopInfo is no such
\* packet: its field varies, and one byte of it is packed.
SentIsHandled ==
    pc = "idle" /\ sent # <<0, 0>> /\ Len(PackedFields(sent)) <= 1 /\ Packable(sent) => HandledAsSent

\* mkdef generates construction and parsing code per packet type: the same for
\* any number of packed fields.
AnySentIsHandled == pc = "idle" /\ sent # <<0, 0>> /\ Packable(sent) => HandledAsSent

\* A file is loaded or refused, and each payload gets its answer.
Answered == (load = "loading" \/ pc # "idle") ~> (load # "loading" /\ pc = "idle")
=============================================================================
