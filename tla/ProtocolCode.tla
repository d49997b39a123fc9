---------------------------- MODULE ProtocolCode ----------------------------
(***************************************************************************)
(* lib/protocolcodegenerator.cc: what the code does that mkdef writes for  *)
(* a packet or a subpacket: the layout of its structure, Reset, Send and   *)
(* Parser::Process.  Byte sequences start behind the ROM::Packet header;   *)
(* lengths count from there.                                               *)
(***************************************************************************)
EXTENDS ProtocolTypes, SequencesExt

CONSTANTS Implied,    \* 18: bytes that a run of literals has without a count
          EndMarker,  \* 0x11 0 0: the end of a packed stream
          PadSize     \* 1024: sizeof(__packer_kludge)

ASSUME PackAssumption ==
    /\ ByteBase > 1 /\ Implied \in Nat /\ PadSize \in Nat
    /\ EndMarker \in Seq(0..(ByteBase - 1))

\* Bytes of a number, lowest first.
Bytes(n, w) == [k \in 1..w |-> (n \div Capacity(k - 1)) % ByteBase]
Copies(n, x) == [k \in 1..n |-> x]

\* iPacketLength and GenerateLength: fields that may vary count as nothing.
ConstantLength(actions) == Total(Sizes(actions, ConstantSize))

\* GenerateFields: every field at its full size; where the i-th begins.
FieldOffset(actions, i) == Sums(Sizes(Fields(actions), FullSize))[i - 1]

HasLength(actions) == \E i \in DOMAIN Fields(actions) : Fields(actions)[i].type.kind = "length"

\* Reset and GenerateInitializers: zeroes, fixed values, the length of the
\* rest in the length fields of the packet; then whatever the program sets,
\* here every other byte to x.
FieldImage(t, length, x) ==
    IF t.fixed # {} THEN Bytes(CHOOSE f \in t.fixed : TRUE, t.width)
    ELSE IF t.kind = "length" THEN Bytes(length, t.width)
    ELSE Copies(FullSize(t), x)

Image(actions, length, x) ==
    LET image[i \in 0..Len(actions)] ==
          IF i = 0 THEN <<>>
          ELSE IF actions[i].do = "field" THEN image[i - 1] \o FieldImage(actions[i].type, length, x)
          ELSE image[i - 1]
    IN image[Len(actions)]

\* Send with iDelta: the lengths known when the code was generated, plus delta.
\* In a packet without subpackets the length is for the program to set.
SendPacket(p, delta, x) ==
    SubSeq(Image(p.actions, delta, x), 1, ConstantLength(p.actions) + delta)

\* The length field is left at what Reset put there.
SendSubpacket_LengthKept(p, s, delta, x) ==
    SubSeq(Image(p.actions, ConstantLength(s.actions), x) \o Image(s.actions, 0, x),
           1, ConstantLength(p.actions) + ConstantLength(s.actions) + delta)

SendSubpacket(p, s, delta, x) ==
    LET rest == ConstantLength(s.actions) + delta
    IN SubSeq(Image(p.actions, rest, x) \o Image(s.actions, 0, x),
              1, ConstantLength(p.actions) + rest)

\* The place of the first transformation, 0 if there is none.
TransformAt(actions) ==
    SelectInSeq(actions, LAMBDA a : a.do = "transformation")

Before(actions) == SubSeq(actions, 1, TransformAt(actions) - 1)
After(actions) == SubSeq(actions, TransformAt(actions) + 1, Len(actions))

\* ROMPack::Pack: one run of literals.  What is left of the size goes into one
\* byte, whatever it is; of sizes below Implied that makes some large count.
PackCount(size) ==
    LET len == size - Implied
        zeroes == IF len > ByteBase - 1 THEN (len - 1) \div (ByteBase - 1) ELSE 0
    IN Append(Copies(zeroes, 0), (len - zeroes * (ByteBase - 1)) % ByteBase)
Pack(data) == <<0>> \o PackCount(Len(data)) \o data \o EndMarker

\* Its assertion fails: len is 0 for no other size.
PackStops(data) == Len(data) = Implied

\* sizeof of an argument of the transformed Send: one entry of an array.
ArgumentSize(t) == t.width

\* The arguments of the fields that are packed.
Arguments(actions, x) ==
    [i \in DOMAIN Fields(After(actions)) |-> Copies(ArgumentSize(Fields(After(actions))[i].type), x)]

\* bytes written over image, from position at + 1 on
Overlay(image, at, bytes) ==
    [k \in 1..(IF at + Len(bytes) > Len(image) THEN at + Len(bytes) ELSE Len(image)) |->
        IF k \in (at + 1)..(at + Len(bytes)) THEN bytes[k - at] ELSE image[k]]

\* Each of packs written over first to where its field lies.
Laid(actions, packs, at, first) ==
    LET image[i \in 0..Len(packs)] ==
          IF i = 0 THEN first
          ELSE Overlay(image[i - 1], at + FieldOffset(After(actions), i), packs[i])
    IN image[Len(packs)]

\* How much Pack writes for all the arguments.
PackedLength(actions, x) ==
    Total([i \in DOMAIN Arguments(actions, x) |-> Len(Pack(Arguments(actions, x)[i]))])
ArgumentsLength(actions) == Total(Sizes(After(actions), ArgumentSize))

\* sizeof of struct Packet without its ROM::Packet header.
StructureSize(p, s) ==
    Total(Sizes(p.actions, FullSize)) + Total(Sizes(s.actions, FullSize))
      + (IF TransformAt(s.actions) = 0 THEN 0 ELSE PadSize)

\* Send of a subpacket with a transformation: each argument is packed to where
\* its field lies, whatever the size of what was packed before it.  Behind the
\* last field the structure ends with a pad of zeroes.  Pack and Send look at
\* no bounds: behind the pad comes other memory, full of junk.
SendTransformed(p, s, x, junk) ==
    LET packs == [i \in DOMAIN Arguments(s.actions, x) |-> Pack(Arguments(s.actions, x)[i])]
        written == PackedLength(s.actions, x)
        rest == ConstantLength(s.actions) - ArgumentsLength(s.actions) + written
        head == Image(p.actions, rest, x) \o Image(Before(s.actions), written, x)
        fields == Copies(Total(Sizes(After(s.actions), FullSize)) + PadSize, 0)
        memory == head \o fields \o Copies(written, junk)
    IN SubSeq(Laid(s.actions, packs, Len(head), memory), 1, ConstantLength(p.actions) + rest)

SendAny(p, s, delta, x, junk) ==
    IF s = 0 THEN SendPacket(p, delta, x)
    ELSE IF TransformAt(p.subpackets[s].actions) = 0 THEN SendSubpacket(p, p.subpackets[s], delta, x)
    ELSE SendTransformed(p, p.subpackets[s], x, junk)

-----------------------------------------------------------------------------
(* Parser::Process.                                                        *)

\* Where the structure has a fixed value, of which width, and which.
FixedValues(actions, base) ==
    UNION {{<<base + FieldOffset(actions, i), Fields(actions)[i].type.width, f>> :
                f \in Fields(actions)[i].type.fixed} : i \in DOMAIN Fields(actions)}

\* Comparing with what lies beyond the data yields anything: wild.
Compares(data, place, wild) ==
    IF place[1] + place[2] > Len(data) THEN wild ELSE Number(data, place[1], place[2]) = place[3]

\* GenerateMatchCondition; without a fixed value there is no condition.
Matches(data, fixed, wild) == fixed # {} /\ \A place \in fixed : Compares(data, place, wild)

LengthPlace(actions) ==
    LET at == SelectInSeq(Fields(actions), LAMBDA a : a.type.kind = "length")
    IN <<FieldOffset(actions, at), Word>>

PacketFits(data, p) ==
    LET size == ConstantLength(p.actions)
        place == LengthPlace(p.actions)
    IN size > 0 =>
         IF HasLength(p.actions)
         THEN Len(data) >= size /\ Len(data) = Number(data, place[1], place[2]) + size
         ELSE Len(data) = size

SubpacketFits(data, p, s) ==
    LET f == Fields(s.actions)
        place == LengthPlace(p.actions)
    IN (/\ HasLength(p.actions)
        /\ TransformAt(s.actions) = 0
        /\ f # <<>> /\ \A i \in DOMAIN f : ConstantSize(f[i].type) # 0)
       => Number(data, place[1], place[2]) = ConstantLength(s.actions)

\* The handlers whose conditions hold; the first one is called.
Candidates(data, packets, wild) ==
    LET Fits(k) == PacketFits(data, packets[k]) /\ Matches(data, FixedValues(packets[k].actions, 0), wild)
        SubFits(k, s) ==
          LET p == packets[k] IN
          /\ SubpacketFits(data, p, p.subpackets[s])
          /\ Matches(data, FixedValues(p.subpackets[s].actions, FieldOffset(p.actions, Len(p.actions) + 1)), wild)
        Reached == UNION {{k} \X (0..Len(packets[k].subpackets)) : k \in {j \in DOMAIN packets : Fits(j)}}
    IN {c \in Reached :
           IF c[2] = 0 THEN packets[c[1]].subpackets = <<>> ELSE SubFits(c[1], c[2])}

Parsed(data, packets, wild) ==
    LET all == Candidates(data, packets, wild) IN
    IF all = {} THEN <<0, 0>>
    ELSE CHOOSE c \in all : \A d \in all : c[1] < d[1] \/ (c[1] = d[1] /\ c[2] <= d[2])
=============================================================================
