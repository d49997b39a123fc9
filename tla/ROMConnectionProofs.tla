------------------------- MODULE ROMConnectionProofs -------------------------
(***************************************************************************)
(* Theorems about ROMConnection for every header, key, packet and buffer   *)
(* size the assumptions allow and for every stream a peer may send,        *)
(* whatever its bytes read as at offsets where no packet starts.           *)
(***************************************************************************)
EXTENDS ROMConnection, TLAPS

\* A connection whose OnEvent returned false has a reason, and only such a one.
ClosedHasCause == (pc = "closed") <=> (cause # "open")

\* The inductive invariant: NeverOutOfSpace is not inductive alone, because a
\* recv fits only into what LeftoverIsPartial leaves free.
IInv == TypeOK /\ ClosedHasCause /\ LeftoverIsPartial /\ NeverOutOfSpace

-----------------------------------------------------------------------------
\* What recv can add never fills the buffer up: the leftover of the last
\* OnEvent is shorter than one packet, and the buffer holds two.
LEMMA LeftoverLeavesRoom ==
    ASSUME TypeOK, LeftoverIsPartial, pc = "select",
           NEW len \in 1 .. MaxPacketSize
    PROVE  HasRoom(len)
<1>1. /\ m_DataAvailable \in Nat
      /\ HeaderSize \in Nat /\ MaxPacketSize \in Nat /\ BufferSize \in Nat
      /\ HeaderSize < MaxPacketSize
      /\ BufferSize >= 2 * MaxPacketSize - 1
  BY SizeAssumption, BufferAssumption, StreamAssumption DEF TypeOK
<1>2. CASE m_DataAvailable < HeaderSize
  BY <1>1, <1>2 DEF HasRoom
<1>3. CASE LengthOK(Peeked) /\ m_DataAvailable < Peeked.length
  <2>1. Front \in 0 .. StreamLen
    BY StreamAssumption DEF TypeOK, Front
  <2>2. Peeked \in Packet
    BY <2>1 DEF TypeOK, Peeked
  <2>3. Peeked.length \in Nat
    BY <2>2 DEF Packet
  <2> QED BY <1>1, <1>3, <2>3 DEF LengthOK, HasRoom
<1> QED BY <1>2, <1>3 DEF LeftoverIsPartial

\* A whole packet at the front lies inside the stream, and flushing it leaves
\* no negative amount behind: the assertion of Buffer::FlushData.
LEMMA FlushStaysInBuffer ==
    ASSUME TypeOK, Whole
    PROVE  /\ Front \in 0 .. StreamLen
           /\ Peeked \in Packet
           /\ m_DataAvailable - Peeked.length \in 0 .. received
<1>1. /\ received \in Nat /\ m_DataAvailable \in Nat
      /\ m_DataAvailable <= received
      /\ received <= StreamLen /\ StreamLen \in Nat
  BY StreamAssumption DEF TypeOK
<1>2. Front \in 0 .. StreamLen
  BY <1>1 DEF Front
<1>3. Peeked \in Packet
  BY <1>2 DEF TypeOK, Peeked
<1>4. Peeked.length \in Nat /\ m_DataAvailable >= Peeked.length
  BY <1>3 DEF Packet, Whole, PeekData
<1> QED BY <1>1, <1>2, <1>3, <1>4

\* Answering a packet, whether the connection survives it or not, keeps the
\* history a sequence of answers at stream offsets.
LEMMA RecordKeepsType ==
    ASSUME TypeOK, Whole,
           NEW answer \in {"newkey", "ignored", "reply", "packet",
                           "badheader", "baddata", "noreply"},
           Record(answer)
    PROVE  handled' \in Seq([at : 0 .. StreamLen,
                             answer : {"newkey", "ignored", "reply", "packet",
                                       "badheader", "baddata", "noreply"}])
<1>1. [at |-> Front, answer |-> answer] \in
        [at : 0 .. StreamLen, answer : {"newkey", "ignored", "reply", "packet",
                                        "badheader", "baddata", "noreply"}]
  BY FlushStaysInBuffer
<1> QED BY <1>1 DEF TypeOK, Record

-----------------------------------------------------------------------------
LEMMA InitIInv == Init => IInv
<1> SUFFICES ASSUME Init PROVE IInv
  OBVIOUS
<1>1. TypeOK
  BY StreamAssumption DEF Init, TypeOK
<1>2. ClosedHasCause /\ NeverOutOfSpace
  BY DEF Init, ClosedHasCause, NeverOutOfSpace
<1>3. LeftoverIsPartial
  BY SizeAssumption DEF Init, LeftoverIsPartial
<1> QED BY <1>1, <1>2, <1>3 DEF IInv

\* A packet that is answered and flushed.
LEMMA ConsumeKeepsIInv ==
    ASSUME IInv, NEW answer \in {"newkey", "ignored", "reply", "packet"},
           Consume(answer),
           m_HaveKey' \in BOOLEAN, m_Key' \in Keys \cup {NoKey}
    PROVE  IInv'
<1>1. Whole /\ Record(answer) /\ pc' = "parse" /\ cause' = cause
  BY DEF Consume, Whole
<1>2. TypeOK'
  <2>1. m_DataAvailable' \in 0 .. received'
    BY <1>1, FlushStaysInBuffer DEF IInv, Consume, FlushData
  <2>2. handled' \in Seq([at : 0 .. StreamLen,
                          answer : {"newkey", "ignored", "reply", "packet",
                                    "badheader", "baddata", "noreply"}])
    BY <1>1, RecordKeepsType DEF IInv
  <2> QED BY <1>1, <2>1, <2>2 DEF IInv, TypeOK, Consume
<1>3. ClosedHasCause' /\ LeftoverIsPartial' /\ NeverOutOfSpace'
  BY <1>1 DEF IInv, ClosedHasCause, LeftoverIsPartial, NeverOutOfSpace, Whole
<1> QED BY <1>2, <1>3 DEF IInv

\* A packet that ends the connection.
LEMMA RefuseKeepsIInv ==
    ASSUME IInv, NEW answer \in {"badheader", "baddata", "noreply"},
           Refuse(answer)
    PROVE  IInv'
<1>1. Whole /\ Record(answer) /\ Abort(answer) /\ received' = received
  BY DEF Refuse
<1>2. TypeOK'
  <2>1. handled' \in Seq([at : 0 .. StreamLen,
                          answer : {"newkey", "ignored", "reply", "packet",
                                    "badheader", "baddata", "noreply"}])
    BY <1>1, RecordKeepsType DEF IInv
  <2> QED BY <1>1, <2>1 DEF IInv, TypeOK, Abort
<1>3. ClosedHasCause' /\ LeftoverIsPartial' /\ NeverOutOfSpace'
  BY <1>1 DEF Abort, ClosedHasCause, LeftoverIsPartial, NeverOutOfSpace
<1> QED BY <1>2, <1>3 DEF IInv

LEMMA NextIInv == IInv /\ [Next]_vars => IInv'
<1> SUFFICES ASSUME IInv, [Next]_vars PROVE IInv'
  OBVIOUS
<1>1. ASSUME NEW len \in 1 .. MaxPacketSize, Receive(len) PROVE IInv'
  <2>1. HasRoom(len)
    BY <1>1, LeftoverLeavesRoom DEF IInv, Receive
  <2>3. /\ received' = received + len /\ received + len <= StreamLen
        /\ m_DataAvailable' = m_DataAvailable + len
        /\ pc' = "parse"
        /\ UNCHANGED <<stream, m_HaveKey, m_Key, cause, handled>>
    BY <1>1, <2>1 DEF Receive, AddData
  <2>4. received' \in 0 .. StreamLen /\ m_DataAvailable' \in 0 .. received'
    BY <2>3, SizeAssumption, StreamAssumption DEF IInv, TypeOK
  <2>5. TypeOK'
    BY <2>3, <2>4 DEF IInv, TypeOK
  <2> QED
    BY <1>1, <2>3, <2>5
    DEF IInv, ClosedHasCause, LeftoverIsPartial, NeverOutOfSpace, Receive
<1>2. CASE PeerClosed
  <2>1. TypeOK'
    BY <1>2 DEF PeerClosed, Abort, IInv, TypeOK
  <2> QED
    BY <1>2, <2>1
    DEF PeerClosed, Abort, IInv, ClosedHasCause, LeftoverIsPartial, NeverOutOfSpace
<1>3. CASE Starved
  <2>1. TypeOK'
    BY <1>3 DEF Starved, IInv, TypeOK
  <2>2. LeftoverIsPartial'
    <3>1. Front' = Front /\ Peeked' = Peeked
      BY <1>3 DEF Starved, Front, Peeked
    <3>2. m_DataAvailable < HeaderSize \/ ~(m_DataAvailable < HeaderSize)
      OBVIOUS
    <3>3. CASE ~PeekData(HeaderSize)
      BY <1>3, <3>3, SizeAssumption, StreamAssumption
      DEF Starved, PeekData, LeftoverIsPartial, IInv, TypeOK
    <3>4. CASE LengthOK(Peeked) /\ ~PeekData(Peeked.length)
      <4>1. Peeked.length \in Nat
        <5>1. Front \in 0 .. StreamLen
          BY StreamAssumption DEF IInv, TypeOK, Front
        <5>2. Peeked \in Packet
          BY <5>1 DEF IInv, TypeOK, Peeked
        <5> QED BY <5>2 DEF Packet
      <4>2. m_DataAvailable < Peeked.length
        BY <3>4, <4>1, StreamAssumption DEF PeekData, IInv, TypeOK
      <4> QED
        BY <1>3, <3>1, <3>4, <4>2 DEF Starved, LeftoverIsPartial, LengthOK
    <3> QED BY <1>3, <3>3, <3>4 DEF Starved
  <2> QED
    BY <1>3, <2>1, <2>2 DEF Starved, IInv, ClosedHasCause, NeverOutOfSpace
<1>4. CASE BadLength
  <2>1. TypeOK'
    BY <1>4 DEF BadLength, Abort, IInv, TypeOK
  <2> QED
    BY <1>4, <2>1
    DEF BadLength, Abort, IInv, ClosedHasCause, LeftoverIsPartial, NeverOutOfSpace
<1>5. CASE TakeKey
  <2>1. Whole
    BY <1>5 DEF TakeKey, Consume
  <2>2. Peeked.key \in Keys
    BY <2>1, FlushStaysInBuffer DEF IInv, Packet
  <2> QED BY <1>5, <2>2, ConsumeKeepsIInv DEF TakeKey
<1>6. CASE Ignore
  BY <1>6, ConsumeKeepsIInv DEF Ignore, IInv, TypeOK
<1>7. CASE BadHeader
  BY <1>7, RefuseKeepsIInv DEF BadHeader
<1>8. CASE Keepalive
  BY <1>8, ConsumeKeepsIInv, RefuseKeepsIInv DEF Keepalive, IInv, TypeOK
<1>9. CASE Data
  BY <1>9, ConsumeKeepsIInv, RefuseKeepsIInv DEF Data, IInv, TypeOK
<1>10. CASE UNCHANGED vars
  BY <1>10
  DEF vars, IInv, TypeOK, ClosedHasCause, LeftoverIsPartial, NeverOutOfSpace,
      Peeked, Front
<1> QED
  BY <1>1, <1>2, <1>3, <1>4, <1>5, <1>6, <1>7, <1>8, <1>9, <1>10
  DEF Next, Read, OnEventLoop

-----------------------------------------------------------------------------
\* Every variable of a leg keeps its type; in particular FlushData is never
\* asked for more bytes than the buffer holds (the assertion at buffer.cc:47).
THEOREM TypeCorrect == Spec => []TypeOK
<1>1. IInv => TypeOK
  BY DEF IInv
<1> QED BY InitIInv, NextIInv, <1>1, PTL DEF Spec

\* AddData never refuses what recv returned, whatever the peer sends and
\* however TCP cuts it: the out-of-space branch of OnEvent is dead code.
THEOREM BufferSuffices == Spec => []NeverOutOfSpace
<1>1. IInv => NeverOutOfSpace
  BY DEF IInv
<1> QED BY InitIInv, NextIInv, <1>1, PTL DEF Spec

\* Outside OnEvent the buffer holds less than the packet it waits for.
THEOREM LeftoverBounded == Spec => []LeftoverIsPartial
<1>1. IInv => LeftoverIsPartial
  BY DEF IInv
<1> QED BY InitIInv, NextIInv, <1>1, PTL DEF Spec

-----------------------------------------------------------------------------
(***************************************************************************)
(* The refinement.  The mapping sends next to Front, so reading from the   *)
(* socket and starving are stuttering steps, and each answer of the loop   *)
(* is the abstract step that answers the same packet the same way.         *)
(***************************************************************************)
LEMMA InitRefines == Init => Abstract!Init
BY StreamAssumption DEF Init, Abstract!Init, Front

\* The instance has its own copy of ROMPackets; its operators are these.
LEMMA SamePackets ==
    ASSUME NEW p
    PROVE  /\ Abstract!LengthOK(p) = LengthOK(p)
           /\ Abstract!CarriesKey(p) = CarriesKey(p)
           /\ Abstract!HeaderBad(p) = HeaderBad(p)
           /\ Abstract!IsKeepalive(p) = IsKeepalive(p)
           /\ Abstract!IsData(p) = IsData(p)
           /\ Abstract!Ignored(p, m_HaveKey) = Ignored(p, m_HaveKey)
           /\ Abstract!DataChecksum(p, m_Key) = DataChecksum(p, m_Key)
<1> USE DEF IsKey, Abstract!IsKey, Verified, Abstract!Verified,
            CarriesKey, Abstract!CarriesKey, IsData, Abstract!IsData
<1>1. Abstract!LengthOK(p) = LengthOK(p)
  BY DEF LengthOK, Abstract!LengthOK
<1>2. Abstract!CarriesKey(p) = CarriesKey(p) /\ Abstract!IsData(p) = IsData(p)
  OBVIOUS
<1>3. Abstract!HeaderBad(p) = HeaderBad(p)
  BY DEF HeaderBad, Abstract!HeaderBad
<1>4. Abstract!IsKeepalive(p) = IsKeepalive(p)
  BY DEF IsKeepalive, Abstract!IsKeepalive
<1>5. Abstract!Ignored(p, m_HaveKey) = Ignored(p, m_HaveKey)
  BY DEF Ignored, Abstract!Ignored, IsPlain, Abstract!IsPlain
<1>6. Abstract!DataChecksum(p, m_Key) = DataChecksum(p, m_Key)
  BY DEF DataChecksum, Abstract!DataChecksum, KeyFor, Abstract!KeyFor
<1> QED BY <1>1, <1>2, <1>3, <1>4, <1>5, <1>6

\* What PacketStream asks of a packet before it may be answered.
LEMMA WholeIsSent ==
    ASSUME IInv, Whole
    PROVE  /\ cause = "open"
           /\ Front + HeaderSize <= StreamLen
           /\ LengthOK(Peeked)
           /\ Front + Peeked.length <= StreamLen
           /\ received - (m_DataAvailable - Peeked.length) = Front + Peeked.length
<1>1. /\ received \in Nat /\ m_DataAvailable \in Nat
      /\ received <= StreamLen /\ StreamLen \in Nat /\ HeaderSize \in Nat
  BY StreamAssumption, SizeAssumption DEF IInv, TypeOK
<1>2. Peeked \in Packet
  BY FlushStaysInBuffer DEF IInv
<1>3. Peeked.length \in Nat
  BY <1>2 DEF Packet
<1>4. cause = "open"
  BY DEF IInv, ClosedHasCause, Whole
<1> QED BY <1>1, <1>3, <1>4 DEF Whole, PeekData, Front

LEMMA ConsumeRefines ==
    ASSUME IInv, NEW answer \in {"newkey", "ignored", "reply", "packet"},
           Consume(answer),
           IF answer = "newkey" THEN m_HaveKey' = TRUE /\ m_Key' = Peeked.key
                                ELSE UNCHANGED <<m_HaveKey, m_Key>>,
           Abstract!Fits(Peeked, answer)
    PROVE  Abstract!Next
<1>1. Whole /\ Record(answer) /\ UNCHANGED <<stream, received, pc, cause>>
  BY DEF Consume
<1>2. Front' = Front + Peeked.length
  BY <1>1, WholeIsSent DEF Consume, FlushData, Front
<1>3. answer \notin Abstract!Fatal /\ answer \in Abstract!Benign
  BY DEF Abstract!Fatal, Abstract!Benign
<1>4. Abstract!Answer(answer)
  BY <1>1, <1>2, <1>3, WholeIsSent, SamePackets DEF Abstract!Answer, Record, Peeked
<1> QED BY <1>3, <1>4 DEF Abstract!Next

LEMMA RefuseRefines ==
    ASSUME IInv, NEW answer \in {"badheader", "baddata", "noreply"},
           Refuse(answer),
           Abstract!Fits(Peeked, answer)
    PROVE  Abstract!Next
<1>1. Whole /\ Record(answer) /\ Abort(answer) /\ UNCHANGED received
  BY DEF Refuse
<1>2. answer \in Abstract!Fatal /\ answer # "newkey"
  BY DEF Abstract!Fatal
<1>3. Front' = Front
  BY <1>1 DEF Abort, Front
<1>4. Abstract!Answer(answer)
  BY <1>1, <1>2, <1>3, WholeIsSent, SamePackets DEF Abstract!Answer, Record, Abort, Peeked
<1> QED BY <1>2, <1>4 DEF Abstract!Next

LEMMA NextRefines == IInv /\ [Next]_vars => [Abstract!Next]_Abstract!vars
<1> SUFFICES ASSUME IInv, [Next]_vars PROVE [Abstract!Next]_Abstract!vars
  OBVIOUS
<1>1. ASSUME NEW len \in 1 .. MaxPacketSize, Receive(len)
      PROVE  UNCHANGED Abstract!vars
  <2>1. HasRoom(len)
    BY <1>1, LeftoverLeavesRoom DEF IInv, Receive
  <2>2. received \in Nat /\ m_DataAvailable \in Nat /\ len \in Nat
    BY StreamAssumption, SizeAssumption DEF IInv, TypeOK
  <2>3. /\ received' = received + len
        /\ m_DataAvailable' = m_DataAvailable + len
        /\ UNCHANGED <<stream, m_HaveKey, m_Key, cause, handled>>
    BY <1>1, <2>1 DEF Receive, AddData
  <2>4. Front' = Front
    BY <2>2, <2>3 DEF Front
  <2> QED BY <2>3, <2>4 DEF Abstract!vars
<1>2. CASE PeerClosed
  <2>1. cause = "open"
    BY <1>2 DEF PeerClosed, IInv, ClosedHasCause
  <2>2. Front' = Front
    BY <1>2 DEF PeerClosed, Abort, Front
  <2>3. Abstract!GiveUp
    BY <1>2, <2>1, <2>2 DEF PeerClosed, Abort, Abstract!GiveUp
  <2> QED BY <2>3 DEF Abstract!Next
<1>3. CASE Starved
  BY <1>3 DEF Starved, Front, Abstract!vars
<1>4. CASE BadLength
  <2>1. cause = "open"
    BY <1>4 DEF BadLength, IInv, ClosedHasCause
  <2>2. Front' = Front
    BY <1>4 DEF BadLength, Abort, Front
  <2>3. Front + HeaderSize <= StreamLen
    BY <1>4, StreamAssumption, SizeAssumption
    DEF BadLength, PeekData, Front, IInv, TypeOK
  <2>4. Abstract!GiveUp
    BY <1>4, <2>1, <2>2, <2>3, SamePackets
    DEF BadLength, Abort, Peeked, Abstract!GiveUp
  <2> QED BY <2>4 DEF Abstract!Next
<1>5. CASE TakeKey
  BY <1>5, SamePackets, ConsumeRefines DEF TakeKey, Abstract!Fits
<1>6. CASE Ignore
  BY <1>6, SamePackets, ConsumeRefines DEF Ignore, Abstract!Fits
<1>7. CASE BadHeader
  BY <1>7, SamePackets, RefuseRefines DEF BadHeader, Abstract!Fits
<1>8. CASE Keepalive
  BY <1>8, SamePackets, ConsumeRefines, RefuseRefines DEF Keepalive, Abstract!Fits
<1>9. CASE Data
  BY <1>9, SamePackets, ConsumeRefines, RefuseRefines DEF Data, Abstract!Fits
<1>10. CASE UNCHANGED vars
  BY <1>10 DEF vars, Abstract!vars, Front
<1> QED
  BY <1>1, <1>2, <1>3, <1>4, <1>5, <1>6, <1>7, <1>8, <1>9, <1>10
  DEF Next, Read, OnEventLoop

\* A leg implements PacketStream: what OnEvent does with the bytes is what it
\* would do with the packets, whatever the chunks recv cuts them into.
THEOREM Refinement == Spec => AnswersPacketStream
<1>1. Spec => Abstract!Init /\ [][Abstract!Next]_Abstract!vars
  BY InitIInv, NextIInv, InitRefines, NextRefines, PTL DEF Spec
<1> QED BY <1>1 DEF AnswersPacketStream, Abstract!Spec
=============================================================================
