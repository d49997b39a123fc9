---------------------------- MODULE ROMConnection ----------------------------
(***************************************************************************)
(* One leg of a proxied connection: the FIFO of lib/buffer.cc and the      *)
(* OnEvent handler of lib/romconnection.cc that fills it from the socket   *)
(* and cuts packets off its front.  The peer's bytes are a stream fixed in *)
(* the initial state; stream[o] is the packet OnEvent would see if its     *)
(* buffer started at offset o, whether a packet starts there or not, so a  *)
(* buffer that slipped off the packet boundaries would read other packets. *)
(* The buffer holds the m_DataAvailable bytes before offset received, since *)
(* AddData appends what recv returned and FlushData drops a prefix.        *)
(***************************************************************************)
EXTENDS ROMPackets, Sequences

CONSTANTS
    BufferSize,   \* Buffer::s_BufferSize, 262144 in the code
    StreamLen,    \* bytes the peer sends before it falls silent
    Streams       \* the streams a peer may send

ASSUME BufferAssumption ==
    BufferSize \in Nat /\ BufferSize >= 2 * MaxPacketSize - 1

ASSUME StreamAssumption ==
    StreamLen \in Nat /\ Streams \subseteq [0 .. StreamLen -> Packet]

VARIABLES
    stream,           \* the peer's stream
    received,         \* how much of it recv has returned
    m_DataAvailable,  \* bytes in the buffer
    m_HaveKey, m_Key,
    pc,               \* "select": outside OnEvent; "parse": in its loop
    handled,          \* the answers given, each with its packet's offset
    cause             \* "open", or why OnEvent returned false

vars == <<stream, received, m_DataAvailable, m_HaveKey, m_Key, pc, handled, cause>>

TypeOK ==
    /\ stream \in [0 .. StreamLen -> Packet]
    /\ received \in 0 .. StreamLen
    /\ m_DataAvailable \in 0 .. received
    /\ m_HaveKey \in BOOLEAN
    /\ m_Key \in Keys \cup {NoKey}
    /\ pc \in {"select", "parse", "closed"}
    /\ handled \in Seq([at : 0 .. StreamLen,
                        answer : {"newkey", "ignored", "reply", "packet",
                                  "badheader", "baddata", "noreply"}])
    /\ cause \in {"open", "peer", "badlength", "badheader", "baddata",
                  "noreply", "nospace"}

Init == /\ stream \in Streams
        /\ received = 0
        /\ m_DataAvailable = 0
        /\ m_HaveKey = FALSE
        /\ m_Key = NoKey
        /\ pc = "select"
        /\ handled = <<>>
        /\ cause = "open"

-----------------------------------------------------------------------------
\* Stream offset of the buffer's first byte, and the packet peeked at there.
Front == received - m_DataAvailable
Peeked == stream[Front]

\* Slips of the buffer that the properties must notice.
PeekData_Strict(len) == m_DataAvailable > len
FlushData_DataLength(len) == m_DataAvailable' = m_DataAvailable - (len - HeaderSize)
FlushData_HeaderTwice(len) == m_DataAvailable' = m_DataAvailable - (len + HeaderSize)

HasRoom(len) == m_DataAvailable + len < BufferSize
AddData(len) == m_DataAvailable' = m_DataAvailable + len
PeekData(len) == m_DataAvailable >= len
FlushData(len) == m_DataAvailable' = m_DataAvailable - len

\* OnEvent returns false: the proxy deletes the connection.
Abort(why) ==
    /\ pc' = "closed"
    /\ cause' = why
    /\ UNCHANGED <<stream, m_DataAvailable, m_HaveKey, m_Key>>

\* OnEvent's recv returns some bytes, as few or as many as TCP likes, and
\* AddData appends them to the buffer or refuses them.
Receive(len) ==
    /\ pc = "select"
    /\ received + len <= StreamLen
    /\ received' = received + len
    /\ IF HasRoom(len)
       THEN /\ AddData(len)
            /\ pc' = "parse"
            /\ UNCHANGED <<stream, m_HaveKey, m_Key, cause>>
       ELSE Abort("nospace")
    /\ UNCHANGED handled

\* recv returns 0 or an error.
PeerClosed ==
    /\ pc = "select"
    /\ Abort("peer")
    /\ UNCHANGED <<received, handled>>

\* The loop ends for want of data and OnEvent returns true.
Starved ==
    /\ pc = "parse"
    /\ \/ ~PeekData(HeaderSize)
       \/ LengthOK(Peeked) /\ ~PeekData(Peeked.length)
    /\ pc' = "select"
    /\ UNCHANGED <<stream, received, m_DataAvailable, m_HaveKey, m_Key, handled, cause>>

BadLength ==
    /\ pc = "parse"
    /\ PeekData(HeaderSize)
    /\ ~LengthOK(Peeked)
    /\ Abort("badlength")
    /\ UNCHANGED <<received, handled>>

\* A whole packet is at the front; it goes to OnRawPacketReceived.
Whole == /\ pc = "parse"
         /\ PeekData(HeaderSize)
         /\ LengthOK(Peeked)
         /\ PeekData(Peeked.length)
Record(answer) == handled' = Append(handled, [at |-> Front, answer |-> answer])

\* One packet per event: the while loop as an if.
Consume_Once(answer) ==
    /\ Whole
    /\ Record(answer)
    /\ FlushData(Peeked.length)
    /\ pc' = "select"
    /\ UNCHANGED <<stream, received, cause>>

\* The packet is answered, flushed, and the loop goes on.
Consume(answer) ==
    /\ Whole
    /\ Record(answer)
    /\ FlushData(Peeked.length)
    /\ UNCHANGED <<stream, received, pc, cause>>

\* The packet makes OnEvent give up.
Refuse(answer) ==
    /\ Whole
    /\ Record(answer)
    /\ Abort(answer)
    /\ UNCHANGED received

TakeKey ==
    /\ CarriesKey(Peeked)
    /\ Consume("newkey")
    /\ m_HaveKey' = TRUE
    /\ m_Key' = Peeked.key

Ignore ==
    /\ Ignored(Peeked, m_HaveKey)
    /\ Consume("ignored")
    /\ UNCHANGED <<m_HaveKey, m_Key>>

BadHeader == HeaderBad(Peeked) /\ Refuse("badheader")

\* SendKeepaliveReply succeeds or fails.
Keepalive ==
    /\ IsKeepalive(Peeked)
    /\ \/ Consume("reply") /\ UNCHANGED <<m_HaveKey, m_Key>>
       \/ Refuse("noreply")

Data ==
    /\ IsData(Peeked)
    /\ m_HaveKey
    /\ \/ /\ TRUE \in DataChecksum(Peeked, m_Key)
          /\ Consume("packet")
          /\ UNCHANGED <<m_HaveKey, m_Key>>
       \/ /\ FALSE \in DataChecksum(Peeked, m_Key)
          /\ Refuse("baddata")

OnEventLoop == \/ Starved \/ BadLength
               \/ TakeKey \/ Ignore \/ BadHeader \/ Keepalive \/ Data

Read == \E len \in 1 .. MaxPacketSize : Receive(len)

Next == Read \/ PeerClosed \/ OnEventLoop

Spec == Init /\ [][Next]_vars

\* The program runs its handler to the end, and select reports a socket with
\* unread bytes again and again.  Nothing obliges the peer to close.
FairSpec == Spec /\ WF_vars(OnEventLoop) /\ WF_vars(Read)
-----------------------------------------------------------------------------
Abstract == INSTANCE PacketStream
    WITH next <- Front, haveKey <- m_HaveKey, key <- m_Key

\* OnEvent answers the packets of the stream one by one and in order, however
\* TCP cuts them up, and gives up only where PacketStream may.
AnswersPacketStream == Abstract!Spec

\* AddData never fails (romconnection.cc:52): what a call of OnEvent leaves
\* in the buffer and the largest recv always fit together.
NeverOutOfSpace == cause # "nospace"

\* The strengthening NeverOutOfSpace needs: between two events the buffer
\* holds less than the one packet it waits for.
LeftoverIsPartial ==
    pc = "select" =>
        \/ m_DataAvailable < HeaderSize
        \/ LengthOK(Peeked) /\ m_DataAvailable < Peeked.length

\* Once the peer is silent, no whole packet is left in the socket or in the
\* buffer on a connection that stays open: nothing waits for a next packet
\* to push it out.
AllAnswered ==
    <>[](\/ cause # "open"
         \/ Front + HeaderSize > StreamLen
         \/ Front + Peeked.length > StreamLen)
=============================================================================
