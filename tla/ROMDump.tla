------------------------------- MODULE ROMDump -------------------------------
(***************************************************************************)
(* romdump's reader: main recognises the file, reads one chunk after the   *)
(* other, appends each to the flow of its connection, and AnalyzeFlow cuts *)
(* packets off that flow until it starves.  A chunk of a romproxy log is   *)
(* one whole packet; a chunk of a tcpflow capture is any piece of a TCP    *)
(* stream.  As in ROMConnection, a flow's bytes are fixed in the initial   *)
(* state and stream[c][o] is the packet AnalyzeFlow would see at offset o. *)
(* The file ends wherever the reader stops to find more.  How a packet is  *)
(* displayed is left out; whether its checksum verifies is not.            *)
(***************************************************************************)
EXTENDS ROMPackets, Sequences, FiniteSetsExt

CONSTANTS
    Conns,         \* the connections of the file: source and destination
    StreamLen,     \* bytes a flow carries
    Streams,       \* what a flow may carry
    Formats,       \* the kinds of file romdump is given
    ShowKeepalive  \* the option -k

ASSUME FileAssumption ==
    /\ StreamLen \in Nat /\ Streams \subseteq [0 .. StreamLen -> Packet]
    /\ Formats \subseteq {"log", "tcpflow", "padded"}
    /\ ShowKeepalive \in BOOLEAN
    /\ Conns \cap {"detect", "read", "done"} = {}   \* pc tells them apart

VARIABLES
    format,     \* "log": RoM! or RoM+; "tcpflow"; "padded": tcpflow after 4 bytes
    stream,     \* the bytes of each flow
    used,       \* m_DataBufferUsed of each flow
    offset,     \* CurrentDataOffset of each flow
    isLog,      \* g_IsROMLogFile
    beheaded,   \* the first header is to be parsed without its first 4 bytes
    m_HaveKey, m_Key,   \* g_State: one key for all flows
    pc,         \* "detect", "read", a flow being analysed, or "done"
    analysed,   \* the packets analysed, numbered by the sequence variable
    cause       \* why the reader stopped

vars == <<format, stream, used, offset, isLog, beheaded, m_HaveKey, m_Key, pc,
          analysed, cause>>

Verdict == {"skipped", "key", "good", "bad", "plain"}

TypeOK ==
    /\ format \in Formats
    /\ stream \in [Conns -> [0 .. StreamLen -> Packet]]
    /\ used \in [Conns -> 0 .. StreamLen]
    /\ offset \in [Conns -> 0 .. StreamLen]
    /\ \A c \in Conns : offset[c] <= used[c]
    /\ isLog \in BOOLEAN /\ beheaded \in BOOLEAN /\ m_HaveKey \in BOOLEAN
    /\ m_Key \in Keys \cup {NoKey}
    /\ pc \in Conns \cup {"detect", "read", "done"}
    /\ analysed \in Seq([conn : Conns, at : 0 .. StreamLen, verdict : Verdict])
    /\ cause \in {"none", "eof", "badheader", "toolarge", "badkey", "abort"}

Init ==
    /\ format \in Formats
    /\ stream \in [Conns -> Streams]
    /\ used = [c \in Conns |-> 0]
    /\ offset = [c \in Conns |-> 0]
    /\ isLog = FALSE /\ beheaded = FALSE /\ m_HaveKey = FALSE
    /\ m_Key = NoKey
    /\ pc = "detect"
    /\ analysed = <<>>
    /\ cause = "none"

-----------------------------------------------------------------------------
(* Reading the file.                                                       *)

\* Four bytes are read for the magic number.  They are put back only if there
\* are not that many; a capture is not a log and loses them.
Detect ==
    /\ pc = "detect"
    /\ isLog' = (format = "log")
    /\ beheaded' = (format = "tcpflow")
    /\ pc' = "read"
    /\ UNCHANGED <<format, stream, used, offset, m_HaveKey, m_Key, analysed, cause>>

Stop(why) ==
    /\ pc' = "done"
    /\ cause' = why
    /\ UNCHANGED <<format, stream, used, offset, isLog, beheaded, m_HaveKey, m_Key,
                   analysed>>

\* End of file, a record cut short, an empty chunk, an unknown line.
EndOfFile == pc = "read" /\ ~beheaded /\ Stop("eof")

\* A connection that lost its first bytes does not parse.
BadHeader == pc = "read" /\ beheaded /\ Stop("badheader")

Feed(c, len) ==
    /\ used' = [used EXCEPT ![c] = @ + len]
    /\ pc' = c
    /\ UNCHANGED <<format, stream, offset, isLog, beheaded, m_HaveKey, m_Key,
                   analysed, cause>>

\* A log record holds the packet that is next in its flow.
Record(c) == stream[c][used[c]].length
\* A slip: a buffer of half the size.
TooLarge_Half(len) == len > MaxPacketSize \div 2
TooLarge(len) == len > MaxPacketSize

ReadRecord(c) ==
    /\ pc = "read" /\ isLog
    /\ used[c] + Record(c) <= StreamLen
    /\ Record(c) > 0
    /\ IF TooLarge(Record(c)) THEN Stop("toolarge") ELSE Feed(c, Record(c))

ReadSegment(c, len) ==
    /\ pc = "read" /\ ~isLog /\ ~beheaded
    /\ used[c] + len <= StreamLen
    /\ Feed(c, len)

-----------------------------------------------------------------------------
(* AnalyzeFlow and AnalyzePacket.                                          *)

Left(c) == used[c] - offset[c]
Peeked(c) == stream[c][offset[c]]

\* Slips of the loop that the properties must notice.
Starving_AtEqual(c) ==
    Left(c) < HeaderSize \/ Peeked(c).length < HeaderSize \/ Peeked(c).length >= Left(c)
Starving_NoLength(c) == Left(c) < HeaderSize
Advance_DataLength(c) == offset' = [offset EXCEPT ![c] = @ + Peeked(c).length - HeaderSize]

Starving(c) == Left(c) < HeaderSize \/ Peeked(c).length < HeaderSize \/ Peeked(c).length > Left(c)
Obscene(c) == Left(c) >= HeaderSize /\ Peeked(c).length > MaxPacketSize
Ready(c) == ~Obscene(c) /\ ~Starving(c)

Advance(c) == offset' = [offset EXCEPT ![c] = @ + Peeked(c).length]

Analysed(c, verdict) ==
    /\ analysed' = Append(analysed, [conn |-> c, at |-> offset[c], verdict |-> verdict])
    /\ Advance(c)
    /\ UNCHANGED <<format, stream, used, isLog, beheaded, pc, cause>>

Skipped(p) == ~ShowKeepalive /\ p.flags \cap {"ALIVE_REQUEST", "ALIVE_REPLY"} # {}

Skip(c) ==
    /\ pc = c /\ Ready(c)
    /\ Skipped(Peeked(c))
    /\ Analysed(c, "skipped")
    /\ UNCHANGED <<m_HaveKey, m_Key>>

\* Only the first key of a file is kept.
TakeKey_Once(c) ==
    /\ pc = c /\ Ready(c)
    /\ ~Skipped(Peeked(c)) /\ CarriesKey(Peeked(c))
    /\ Analysed(c, "key")
    /\ m_HaveKey' = TRUE
    /\ m_Key' = IF m_HaveKey THEN m_Key ELSE Peeked(c).key

TakeKey(c) ==
    /\ pc = c /\ Ready(c)
    /\ ~Skipped(Peeked(c)) /\ CarriesKey(Peeked(c))
    /\ Analysed(c, "key")
    /\ m_HaveKey' = TRUE
    /\ m_Key' = Peeked(c).key

\* A KEY packet of another size ends the program.
BadKey(c) ==
    /\ pc = c /\ Ready(c)
    /\ ~Skipped(Peeked(c)) /\ IsKey(Peeked(c)) /\ ~CarriesKey(Peeked(c))
    /\ Stop("badkey")

\* What the data checksum says goes for a packet that is encrypted; neither
\* a bad header checksum nor the lack of a key stops the decryption.
Show(c) ==
    /\ pc = c /\ Ready(c)
    /\ ~Skipped(Peeked(c)) /\ ~IsKey(Peeked(c))
    /\ \E verdict \in Verdict :
          /\ IF Peeked(c).flags = {"ENCRYPTED"}
             THEN \E ok \in DataChecksum(Peeked(c), m_Key) :
                     verdict = IF ok THEN "good" ELSE "bad"
             ELSE verdict = "plain"
          /\ Analysed(c, verdict)
    /\ UNCHANGED <<m_HaveKey, m_Key>>

\* A length nobody sends: abort().
GiveUp(c) == pc = c /\ Obscene(c) /\ Stop("abort")

\* A length below the header's leaves the flow as it is, for good.
Starve(c) ==
    /\ pc = c /\ ~Obscene(c) /\ Starving(c)
    /\ pc' = "read"
    /\ UNCHANGED <<format, stream, used, offset, isLog, beheaded, m_HaveKey, m_Key,
                   analysed, cause>>

AnalyzeFlow(c) == Skip(c) \/ TakeKey(c) \/ BadKey(c) \/ Show(c) \/ GiveUp(c) \/ Starve(c)

Next == \/ Detect \/ EndOfFile \/ BadHeader
        \/ \E c \in Conns : ReadRecord(c)
        \/ \E c \in Conns : \E len \in 1 .. MaxPacketSize : ReadSegment(c, len)
        \/ \E c \in Conns : AnalyzeFlow(c)

Spec == Init /\ [][Next]_vars

-----------------------------------------------------------------------------
End(r) == r.at + stream[r.conn][r.at].length

\* Where the last of the first i packets analysed that is of flow c ends.
EndBefore(c, i) ==
    LET mine == {j \in 1 .. i : analysed[j].conn = c} IN
    IF mine = {} THEN 0 ELSE End(analysed[Max(mine)])

\* However the file cuts a flow up and mixes it with others, the packets
\* analysed are those of the flow, each once, in order and without gaps.
EachPacketOnce ==
    \A c \in Conns :
        /\ \A i \in DOMAIN analysed : analysed[i].conn = c => analysed[i].at = EndBefore(c, i - 1)
        /\ offset[c] = EndBefore(c, Len(analysed))

\* "Process as much as we can of the stream; we want to match request/response
\* as much as possible" (romdump.cc:692): no packet that has been read in full
\* waits for the next chunk.
NothingWaits ==
    pc = "read" =>
        \A c \in Conns :
            Left(c) >= HeaderSize /\ Peeked(c).length >= HeaderSize => Peeked(c).length > Left(c)

\* A data packet is decoded with the last key the file gave, on whichever of
\* its flows: client packets with the server's key.
KeyBefore(i) ==
    LET keys == {j \in 1 .. i : analysed[j].verdict = "key"} IN
    IF keys = {} THEN NoKey
    ELSE LET r == analysed[Max(keys)] IN stream[r.conn][r.at].key
LatestKeyDecodes ==
    \A i \in DOMAIN analysed :
        LET r == analysed[i]
            p == stream[r.conn][r.at] IN
        r.verdict \in {"good", "bad"} /\ p.keynum # "beyond" =>
            (r.verdict = "good" <=> KeyFor(p, KeyBefore(i - 1)) \in p.accepts)

\* romdump gives up on a log only where the proxy did not accept what it
\* logged: over a length outside the proxy's limits, or over a KEY packet of
\* another length than a key has.  The proxy logs and ignores the latter and the
\* session goes on (romconnection.cc:78-82); romdump ends there (romdump.cc:182).
ProxyLogsAreRead ==
    isLog =>
        /\ cause = "toolarge" => \E c \in Conns : ~LengthOK(stream[c][used[c]])
        /\ cause = "abort" => \E c \in Conns : Left(c) > 0 /\ ~LengthOK(Peeked(c))
        /\ cause = "badkey" =>
               \E c \in Conns : Left(c) > 0 /\ IsKey(Peeked(c)) /\ ~CarriesKey(Peeked(c))

-----------------------------------------------------------------------------
\* "Reads a tcpflow-written text output stream" (README.md:15)
TcpflowIsRead == cause # "badheader"
=============================================================================
