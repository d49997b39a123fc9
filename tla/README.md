# A verification project for openrom

openrom is a set of tools for the network protocol of the game Runes of Magic:
`romproxy`, a single-threaded proxy between a game client and its servers that
logs what passes; `romdump`, which decodes such a log or a tcpflow capture;
`mkdef`, which generates packet code; and the library they share. This
directory holds TLA+ models of these programs, TLC configurations that check
them on small instances, and TLAPS proofs for instances of every size.

## The system

| component | state | operations | works with |
|---|---|---|---|
| `ROMConnection`, `Buffer` (`lib/`) | bytes received and not answered, key, `m_HaveKey`, sequence number | `OnEvent` (recv, cut packets off, key, checksums, keepalive), `SendKey`, `SendPacket`, `SendKeepaliveReply`, `CopyKey` | calls its `ROMConnectionCallback`; reads and writes its `Client` |
| `ROMProxiedConnection` | two `ROMConnection`s, local (client) and remote (server) | `OnLocalEvent`, `OnRemoteEvent`, callbacks for new key, packet, raw packet | forwards each leg's packets on the other, writes the packet log |
| `ROMPacketLogger` | the log file | `Open`, `Write`, `Close` | read by `romdump` |
| `ROMProxy`, `Proxy`, `ProxyServer` | list of proxies, each with a listening socket and connections; bind address; `m_quit` | `Run` (select loop), `FillFdSet`, `ProcessFdSet`, `Accept`/`CreateClient`, `GetProxyForAddress`, `GetNextBindAddress`, SIGINT | calls the sessions' event handlers |
| `LoginProxy`, `GameProxy` | none | rewrite the server address in two kinds of packet | ask `ROMProxy` for a proxy, from inside an event handler |
| `Server`, `Client`, `Socket`, `Address` | descriptors, addresses | listen, accept, connect, read, write, close, resolve, compare | the kernel |
| `romdump` reader | position in the file, flows, one global key | recognise the file, read a chunk, `Flow::Append`, `AnalyzeFlow`, `AnalyzePacket` | hands payloads to the decoder |
| `ProtocolDefinition` loader | lists of definitions, enumerations, types, packets | `Load` and the parsers of each element of `def/protocol.xml` | registered transformations and annotations |
| `ProtocolDefinition` decoder | fields with their last values, each packet's last subpacket | `Process`, `Packet::Fill`, `Struct::Fill`, the types' `Fill` | transformations (`ROMPack`), annotations |
| annotations of `romdump` | names of objects, object ids of characters, system names | `Apply` stores, `Lookup` finds | called by the decoder in the middle of a trial, and by the display |
| `ROMPack` | none | `Pack`, `Unpack` | `romdump`'s `ROMPacking`, generated code |
| display | none | prints the fields and the last subpacket | the decoder's values, the annotations |
| code generator, `mkdef` | none | write classes with `Reset`, `Send` and a `Parser` | the loader; `ROMPack` |
| `Logger`, `LoggingSystem` | a list of names | print to stderr | nobody |

What makes it hard. There are no threads, so the hard parts are not data races:

- TCP delivers the packets of a leg in any chunks; the answer must not depend
  on them, the buffer must suffice, and nothing complete may be left waiting.
- Two streams in opposite directions share a key that the server may change
  while packets sealed with the old one are under way.
- Writes block and their results are ignored; a peer may leave between any two
  steps.
- One pass of the loop works from an `fd_set` filled in before it, while the
  pass itself closes, opens and reuses descriptors and adds proxies to the list
  it walks.
- A log or a capture mixes flows that share one key, and must decode later.
- The decoder finds out what a payload is by trying definitions on it; values,
  and names that annotations store, are written before it is known whether the
  definition fits, and stay when it does not.
- A packed stream is a machine without bounds whose commands mean different
  things in different places.
- Three pieces of code count the bytes of a packet each in its own way: the
  decoder, the generated `Send` and the generated `Parser`.

What must hold: every packet answered once and in order with the key in force
(`ROMConnection`); both peers see the other's data complete, in order, readable
and correctly numbered, and a session of honest peers is not torn down
(`ROMProxiedConnection`); the log decodes from front to back; every descriptor
has one owner, and clients are sent to a proxy that leads to the right server
(`ROMProxy`); `romdump` sees each packet once; what it prints and stores for a
payload comes from that payload, or is the rest of a packet that was cut short;
what is packed unpacks; what generated code sends is decoded as what was sent.

## The modules

| module | models |
|---|---|
| `ROMPackets` | a packet as far as the programs tell packets apart, and the tests `OnEvent` makes, in their order |
| `PacketStream` | abstract: what a `ROMConnection` promises, with no reads and no buffer |
| `ROMConnection` | `lib/romconnection.cc` `OnEvent` with `lib/buffer.cc`; implements `PacketStream` |
| `ROMConnectionProofs` | theorems about `ROMConnection` |
| `Traces` | lemmas the proofs share: what a reader makes of a queue, ranges, concatenations, least and greatest numbers |
| `ROMProxiedConnection` | one session: both legs, callbacks, log, socket buffers, client and server |
| `ROMProxiedConnectionProofs` | theorems about a session |
| `ROMProxy` | `Run`'s loop, listeners, descriptors, redirects, SIGINT |
| `ROMProxyProofs` | theorems about the loop |
| `ROMDump` | `romdump`'s reader, flows and packet analysis |
| `ROMDumpProofs` | theorems about the reader |
| `PackedText` | abstract: the text that a packed stream's pieces stand for |
| `ROMPack` | `lib/rompack.cc` over bytes, and `ROMPacking::Apply`; implements `PackedText` |
| `ROMPackProofs` | theorems about `Unpack`, `Pack` and `Apply` |
| `ProtocolTypes` | the types and what their `Fill` takes from a buffer |
| `ProtocolTypesProofs` | theorems about `Fill`; lemmas on recursive functions, sums and sequences; what is loaded from a well-formed file is well made |
| `ProtocolLoader` | `lib/protocoldefinition.cc`: `Load` and the parsers; extends `ProtocolTypes` |
| `ProtocolCode` | what the code does that `lib/protocolcodegenerator.cc` writes |
| `ProtocolDecode` | `lib/protocoldecode.cc` with `romdump`'s annotations; extends the loader and the generated code, and composes them |
| `ProtocolDecodeProofs` | theorems about the decoder and about what a generated `Send` writes |
| `MC...` | instances for TLC |

**ROMPackets.** A packet is a record. The arithmetic of checksums and mangling
is replaced by what it decides: `hdrok`, and `accepts`, the set of keys under
which the data checksum verifies. An 8-bit sum can verify by accident, so
`accepts` may hold several keys. `p_keynum` is `"table"` (an index into the
ten keys; the session's key in the model), `"fixed"` (0xff, key 8) or
`"beyond"` (10 to 254, which reads past the table: either verdict is possible).

**ROMConnection.** The peer's bytes are fixed in the initial state: `stream[o]`
is the packet one would read at offset `o`, whether one starts there or not.
The buffer is `m_DataAvailable`, the number of bytes it holds before offset
`received`. `Receive(len)` is the recv and `AddData` at the top of `OnEvent`;
the other actions are the branches of its loop: `Starved` (both `break`s),
`BadLength`, `TakeKey`, `Ignore`, `BadHeader`, `Keepalive`, `Data`. `handled`
is a history of the answers. Returning false is `pc = "closed"` with `cause`.

**ROMProxiedConnection.** `inbuf` holds what one recv brought, `toProxy` and
`fromProxy` the kernel's socket buffers, `pc` and `ready` where `ProcessFdSet`
stands: local leg first, then the remote one, even if the local one has failed.
Each leg answers whole packets; that it does is `ROMConnection`'s theorem
`Refinement`. `RemoteKey` is `OnRemoteNewKey` (take the key for both legs, send it
on, log it), `LocalKey` `OnLocalNewKey` after `OnEvent` stored the key,
`Forward` the two `On...Packet` callbacks, `Drop`, `BadChecksum` and
`Keepalive` the branches of `OnEvent` without a callback. A write waits for
room in the socket; a write to a peer that has closed succeeds once, and the
next one is `BrokenPipe`: SIGPIPE, which the program does not handle, ends it.
`Close` deletes the session and may lose what the peers have not read. The
client and the server are external: data sealed with the key they know, keys
from the server (and the client, if `ClientSendsKey`), keepalive requests,
unencrypted packets, closing at any time.

**ROMProxy.** `pc` walks through `Run`: `check` (`m_quit`), `fill`, `select`,
then for each proxy `accept` and, for each connection, `local`, `remote`,
`reap`. An accept under way walks through `socket` and `connect`, and `accepting`
holds the descriptors that `Accept`, `CreateClient` and `Address::Connect` have taken
and no connection owns yet. Each step may fail, and each failure gives back what
was taken before it: `AcceptFails` nothing, the client is left waiting; `NoSocket`
and `Refused` go on to `close`, where `CloseClient` gives back the client's socket.
Descriptors are handed out lowest first. `Event` reads one item: data,
`eof` (whatever makes a handler return false) or the name of a server, which
calls `Redirect`: resolve, find or make a proxy, tell the client. `StaleEvent`
says the current step is about to call accept or recv on a descriptor with
nothing to report. The world moves only while the loop waits: what arrives
during a pass cannot be noticed before the next select, except by a step that
is itself blocked.

**ROMDump.** `Detect` looks for the magic number; `ReadRecord` and
`ReadSegment` read a chunk of a log or of a capture and append it to its flow;
`AnalyzeFlow` answers packets until the flow starves. Formats: `"log"`,
`"tcpflow"`, and `"padded"`, a capture after four other bytes, the only kind of
capture that gets past `Detect`. `analysed` is a history of the packets in the
order of their analysis; `EndBefore` is where the packet of the same flow before
an entry ended, so `EachPacketOnce` relates neighbours in each flow.
`ProxyLogsAreRead` says for which packets of a log `romdump` gives up: those whose
length the proxy does not accept either, and KEY packets of another length than
a key has. The proxy logs and ignores the latter, and its session goes on
(`romconnection.cc:78`); `romdump` ends there (`romdump.cc:182`).

**PackedText, ROMPack.** `PackedText` extends a text piece by piece: literals,
or the repetition of bytes `dist` back, which may reach into itself. `ROMPack`
reads bytes; `at` is the label `Unpack` stands at, and the actions are the code
between labels: `FirstByte`, `Standard`, `Alternative`, `OffsetCount`, `Near`,
`Mid`, `Far`, `Finish`. `Copied` is `COPY`'s loop, a byte at a time, and `Rest` the
zero bytes of `HANDLE_COUNT`. `read` is the lowest byte of the text that was read.
The streams are those that `Encode`, standing for the game's packer, and `Pack`
write, with and without the trailer that `ROMPacking::Apply` cuts off. No packer
of the game is in the repository; `WellWritten` says what a stream must be for
`Unpack` to have a meaning for it: each piece has counts and offsets that its
form has bits for, and reaches back no further than the text (`Writable`), and
stands behind a piece after which its command is read at the right label
(`Follows`). `PiecesAssumption` lets any such streams be chosen;
`SizesAssumption` keeps to what `Pack` can write, more than 18 bytes. The code does
not: its assertion stops at exactly 18, and of fewer bytes it writes a wrong
count, which `PackCount` does as well, but a stream that no pieces are encoded as
is not among those `ROMPack` starts from. `ProtocolCode` has it.
`FarBase` and `VeryFarBase` are the constants 0x801 and 0x4000 of the code; that
they are positive (`BasesAssumption`) is all the proofs need.

**ProtocolTypes, ProtocolLoader.** A type is a record; all builtin types are
arrays of entries of some width. `LoadElement` is one turn of `Load`'s loop; what
a parser builds is a set, empty if it fails. A structure is registered before it
is read, the first type of a name wins, a filter stands for its children or for
nothing, a header in front of subpackets must have a constant size.
What no parser insists on, and the decoder nevertheless relies on, is
`WellFormed`: sizes are natural numbers, the least size is no more than the size,
a field with a fixed value is one entry, structures are made of fields only, a
subpacket unpacks once, and what an annotation looks up stands before it and
is of a builtin type that does not vary; the object id of a character and the
race are numbers, because `romdump` takes them for numbers without asking
(`TakesForNumber`; it tests the wrong pointer at `romdump.cc:550`). `FilesAssumption` says so of all files;
`def/protocol.xml` keeps to it. Sizes may be names that a `define` gives a number,
so `FieldFits` looks at all the numbers that a name may come to (`Meanings`).
`def/protocol.xml` also has no children inside field nodes, no fixed values inside
structures, and no field with both `display` and `format`; the model leaves these
out.

**ProtocolDecode.** A trial is a sequence of steps. `stack` holds the
`Struct::Fill`s under way, the innermost last, with their copies of the `DecodeState`; `FillField`
is `Field::Process` of a builtin type, `EnterStruct` and `LeaveStruct` of a
structure, `Transform` and `Annotate` the other actions; `TryPacket`,
`HeaderDone`, `TrySub`, `SubDone`, `NoSub`, `Verdict` and `NoPacket` are
`Packet::Fill` and `Process`. `memory` holds the values in the types, by the path
of the field, through all trials and payloads. `spans` is a history of what
this trial took. A structure in which an action failed still reports what it
took before, as in the code. Bytes that nobody wrote are `Junk` or, in a
buffer that is compared, any of `HeapJunk`. `Printed` are the paths of all fields
that `Packet::Print` shows, those in structures too. `StaleIsLast` compares the
actions of each list at each depth: if the payload supplied something of an action,
it did so of the earlier ones. That does not hold of two fields of different lists.
After `<<1, 4, 0>>`, a `Move` whose structure `at` is cut short, `at.y` still has the
value of an earlier payload and is printed before `speed`, which the payload
supplied, because `Struct::Fill` reports what it took before it failed.
An id is any number, signed ones too (`Numeric`). `Human` is the human-readable content
without the number in angle brackets, which `ObjectIdStore` cuts off.
`DataAssumption` says that payloads, texts and what a heap holds are bytes.

**ProtocolCode.** `Send...` are the bytes behind the packet header that a
generated `Send` hands to the state, with every byte that has no fixed value or
length set to one of `Fills`; `Parsed` is the handler `Parser::Process` calls.
`wild` is the outcome of comparing bytes behind the data. `Pack` is the run of literals
that `ROMPack::Pack` writes for a text, with `Implied` (18), the bytes that a run has
without a count, and `EndMarker` (0x11 0 0) as constants (`PackAssumption`);
of fewer bytes than `Implied` it makes the wrong count of the code. It stops at
exactly `Implied` bytes (`PackStops`, the assertion), and such a `Send` sends
nothing (`CanPack`). The structure ends with a pad of `PadSize` zeroes,
`__packer_kludge[1024]`, and nothing keeps what is packed inside it: behind
it comes memory that is `junk`. `Packable` are the packets whose packed fields are
longer than `Implied` and take one entry. Of those `SentIsHandled` speaks;
`ItemShopInfo` (`def/protocol.xml:3531`), of whose varying field one byte is packed,
is not among them.

## The runs

| run | configuration | bounds | shows |
|---|---|---|---|
| `framing` | `MCROMConnection.cfg` | header 2, key 1, lengths below 5, buffer 9 (the least allowed), 1728 streams of three packets of 12 kinds, every chunking | the buffer suffices and holds less than a packet between events; `OnEvent` implements `PacketStream`; nothing complete is left behind |
| `session` | `MCROMProxiedConnection.cfg` | two keys, the server sends two, two data packets each way, two packets per socket, both legs logged, peers may leave | both peers see contiguous, readable, correctly numbered data; the legs agree on the key; an honest session ends only by a peer or over a packet of the client's that crossed a change of key, never over one of the server's; the log decodes |
| `session_progress` | `MCSessionProgress.cfg` | one key from each side, one data packet and one control packet each way, one packet per socket | data arrives, keepalives are answered, no more than once; a packet of the client's that followed its own key ends the session, nothing else does but a peer |
| `local_key` | `MCLocalKey.cfg` | as `session`, one data packet, the client sends keys | violated: a client key is not ignored |
| `loop` | `MCROMProxy.cfg` | five descriptors, two game servers, ports 0 to 4 with 2 and 4 taken, one waiting client | descriptors have one owner in the middle of an accept too, redirects lead to the right proxy for good, proxies differ; a pass ends unless it blocks on a stale descriptor |
| `stale_event` | `MCStaleEvent.cfg` | as `loop` | violated: a handler is called without anything to read |
| `quit` | `MCQuit.cfg` | one game server, four descriptors | violated: the proxy may not quit |
| `dump` | `MCROMDump.cfg` | two flows of two packets of 8 kinds, every interleaving and chunking, three formats | each packet once, at once, with the latest key; in a log of the proxy only a KEY packet of another length ends the reading |
| `tcpflow` | `MCTcpflow.cfg` | as `dump` | violated: a capture is not read |
| `rompack` | `MCROMPack.cfg` | up to five pieces, every form, counts and offsets at the ends of their ranges, bases 5 and 8, texts up to 16800 bytes; `Pack` of 19 to 40, 270 to 276 and 526 to 531 bytes | `Unpack` implements `PackedText`, accepts what was packed, reads nothing outside, ends |
| `protocol` | `MCProtocol.cfg` | two definitions with a packet of every shape, the larger read in two versions, 14 files that are refused; two payloads in a row, cut short, too long, or generated; words of one byte with 32 values; `Pack` implies 2 bytes, the pad has 6 | what is printed and stored comes from the payload; what is sent is handled as what was sent, with one packed field at most, if `Pack` is made for it; every payload gets its answer |
| `packed_fields` | `MCPackedFields.cfg` | as `protocol`, one payload | violated: with two packed fields, what is sent cannot be decoded |

Why the bounds are enough. Framing: the interesting sizes are the boundaries,
and the instance has lengths one below, at and one above each limit, a buffer
with not one byte to spare and chunks of every size; three packets make a key,
a packet before and one after it. Session: a change of key needs two keys and a
packet of each side in flight on either side of it; sockets of one and of two
packets give both a full socket and a pending old packet. Loop: five
descriptors allow two sessions, or one and two more proxies, and run out at
each step of an accept; the taken ports make a bind fail and the port wrap to 0.
Packing: what a command means depends on the command before it, so every form
comes first, second, and behind literals of every way of counting them; counts
take no, one and two more bytes. Decoding: a trial is disturbed by the trials
before it, of the same payload and of the one before, so two payloads suffice
for each field to hold a value of another; cutting a packet at every byte makes
every field the last. A byte has 32 values, enough for every length the instance
sends and for the end marker. Two implied bytes and a pad of six stand for 18
and 1024: fields of one byte are below what `Pack` can write, a position of three
bytes is above it, and what packing adds to one or two of them fits the pad.
Counters are bounded by `MaxData`, `MaxKeys`, `MaxControl`, `SockCap`,
`StreamLen`, `Backlog`, `FDs`, `PortMax`, `MaxPayloads` and `CanPack`, all in guards. The checks allow
deadlock: a session ends, a stream falls silent, a file ends.

Each of the five violated runs checks what the program says of itself (see `findings` in `PROJECT.json`):
a local key that "will be ignored" is not; handlers "called when the local side
has something to report" are called without; a request to quit can be missed;
a tcpflow capture is not read; the construction code for a packet with several
packed fields, like ActivityCosts, writes what nothing can unpack.

## Fairness

`ROMConnection!FairSpec`: `OnEvent` runs to its end, and select reports a
socket again as long as it has unread bytes, so reading and the loop are weakly
fair; the peer is not obliged to do anything. `ROMProxiedConnection!FairSpec`:
the proxy's thread is weakly fair, and so is each peer's reading. The latter
is an assumption: writes block, so a peer that stops reading stops the proxy,
and with it all other sessions. `ROMProxy!FairSpec`: the thread is weakly
fair while no system call blocks it. `ROMPack!FairSpec` and
`ProtocolDecode!FairSpec`: `Unpack`, `Load` and `Process` are plain functions that
run to their end once called; nobody is obliged to call `Process`. Nothing is
assumed of arrivals, closing or signals.

## What is proved

`ROMConnectionProofs` holds for all header, key, packet and buffer sizes with
`HeaderSize < MaxPacketSize` and `BufferSize >= 2 * MaxPacketSize - 1` (12,
131072 and 262144 in the code), all keys and all streams, whatever bytes read
as at offsets where no packet starts:

- `TypeCorrect`: `Spec => []TypeOK`, with `m_DataAvailable \in 0 .. received`,
  which is the assertion of `FlushData`.
- `BufferSuffices`: `Spec => []NeverOutOfSpace`.
- `LeftoverBounded`: `Spec => []LeftoverIsPartial`.
- `Refinement`: `Spec => AnswersPacketStream`.

`NeverOutOfSpace` is not inductive: a recv of up to `MaxPacketSize` bytes fits
only because the last event left less than a packet. That is
`LeftoverIsPartial`; the inductive invariant `IInv` joins it with the types and
`ClosedHasCause`. `LeftoverLeavesRoom` is the arithmetic behind it, and
`FlushStaysInBuffer` the bound on what is flushed. The refinement maps the
buffer's front to the abstract `next`; reads and starving are stutters, each
branch of the loop is one abstract `Answer` (`ConsumeRefines`, `RefuseRefines`,
`NextRefines`).

`ProtocolTypesProofs` holds for every builtin type with positive width and
counts `0 <= min <= count`, and any amount of data left (`WordAssumption`: a word
has at least one byte and a byte at least one value):

- `FillStaysInside`: what `Fill` takes is between nothing and all that is left, so
  that the pointer and the count of a `DecodeState` move together inside the
  payload; the number of entries rests on `LeastQuotient` and `QuotientFits`.
- `ConstantOrNothing`: a type of constant size takes that size or nothing.
  `Packet::Fill` compares sums of both, so a header of the right size is a header
  of which each field was read.

Its second half is about the loader, and its results serve `ProtocolDecodeProofs`.
Recursive functions over numbers and sequences (`Sums`, `Only`, `Number`, the folds
of the parsers) exist and have the type of their steps (`RecursionExists`,
`RecursionTyped`); sums grow, and the sum of a sequence is that of the parts around
any of its elements (`SumsBelow`, `SumsAround`). `WellMade` types are atoms, that is
builtin types with sizes that `Fill` can work with, and compounds, whose fields are well
made and whose sizes are the sums of their fields' sizes; since types nest to any
depth, `WellMade` speaks of a set of types that is closed under taking a
compound apart. `LoaderStart` and `LoaderStep` show that every type, structure and
packet which `Load` has built from a well-formed file is of that form, one lemma
for each parser.

`ROMProxiedConnectionProofs` holds for any keys, any number of data packets, keys
and control packets, sockets of any size, with either leg logged or not
(`SessionAssumption`). Data is in flight in up to five places at once, so the
properties of the ends say nothing about a step. The invariant describes each
queue by what a reader makes of it from front to back (`Leads`, in `Traces`):
one reader counts data packets (`NumberInv`), one takes every key it is told and
can then read what is sealed (`KeyInv`, `ClientInv`), one counts the keepalives
(`RepliesInv`). Such a reader starts at the state of
whoever reads the queue and ends at the state of whoever writes it; a step moves one
of the two, and four lemmas (`LeadsEmpty`, `LeadsTail`, `LeadsAppend`, `LeadsPrefix`)
do what would otherwise be inductions over queues. `IInv` joins these with the
types, what packets on the wire look like (`WireInv`), where the loop stands
(`LoopInv`), what holds before the first key and before the second (`NoKeyInv`,
`OneKeyInv`), and the last key in the log (`LogInv`).

- `Inductive`, `TypeCorrect`; `NoReplyUnasked`: `Spec => []RepliesAreOwed`;
  `SessionSurvives`: `Spec => HonestSessionSurvives`, an action property: no step ends
  the session over a packet of the server's, and one of the client's does so only if
  a later key of the server's had replaced the one it was sealed with, or the
  client had sent a key of its own. These hold whatever the client sends.
- `PromisedUntilClientKey`: as long as the client has sent no key, both streams
  arrive as they should, the keys agree and the log decodes.
- `ClientStream`, `ServerStream`, `OneKeyForBoth`, `LogIsReadable`: the four
  properties of the run `session`, for a client that sends no keys
  (`~ClientSendsKey`). Without that they are false: the run `local_key` shows
  that a client's key takes effect, although the code says that it is ignored.

`ROMProxyProofs` holds for any finite set of descriptors, any ports, any taken
ones among them and any servers (`ProxyAssumption`). `IInv` is `TypeOK`,
`RedirectsLeadHome` and `ProxiesDistinct` with two parts that the steps need:
`OnTheWay`, that the loop stands at a proxy and a connection that exist, although
the list changes under it when a connection is reaped or a redirect adds a
proxy, and which sockets an accept under way holds; and `Owned`, that the
descriptors of each proxy, of different proxies and of the client being accepted
do not overlap and are together exactly the open ones. `OwnedOnce` derives
`DescriptorsOwned` from it.

- `Inductive`, `TypeCorrect`; `EachOwned`: `Spec => []DescriptorsOwned`;
  `LeadsHome`: `Spec => []RedirectsLeadHome`; `Distinct`:
  `Spec => []ProxiesDistinct`.

`ROMDumpProofs` holds for any flows and any file of them (`FileAssumption`).
`NothingWaits` speaks of the moments between reads and is not inductive: while one
flow is being analysed the others must be settled (`OthersSettled`), and `KeyIsLatest`
ties the global key to the history. `IInv` adds `TypeOK`, `EachPacketOnce`,
`LatestKeyDecodes`, `StoppedIsDone` and `ProxyLogsAreRead`.

- `Inductive`, `TypeCorrect`; `PacketsOnce`: `Spec => []EachPacketOnce`;
  `NoneWaits`: `Spec => []NothingWaits`; `DecodedWithLatest`:
  `Spec => []LatestKeyDecodes`; `LogsAreRead`: `Spec => []ProxyLogsAreRead`.

`ROMPackProofs` holds for all well-written streams of any length and all sizes
given to `Pack`. `IInv` says that `src` is what well-written pieces are encoded as,
perhaps with a trailer that `srclen` leaves out (`IsStream`), that the text is what
the first `done` pieces stand for, and where the machine is (`Stands`): at every
label it stands where a piece begins, that piece is one the label has a meaning
for, and at `offset` the byte two back holds the count of the literals that
follow. `StaysInside`, `Accepted` and the refinement all need the last part: what
a command below 0x10 means depends on the piece before it.

- `CopyIsRepetition`: `COPY`, which reads what the same loop has written, yields
  the repetition of the last `dist` bytes.
- `Inductive`, `TypeCorrect`; `NeverOutside`: `Spec => []StaysInside`;
  `EveryStreamAccepted`: `Spec => []Accepted`.
- `UnpackImplements`: `Spec => Implements`, that each step puts the next piece behind
  the text or leaves it alone.

They rest on one lemma for each form of command, that its bytes are read back as
what was written (`NearRead`, `MidRead`, `FarRead`, `AltRead`, `RunRead`, `CountRead`),
on `PackIsStream`, that what `Pack` writes is a well-written stream of one
run, and on `TrailerCut`, that `ROMPacking::Apply` cuts off the trailer and
nothing else. Texts, streams, copies and zero counts are recursive functions; that
each exists and satisfies its equations is proved in place. The library's
induction theorems take an operator, which the provers cannot instantiate, so
these proofs, and others over numbers, take the least number at which a claim fails
(`LeastNumber`, `GreatestNumber` in `Traces`).

`ProtocolDecodeProofs` holds for any set of well-formed files and versions, any
payloads in any order, received or generated, any texts they unpack to, and
structures nested to any depth (`FilesAssumption`, `WordAssumption`,
`DataAssumption`, `PackAssumption`; all are assumptions that TLC evaluates for the
instance). What is printed after `Process` depends on a trial of many steps, in
which copies of the `DecodeState` are made and given back, so none of the six
properties is inductive. `IInv` consists of

- `LoaderMade` and `PacketsOK`: what is loaded is well made, from the lemmas above;
- `Control`: where `Process` stands, and which packet and subpacket it tries;
- `Frames`: each `Fill` under way runs over the fields of the structure that the one
  around it has come to, with its pointer and count at the same place of the
  same data (`Inside`), and only the outermost may have passed a transformation;
- `Tiles`: what was taken so far covers the data up to the innermost frame's
  position, the header's part first;
- `Values`: each block that was taken is behind all frames (`PassedBy`), so that no
  later field of the trial has its path, and therefore `memory` still holds what was read
  there (`Decoded`), although other trials wrote to other paths and to the same
  ones earlier;
- `Ranks`: a field of a subpacket that took something stands behind fields that all
  took something (`Ordered`); a failed nested structure may take less
  than all, and ends what comes after it (`Progress`, `Covered`);
- `Header`: the size `Packet::Fill` compares is the sum of its fields' constant sizes; a
  field takes at most its full size, so the sum is reached only if each field was
  read in full (`HeaderInFull`), and a fixed value was then found (`HeaderFixed`);
- `Layers`: in each list of actions, at every depth of structures, a field that took
  something stands behind fields that took something, although a structure that was
  cut short is left as one that took something;
- `Results`: the same for the trial that was taken, until the next payload;
- `Holds`: a stored value was read from bytes or never written.

From it follow

- `Inductive`; `StaysInside`: `Spec => []TypeOK`, that no `Fill` looks beyond its data;
- `EveryByteOnce`: `Spec => []WellTiled`;
- `NothingElseIsPrinted`: `Spec => []PrintedIsDecoded`;
- `HeaderBeforeSubpackets`: `Spec => []HeaderIsWhole`;
- `OldValuesComeLast`: `Spec => []StaleIsLast`, for structures nested to any depth;
- `NamesFromOnePayload`: `Spec => StoredFromOnePayload`, an action property: the fields an
  annotation looks up stand before it and do not vary, so each is one block of this trial;
- `SendStaysInStructure`: for any packet that was loaded, a generated `Send` that packs
  nothing sends no more than the structure it copies from, because the offsets that
  `GenerateFields` computes are those of full sizes. One that packs stays within it as
  long as the packed arguments are longer than the arguments by no more than the pad,
  and writes behind it only for a field that is packed into more than itself and
  the pad.

Each step of the machine is first put in so many words (`Takes`, `Fails`, `Unpacks`,
`Notes`, `Enters`, `Exits`), and each part of `IInv` is shown to survive those.

Only model-checked:

- liveness (`AllAnswered`, `EverythingArrives`, `KeepalivesAnswered`, `PassEnds`,
  `Unpacks`, `Answered`), which this prover cannot do;
- `SentIsHandled`. It is not true of every well-formed file, only of files in which
  no earlier packet fits what a later one sends, and says of those that
  three walks over the same fields, the decoder's, `Send`'s and the handler's, meet at
  every field. That is an induction over the data, and over the packets before the
  one that was sent.

## What is not modelled

Byte contents: checksums, mangling, the four stack bytes of a keepalive reply,
addresses. Time, so the length of a blocking connect. Descriptors beyond
`FD_SETSIZE`. Failing writes of the log. Command lines, filters, the layout of
what is displayed and the offsets printed with it. Reading `sysname.csv`. The
XML library. Of the generated code: the receiving constructors, which copy as
many bytes as the structure has; the accessors, enumerations and Python
bindings; the generator itself, which reads through a null pointer for a
transformation in a packet without a length field. `Logger` and `LoggingSystem`,
which no program uses.

Of `ROMPack::Pack` with fewer than 19 bytes, what `Unpack` makes of such a stream, which
counts literals it does not have: `MCProtocol` has it refused, and no property relies
on that.

## Plan

In order of importance:

1. (done) `ROMPackets`, `PacketStream`, `ROMConnection`, `ROMConnectionProofs`:
   the core every byte goes through.
2. (done) `ROMProxiedConnection`, `ROMProxy`, `ROMDump`.
3. (done) `ProtocolTypes`, `ProtocolLoader`, `ProtocolCode`, `ProtocolDecode`:
   which definition wins, what rejected trials leave behind, and what generated
   code sends; `ProtocolTypesProofs`.
4. (done) `PackedText`, `ROMPack`.
5. (done) Proofs of every invariant of `ROMProxiedConnection`, `ROMProxy`, `ROMDump`
   and `ROMPack`, and of the refinement of `PackedText`.
6. (done) Proofs of every invariant of the loader and the decoder but
   `SentIsHandled`, and of the action property of the annotations.
7. Abstract specification of a session (two lossless, ordered channels with a
   key) and `ROMProxiedConnection` shown to implement it, with the invariant of
   `ROMProxiedConnectionProofs`; a session's log fed to `ROMDump`.
8. `SentIsHandled` for files whose packets are told apart by fixed values in their
   headers.
