--------------------- MODULE ROMProxiedConnectionProofs ---------------------
(***************************************************************************)
(* Theorems about one proxied connection, for any number of keys, data     *)
(* packets, control packets and socket sizes.  The invariant says what a   *)
(* reader makes of every queue from front to back: one that counts data    *)
(* packets, one that takes every key it is told, one that counts the       *)
(* keepalives.  Where such a reader starts is the reader's state, where it *)
(* ends is the writer's, and every step moves one of the two.              *)
(***************************************************************************)
EXTENDS ROMProxiedConnection, Traces

\* What a leg's handler has still to read: the rest of its last recv, then
\* what the socket holds.
Pending(l) == inbuf[l] \o toProxy[l]

\* The leg handles no more packets.
Gone(l) == IF l = "local" THEN cause # "none" ELSE pc \in {"close", "closed"}

-----------------------------------------------------------------------------
\* Packets as the peers and the proxy make them: what is not a KEY packet is
\* correctly sealed, with one key, and numbered like its body.
WellFormed(p) ==
    /\ p \in Wire
    /\ p.hdrok
    /\ IsKey(p) => CarriesKey(p) /\ p.key \in Keys
    /\ IsData(p) => /\ p.keynum = "table" /\ p.accepts = {p.key}
                    /\ p.body \in 1 .. MaxData /\ p.seq = p.body

WireInv ==
    \A l \in Leg :
        /\ \A p \in Range(Pending(l)) : WellFormed(p) /\ (IsData(p) => p.key \in Keys)
        /\ \A p \in Range(fromProxy[l]) : WellFormed(p) /\ (IsKey(p) => l = "local")

LoopInv ==
    /\ \A l \in ready : inbuf[l] = <<>> /\ Readable(l)
    /\ pc = "select" => cause = "none" /\ \A l \in Leg : inbuf[l] = <<>>
    /\ pc = "local" => cause = "none" /\ inbuf["remote"] = <<>>
    /\ pc = "remote" => inbuf["local"] = <<>> /\ "local" \notin ready
    /\ pc \in {"close", "closed"} => cause # "none"

\* A reader that counts data packets.
Number == 0 .. MaxData
NumberStep ==
    {t \in Number \X Wire \X Number :
        IF IsData(t[2]) THEN t[3] = t[1] + 1 /\ t[2].body = t[3] ELSE t[3] = t[1]}

NumberIn(l) ==
    ~Gone(l) => Leads(Number, NumberStep, Pending(l), conn[Other(l)].seq - 1, peer[l].data)
NumberOut(l) ==
    peer[l].open =>
        \E n \in Number :
           /\ Leads(Number, NumberStep, fromProxy[l], Len(peer[l].got), n)
           /\ pc # "closed" => n = conn[l].seq - 1
NumberGot(l) ==
    \A i \in 1 .. Len(peer[l].got) :
        peer[l].got[i].seq = i /\ peer[l].got[i].body \in {i, Garbled}
NumberInv == \A l \in Leg : NumberIn(l) /\ NumberOut(l) /\ NumberGot(l)

\* A reader that takes every key it is told and can read every data packet.
KeyState == Keys \cup {NoKey}
KeyStep ==
    {t \in KeyState \X Wire \X KeyState :
        /\ t[3] = (IF IsKey(t[2]) THEN t[2].key ELSE t[1])
        /\ IsData(t[2]) => t[3] \in t[2].accepts}

HasKey(l) == conn[l].haveKey <=> conn[l].key \in Keys
ServerKeys ==
    ~Gone("remote") =>
        Leads(KeyState, KeyStep, Pending("remote"), conn["remote"].key, peer["remote"].key)
BeforeKey ==
    ~conn["local"].haveKey =>
        /\ peer["local"].key = NoKey
        /\ \A p \in Range(fromProxy["local"]) : ~IsKey(p)
        /\ \A p \in Range(Pending("local")) : ~IsData(p)
KeyInv == (\A l \in Leg : HasKey(l)) /\ ServerKeys /\ BeforeKey

\* As long as the client has not sent a key of its own, it can read all that
\* is sent to it.
ClientReads ==
    peer["local"].open =>
        \E k \in KeyState :
           /\ Leads(KeyState, KeyStep, fromProxy["local"], peer["local"].key, k)
           /\ pc # "closed" => k = conn["local"].key
ClientInv ==
    Len(peer["local"].keys) = 0 =>
        /\ \A p \in Range(Pending("local")) : ~IsKey(p)
        /\ conn["local"].key = conn["remote"].key
        /\ ClientReads
        /\ ClientSeesServerStream

\* While the server has handed out no key, nothing is sealed; while it has
\* handed out one, nothing is sealed with another.
NoKeyInv ==
    Len(peer["remote"].keys) = 0 =>
        /\ \A l \in Leg :
              /\ peer[l].key = NoKey
              /\ \A p \in Range(Pending(l)) : ~IsData(p)
              /\ \A p \in Range(fromProxy[l]) : ~IsKey(p)
        /\ \A p \in Range(Pending("remote")) : ~IsKey(p)

OneKeyInv ==
    Len(peer["remote"].keys) <= 1 /\ Len(peer["local"].keys) = 0 =>
        LET key == peer["remote"].key IN
        /\ \A l \in Leg :
              /\ \A p \in Range(Pending(l)) : IsKey(p) \/ IsData(p) => p.key = key
              /\ \A p \in Range(fromProxy[l]) : IsKey(p) \/ IsData(p) => p.key = key /\ key \in Keys
              /\ conn[l].key \in {NoKey, key}
              /\ peer[l].key \in {NoKey, key}
        /\ ServerSeesClientStream

\* The i-th key the server has handed out, and those up to the t-th.
KeyAt(K, i) == IF i = 0 THEN NoKey ELSE K[i]
KeysTo(K, t) == {KeyAt(K, i) : i \in 0 .. t}

\* A reader that counts the server's keys.
OrderStep(K) ==
    {s \in (0 .. Len(K)) \X Wire \X (0 .. Len(K)) :
        /\ s[3] = (IF IsKey(s[2]) THEN s[1] + 1 ELSE s[1])
        /\ IsKey(s[2]) => s[2].key = KeyAt(K, s[3])}

\* The server's stream carries its keys in their order, the remote leg has the
\* t-th, and the client knows and has sealed with none that is later.  The
\* local leg has the same key, or one of the client's own.
OrderAt(t) ==
    LET K == peer["remote"].keys IN
    /\ t \in 0 .. Len(K) /\ conn["remote"].key = KeyAt(K, t)
    /\ ~Gone("remote") => Leads(0 .. Len(K), OrderStep(K), Pending("remote"), t, Len(K))
    /\ peer["local"].key \in KeysTo(K, t)
    /\ \A p \in Range(fromProxy["local"]) : IsKey(p) => p.key \in KeysTo(K, t)
    /\ \A p \in Range(Pending("local")) : IsData(p) => p.key \in KeysTo(K, t)
OrderInv ==
    /\ \E t : OrderAt(t)
    /\ \A p \in Range(Pending("local")) : IsKey(p) => p.key \in Range(peer["local"].keys)
    /\ \/ conn["local"].key = conn["remote"].key
       \/ conn["local"].key \in Range(peer["local"].keys)

ReplyStep(n) ==
    {t \in (0 .. n) \X Wire \X (0 .. n) :
        t[3] = IF t[2].flags = {"ALIVE_REPLY"} THEN t[1] + 1 ELSE t[1]}
RequestStep(n) ==
    {t \in (0 .. n) \X Wire \X (0 .. n) :
        t[3] = IF IsKeepalive(t[2]) THEN t[1] + 1 ELSE t[1]}

\* The replies a peer has got or will find, and the requests that are still
\* to be answered, are as many as it made requests.
Owed(l, r) ==
    LET n == peer[l].alive IN
    /\ peer[l].open => Leads(0 .. n, ReplyStep(n), fromProxy[l], peer[l].replies, r)
    /\ ~Gone(l) => Leads(0 .. n, RequestStep(n), Pending(l), r, n)
RepliesInv ==
    \A l \in Leg :
        /\ peer[l].replies <= peer[l].alive
        /\ \E r \in 0 .. peer[l].alive : Owed(l, r)

LogInv ==
    Len(peer["local"].keys) = 0 =>
        /\ cause # "baddata" => Undecodable(log) = {}
        /\ LogDecodable
        /\ LogLegs # {} /\ pc # "killed" => LastKey(log, Len(log)) = conn["remote"].key

IInv == /\ TypeOK /\ WireInv /\ LoopInv /\ NumberInv /\ KeyInv /\ ClientInv /\ OneKeyInv
        /\ NoKeyInv /\ OrderInv /\ RepliesInv /\ LogInv
        /\ (Len(peer["local"].keys) > 0 => ClientSendsKey)

-----------------------------------------------------------------------------
(* Packets.                                                                *)

\* The KEY packet the server sends and the proxy passes on.
LEMMA TableFacts ==
    ASSUME NEW k \in Keys
    PROVE  /\ WellFormed(Table(k)) /\ Table(k) \in Wire /\ Table(k).key = k
           /\ IsKey(Table(k)) /\ CarriesKey(Table(k)) /\ ~IsData(Table(k)) /\ ~IsKeepalive(Table(k))
           /\ Table(k).flags # {"ALIVE_REPLY"}
<1>1. Table(k) \in Wire
  BY SizeAssumption DEF Table, Wire, Flag, KeyNum
<1>2. "KEY" \in Table(k).flags /\ Table(k).key = k /\ Table(k).length - HeaderSize = KeyLength
  BY SizeAssumption DEF Table
<1>3. Table(k).hdrok = TRUE
  BY DEF Table
<1> QED BY <1>1, <1>2, <1>3 DEF WellFormed, IsKey, CarriesKey, IsData, IsKeepalive, Verified

\* A data packet as SendPacket and the peers seal it.
LEMMA SealedFacts ==
    ASSUME NEW k \in KeyState, NEW n \in 1 .. MaxData
    PROVE  LET p == Sealed(k, n, n) IN
           /\ WellFormed(p) /\ p \in Wire /\ p.key = k /\ p.accepts = {k} /\ p.body = n /\ p.seq = n
           /\ ~IsKey(p) /\ IsData(p) /\ ~IsKeepalive(p) /\ p.flags # {"ALIVE_REPLY"}
<1> DEFINE p == Sealed(k, n, n)
<1>1. /\ p.key = k /\ p.accepts = {k} /\ p.body = n /\ p.seq = n
      /\ p.flags = {"ENCRYPTED"} /\ p.hdrok /\ p.keynum = "table"
  BY DEF Sealed
<1>2. p \in Wire
  <2>1. n \in Nat
    BY SessionAssumption
  <2> QED BY <2>1, SizeAssumption DEF Sealed, Wire, Flag, KeyNum, KeyState
<1>3. ~IsKey(p) /\ IsData(p) /\ ~IsKeepalive(p)
  BY <1>1 DEF IsKey, IsData, IsKeepalive, Verified
<1>4. {"ENCRYPTED"} # {"ALIVE_REPLY"}
  OBVIOUS
<1> HIDE DEF p
<1>5. WellFormed(p)
  BY <1>1, <1>2, <1>3 DEF WellFormed
<1> QED BY <1>1, <1>2, <1>3, <1>4, <1>5 DEF p

\* Keepalives and packets without flags.
LEMMA ControlFacts ==
    ASSUME NEW flags \in {{"ALIVE_REQUEST"}, {"ALIVE_REPLY"}, {}}
    PROVE  LET p == Control(flags) IN
           /\ WellFormed(p) /\ p \in Wire /\ p.flags = flags
           /\ ~IsKey(p) /\ ~IsData(p)
           /\ IsKeepalive(p) <=> flags = {"ALIVE_REQUEST"}
<1> DEFINE p == Control(flags)
<1>1. p.flags = flags /\ p.hdrok
  BY DEF Control
<1>2. p \in Wire
  BY SizeAssumption DEF Control, Wire, Flag, KeyNum
<1>3. "KEY" \notin flags /\ flags # {"ENCRYPTED"} /\ ("ALIVE_REQUEST" \in flags <=> flags = {"ALIVE_REQUEST"})
  OBVIOUS
<1>4. ~IsKey(p) /\ ~IsData(p) /\ (IsKeepalive(p) <=> flags = {"ALIVE_REQUEST"})
  BY <1>1, <1>3 DEF IsKey, IsData, IsKeepalive, Verified
<1> HIDE DEF p
<1>5. WellFormed(p)
  BY <1>1, <1>2, <1>4 DEF WellFormed
<1> QED BY <1>1, <1>2, <1>4, <1>5 DEF p

-----------------------------------------------------------------------------
(* Queues.                                                                 *)

\* The queues hold packets; what a leg has still to read is both of them.
LEMMA PendingTyped ==
    ASSUME TypeOK, NEW l \in Leg
    PROVE  /\ inbuf[l] \in Seq(Wire) /\ toProxy[l] \in Seq(Wire) /\ fromProxy[l] \in Seq(Wire)
           /\ Pending(l) \in Seq(Wire)
           /\ Range(Pending(l)) = Range(inbuf[l]) \cup Range(toProxy[l])
<1>1. inbuf[l] \in Seq(Wire) /\ toProxy[l] \in Seq(Wire) /\ fromProxy[l] \in Seq(Wire)
  BY DEF TypeOK
<1> QED BY <1>1, ConcatRange DEF Pending

\* The packet a handler looks at is the first the leg has still to read.
LEMMA FrontFacts ==
    ASSUME TypeOK, NEW l \in Leg, Handling(l)
    PROVE  /\ Pending(l) # <<>> /\ Head(Pending(l)) = AtFront(l)
           /\ AtFront(l) \in Range(Pending(l)) /\ AtFront(l) \in Wire
           /\ Tail(inbuf[l]) \in Seq(Wire)
           /\ Tail(inbuf[l]) \o toProxy[l] = Tail(Pending(l))
<1>1. inbuf[l] \in Seq(Wire) /\ toProxy[l] \in Seq(Wire) /\ inbuf[l] # <<>>
  BY PendingTyped DEF Handling
<1>2. /\ Pending(l) # <<>> /\ Head(Pending(l)) = Head(inbuf[l])
      /\ Tail(inbuf[l]) \o toProxy[l] = Tail(Pending(l))
  BY <1>1, ConcatTail DEF Pending
<1>3. Head(inbuf[l]) \in Range(inbuf[l]) /\ Head(inbuf[l]) \in Wire /\ Tail(inbuf[l]) \in Seq(Wire)
  BY <1>1, RangeTail
<1> QED BY <1>2, <1>3, PendingTyped DEF AtFront

\* A packet that is answered is taken off its leg's queue.
LEMMA ConsumeEffect ==
    ASSUME TypeOK, NEW l \in Leg, Handling(l), Consume(l)
    PROVE  /\ Pending(l)' = Tail(Pending(l))
           /\ \A m \in Leg : m # l => Pending(m)' = Pending(m)
           /\ \A m \in Leg : Range(Pending(m)') \subseteq Range(Pending(m))
           /\ inbuf' \in [Leg -> Seq(Wire)]
           /\ \A m \in Leg : m # l => inbuf'[m] = inbuf[m]
<1>1. /\ inbuf'[l] = Tail(inbuf[l])
      /\ \A m \in Leg : m # l => inbuf'[m] = inbuf[m]
      /\ toProxy' = toProxy
  BY DEF Consume, TypeOK
<1>2. Pending(l)' = Tail(Pending(l))
  BY <1>1, FrontFacts DEF Pending
<1>3. \A m \in Leg : m # l => Pending(m)' = Pending(m)
  BY <1>1 DEF Pending
<1>4. Range(Tail(Pending(l))) \subseteq Range(Pending(l))
  BY PendingTyped, FrontFacts, RangeTail
<1>5. inbuf' \in [Leg -> Seq(Wire)]
  BY <1>1, FrontFacts DEF Consume, TypeOK
<1> QED BY <1>1, <1>2, <1>3, <1>4, <1>5

\* A handler that returns forgets what is left of its recv.
LEMMA ReturnEffect ==
    ASSUME TypeOK, NEW l \in Leg, NEW why \in {"none", "peer", "baddata", "noreply"},
           Return(l, why), UNCHANGED toProxy
    PROVE  /\ inbuf[l] = <<>> => Pending(l)' = Pending(l)
           /\ \A m \in Leg : m # l => Pending(m)' = Pending(m)
           /\ \A m \in Leg : Range(Pending(m)') \subseteq Range(Pending(m))
           /\ inbuf' \in [Leg -> Seq(Wire)]
           /\ inbuf'[l] = <<>> /\ \A m \in Leg : m # l => inbuf'[m] = inbuf[m]
<1>1. /\ inbuf'[l] = <<>>
      /\ \A m \in Leg : m # l => inbuf'[m] = inbuf[m]
      /\ inbuf' \in [Leg -> Seq(Wire)]
  BY DEF Return, TypeOK
<1>2. inbuf[l] = <<>> => Pending(l)' = Pending(l)
  BY <1>1 DEF Pending
<1>3. \A m \in Leg : m # l => Pending(m)' = Pending(m)
  BY <1>1 DEF Pending
<1>4. Range(Pending(l)') \subseteq Range(Pending(l))
  <2>1. Pending(l)' = <<>> \o toProxy[l] /\ toProxy[l] \in Seq(Wire)
    BY <1>1, PendingTyped DEF Pending
  <2>2. Pending(l)' = toProxy[l]
    BY <2>1, ConcatEmptySeq
  <2> QED BY <2>2, PendingTyped
<1> QED BY <1>1, <1>2, <1>3, <1>4

\* A recv moves packets within the queue.
LEMMA RecvEffect ==
    ASSUME TypeOK, LoopInv, NEW l \in Leg, Recv(l)
    PROVE  /\ \A m \in Leg : Pending(m)' = Pending(m)
           /\ inbuf' \in [Leg -> Seq(Wire)] /\ toProxy' \in [Leg -> Seq(Wire)]
           /\ \A m \in Leg : m # l => inbuf'[m] = inbuf[m]
<1>1. PICK n \in 1 .. Len(toProxy[l]) :
          /\ inbuf' = [inbuf EXCEPT ![l] = SubSeq(toProxy[l], 1, n)]
          /\ toProxy' = [toProxy EXCEPT ![l] = SubSeq(@, n + 1, Len(@))]
  BY DEF Recv
<1>2. toProxy[l] \in Seq(Wire) /\ inbuf[l] = <<>> /\ n \in 0 .. Len(toProxy[l])
  BY PendingTyped, LenProperties DEF Recv, LoopInv
<1>3. /\ inbuf'[l] = SubSeq(toProxy[l], 1, n) /\ toProxy'[l] = SubSeq(toProxy[l], n + 1, Len(toProxy[l]))
      /\ \A m \in Leg : m # l => inbuf'[m] = inbuf[m] /\ toProxy'[m] = toProxy[m]
  BY <1>1 DEF TypeOK
<1>4. inbuf'[l] \o toProxy'[l] = toProxy[l] /\ inbuf'[l] \in Seq(Wire) /\ toProxy'[l] \in Seq(Wire)
  BY <1>2, <1>3, ConcatSplit
<1>5. inbuf[l] \o toProxy[l] = toProxy[l]
  BY <1>2, ConcatEmptySeq
<1>6. \A m \in Leg : Pending(m)' = Pending(m)
  BY <1>3, <1>4, <1>5 DEF Pending
<1>7. inbuf' \in [Leg -> Seq(Wire)] /\ toProxy' \in [Leg -> Seq(Wire)]
  BY <1>1, <1>3, <1>4 DEF TypeOK
<1> QED BY <1>3, <1>6, <1>7

\* A packet that a peer sends comes last.
LEMMA SendEffect ==
    ASSUME TypeOK, NEW l \in Leg, NEW p \in Wire, Send(l, p)
    PROVE  /\ Pending(l)' = Append(Pending(l), p)
           /\ Range(Pending(l)') = Range(Pending(l)) \cup {p}
           /\ \A m \in Leg : m # l => Pending(m)' = Pending(m)
           /\ toProxy' \in [Leg -> Seq(Wire)]
<1>1. inbuf[l] \in Seq(Wire) /\ toProxy[l] \in Seq(Wire) /\ Pending(l) \in Seq(Wire)
  BY PendingTyped
<1>2. /\ toProxy'[l] = Append(toProxy[l], p) /\ inbuf' = inbuf
      /\ \A m \in Leg : m # l => toProxy'[m] = toProxy[m]
  BY DEF Send, TypeOK, proxyVars
<1>3. Pending(l)' = Append(Pending(l), p)
  <2>1. \A r, q \in Seq(Wire) : r \o Append(q, p) = Append(r \o q, p)
    BY ConcatAppend
  <2>2. inbuf[l] \o Append(toProxy[l], p) = Append(inbuf[l] \o toProxy[l], p)
    BY <1>1, <2>1
  <2> QED BY <1>2, <2>2 DEF Pending
<1>4. \A m \in Leg : m # l => Pending(m)' = Pending(m)
  BY <1>2 DEF Pending
<1>5. toProxy' \in [Leg -> Seq(Wire)]
  BY <1>1, <1>2, AppendProperties DEF Send, TypeOK
<1> QED BY <1>1, <1>3, <1>4, <1>5, RangeAppend

\* A write reaches the peer's queue, or a queue nobody reads.
LEMMA WriteEffect ==
    ASSUME TypeOK, NEW l \in Leg, NEW p \in Wire, Write(l, p)
    PROVE  /\ fromProxy'[l] = IF peer[l].open THEN Append(fromProxy[l], p) ELSE <<p>>
           /\ Range(fromProxy'[l]) \subseteq Range(fromProxy[l]) \cup {p}
           /\ \A m \in Leg : m # l => fromProxy'[m] = fromProxy[m]
           /\ fromProxy' \in [Leg -> Seq(Wire)]
<1>1. fromProxy[l] \in Seq(Wire)
  BY PendingTyped
<1>2. /\ fromProxy'[l] = IF peer[l].open THEN Append(fromProxy[l], p) ELSE <<p>>
      /\ \A m \in Leg : m # l => fromProxy'[m] = fromProxy[m]
  BY DEF Write, TypeOK
<1>3. Append(fromProxy[l], p) \in Seq(Wire) /\ <<p>> \in Seq(Wire)
  BY <1>1, AppendProperties
<1>4. fromProxy' \in [Leg -> Seq(Wire)]
  BY <1>2, <1>3 DEF Write, TypeOK
<1>5. Range(Append(fromProxy[l], p)) = Range(fromProxy[l]) \cup {p}
  BY <1>1, RangeAppend
<1>6. Range(<<p>>) = {p}
  BY DEF Range
<1> QED BY <1>2, <1>4, <1>5, <1>6

\* A whole packet at the front of a leg's queue is well formed, and a data
\* packet there carries the number that the other leg gives it.
LEMMA FrontIsWellFormed ==
    ASSUME TypeOK, WireInv, NEW l \in Leg, Handling(l)
    PROVE  /\ WellFormed(AtFront(l))
           /\ IsData(AtFront(l)) => AtFront(l).key \in Keys
BY FrontFacts DEF WireInv

\* A leg that handles a packet has not ended.
LEMMA HandlingIsNotGone ==
    ASSUME LoopInv, NEW l \in Leg, Handling(l)
    PROVE  ~Gone(l)
BY DEF Handling, LoopInv, Gone, Leg

\* The next data packet of a leg is the one its other leg's m_Sequence counts.
LEMMA FrontIsNext ==
    ASSUME TypeOK, WireInv, LoopInv, NumberInv, NEW l \in Leg, Handling(l)
    PROVE  /\ IsData(AtFront(l)) =>
                 /\ AtFront(l).body = conn[Other(l)].seq
                 /\ conn[Other(l)].seq \in 1 .. MaxData
                 /\ Leads(Number, NumberStep, Tail(Pending(l)), conn[Other(l)].seq, peer[l].data)
           /\ ~IsData(AtFront(l)) =>
                 Leads(Number, NumberStep, Tail(Pending(l)), conn[Other(l)].seq - 1, peer[l].data)
<1>1. Leads(Number, NumberStep, Pending(l), conn[Other(l)].seq - 1, peer[l].data)
  BY HandlingIsNotGone DEF NumberInv, NumberIn
<1>2. Pending(l) \in Seq(Wire) /\ Pending(l) # <<>> /\ Head(Pending(l)) = AtFront(l)
  BY PendingTyped, FrontFacts
<1>3. PICK c \in Number : /\ <<conn[Other(l)].seq - 1, AtFront(l), c>> \in NumberStep
                          /\ Leads(Number, NumberStep, Tail(Pending(l)), c, peer[l].data)
  BY <1>1, <1>2, LeadsTail
<1>4. conn[Other(l)].seq \in 1 .. MaxData + 1
  BY DEF TypeOK, Other, Leg
<1>5. IF IsData(AtFront(l)) THEN c = (conn[Other(l)].seq - 1) + 1 /\ AtFront(l).body = c
                            ELSE c = conn[Other(l)].seq - 1
  BY <1>3 DEF NumberStep
<1>6. CASE IsData(AtFront(l))
  <2>1. c = conn[Other(l)].seq
    BY <1>4, <1>5, <1>6, SessionAssumption
  <2>2. c \in 1 .. MaxData
    BY <1>4, <2>1, SessionAssumption DEF Number
  <2> QED BY <1>3, <1>5, <1>6, <2>1, <2>2
<1>7. CASE ~IsData(AtFront(l))
  BY <1>3, <1>5, <1>7
<1> QED BY <1>6, <1>7

-----------------------------------------------------------------------------
(* What the actions do to the records of the legs and of the peers.        *)

ConnState == [haveKey : BOOLEAN, key : Keys \cup {NoKey}, seq : 1 .. MaxData + 1]
PeerState == [open : BOOLEAN, key : Keys \cup {NoKey},
              keys : Seq(Keys), data : Nat, alive : Nat, plain : Nat, replies : Nat,
              got : Seq([body : Nat, seq : Nat])]
LogEntry == [leg : Leg, out : BOOLEAN, p : Wire]

\* There are two legs.
LEMMA OtherLeg ==
    ASSUME NEW l \in Leg
    PROVE  Other(l) \in Leg /\ Other(l) # l /\ Other(Other(l)) = l
           /\ \A m \in Leg : m # l => m = Other(l)
BY DEF Leg, Other

\* The records of a leg and of its peer have their types.
LEMMA RecordsTyped ==
    ASSUME TypeOK, NEW l \in Leg
    PROVE  conn[l] \in ConnState /\ peer[l] \in PeerState
BY DEF TypeOK, ConnState, PeerState

\* A leg that takes a key keeps its sequence, and the other way round.
LEMMA TakeKey ==
    ASSUME NEW c \in ConnState, NEW k \in Keys
    PROVE  LET d == [c EXCEPT !.haveKey = TRUE, !.key = k] IN
           d \in ConnState /\ d.haveKey = TRUE /\ d.key = k /\ d.seq = c.seq
BY DEF ConnState

\* A leg that takes a number keeps its key.
LEMMA TakeNumber ==
    ASSUME NEW c \in ConnState, c.seq \in 1 .. MaxData
    PROVE  LET d == [c EXCEPT !.seq = @ + 1] IN
           d \in ConnState /\ d.haveKey = c.haveKey /\ d.key = c.key /\ d.seq = c.seq + 1
<1>1. c.seq + 1 \in 1 .. MaxData + 1
  BY SessionAssumption
<1> QED BY <1>1 DEF ConnState

\* What is logged is of the log's type.
LEMMA EntryTyped ==
    ASSUME NEW l \in Leg, NEW out \in BOOLEAN, NEW p \in Wire
    PROVE  Entry(l, out, p) \in Seq(LogEntry)
<1>1. [leg |-> l, out |-> out, p |-> p] \in LogEntry
  BY DEF LogEntry
<1>2. ASSUME NEW e \in LogEntry PROVE <<e>> \in Seq(LogEntry) /\ <<>> \in Seq(LogEntry)
  OBVIOUS
<1> QED BY <1>1, <1>2 DEF Entry

\* A log that grows by entries is a log.
LEMMA LogGrowsTyped ==
    ASSUME TypeOK, NEW e1 \in Seq(LogEntry), NEW e2 \in Seq(LogEntry)
    PROVE  /\ log \in Seq(LogEntry) /\ log \o e1 \in Seq(LogEntry)
           /\ (log \o e1) \o e2 \in Seq(LogEntry)
<1>1. log \in Seq(LogEntry)
  BY DEF TypeOK, LogEntry
<1>2. log \o e1 \in Seq(LogEntry)
  BY <1>1, ConcatProperties
<1> QED BY <1>1, <1>2, ConcatProperties

\* So is one that grows by the packet handled.
LEMMA LogRawTyped ==
    ASSUME TypeOK, NEW l \in Leg, Handling(l)
    PROVE  LogRaw(l) \in Seq(LogEntry) /\ log \o LogRaw(l) \in Seq(LogEntry)
<1>1. LogRaw(l) \in Seq(LogEntry)
  BY FrontFacts, EntryTyped DEF LogRaw
<1> QED BY <1>1, LogGrowsTyped

\* What Forward writes: the packet with the number it already had, sealed with
\* the other leg's key.
LEMMA ForwardedPacket ==
    ASSUME TypeOK, WireInv, LoopInv, NumberInv, NEW l \in Leg, Handling(l), IsData(AtFront(l))
    PROVE  LET to == Other(l)
               p  == Sealed(conn[to].key, conn[to].seq, AtFront(l).body) IN
           /\ WellFormed(p) /\ p \in Wire
           /\ p.key = conn[to].key /\ p.accepts = {conn[to].key}
           /\ p.body = conn[to].seq /\ p.seq = conn[to].seq
           /\ ~IsKey(p) /\ IsData(p) /\ ~IsKeepalive(p) /\ p.flags # {"ALIVE_REPLY"}
<1>1. AtFront(l).body = conn[Other(l)].seq /\ conn[Other(l)].seq \in 1 .. MaxData
  BY FrontIsNext
<1>2. conn[Other(l)].key \in KeyState
  BY OtherLeg DEF TypeOK, KeyState
<1> QED BY <1>1, <1>2, SealedFacts

\* Both legs take the key at the front of the remote one; the client is told.
LEMMA RemoteKeyEffect ==
    ASSUME TypeOK, WireInv, RemoteKey
    PROVE  LET k == AtFront("remote").key IN
           /\ Handling("remote") /\ Consume("remote") /\ IsKey(AtFront("remote"))
           /\ k \in Keys /\ Write("local", Table(k))
           /\ conn' \in [Leg -> ConnState]
           /\ \A l \in Leg : conn'[l].haveKey = TRUE /\ conn'[l].key = k /\ conn'[l].seq = conn[l].seq
           /\ fromProxy' \in [Leg -> Seq(Wire)]
           /\ log' \in Seq(LogEntry)
           /\ log' = (log \o LogRaw("remote")) \o Entry("local", TRUE, Table(k))
<1> DEFINE k == AtFront("remote").key
<1>1. "remote" \in Leg /\ "local" \in Leg
  BY DEF Leg
<1>2. /\ Handling("remote") /\ CarriesKey(AtFront("remote")) /\ Consume("remote")
      /\ conn' = [l \in Leg |-> [conn[l] EXCEPT !.haveKey = TRUE, !.key = k]]
      /\ Write("local", Table(k))
      /\ log' = (log \o LogRaw("remote")) \o Entry("local", TRUE, Table(k))
  BY DEF RemoteKey
<1>3. k \in Keys /\ IsKey(AtFront("remote"))
  BY <1>1, <1>2, FrontIsWellFormed DEF WellFormed, CarriesKey
<1>4. Table(k) \in Wire
  BY <1>3, TableFacts
<1>5. log' \in Seq(LogEntry)
  BY <1>1, <1>2, <1>4, EntryTyped, LogRawTyped, LogGrowsTyped
<1>6. ASSUME NEW l \in Leg
      PROVE  LET d == [conn[l] EXCEPT !.haveKey = TRUE, !.key = k] IN
             d \in ConnState /\ d.haveKey = TRUE /\ d.key = k /\ d.seq = conn[l].seq
  BY <1>3, RecordsTyped, TakeKey
<1>7. fromProxy' \in [Leg -> Seq(Wire)]
  BY <1>1, <1>2, <1>4, WriteEffect
<1> HIDE DEF k
<1>8. conn' \in [Leg -> ConnState]
  BY <1>2, <1>6
<1>9. ASSUME NEW l \in Leg
      PROVE  conn'[l].haveKey = TRUE /\ conn'[l].key = k /\ conn'[l].seq = conn[l].seq
  BY <1>2, <1>6
<1> QED BY <1>2, <1>3, <1>5, <1>7, <1>8, <1>9 DEF k

\* What LocalKey does to the state, one variable at a time.
LEMMA LocalKeyEffect ==
    ASSUME TypeOK, WireInv, LocalKey
    PROVE  LET k == AtFront("local").key IN
           /\ Handling("local") /\ Consume("local") /\ IsKey(AtFront("local")) /\ k \in Keys
           /\ conn' \in [Leg -> ConnState]
           /\ conn'["local"].haveKey = TRUE /\ conn'["local"].key = k
           /\ conn'["local"].seq = conn["local"].seq /\ conn'["remote"] = conn["remote"]
           /\ fromProxy' = fromProxy
           /\ log' \in Seq(LogEntry) /\ log' = log \o LogRaw("local")
<1> DEFINE k == AtFront("local").key
           d == [conn["local"] EXCEPT !.haveKey = TRUE, !.key = k]
<1>1. "local" \in Leg /\ "remote" \in Leg /\ "local" # "remote"
  BY DEF Leg
<1>2. /\ Handling("local") /\ CarriesKey(AtFront("local")) /\ Consume("local")
      /\ conn' = [conn EXCEPT !["local"] = d]
      /\ log' = log \o LogRaw("local") /\ fromProxy' = fromProxy
  BY DEF LocalKey
<1>3. k \in Keys /\ IsKey(AtFront("local"))
  BY <1>1, <1>2, FrontIsWellFormed DEF WellFormed, CarriesKey
<1>4. log' \in Seq(LogEntry)
  BY <1>1, <1>2, LogRawTyped
<1>5. d \in ConnState /\ d.haveKey = TRUE /\ d.key = k /\ d.seq = conn["local"].seq
  BY <1>1, <1>3, RecordsTyped, TakeKey
<1> HIDE DEF d, k
<1>6. conn \in [Leg -> ConnState]
  BY DEF TypeOK, ConnState
<1>7. conn' \in [Leg -> ConnState] /\ conn'["local"] = d /\ conn'["remote"] = conn["remote"]
  BY <1>1, <1>2, <1>5, <1>6
<1> QED BY <1>2, <1>3, <1>4, <1>5, <1>7 DEF k

\* A data packet goes to the other leg with that leg's key and number.
LEMMA ForwardEffect ==
    ASSUME TypeOK, WireInv, LoopInv, NumberInv, NEW l \in Leg, Forward(l)
    PROVE  LET to == Other(l)
               p  == Sealed(conn[to].key, conn[to].seq, AtFront(l).body) IN
           /\ Handling(l) /\ Consume(l) /\ IsData(AtFront(l)) /\ conn[l].haveKey
           /\ AtFront(l).accepts = {conn[l].key}
           /\ Write(to, p) /\ p \in Wire
           /\ conn[to].seq \in 1 .. MaxData
           /\ conn' \in [Leg -> ConnState] /\ conn'[l] = conn[l]
           /\ conn'[to].haveKey = conn[to].haveKey /\ conn'[to].key = conn[to].key
           /\ conn'[to].seq = conn[to].seq + 1
           /\ fromProxy' \in [Leg -> Seq(Wire)]
           /\ log' \in Seq(LogEntry)
           /\ log' = (log \o LogRaw(l)) \o Entry(to, TRUE, p)
<1> DEFINE to == Other(l)
           p == Sealed(conn[to].key, conn[to].seq, AtFront(l).body)
           d == [conn[to] EXCEPT !.seq = @ + 1]
<1>1. /\ Handling(l) /\ IsData(AtFront(l)) /\ conn[l].haveKey /\ Consume(l) /\ Write(to, p)
      /\ TRUE \in DataChecksum(AtFront(l), conn[l].key)
      /\ conn' = [conn EXCEPT ![to] = d]
      /\ log' = (log \o LogRaw(l)) \o Entry(to, TRUE, p)
  BY DEF Forward
<1>2. to \in Leg /\ to # l /\ p \in Wire
  BY <1>1, OtherLeg, ForwardedPacket
<1>3. conn[to].seq \in 1 .. MaxData
  BY <1>1, FrontIsNext
<1>4. log' \in Seq(LogEntry)
  BY <1>1, <1>2, LogRawTyped, EntryTyped, LogGrowsTyped
<1>5. fromProxy' \in [Leg -> Seq(Wire)]
  BY <1>1, <1>2, WriteEffect
<1>6. AtFront(l).accepts = {conn[l].key}
  <2>1. AtFront(l).keynum = "table" /\ AtFront(l).accepts = {AtFront(l).key}
    BY <1>1, FrontIsWellFormed DEF WellFormed
  <2>2. conn[l].key \in AtFront(l).accepts
    BY <1>1, <2>1 DEF DataChecksum, KeyFor
  <2> QED BY <2>1, <2>2
<1>7. /\ d \in ConnState /\ d.haveKey = conn[to].haveKey /\ d.key = conn[to].key
      /\ d.seq = conn[to].seq + 1
  BY <1>2, <1>3, RecordsTyped, TakeNumber
<1> HIDE DEF to, p, d
<1>8. conn \in [Leg -> ConnState]
  BY DEF TypeOK, ConnState
<1>9. conn' \in [Leg -> ConnState] /\ conn'[to] = d /\ conn'[l] = conn[l]
  BY <1>1, <1>2, <1>7, <1>8
<1> QED BY <1>1, <1>2, <1>3, <1>4, <1>5, <1>6, <1>7, <1>9 DEF to, p

\* A step of one peer leaves the other's record alone.
LEMMA PeerChanges ==
    ASSUME TypeOK, NEW l \in Leg, NEW r \in PeerState, peer' = [peer EXCEPT ![l] = r]
    PROVE  peer' \in [Leg -> PeerState] /\ peer'[l] = r /\ \A m \in Leg : m # l => peer'[m] = peer[m]
<1>1. peer \in [Leg -> PeerState]
  BY DEF TypeOK, PeerState
<1> QED BY <1>1

\* What each step of a peer does to its record: a key is handed out,
LEMMA PeerSendsKeyEffect ==
    ASSUME TypeOK, NEW l \in Leg, NEW k \in Keys, PeerSendsKey(l, k)
    PROVE  /\ Send(l, Table(k)) /\ Table(k) \in Wire /\ (l = "local" => ClientSendsKey)
           /\ peer' \in [Leg -> PeerState] /\ \A m \in Leg : m # l => peer'[m] = peer[m]
           /\ peer'[l].keys = Append(peer[l].keys, k)
           /\ Len(peer'[l].keys) = Len(peer[l].keys) + 1
           /\ peer'[l].key = IF l = "remote" THEN k ELSE peer[l].key
           /\ peer'[l].open = peer[l].open /\ peer'[l].data = peer[l].data
           /\ peer'[l].alive = peer[l].alive /\ peer'[l].replies = peer[l].replies
           /\ peer'[l].got = peer[l].got
<1> DEFINE n == Append(peer[l].keys, k)
           key == IF l = "remote" THEN k ELSE peer[l].key
           r == [peer[l] EXCEPT !.keys = n, !.key = key]
<1>1. Send(l, Table(k)) /\ Table(k) \in Wire /\ (l = "local" => ClientSendsKey)
  BY TableFacts DEF PeerSendsKey
<1>2. peer' = [peer EXCEPT ![l] = r]
  BY DEF PeerSendsKey
<1>3. /\ peer[l] \in PeerState /\ n \in Seq(Keys) /\ Len(n) = Len(peer[l].keys) + 1
      /\ key \in Keys \cup {NoKey}
  <2>1. peer[l] \in PeerState /\ peer[l].keys \in Seq(Keys) /\ peer[l].key \in Keys \cup {NoKey}
    BY RecordsTyped DEF PeerState
  <2> QED BY <2>1, AppendProperties
<1> HIDE DEF n, key
<1>4. /\ r \in PeerState /\ r.keys = n /\ r.key = key
      /\ r.open = peer[l].open /\ r.data = peer[l].data /\ r.alive = peer[l].alive
      /\ r.replies = peer[l].replies /\ r.got = peer[l].got
  BY <1>3 DEF PeerState
<1> HIDE DEF r
<1>5. /\ peer' \in [Leg -> PeerState] /\ peer'[l] = r
      /\ \A m \in Leg : m # l => peer'[m] = peer[m]
  BY <1>2, <1>4, PeerChanges
<1>6. peer'[l].keys = n /\ Len(peer'[l].keys) = Len(peer[l].keys) + 1 /\ peer'[l].key = key
  BY <1>3, <1>4, <1>5
<1> QED BY <1>1, <1>4, <1>5, <1>6 DEF n, key

\* data is sent,
LEMMA PeerSendsDataEffect ==
    ASSUME TypeOK, NEW l \in Leg, PeerSendsData(l)
    PROVE  LET n == peer[l].data + 1 IN
           /\ n \in 1 .. MaxData /\ peer[l].key \in Keys
           /\ Send(l, Sealed(peer[l].key, n, n)) /\ Sealed(peer[l].key, n, n) \in Wire
           /\ peer' \in [Leg -> PeerState] /\ \A m \in Leg : m # l => peer'[m] = peer[m]
           /\ peer'[l].data = n
           /\ peer'[l].open = peer[l].open /\ peer'[l].key = peer[l].key
           /\ peer'[l].keys = peer[l].keys
           /\ peer'[l].alive = peer[l].alive /\ peer'[l].replies = peer[l].replies
           /\ peer'[l].got = peer[l].got
<1> DEFINE n == peer[l].data + 1
           r == [peer[l] EXCEPT !.data = n]
<1>1. peer[l] \in PeerState /\ peer[l].data \in Nat
  BY RecordsTyped DEF PeerState
<1>2. /\ n <= MaxData /\ peer[l].key \in Keys /\ Send(l, Sealed(peer[l].key, n, n))
      /\ peer' = [peer EXCEPT ![l] = r]
  BY DEF PeerSendsData
<1>3. n \in 1 .. MaxData
  BY <1>1, <1>2, SessionAssumption
<1>4. Sealed(peer[l].key, n, n) \in Wire
  BY <1>2, <1>3, SealedFacts DEF KeyState
<1>5. n \in Nat
  BY <1>1
<1> HIDE DEF n
<1>6. /\ r \in PeerState /\ r.data = n
      /\ r.open = peer[l].open /\ r.key = peer[l].key /\ r.keys = peer[l].keys
      /\ r.alive = peer[l].alive /\ r.replies = peer[l].replies /\ r.got = peer[l].got
  BY <1>1, <1>5 DEF PeerState
<1> HIDE DEF r
<1> QED BY <1>2, <1>3, <1>4, <1>6, PeerChanges DEF n

\* a keepalive is requested,
LEMMA PeerSendsAliveEffect ==
    ASSUME TypeOK, NEW l \in Leg, PeerSendsAlive(l)
    PROVE  /\ Send(l, Control({"ALIVE_REQUEST"})) /\ Control({"ALIVE_REQUEST"}) \in Wire
           /\ peer' \in [Leg -> PeerState] /\ \A m \in Leg : m # l => peer'[m] = peer[m]
           /\ peer'[l].alive = peer[l].alive + 1
           /\ peer'[l].open = peer[l].open /\ peer'[l].key = peer[l].key
           /\ peer'[l].keys = peer[l].keys /\ peer'[l].data = peer[l].data
           /\ peer'[l].replies = peer[l].replies /\ peer'[l].got = peer[l].got
<1> DEFINE n == peer[l].alive + 1
           r == [peer[l] EXCEPT !.alive = n]
<1>1. Send(l, Control({"ALIVE_REQUEST"})) /\ peer' = [peer EXCEPT ![l] = r]
  BY DEF PeerSendsAlive
<1>2. Control({"ALIVE_REQUEST"}) \in Wire
  BY ControlFacts
<1>3. peer[l] \in PeerState /\ n \in Nat
  BY RecordsTyped DEF PeerState
<1> HIDE DEF n
<1>4. /\ r \in PeerState /\ r.alive = n
      /\ r.open = peer[l].open /\ r.key = peer[l].key /\ r.keys = peer[l].keys
      /\ r.data = peer[l].data /\ r.replies = peer[l].replies /\ r.got = peer[l].got
  BY <1>3 DEF PeerState
<1> HIDE DEF r
<1> QED BY <1>1, <1>2, <1>4, PeerChanges DEF n

\* a packet without meaning is sent,
LEMMA PeerSendsPlainEffect ==
    ASSUME TypeOK, NEW l \in Leg, PeerSendsPlain(l)
    PROVE  /\ \E flags \in {{}, {"ALIVE_REPLY"}} : Send(l, Control(flags)) /\ Control(flags) \in Wire
           /\ peer' \in [Leg -> PeerState] /\ \A m \in Leg : m # l => peer'[m] = peer[m]
           /\ peer'[l].open = peer[l].open /\ peer'[l].key = peer[l].key
           /\ peer'[l].keys = peer[l].keys /\ peer'[l].data = peer[l].data
           /\ peer'[l].alive = peer[l].alive
           /\ peer'[l].replies = peer[l].replies /\ peer'[l].got = peer[l].got
<1> DEFINE n == peer[l].plain + 1
           r == [peer[l] EXCEPT !.plain = n]
<1>1. /\ \E flags \in {{}, {"ALIVE_REPLY"}} : Send(l, Control(flags))
      /\ peer' = [peer EXCEPT ![l] = r]
  BY DEF PeerSendsPlain
<1>2. \A flags \in {{}, {"ALIVE_REPLY"}} : Control(flags) \in Wire
  BY ControlFacts
<1>3. peer[l] \in PeerState /\ n \in Nat
  BY RecordsTyped DEF PeerState
<1> HIDE DEF n
<1>4. /\ r \in PeerState /\ r.alive = peer[l].alive
      /\ r.open = peer[l].open /\ r.key = peer[l].key /\ r.keys = peer[l].keys
      /\ r.data = peer[l].data /\ r.replies = peer[l].replies /\ r.got = peer[l].got
  BY <1>3 DEF PeerState
<1> HIDE DEF r
<1> QED BY <1>1, <1>2, <1>4, PeerChanges

\* What a peer makes of the packet at the front of its queue.
Seen(l) == LET p == Head(fromProxy[l]) IN
           [body |-> IF peer[l].key \in p.accepts THEN p.body ELSE Garbled, seq |-> p.seq]

\* a packet is read,
LEMMA PeerReadsEffect ==
    ASSUME TypeOK, WireInv, NEW l \in Leg, PeerReads(l)
    PROVE  LET p == Head(fromProxy[l]) IN
           /\ peer[l].open /\ fromProxy[l] \in Seq(Wire) /\ fromProxy[l] # <<>>
           /\ p \in Range(fromProxy[l]) /\ p \in Wire /\ WellFormed(p)
           /\ Seen(l) \in [body : Nat, seq : Nat]
           /\ peer[l].got \in Seq([body : Nat, seq : Nat])
           /\ peer' \in [Leg -> PeerState] /\ \A m \in Leg : m # l => peer'[m] = peer[m]
           /\ peer'[l].key = IF IsKey(p) THEN p.key ELSE peer[l].key
           /\ peer'[l].got = IF IsData(p) THEN Append(peer[l].got, Seen(l)) ELSE peer[l].got
           /\ peer'[l].replies = IF p.flags = {"ALIVE_REPLY"} THEN peer[l].replies + 1
                                 ELSE peer[l].replies
           /\ peer'[l].open = peer[l].open /\ peer'[l].keys = peer[l].keys
           /\ peer'[l].data = peer[l].data /\ peer'[l].alive = peer[l].alive
           /\ fromProxy' \in [Leg -> Seq(Wire)]
           /\ fromProxy'[l] = Tail(fromProxy[l]) /\ Range(fromProxy'[l]) \subseteq Range(fromProxy[l])
           /\ \A m \in Leg : m # l => fromProxy'[m] = fromProxy[m]
<1> DEFINE p == Head(fromProxy[l])
           key == IF IsKey(p) THEN p.key ELSE peer[l].key
           got == IF IsData(p) THEN Append(peer[l].got, Seen(l)) ELSE peer[l].got
           n == IF p.flags = {"ALIVE_REPLY"} THEN peer[l].replies + 1 ELSE peer[l].replies
           r == [peer[l] EXCEPT !.key = key, !.got = got, !.replies = n]
<1>1. /\ peer[l].open /\ fromProxy[l] # <<>>
      /\ peer' = [peer EXCEPT ![l] = r]
      /\ fromProxy' = [fromProxy EXCEPT ![l] = Tail(@)]
  BY DEF PeerReads, Seen
<1>2. fromProxy[l] \in Seq(Wire)
  BY PendingTyped
<1>3. /\ Tail(fromProxy[l]) \in Seq(Wire) /\ Range(Tail(fromProxy[l])) \subseteq Range(fromProxy[l])
      /\ p \in Range(fromProxy[l]) /\ p \in Wire
  BY <1>1, <1>2, RangeTail
<1>4. /\ fromProxy' \in [Leg -> Seq(Wire)] /\ fromProxy'[l] = Tail(fromProxy[l])
      /\ \A m \in Leg : m # l => fromProxy'[m] = fromProxy[m]
  BY <1>1, <1>3 DEF TypeOK
<1>5. WellFormed(p)
  BY <1>3 DEF WireInv
<1>6. p.body \in Nat /\ p.seq \in Nat /\ (IsKey(p) => p.key \in Keys)
  BY <1>3, <1>5 DEF WellFormed, Wire
<1>7. Seen(l) \in [body : Nat, seq : Nat]
  BY <1>6 DEF Garbled, Seen
<1>8. peer[l] \in PeerState /\ peer[l].got \in Seq([body : Nat, seq : Nat])
  BY RecordsTyped DEF PeerState
<1>9. Append(peer[l].got, Seen(l)) \in Seq([body : Nat, seq : Nat])
  BY <1>7, <1>8, AppendProperties
<1> HIDE DEF p
<1>10. key \in Keys \cup {NoKey} /\ n \in Nat /\ got \in Seq([body : Nat, seq : Nat])
  <2>1. peer[l].key \in Keys \cup {NoKey} /\ peer[l].replies \in Nat
    BY <1>8 DEF PeerState
  <2>2. key \in Keys \cup {NoKey} /\ n \in Nat
    BY <1>6, <2>1
  <2>3. got \in Seq([body : Nat, seq : Nat])
    BY <1>8, <1>9
  <2> QED BY <2>2, <2>3
<1> HIDE DEF key, got, n
<1>11. /\ r \in PeerState /\ r.key = key /\ r.got = got /\ r.replies = n
       /\ r.open = peer[l].open /\ r.keys = peer[l].keys
       /\ r.data = peer[l].data /\ r.alive = peer[l].alive
  BY <1>8, <1>10 DEF PeerState
<1> HIDE DEF r
<1>12. peer' \in [Leg -> PeerState] /\ peer'[l] = r /\ \A m \in Leg : m # l => peer'[m] = peer[m]
  BY <1>1, <1>11, PeerChanges
<1>13. peer'[l].key = key /\ peer'[l].got = got /\ peer'[l].replies = n
  BY <1>11, <1>12
<1> QED BY <1>1, <1>2, <1>3, <1>4, <1>5, <1>7, <1>8, <1>11, <1>12, <1>13 DEF p, key, got, n

\* and the peer leaves.
LEMMA PeerClosesEffect ==
    ASSUME TypeOK, NEW l \in Leg, PeerCloses(l)
    PROVE  /\ peer' \in [Leg -> PeerState] /\ \A m \in Leg : m # l => peer'[m] = peer[m]
           /\ peer'[l].open = FALSE
           /\ peer'[l].key = peer[l].key /\ peer'[l].keys = peer[l].keys
           /\ peer'[l].data = peer[l].data /\ peer'[l].alive = peer[l].alive
           /\ peer'[l].replies = peer[l].replies /\ peer'[l].got = peer[l].got
           /\ fromProxy' \in [Leg -> Seq(Wire)] /\ fromProxy'[l] = <<>>
           /\ \A m \in Leg : m # l => fromProxy'[m] = fromProxy[m]
<1> DEFINE r == [peer[l] EXCEPT !.open = FALSE]
<1>1. peer' = [peer EXCEPT ![l] = r] /\ fromProxy' = [fromProxy EXCEPT ![l] = <<>>]
  BY DEF PeerCloses
<1>2. /\ r \in PeerState /\ r.open = FALSE
      /\ r.key = peer[l].key /\ r.keys = peer[l].keys /\ r.data = peer[l].data
      /\ r.alive = peer[l].alive /\ r.replies = peer[l].replies /\ r.got = peer[l].got
  <2>1. peer[l] \in PeerState
    BY RecordsTyped
  <2> QED BY <2>1 DEF PeerState
<1>3. <<>> \in Seq(Wire)
  OBVIOUS
<1>4. /\ fromProxy' \in [Leg -> Seq(Wire)] /\ fromProxy'[l] = <<>>
      /\ \A m \in Leg : m # l => fromProxy'[m] = fromProxy[m]
  BY <1>1, <1>3 DEF TypeOK
<1> HIDE DEF r
<1> QED BY <1>1, <1>2, <1>4, PeerChanges

\* A peer that has left does not come back.
LEMMA PeerKeepsClosed ==
    ASSUME TypeOK, WireInv, NEW l \in Leg, Peer(l), NEW m \in Leg, ~peer[m].open
    PROVE  ~peer'[m].open
<1>1. m # l => peer'[m] = peer[m]
  BY PeerSendsKeyEffect, PeerSendsDataEffect, PeerSendsAliveEffect, PeerSendsPlainEffect,
     PeerReadsEffect, PeerClosesEffect, ZenonT(30) DEF Peer
<1>2. m = l => peer'[m].open = peer[m].open \/ peer'[m].open = FALSE
  BY PeerSendsKeyEffect, PeerSendsDataEffect, PeerSendsAliveEffect, PeerSendsPlainEffect,
     PeerReadsEffect, PeerClosesEffect, ZenonT(30) DEF Peer
<1> QED BY <1>1, <1>2

-----------------------------------------------------------------------------
(* Typing and the turns of the loop.                                       *)

\* Where the loop stands agrees with what is left to handle.
LEMMA LoopStep == TypeOK /\ WireInv /\ LoopInv /\ [Next]_vars => LoopInv'
<1> SUFFICES ASSUME TypeOK, WireInv, LoopInv, [Next]_vars PROVE LoopInv'
  OBVIOUS
<1> USE DEF LoopInv, Leg
<1>1. CASE Select
  BY <1>1 DEF Select, Readable
<1>2. ASSUME NEW l \in Leg, Handling(l), Consume(l) PROVE LoopInv'
  <2>1. l \notin ready /\ \A m \in Leg : m # l => inbuf'[m] = inbuf[m]
    BY <1>2, ConsumeEffect DEF Handling
  <2>2. pc = l
    BY <1>2 DEF Handling
  <2> QED BY <1>2, <2>1, <2>2 DEF Consume, TypeOK, Readable
<1>3. ASSUME NEW l \in Leg, NEW why \in {"none", "peer", "baddata", "noreply"},
             pc = l, Return(l, why), UNCHANGED <<toProxy, peer>>
      PROVE  LoopInv'
  <2>1. inbuf'[l] = <<>> /\ \A m \in Leg : m # l => inbuf'[m] = inbuf[m]
    BY <1>3, ReturnEffect
  <2>2. CASE l = "local"
    BY <1>3, <2>1, <2>2 DEF Return, AfterEvent, TypeOK, Readable
  <2>3. CASE l = "remote"
    BY <1>3, <2>1, <2>3 DEF Return, AfterEvent, TypeOK, Readable
  <2> QED BY <2>2, <2>3
<1>4. ASSUME NEW l \in Leg, Recv(l) PROVE LoopInv'
  <2>1. pc = l /\ ready' = ready \ {l} /\ UNCHANGED <<pc, cause>>
    BY <1>4 DEF Recv
  <2>2. \A m \in Leg : m # l => inbuf'[m] = inbuf[m] /\ toProxy'[m] = toProxy[m]
    <3>1. \A m \in Leg : m # l => toProxy'[m] = toProxy[m]
      BY <1>4 DEF Recv, TypeOK
    <3> QED BY <1>4, <3>1, RecvEffect
  <2>3. peer' = peer
    BY <1>4 DEF Recv
  <2>4. l \notin ready' /\ ready' \subseteq ready /\ ready' \subseteq Leg
    BY <2>1 DEF TypeOK
  <2>5. ASSUME NEW m \in ready' PROVE inbuf'[m] = <<>> /\ Readable(m)'
    <3>1. m \in Leg /\ m # l /\ m \in ready
      BY <2>4
    <3>2. inbuf'[m] = inbuf[m] /\ toProxy'[m] = toProxy[m]
      BY <2>2, <3>1
    <3>3. inbuf[m] = <<>> /\ Readable(m)
      BY <3>1
    <3> QED BY <2>3, <3>2, <3>3 DEF Readable
  <2>6. pc' = l /\ pc = l /\ cause' = cause /\ l \in {"local", "remote"}
    BY <2>1 DEF Leg
  <2>7. l = "local" => cause' = "none" /\ inbuf'["remote"] = <<>>
    BY <2>2, <2>6 DEF Leg
  <2>8. l = "remote" => inbuf'["local"] = <<>> /\ "local" \notin ready'
    BY <2>2, <2>4, <2>6 DEF Leg
  <2> QED BY <2>5, <2>6, <2>7, <2>8
<1>5. CASE RemoteKey
  BY <1>2, <1>5 DEF RemoteKey
<1>6. CASE LocalKey
  BY <1>2, <1>6 DEF LocalKey
<1>7. CASE Close
  BY <1>7 DEF Close, Readable
<1>8. ASSUME NEW l \in Leg, HandleEvent(l) PROVE LoopInv'
  <2>1. CASE Recv(l)
    BY <1>4, <2>1
  <2>2. CASE RecvEnd(l) \/ EventDone(l)
    BY <1>3, <2>2 DEF RecvEnd, EventDone
  <2>3. CASE Drop(l) \/ Forward(l)
    BY <1>2, <2>3 DEF Drop, Forward
  <2>4. CASE BadChecksum(l)
    BY <1>3, <2>4 DEF BadChecksum, Handling
  <2>5. CASE Keepalive(l)
    BY <1>2, <1>3, <2>5 DEF Keepalive, Handling
  <2>6. CASE BrokenPipe(l)
    <3>1. pc' = "killed" /\ UNCHANGED <<inbuf, toProxy, peer, ready, cause>>
      BY <2>6 DEF BrokenPipe
    <3> QED BY <3>1 DEF Readable
  <2> QED BY <1>8, <2>1, <2>2, <2>3, <2>4, <2>5, <2>6 DEF HandleEvent
<1>9. ASSUME NEW l \in Leg, Peer(l) PROVE LoopInv'
  <2>1. UNCHANGED <<inbuf, pc, ready, cause>>
    BY <1>9
    DEF Peer, PeerSendsKey, PeerSendsData, PeerSendsAlive, PeerSendsPlain, PeerReads,
        PeerCloses, Send, proxyVars
  <2>2. \A m \in Leg : ~peer[m].open => ~peer'[m].open
    BY <1>9, PeerKeepsClosed
  <2>3. \A m \in Leg : toProxy[m] # <<>> => toProxy'[m] # <<>>
    <3>1. CASE toProxy' = toProxy
      BY <3>1
    <3>2. ASSUME NEW p \in Wire, Send(l, p) PROVE \A m \in Leg : toProxy[m] # <<>> => toProxy'[m] # <<>>
      <4>1. toProxy'[l] = Append(toProxy[l], p) /\ \A m \in Leg : m # l => toProxy'[m] = toProxy[m]
        BY <3>2 DEF Send, TypeOK
      <4>2. Append(toProxy[l], p) # <<>>
        <5>1. \A q \in Seq(Wire) : Append(q, p) # <<>>
          BY AppendProperties
        <5> QED BY <5>1, PendingTyped
      <4> QED BY <4>1, <4>2
    <3>3. \A k \in Keys : Table(k) \in Wire
      BY TableFacts
    <3>4. \A flags \in {{"ALIVE_REQUEST"}, {"ALIVE_REPLY"}, {}} : Control(flags) \in Wire
      BY ControlFacts
    <3>5. PeerSendsData(l) => \E p \in Wire : Send(l, p)
      BY PeerSendsDataEffect
    <3> QED BY <1>9, <3>1, <3>2, <3>3, <3>4, <3>5
            DEF Peer, PeerSendsKey, PeerSendsAlive, PeerSendsPlain, PeerReads, PeerCloses
  <2> QED BY <2>1, <2>2, <2>3 DEF Readable, TypeOK
<1>10. CASE UNCHANGED vars
  BY <1>10 DEF vars, Readable
<1> QED BY <1>1, <1>5, <1>6, <1>7, <1>8, <1>9, <1>10 DEF Next, Loop


\* Every step keeps the types.
LEMMA TypeStep == IInv /\ [Next]_vars => TypeOK'
<1> SUFFICES ASSUME IInv, [Next]_vars PROVE TypeOK'
  OBVIOUS
<1> USE DEF IInv
<1>1. CASE Select
  BY <1>1 DEF Select, TypeOK, Leg
<1>2. ASSUME NEW l \in Leg, NEW why \in {"none", "peer", "baddata", "noreply"},
             pc = l, Return(l, why), UNCHANGED <<conn, toProxy, fromProxy, peer>>,
             log' \in Seq(LogEntry)
      PROVE  TypeOK'
  <2>1. inbuf' \in [Leg -> Seq(Wire)]
    BY <1>2, ReturnEffect
  <2>2. cause' \in {"none", "peer", "badheader", "baddata", "noreply"}
    BY <1>2 DEF Return, TypeOK
  <2>3. pc' \in Leg \cup {"select", "close", "closed", "killed"} /\ ready' \subseteq Leg
    BY <1>2 DEF Return, AfterEvent, TypeOK, Leg
  <2> QED BY <1>2, <2>1, <2>2, <2>3 DEF TypeOK, LogEntry
<1>3. ASSUME NEW l \in Leg, Handling(l), Consume(l), log' \in Seq(LogEntry),
             conn' \in [Leg -> ConnState], fromProxy' \in [Leg -> Seq(Wire)]
      PROVE  TypeOK'
  <2>1. inbuf' \in [Leg -> Seq(Wire)]
    BY <1>3, ConsumeEffect
  <2> QED BY <1>3, <2>1 DEF Consume, TypeOK, LogEntry, ConnState
<1>4. ASSUME NEW l \in Leg, Recv(l) PROVE TypeOK'
  <2>1. inbuf' \in [Leg -> Seq(Wire)] /\ toProxy' \in [Leg -> Seq(Wire)]
    BY <1>4, RecvEffect
  <2>2. ready' \subseteq Leg
    BY <1>4 DEF Recv, TypeOK
  <2> QED BY <1>4, <2>1, <2>2 DEF Recv, TypeOK
<1>5. CASE RemoteKey
  BY <1>3, <1>5, RemoteKeyEffect DEF Leg
<1>6. CASE LocalKey
  <2>1. fromProxy' \in [Leg -> Seq(Wire)]
    BY <1>6, LocalKeyEffect DEF TypeOK
  <2> QED BY <1>3, <1>6, <2>1, LocalKeyEffect DEF Leg
<1>7. CASE Close
  <2>1. PICK kept \in [Leg -> 0 .. SockCap] :
           /\ \A l \in Leg : kept[l] <= Len(fromProxy[l])
           /\ fromProxy' = [l \in Leg |-> SubSeq(fromProxy[l], 1, kept[l])]
    BY <1>7 DEF Close
  <2>2. ASSUME NEW l \in Leg PROVE SubSeq(fromProxy[l], 1, kept[l]) \in Seq(Wire)
    <3>1. fromProxy[l] \in Seq(Wire) /\ kept[l] \in 0 .. Len(fromProxy[l])
      BY <2>1, PendingTyped, LenProperties, SessionAssumption
    <3> QED BY <3>1, RangePrefix
  <2>3. fromProxy' \in [Leg -> Seq(Wire)]
    BY <2>1, <2>2
  <2> QED BY <1>7, <2>3 DEF Close, TypeOK
<1>8. ASSUME NEW l \in Leg, HandleEvent(l) PROVE TypeOK'
  <2>1. CASE RecvEnd(l) \/ EventDone(l)
    <3>1. log' \in Seq(LogEntry)
      BY <2>1 DEF RecvEnd, EventDone, TypeOK, LogEntry
    <3> QED BY <1>2, <2>1, <3>1 DEF RecvEnd, EventDone
  <2>2. CASE Drop(l)
    <3>1. Handling(l) /\ Consume(l) /\ log' = log \o LogRaw(l) /\ UNCHANGED <<conn, fromProxy>>
      BY <2>2 DEF Drop
    <3>2. log' \in Seq(LogEntry)
      BY <3>1, LogRawTyped
    <3> QED BY <1>3, <3>1, <3>2 DEF TypeOK, ConnState
  <2>3. CASE Forward(l)
    BY <1>3, <2>3, ForwardEffect
  <2>4. CASE BadChecksum(l)
    <3>1. log' \in Seq(LogEntry)
      BY <2>4, LogRawTyped DEF BadChecksum
    <3> QED BY <1>2, <2>4, <3>1 DEF BadChecksum, Handling
  <2>5. CASE Keepalive(l)
    <3>1. log' \in Seq(LogEntry)
      BY <2>5, LogRawTyped DEF Keepalive
    <3>2. CASE Write(l, Control({"ALIVE_REPLY"})) /\ Consume(l)
      <4>1. fromProxy' \in [Leg -> Seq(Wire)]
        BY <3>2, ControlFacts, WriteEffect
      <4> QED BY <1>3, <2>5, <3>1, <3>2, <4>1 DEF Keepalive, TypeOK, ConnState
    <3>3. CASE Return(l, "noreply") /\ UNCHANGED <<toProxy, fromProxy, peer>>
      BY <1>2, <2>5, <3>1, <3>3 DEF Keepalive, Handling
    <3> QED BY <2>5, <3>2, <3>3 DEF Keepalive
  <2>6. CASE BrokenPipe(l)
    <3>1. log' \in Seq(LogEntry)
      BY <2>6, LogRawTyped DEF BrokenPipe
    <3> QED BY <2>6, <3>1 DEF BrokenPipe, TypeOK, LogEntry
  <2> QED BY <1>4, <1>8, <2>1, <2>2, <2>3, <2>4, <2>5, <2>6 DEF HandleEvent
<1>9. ASSUME NEW l \in Leg, Peer(l) PROVE TypeOK'
  <2>1. ASSUME NEW p \in Wire, Send(l, p), peer' \in [Leg -> PeerState] PROVE TypeOK'
    <3>1. toProxy' \in [Leg -> Seq(Wire)]
      BY <2>1, SendEffect
    <3> QED BY <2>1, <3>1 DEF Send, proxyVars, TypeOK, PeerState
  <2>2. ASSUME NEW k \in Keys, PeerSendsKey(l, k) PROVE TypeOK'
    BY <2>1, <2>2, PeerSendsKeyEffect
  <2>3. CASE PeerSendsData(l)
    BY <2>1, <2>3, PeerSendsDataEffect
  <2>4. CASE PeerSendsAlive(l)
    BY <2>1, <2>4, PeerSendsAliveEffect
  <2>5. CASE PeerSendsPlain(l)
    BY <2>1, <2>5, PeerSendsPlainEffect
  <2>6. CASE PeerReads(l)
    <3>1. peer' \in [Leg -> PeerState] /\ fromProxy' \in [Leg -> Seq(Wire)]
      BY <2>6, PeerReadsEffect
    <3> QED BY <2>6, <3>1 DEF PeerReads, proxyVars, TypeOK, PeerState
  <2>7. CASE PeerCloses(l)
    <3>1. peer' \in [Leg -> PeerState] /\ fromProxy' \in [Leg -> Seq(Wire)]
      BY <2>7, PeerClosesEffect
    <3> QED BY <2>7, <3>1 DEF PeerCloses, proxyVars, TypeOK, PeerState
  <2> QED BY <1>9, <2>2, <2>3, <2>4, <2>5, <2>6, <2>7 DEF Peer
<1>10. CASE UNCHANGED vars
  BY <1>10 DEF vars, TypeOK
<1> QED BY <1>1, <1>5, <1>6, <1>7, <1>8, <1>9, <1>10 DEF Next, Loop

-----------------------------------------------------------------------------
(* The steps, by what they do to the queues.                               *)

Quiet ==
    /\ UNCHANGED <<conn, fromProxy, peer, log, cause>>
    /\ \A l \in Leg : Pending(l)' = Pending(l)
    /\ \A l \in Leg : Gone(l) => Gone(l)'
    /\ \/ pc \notin {"closed", "killed"} /\ pc' \notin {"closed", "killed"}
       \/ pc' = pc

\* The handler of leg l gives up.
GivesUp(l, why) ==
    /\ UNCHANGED <<conn, fromProxy, peer>>
    /\ \A m \in Leg : m # l => Pending(m)' = Pending(m)
    /\ \A m \in Leg : Range(Pending(m)') \subseteq Range(Pending(m))
    /\ \A m \in Leg : Gone(m) => Gone(m)'
    /\ ~Gone(l) /\ Gone(l)'
    /\ pc \notin {"closed", "killed"} /\ pc' \notin {"closed", "killed"}
    /\ cause' = IF cause = "none" THEN why ELSE cause
    /\ \/ why = "peer" /\ ~peer[l].open /\ log' = log
       \/ why = "noreply" /\ ~peer[l].open /\ Handling(l) /\ IsKeepalive(AtFront(l)) /\ log' = log \o LogRaw(l)
       \/ /\ why = "baddata" /\ Handling(l) /\ IsData(AtFront(l)) /\ conn[l].haveKey
          /\ conn[l].key \notin AtFront(l).accepts /\ log' = log \o LogRaw(l)

\* It answers a keepalive request.
Replies(l) ==
    /\ Handling(l) /\ Consume(l) /\ IsKeepalive(AtFront(l))
    /\ log' = log \o LogRaw(l)
    /\ Write(l, Control({"ALIVE_REPLY"}))
    /\ UNCHANGED conn

\* A handler that runs out of packets changes nothing the promises are about.
LEMMA ReturnQuietly ==
    ASSUME TypeOK, LoopInv, NEW l \in Leg, pc = l, inbuf[l] = <<>>, Return(l, "none"),
           UNCHANGED <<conn, toProxy, fromProxy, log, peer>>
    PROVE  Quiet
<1>1. \A m \in Leg : Pending(m)' = Pending(m)
  BY ReturnEffect
<1>2. cause' = cause
  BY DEF Return
<1>3. pc' \in {"select", "remote", "close"}
  BY DEF Return, AfterEvent
<1>4. pc \in {"local", "remote"}
  BY DEF Leg
<1>5. \A m \in Leg : Gone(m) => Gone(m)'
  BY <1>2, <1>4 DEF Gone
<1> QED BY <1>1, <1>2, <1>3, <1>4, <1>5 DEF Quiet

\* One that returns false has a reason.
LEMMA ReturnGivesUp ==
    ASSUME TypeOK, LoopInv, NEW l \in Leg, pc = l,
           NEW why \in {"peer", "noreply", "baddata"}, Return(l, why),
           UNCHANGED <<conn, toProxy, fromProxy, peer>>,
           \/ why = "peer" /\ ~peer[l].open /\ log' = log
           \/ why = "noreply" /\ ~peer[l].open /\ Handling(l) /\ IsKeepalive(AtFront(l)) /\ log' = log \o LogRaw(l)
           \/ /\ why = "baddata" /\ Handling(l) /\ IsData(AtFront(l)) /\ conn[l].haveKey
              /\ conn[l].key \notin AtFront(l).accepts /\ log' = log \o LogRaw(l)
    PROVE  GivesUp(l, why)
<1>1. /\ \A m \in Leg : m # l => Pending(m)' = Pending(m)
      /\ \A m \in Leg : Range(Pending(m)') \subseteq Range(Pending(m))
  BY ReturnEffect
<1>2. cause' = (IF cause = "none" THEN why ELSE cause) /\ pc' = AfterEvent(l, cause') /\ cause' # "none"
  BY DEF Return
<1>3. pc' = IF l = "local" THEN "remote" ELSE "close"
  BY <1>2 DEF AfterEvent
<1>4. (l = "local" => cause = "none") /\ l \in {"local", "remote"}
  BY DEF LoopInv, Leg
<1>5. ~Gone(l) /\ Gone(l)' /\ \A m \in Leg : Gone(m) => Gone(m)'
  BY <1>2, <1>3, <1>4 DEF Gone, Leg
<1> QED BY <1>1, <1>2, <1>3, <1>4, <1>5 DEF GivesUp

\* Every step has one of these shapes.
LEMMA StepShapes ==
    ASSUME TypeOK, WireInv, LoopInv, [Next]_vars
    PROVE  \/ Quiet
           \/ \E l \in Leg, why \in {"peer", "noreply", "baddata"} : GivesUp(l, why)
           \/ RemoteKey \/ LocalKey \/ Close
           \/ \E l \in Leg : Drop(l) \/ Forward(l) \/ Replies(l) \/ BrokenPipe(l)
           \/ \E l \in Leg : Peer(l)
<1>1. CASE Select
  <2>1. UNCHANGED <<conn, fromProxy, peer, log, cause, inbuf, toProxy>> /\ pc = "select" /\ pc' = "local"
    BY <1>1 DEF Select
  <2>2. \A l \in Leg : Pending(l)' = Pending(l)
    BY <2>1 DEF Pending
  <2> QED BY <2>1, <2>2 DEF Quiet, Gone
<1>2. CASE UNCHANGED vars
  <2>1. UNCHANGED <<conn, fromProxy, peer, log, cause, inbuf, toProxy, pc>>
    BY <1>2 DEF vars
  <2>2. \A l \in Leg : Pending(l)' = Pending(l)
    BY <2>1 DEF Pending
  <2> QED BY <2>1, <2>2 DEF Quiet, Gone
<1>3. ASSUME NEW l \in Leg, Recv(l) PROVE Quiet
  <2>1. UNCHANGED <<conn, fromProxy, pc, cause, log, peer>>
    BY <1>3 DEF Recv
  <2>2. \A m \in Leg : Pending(m)' = Pending(m)
    BY <1>3, RecvEffect
  <2> QED BY <2>1, <2>2 DEF Quiet, Gone
<1>4. ASSUME NEW l \in Leg, RecvEnd(l) PROVE Quiet \/ GivesUp(l, "peer")
  <2>1. /\ pc = l /\ l \in ready /\ toProxy[l] = <<>> /\ Return(l, "peer")
        /\ UNCHANGED <<conn, toProxy, fromProxy, log, peer>>
    BY <1>4 DEF RecvEnd
  <2>2. ~peer[l].open
    BY <2>1 DEF LoopInv, Readable
  <2> QED BY <2>1, <2>2, ReturnGivesUp
<1>5. ASSUME NEW l \in Leg, EventDone(l) PROVE Quiet
  BY <1>5, ReturnQuietly DEF EventDone
<1>6. ASSUME NEW l \in Leg, BadChecksum(l) PROVE GivesUp(l, "baddata")
  <2>1. /\ Handling(l) /\ IsData(AtFront(l)) /\ conn[l].haveKey
        /\ FALSE \in DataChecksum(AtFront(l), conn[l].key)
        /\ log' = log \o LogRaw(l) /\ Return(l, "baddata")
        /\ UNCHANGED <<conn, toProxy, fromProxy, peer>>
    BY <1>6 DEF BadChecksum
  <2>2. AtFront(l).keynum = "table"
    BY <2>1, FrontIsWellFormed DEF WellFormed
  <2>3. conn[l].key \notin AtFront(l).accepts
    BY <2>1, <2>2 DEF DataChecksum, KeyFor
  <2> QED BY <2>1, <2>3, ReturnGivesUp DEF Handling
<1>7. ASSUME NEW l \in Leg, Keepalive(l) PROVE Replies(l) \/ GivesUp(l, "noreply")
  <2>1. CASE Write(l, Control({"ALIVE_REPLY"})) /\ Consume(l)
    BY <1>7, <2>1 DEF Keepalive, Replies
  <2>2. CASE ~peer[l].open /\ Return(l, "noreply") /\ UNCHANGED <<toProxy, fromProxy, peer>>
    <3>1. Handling(l) /\ IsKeepalive(AtFront(l)) /\ log' = log \o LogRaw(l) /\ UNCHANGED conn
      BY <1>7 DEF Keepalive
    <3> QED BY <2>2, <3>1, ReturnGivesUp DEF Handling
  <2> QED BY <1>7, <2>1, <2>2 DEF Keepalive
<1> QED BY <1>1, <1>2, <1>3, <1>4, <1>5, <1>6, <1>7 DEF Next, Loop, HandleEvent

\* What Close, Drop and BrokenPipe do to the state.
LEMMA CloseEffect ==
    ASSUME TypeOK, Close
    PROVE  /\ UNCHANGED <<conn, log, cause, peer>> /\ pc = "close" /\ pc' = "closed"
           /\ \A l \in Leg : Pending(l)' = Pending(l)
           /\ \A l \in Leg : Range(fromProxy'[l]) \subseteq Range(fromProxy[l])
           /\ \A l \in Leg : \E n \in 0 .. Len(fromProxy[l]) : fromProxy'[l] = SubSeq(fromProxy[l], 1, n)
<1>1. PICK kept \in [Leg -> 0 .. SockCap] :
         /\ \A l \in Leg : kept[l] <= Len(fromProxy[l])
         /\ fromProxy' = [l \in Leg |-> SubSeq(fromProxy[l], 1, kept[l])]
  BY DEF Close
<1>2. ASSUME NEW l \in Leg
      PROVE  /\ \E n \in 0 .. Len(fromProxy[l]) : fromProxy'[l] = SubSeq(fromProxy[l], 1, n)
             /\ Range(fromProxy'[l]) \subseteq Range(fromProxy[l])
  <2>1. fromProxy[l] \in Seq(Wire) /\ kept[l] \in 0 .. Len(fromProxy[l])
    BY <1>1, PendingTyped, LenProperties, SessionAssumption
  <2>2. fromProxy'[l] = SubSeq(fromProxy[l], 1, kept[l])
    BY <1>1
  <2> QED BY <2>1, <2>2, RangePrefix
<1>3. UNCHANGED <<conn, log, cause, peer, inbuf, toProxy>> /\ pc = "close" /\ pc' = "closed"
  BY DEF Close
<1> QED BY <1>2, <1>3 DEF Pending

\* A dropped packet is no key and no keepalive, and no data once there is a key.
LEMMA DropEffect ==
    ASSUME NEW l \in Leg, Drop(l), TypeOK, WireInv
    PROVE  /\ Handling(l) /\ Consume(l) /\ UNCHANGED <<conn, fromProxy>> /\ log' = log \o LogRaw(l)
           /\ ~IsKey(AtFront(l)) /\ ~IsKeepalive(AtFront(l))
           /\ IsData(AtFront(l)) => ~conn[l].haveKey
<1>1. /\ Handling(l) /\ Consume(l) /\ UNCHANGED <<conn, fromProxy>> /\ log' = log \o LogRaw(l)
      /\ Ignored(AtFront(l), conn[l].haveKey)
  BY DEF Drop
<1>2. IsKey(AtFront(l)) => CarriesKey(AtFront(l))
  BY <1>1, FrontIsWellFormed DEF WellFormed
<1>3. IsData(AtFront(l)) => AtFront(l).flags = {"ENCRYPTED"}
  BY DEF IsData
<1> QED BY <1>1, <1>2, <1>3 DEF Ignored, IsPlain, IsData, IsKey, IsKeepalive, Verified

\* The program dies with the packet logged and nothing else changed.
LEMMA BrokenPipeEffect ==
    ASSUME NEW l \in Leg, BrokenPipe(l), TypeOK, WireInv
    PROVE  /\ Handling(l) /\ UNCHANGED <<conn, fromProxy, peer, cause>> /\ log' = log \o LogRaw(l)
           /\ pc' = "killed"
           /\ \A m \in Leg : Pending(m)' = Pending(m)
           /\ \A m \in Leg : Gone(m) <=> Gone(m)'
           /\ IsData(AtFront(l)) => conn[l].key \in AtFront(l).accepts
<1>1. /\ Handling(l) /\ UNCHANGED <<conn, inbuf, toProxy, fromProxy, peer, cause>>
      /\ log' = log \o LogRaw(l) /\ pc' = "killed"
  BY DEF BrokenPipe
<1>2. PICK to \in Writes(l) : TRUE
  BY DEF BrokenPipe
<1>3. ASSUME IsData(AtFront(l)) PROVE conn[l].key \in AtFront(l).accepts
  <2>1. ~IsKey(AtFront(l)) /\ ~IsKeepalive(AtFront(l))
    BY <1>3 DEF IsData, IsKey, IsKeepalive, Verified
  <2>2. TRUE \in DataChecksum(AtFront(l), conn[l].key)
    BY <1>2, <2>1 DEF Writes, CarriesKey
  <2>3. AtFront(l).keynum = "table"
    BY <1>1, <1>3, FrontIsWellFormed DEF WellFormed
  <2> QED BY <2>2, <2>3 DEF DataChecksum, KeyFor
<1>4. \A m \in Leg : Pending(m)' = Pending(m)
  BY <1>1 DEF Pending
<1>5. \A m \in Leg : Gone(m) <=> Gone(m)'
  BY <1>1 DEF Gone, Handling, Leg
<1> QED BY <1>1, <1>3, <1>4, <1>5

\* What a consumed packet, a send and a read leave alone.
LEMMA ConsumeFrame ==
    ASSUME NEW l \in Leg, Consume(l)
    PROVE  UNCHANGED <<pc, cause, peer>> /\ \A m \in Leg : Gone(m) <=> Gone(m)'
BY DEF Consume, Gone

\* A send leaves the proxy alone, and happens while it runs.
LEMMA SendFrame ==
    ASSUME NEW l \in Leg, NEW p, Send(l, p)
    PROVE  /\ UNCHANGED <<conn, fromProxy, log, cause, pc>> /\ \A m \in Leg : Gone(m) <=> Gone(m)'
           /\ peer[l].open /\ pc \notin {"closed", "killed"}
BY DEF Send, proxyVars, Gone

\* A read and a close leave the proxy alone.
LEMMA ReadFrame ==
    ASSUME NEW l \in Leg, PeerReads(l) \/ PeerCloses(l)
    PROVE  /\ UNCHANGED <<conn, log, cause, pc>> /\ \A m \in Leg : Gone(m) <=> Gone(m)'
           /\ \A m \in Leg : Pending(m)' = Pending(m)
<1>1. UNCHANGED <<conn, log, cause, pc, inbuf, toProxy>>
  BY DEF PeerReads, PeerCloses, proxyVars
<1> QED BY <1>1 DEF Gone, Pending

\* What a peer sends is well formed.
LEMMA SentIsWellFormed ==
    ASSUME TypeOK, NEW l \in Leg, Peer(l)
    PROVE  \/ \E p \in Wire : Send(l, p) /\ WellFormed(p) /\ (IsData(p) => p.key \in Keys)
           \/ PeerReads(l) \/ PeerCloses(l)
<1>1. ASSUME NEW k \in Keys, PeerSendsKey(l, k)
      PROVE  \E p \in Wire : Send(l, p) /\ WellFormed(p) /\ (IsData(p) => p.key \in Keys)
  BY <1>1, PeerSendsKeyEffect, TableFacts
<1>2. ASSUME PeerSendsData(l)
      PROVE  \E p \in Wire : Send(l, p) /\ WellFormed(p) /\ (IsData(p) => p.key \in Keys)
  <2> DEFINE n == peer[l].data + 1
             p == Sealed(peer[l].key, n, n)
  <2>1. n \in 1 .. MaxData /\ peer[l].key \in Keys /\ Send(l, p) /\ p \in Wire
    BY <1>2, PeerSendsDataEffect
  <2>2. WellFormed(p) /\ p.key = peer[l].key
    BY <2>1, SealedFacts DEF KeyState
  <2> HIDE DEF p
  <2> QED BY <2>1, <2>2
<1>3. ASSUME NEW flags \in {{"ALIVE_REQUEST"}, {"ALIVE_REPLY"}, {}}, Send(l, Control(flags))
      PROVE  \E p \in Wire : Send(l, p) /\ WellFormed(p) /\ (IsData(p) => p.key \in Keys)
  <2>1. WellFormed(Control(flags)) /\ Control(flags) \in Wire /\ ~IsData(Control(flags))
    BY ControlFacts
  <2> QED BY <1>3, <2>1
<1>4. ASSUME PeerSendsAlive(l) \/ PeerSendsPlain(l)
      PROVE  \E flags \in {{"ALIVE_REQUEST"}, {"ALIVE_REPLY"}, {}} : Send(l, Control(flags))
  BY <1>4 DEF PeerSendsAlive, PeerSendsPlain
<1> QED BY <1>1, <1>2, <1>3, <1>4 DEF Peer

\* Every step keeps the packets well formed.
LEMMA WireStep == IInv /\ [Next]_vars => WireInv'
<1> SUFFICES ASSUME IInv, [Next]_vars PROVE WireInv'
  OBVIOUS
<1> USE DEF IInv
<1>1. ASSUME \A l \in Leg : Range(Pending(l)') \subseteq Range(Pending(l)),
             \A l \in Leg : Range(fromProxy'[l]) \subseteq Range(fromProxy[l])
      PROVE  WireInv'
  BY <1>1 DEF WireInv
<1>2. ASSUME NEW l \in Leg, Consume(l), Handling(l), UNCHANGED fromProxy
      PROVE  WireInv'
  BY <1>1, <1>2, ConsumeEffect
<1>3. ASSUME NEW l \in Leg, Consume(l), Handling(l), NEW to \in Leg, NEW p \in Wire, Write(to, p),
             WellFormed(p), IsKey(p) => to = "local"
      PROVE  WireInv'
  <2>1. \A m \in Leg : Range(Pending(m)') \subseteq Range(Pending(m))
    BY <1>3, ConsumeEffect
  <2>2. \A m \in Leg : \A q \in Range(fromProxy'[m]) : q \in Range(fromProxy[m]) \/ (q = p /\ m = to)
    BY <1>3, WriteEffect, ZenonT(30)
  <2> QED BY <1>3, <2>1, <2>2 DEF WireInv
<1>4. CASE Quiet
  BY <1>1, <1>4 DEF Quiet
<1>5. ASSUME NEW l \in Leg, NEW why \in {"peer", "noreply", "baddata"}, GivesUp(l, why) PROVE WireInv'
  BY <1>1, <1>5 DEF GivesUp
<1>6. CASE RemoteKey
  <2> DEFINE k == AtFront("remote").key
  <2>1. k \in Keys /\ Handling("remote") /\ Consume("remote") /\ Write("local", Table(k))
    BY <1>6, RemoteKeyEffect
  <2>2. Table(k) \in Wire /\ WellFormed(Table(k))
    BY <2>1, TableFacts
  <2>3. "local" \in Leg /\ "remote" \in Leg
    BY DEF Leg
  <2> QED BY <1>3, <2>1, <2>2, <2>3
<1>7. CASE LocalKey
  BY <1>2, <1>7, LocalKeyEffect DEF Leg
<1>8. CASE Close
  BY <1>1, <1>8, CloseEffect
<1>9. ASSUME NEW l \in Leg, Drop(l) PROVE WireInv'
  BY <1>2, <1>9, DropEffect
<1>10. ASSUME NEW l \in Leg, Forward(l) PROVE WireInv'
  <2> DEFINE to == Other(l)
             p == Sealed(conn[to].key, conn[to].seq, AtFront(l).body)
  <2>1. Handling(l) /\ Consume(l) /\ IsData(AtFront(l)) /\ Write(to, p) /\ p \in Wire
    BY <1>10, ForwardEffect
  <2>2. WellFormed(p) /\ ~IsKey(p) /\ to \in Leg
    BY <2>1, ForwardedPacket, OtherLeg
  <2> HIDE DEF p, to
  <2> QED BY <1>3, <2>1, <2>2
<1>11. ASSUME NEW l \in Leg, Replies(l) PROVE WireInv'
  <2>1. LET p == Control({"ALIVE_REPLY"}) IN p \in Wire /\ WellFormed(p) /\ ~IsKey(p)
    BY ControlFacts
  <2> QED BY <1>3, <1>11, <2>1 DEF Replies
<1>12. ASSUME NEW l \in Leg, BrokenPipe(l) PROVE WireInv'
  BY <1>1, <1>12, BrokenPipeEffect
<1>13. ASSUME NEW l \in Leg, Peer(l) PROVE WireInv'
  <2>1. ASSUME NEW p \in Wire, Send(l, p), WellFormed(p), IsData(p) => p.key \in Keys
        PROVE  WireInv'
    <3>1. /\ Range(Pending(l)') = Range(Pending(l)) \cup {p}
          /\ \A m \in Leg : m # l => Pending(m)' = Pending(m)
          /\ fromProxy' = fromProxy
      BY <2>1, SendEffect, SendFrame
    <3>2. \A m \in Leg : \A q \in Range(Pending(m)') : q \in Range(Pending(m)) \/ q = p
      BY <3>1
    <3> QED BY <2>1, <3>1, <3>2 DEF WireInv
  <2>2. CASE PeerReads(l)
    <3>1. Range(fromProxy'[l]) \subseteq Range(fromProxy[l]) /\ \A m \in Leg : m # l => fromProxy'[m] = fromProxy[m]
      BY <2>2, PeerReadsEffect
    <3> QED BY <1>1, <2>2, <3>1, ReadFrame
  <2>3. CASE PeerCloses(l)
    <3>1. Range(<<>>) \subseteq {}
      BY DEF Range
    <3>2. fromProxy'[l] = <<>> /\ \A m \in Leg : m # l => fromProxy'[m] = fromProxy[m]
      BY <2>3, PeerClosesEffect
    <3> QED BY <1>1, <2>3, <3>1, <3>2, ReadFrame
  <2> QED BY <1>13, <2>1, <2>2, <2>3, SentIsWellFormed
<1> QED BY <1>4, <1>5, <1>6, <1>7, <1>8, <1>9, <1>10, <1>11, <1>12, <1>13, StepShapes

-----------------------------------------------------------------------------
(* Numbers.                                                                *)

\* Before the first key no data is pending, so none is dropped.
LEMMA DroppedIsPlain ==
    ASSUME TypeOK, WireInv, LoopInv, KeyInv, NEW l \in Leg, Drop(l)
    PROVE  ~IsData(AtFront(l))
<1>1. Handling(l) /\ (IsData(AtFront(l)) => ~conn[l].haveKey)
  BY DropEffect
<1>2. SUFFICES ASSUME IsData(AtFront(l)) PROVE FALSE
  OBVIOUS
<1>3. AtFront(l) \in Range(Pending(l))
  BY <1>1, FrontFacts
<1>4. CASE l = "local"
  BY <1>1, <1>2, <1>3, <1>4 DEF KeyInv, BeforeKey
<1>5. CASE l = "remote"
  <2>1. Leads(KeyState, KeyStep, Pending(l), conn[l].key, peer[l].key)
    BY <1>1, <1>5, HandlingIsNotGone DEF KeyInv, ServerKeys
  <2>2. Pending(l) \in Seq(Wire) /\ Pending(l) # <<>> /\ Head(Pending(l)) = AtFront(l)
    BY <1>1, PendingTyped, FrontFacts
  <2>3. PICK c \in KeyState : <<conn[l].key, AtFront(l), c>> \in KeyStep
    BY <2>1, <2>2, LeadsTail
  <2>4. ~IsKey(AtFront(l))
    BY <1>2 DEF IsData, IsKey, Verified
  <2>5. conn[l].key \in AtFront(l).accepts
    BY <1>2, <2>3, <2>4 DEF KeyStep
  <2>6. AtFront(l).accepts = {AtFront(l).key} /\ AtFront(l).key \in Keys
    BY <1>1, <1>2, FrontIsWellFormed DEF WellFormed
  <2>7. conn[l].key \notin Keys
    BY <1>1, <1>2 DEF KeyInv, HasKey
  <2> QED BY <2>5, <2>6, <2>7
<1> QED BY <1>4, <1>5 DEF Leg

\* A packet that is not data changes no number.
LEMMA NumberSame ==
    ASSUME NEW p \in Wire, ~IsData(p), NEW n \in Number
    PROVE  <<n, p, n>> \in NumberStep
BY DEF NumberStep

\* What the two halves of NumberInv depend on: as long as it stays, they do.
LEMMA NumberInKept ==
    ASSUME NEW l \in Leg, NumberIn(l), Gone(l) => Gone(l)', Pending(l)' = Pending(l),
           conn'[Other(l)].seq = conn[Other(l)].seq, peer'[l].data = peer[l].data
    PROVE  NumberIn(l)'
BY DEF NumberIn

\* What has been written to a peer and how much of it it has read.
LEMMA NumberOutKept ==
    ASSUME NEW l \in Leg, NumberOut(l), fromProxy'[l] = fromProxy[l],
           conn'[l].seq = conn[l].seq, peer'[l].got = peer[l].got, peer'[l].open => peer[l].open,
           pc' # "closed" => pc # "closed"
    PROVE  NumberOut(l)'
BY DEF NumberOut

\* A packet that counts for nothing is consumed.
LEMMA NumberTaken ==
    ASSUME TypeOK, WireInv, LoopInv, NumberInv, NEW l \in Leg, Handling(l), Consume(l),
           conn'[l].seq = conn[l].seq,
           conn'[Other(l)].seq = IF IsData(AtFront(l)) THEN conn[Other(l)].seq + 1
                                 ELSE conn[Other(l)].seq
    PROVE  /\ \A m \in Leg : NumberIn(m)' /\ NumberGot(m)'
           /\ pc # "closed" /\ pc' # "closed"
<1>1. Pending(l)' = Tail(Pending(l)) /\ \A m \in Leg : m # l => Pending(m)' = Pending(m)
  BY ConsumeEffect
<1>2. peer' = peer /\ \A m \in Leg : Gone(m) <=> Gone(m)'
  BY ConsumeFrame
<1>3. NumberIn(l)'
  <2>1. CASE IsData(AtFront(l))
    <3>1. Leads(Number, NumberStep, Tail(Pending(l)), conn[Other(l)].seq, peer[l].data)
      BY <2>1, FrontIsNext
    <3>2. conn[Other(l)].seq \in Nat /\ conn'[Other(l)].seq = conn[Other(l)].seq + 1
      BY <2>1, OtherLeg, RecordsTyped, SessionAssumption DEF ConnState
    <3>3. conn'[Other(l)].seq - 1 = conn[Other(l)].seq
      BY <3>2
    <3> QED BY <1>1, <1>2, <3>1, <3>3 DEF NumberIn
  <2>2. CASE ~IsData(AtFront(l))
    BY <1>1, <1>2, <2>2, FrontIsNext DEF NumberIn
  <2> QED BY <2>1, <2>2
<1>4. NumberIn(Other(l))'
  BY <1>1, <1>2, OtherLeg, NumberInKept DEF NumberInv
<1>5. \A m \in Leg : NumberGot(m)'
  BY <1>2 DEF NumberInv, NumberGot
<1>6. pc # "closed" /\ pc' # "closed"
  BY DEF Handling, Consume, Leg
<1> QED BY <1>3, <1>4, <1>5, <1>6, OtherLeg

\* A packet that counts for nothing is written.
LEMMA NumberWritten ==
    ASSUME TypeOK, NumberInv, pc # "closed", pc' # "closed", NEW l \in Leg, NEW p \in Wire,
           Write(l, p), peer' = peer,
           conn'[l].seq \in 1 .. MaxData + 1,
           <<conn[l].seq - 1, p, conn'[l].seq - 1>> \in NumberStep
    PROVE  NumberOut(l)'
<1>1. SUFFICES ASSUME peer[l].open
               PROVE  Leads(Number, NumberStep, fromProxy'[l], Len(peer[l].got), conn'[l].seq - 1)
  <2>1. conn'[l].seq - 1 \in Number
    BY SessionAssumption DEF Number
  <2> QED BY <2>1 DEF NumberOut
<1>2. Leads(Number, NumberStep, fromProxy[l], Len(peer[l].got), conn[l].seq - 1)
  BY <1>1 DEF NumberInv, NumberOut
<1>3. fromProxy'[l] = Append(fromProxy[l], p) /\ fromProxy[l] \in Seq(Wire)
  BY <1>1, WriteEffect, PendingTyped
<1>4. conn'[l].seq - 1 \in Number
  BY SessionAssumption DEF Number
<1>5. Leads(Number, NumberStep, Append(fromProxy[l], p), Len(peer[l].got), conn'[l].seq - 1)
  BY <1>2, <1>3, <1>4, LeadsAppend
<1> QED BY <1>3, <1>5

\* A peer sends: data counts one up.
LEMMA NumberSent ==
    ASSUME TypeOK, NumberInv, NEW l \in Leg, NEW p \in Wire, Send(l, p),
           \A m \in Leg : m # l => peer'[m] = peer[m],
           peer'[l].got = peer[l].got, peer'[l].open = peer[l].open,
           peer'[l].data \in Nat,
           IF IsData(p) THEN /\ peer'[l].data = peer[l].data + 1 /\ peer'[l].data <= MaxData
                             /\ p.body = peer'[l].data
                        ELSE peer'[l].data = peer[l].data
    PROVE  NumberInv'
<1>1. /\ Pending(l)' = Append(Pending(l), p) /\ Pending(l) \in Seq(Wire)
      /\ \A m \in Leg : m # l => Pending(m)' = Pending(m)
  BY SendEffect, PendingTyped
<1>2. UNCHANGED <<conn, fromProxy, pc>> /\ \A m \in Leg : Gone(m) <=> Gone(m)'
  BY SendFrame
<1>3. NumberIn(l)'
  <2>1. SUFFICES ASSUME ~Gone(l)
                 PROVE  Leads(Number, NumberStep, Pending(l)', conn[Other(l)].seq - 1, peer'[l].data)
    BY <1>2 DEF NumberIn
  <2>2. Leads(Number, NumberStep, Pending(l), conn[Other(l)].seq - 1, peer[l].data)
    BY <2>1 DEF NumberInv, NumberIn
  <2>3. peer[l].data \in Number
    BY <1>1, <2>2, LeadsEnds
  <2>4. peer'[l].data \in Number
    BY <2>3, SessionAssumption DEF Number
  <2>5. <<peer[l].data, p, peer'[l].data>> \in NumberStep
    BY <2>3, <2>4 DEF NumberStep
  <2> QED BY <1>1, <2>2, <2>4, <2>5, LeadsAppend
<1>4. \A m \in Leg : m # l => NumberIn(m)'
  BY <1>1, <1>2, NumberInKept DEF NumberInv
<1>5. \A m \in Leg : NumberOut(m)'
  <2>1. \A m \in Leg : peer'[m].got = peer[m].got /\ peer'[m].open = peer[m].open
    OBVIOUS
  <2> QED BY <1>2, <2>1, NumberOutKept DEF NumberInv
<1>6. \A m \in Leg : NumberGot(m)'
  <2>1. \A m \in Leg : peer'[m].got = peer[m].got
    OBVIOUS
  <2> QED BY <2>1 DEF NumberInv, NumberGot
<1> QED BY <1>3, <1>4, <1>5, <1>6 DEF NumberInv

\* A peer reads: data counts one up.
LEMMA NumberRead ==
    ASSUME TypeOK, WireInv, NumberInv, NEW l \in Leg, PeerReads(l)
    PROVE  NumberInv'
<1> DEFINE p == Head(fromProxy[l])
<1>1. UNCHANGED <<conn, pc>> /\ \A m \in Leg : (Gone(m) <=> Gone(m)') /\ Pending(m)' = Pending(m)
  BY ReadFrame
<1>2. /\ peer[l].open /\ fromProxy[l] \in Seq(Wire) /\ fromProxy[l] # <<>>
      /\ WellFormed(p) /\ Seen(l) \in [body : Nat, seq : Nat]
      /\ peer[l].got \in Seq([body : Nat, seq : Nat])
      /\ \A m \in Leg : m # l => peer'[m] = peer[m] /\ fromProxy'[m] = fromProxy[m]
      /\ peer'[l].got = IF IsData(p) THEN Append(peer[l].got, Seen(l)) ELSE peer[l].got
      /\ peer'[l].data = peer[l].data /\ peer'[l].open = peer[l].open
      /\ fromProxy'[l] = Tail(fromProxy[l])
  BY PeerReadsEffect
<1> HIDE DEF p
<1>3. Len(peer[l].got) \in Nat
  BY <1>2, LenProperties
<1>4. PICK n \in Number : /\ Leads(Number, NumberStep, fromProxy[l], Len(peer[l].got), n)
                          /\ pc # "closed" => n = conn[l].seq - 1
  BY <1>2 DEF NumberInv, NumberOut
<1>5. PICK c \in Number : /\ <<Len(peer[l].got), p, c>> \in NumberStep
                          /\ Leads(Number, NumberStep, Tail(fromProxy[l]), c, n)
  BY <1>2, <1>4, LeadsTail DEF p
<1>6. IF IsData(p) THEN c = Len(peer[l].got) + 1 /\ p.body = c ELSE c = Len(peer[l].got)
  BY <1>5 DEF NumberStep
<1>7. Len(peer'[l].got) = c
  <2>1. \A s \in Seq([body : Nat, seq : Nat]), e \in [body : Nat, seq : Nat] : Len(Append(s, e)) = Len(s) + 1
    BY AppendProperties
  <2> QED BY <1>2, <1>6, <2>1
<1>8. NumberOut(l)'
  BY <1>1, <1>2, <1>4, <1>5, <1>7 DEF NumberOut
<1>9. NumberGot(l)'
  <2>1. CASE IsData(p)
    <3>1. peer'[l].got = Append(peer[l].got, Seen(l))
      BY <1>2, <2>1
    <3>2. Seen(l).seq = p.seq /\ Seen(l).body \in {p.body, Garbled} /\ p.seq = p.body
      BY <1>2, <2>1 DEF Seen, WellFormed, p
    <3>3. /\ Append(peer[l].got, Seen(l))[Len(peer[l].got) + 1] = Seen(l)
          /\ \A i \in 1 .. Len(peer[l].got) : Append(peer[l].got, Seen(l))[i] = peer[l].got[i]
      BY <1>2, AppendProperties
    <3>4. ASSUME NEW i \in 1 .. Len(peer'[l].got)
          PROVE  peer'[l].got[i].seq = i /\ peer'[l].got[i].body \in {i, Garbled}
      <4>1. CASE i = Len(peer[l].got) + 1
        BY <1>6, <2>1, <3>1, <3>2, <3>3, <4>1
      <4>2. CASE i # Len(peer[l].got) + 1
        <5>1. i \in 1 .. Len(peer[l].got)
          BY <1>3, <1>6, <1>7, <2>1, <4>2
        <5> QED BY <3>1, <3>3, <5>1 DEF NumberInv, NumberGot
      <4> QED BY <4>1, <4>2
    <3> QED BY <3>4 DEF NumberGot
  <2>2. CASE ~IsData(p)
    BY <1>2, <2>2, SMTT(20) DEF NumberInv, NumberGot
  <2> QED BY <2>1, <2>2
<1>10. \A m \in Leg : NumberIn(m)'
  <2>1. \A m \in Leg : peer'[m].data = peer[m].data
    BY <1>2
  <2> QED BY <1>1, <2>1, NumberInKept DEF NumberInv
<1>11. \A m \in Leg : m # l => NumberOut(m)' /\ NumberGot(m)'
  BY <1>1, <1>2, NumberOutKept DEF NumberInv, NumberGot
<1> QED BY <1>8, <1>9, <1>10, <1>11 DEF NumberInv

\* Every step keeps the numbering.
LEMMA NumberKept == IInv /\ [Next]_vars => NumberInv'
<1> SUFFICES ASSUME IInv, [Next]_vars PROVE NumberInv'
  OBVIOUS
<1> USE DEF IInv
<1>1. ASSUME UNCHANGED <<conn, peer>>, \A m \in Leg : Gone(m) => Gone(m)',
             \A m \in Leg : ~Gone(m)' => Pending(m)' = Pending(m),
             UNCHANGED fromProxy, pc' # "closed" => pc # "closed"
      PROVE  NumberInv'
  <2>1. \A m \in Leg : NumberIn(m)'
    BY <1>1 DEF NumberInv, NumberIn
  <2>2. \A m \in Leg : NumberOut(m)' /\ NumberGot(m)'
    BY <1>1, NumberOutKept DEF NumberInv, NumberGot
  <2> QED BY <2>1, <2>2 DEF NumberInv
<1>2. ASSUME NEW l \in Leg, Consume(l), Handling(l), ~IsData(AtFront(l)), fromProxy' = fromProxy,
             \A m \in Leg : conn'[m].seq = conn[m].seq
      PROVE  NumberInv'
  <2>1. (\A m \in Leg : NumberIn(m)' /\ NumberGot(m)') /\ pc # "closed" /\ pc' # "closed"
    BY <1>2, OtherLeg, NumberTaken
  <2>2. \A m \in Leg : NumberOut(m)'
    BY <1>2, <2>1, ConsumeFrame, NumberOutKept DEF NumberInv
  <2> QED BY <2>1, <2>2 DEF NumberInv
<1>3. ASSUME NEW l \in Leg, Consume(l), Handling(l), ~IsData(AtFront(l)),
             \A m \in Leg : conn'[m].seq = conn[m].seq,
             NEW to \in Leg, NEW p \in Wire, ~IsData(p), Write(to, p)
      PROVE  NumberInv'
  <2>1. (\A m \in Leg : NumberIn(m)' /\ NumberGot(m)') /\ pc # "closed" /\ pc' # "closed"
    BY <1>3, OtherLeg, NumberTaken
  <2>2. NumberOut(to)'
    <3>1. conn[to].seq \in 1 .. MaxData + 1
      BY RecordsTyped DEF ConnState
    <3>2. conn[to].seq - 1 \in Number
      BY <3>1, SessionAssumption DEF Number
    <3>3. <<conn[to].seq - 1, p, conn'[to].seq - 1>> \in NumberStep
      BY <1>3, <3>2, NumberSame
    <3> QED BY <1>3, <2>1, <3>1, <3>3, ConsumeFrame, NumberWritten
  <2>3. \A m \in Leg : m # to => NumberOut(m)'
    BY <1>3, <2>1, ConsumeFrame, WriteEffect, NumberOutKept DEF NumberInv
  <2> QED BY <2>1, <2>2, <2>3 DEF NumberInv
<1>4. CASE Quiet
  BY <1>1, <1>4 DEF Quiet
<1>5. ASSUME NEW l \in Leg, NEW why \in {"peer", "noreply", "baddata"}, GivesUp(l, why) PROVE NumberInv'
  <2>1. \A m \in Leg : ~Gone(m)' => Pending(m)' = Pending(m)
    BY <1>5 DEF GivesUp
  <2> QED BY <1>1, <1>5, <2>1 DEF GivesUp
<1>6. CASE RemoteKey
  <2> DEFINE k == AtFront("remote").key
  <2>1. /\ k \in Keys /\ Handling("remote") /\ Consume("remote") /\ Write("local", Table(k))
        /\ IsKey(AtFront("remote")) /\ \A m \in Leg : conn'[m].seq = conn[m].seq
    BY <1>6, RemoteKeyEffect
  <2>2. Table(k) \in Wire /\ ~IsData(Table(k))
    BY <2>1, TableFacts
  <2>3. "local" \in Leg /\ "remote" \in Leg /\ ~IsData(AtFront("remote"))
    BY <2>1 DEF Leg, IsData, IsKey, Verified
  <2> QED BY <1>3, <2>1, <2>2, <2>3
<1>7. CASE LocalKey
  <2>1. "local" \in Leg /\ ~IsData(AtFront("local")) /\ \A m \in Leg : conn'[m].seq = conn[m].seq
    BY <1>7, LocalKeyEffect DEF Leg, IsData, IsKey, Verified
  <2> QED BY <1>2, <1>7, <2>1, LocalKeyEffect
<1>8. CASE Close
  <2>1. /\ UNCHANGED <<conn, peer>> /\ pc' = "closed" /\ pc = "close" /\ cause' = cause
        /\ \A m \in Leg : Pending(m)' = Pending(m)
    BY <1>8, CloseEffect
  <2>2. \A m \in Leg : NumberIn(m)'
    BY <2>1, NumberInKept DEF NumberInv, Gone
  <2>3. ASSUME NEW m \in Leg PROVE NumberOut(m)'
    <3>1. SUFFICES ASSUME peer[m].open
                   PROVE  \E n \in Number : Leads(Number, NumberStep, fromProxy'[m], Len(peer[m].got), n)
      BY <2>1 DEF NumberOut
    <3>2. PICK n \in Number : Leads(Number, NumberStep, fromProxy[m], Len(peer[m].got), n)
      BY <3>1 DEF NumberInv, NumberOut
    <3>3. PICK i \in 0 .. Len(fromProxy[m]) : fromProxy'[m] = SubSeq(fromProxy[m], 1, i)
      BY <1>8, CloseEffect
    <3> QED BY <3>2, <3>3, PendingTyped, LeadsPrefix
  <2>4. \A m \in Leg : NumberGot(m)'
    BY <2>1 DEF NumberInv, NumberGot
  <2> QED BY <2>2, <2>3, <2>4 DEF NumberInv
<1>9. ASSUME NEW l \in Leg, Drop(l) PROVE NumberInv'
  BY <1>2, <1>9, DropEffect, DroppedIsPlain
<1>10. ASSUME NEW l \in Leg, Forward(l) PROVE NumberInv'
  <2> DEFINE to == Other(l)
             p == Sealed(conn[to].key, conn[to].seq, AtFront(l).body)
  <2>1. /\ Handling(l) /\ Consume(l) /\ IsData(AtFront(l)) /\ Write(to, p) /\ p \in Wire
        /\ conn'[l] = conn[l] /\ conn'[to].seq = conn[to].seq + 1 /\ conn[to].seq \in 1 .. MaxData
    BY <1>10, ForwardEffect
  <2>2. IsData(p) /\ p.body = conn[to].seq
    BY <2>1, ForwardedPacket
  <2>3. to \in Leg /\ to # l /\ \A m \in Leg : m # l => m = to
    BY OtherLeg
  <2>4. (\A m \in Leg : NumberIn(m)' /\ NumberGot(m)') /\ pc # "closed" /\ pc' # "closed"
    BY <2>1, NumberTaken
  <2> HIDE DEF p, to
  <2>5. NumberOut(to)'
    <3>1. conn'[to].seq \in 1 .. MaxData + 1 /\ conn'[to].seq - 1 = conn[to].seq
      BY <2>1, SessionAssumption
    <3>2. conn[to].seq - 1 \in Number /\ conn[to].seq \in Number /\ conn[to].seq = (conn[to].seq - 1) + 1
      BY <2>1, SessionAssumption DEF Number
    <3>3. <<conn[to].seq - 1, p, conn[to].seq>> \in NumberStep
      BY <2>1, <2>2, <3>2 DEF NumberStep
    <3>4. <<conn[to].seq - 1, p, conn'[to].seq - 1>> \in NumberStep
      BY <3>1, <3>3
    <3> QED BY <2>1, <2>3, <2>4, <3>1, <3>4, ConsumeFrame, NumberWritten
  <2>6. NumberOut(l)'
    BY <2>1, <2>3, <2>4, ConsumeFrame, WriteEffect, NumberOutKept DEF NumberInv
  <2> QED BY <2>3, <2>4, <2>5, <2>6 DEF NumberInv
<1>11. ASSUME NEW l \in Leg, Replies(l) PROVE NumberInv'
  <2>1. LET p == Control({"ALIVE_REPLY"}) IN p \in Wire /\ ~IsData(p)
    BY ControlFacts
  <2>2. ~IsData(AtFront(l)) /\ conn' = conn
    BY <1>11 DEF Replies, IsData, IsKeepalive
  <2> QED BY <1>3, <1>11, <2>1, <2>2 DEF Replies
<1>12. ASSUME NEW l \in Leg, BrokenPipe(l) PROVE NumberInv'
  <2>1. pc # "closed"
    BY <1>12, BrokenPipeEffect DEF Handling, Leg
  <2> QED BY <1>1, <1>12, <2>1, BrokenPipeEffect
<1>13. ASSUME NEW l \in Leg, Peer(l) PROVE NumberInv'
  <2>1. ASSUME NEW k \in Keys, PeerSendsKey(l, k) PROVE NumberInv'
    BY <2>1, PeerSendsKeyEffect, TableFacts, RecordsTyped, NumberSent DEF PeerState
  <2>2. CASE PeerSendsData(l)
    <3> DEFINE n == peer[l].data + 1
               p == Sealed(peer[l].key, n, n)
    <3>1. /\ n \in 1 .. MaxData /\ peer[l].key \in Keys /\ Send(l, p) /\ p \in Wire
          /\ \A m \in Leg : m # l => peer'[m] = peer[m]
          /\ peer'[l].data = n /\ peer'[l].open = peer[l].open /\ peer'[l].got = peer[l].got
      BY <2>2, PeerSendsDataEffect
    <3>2. IsData(p) /\ p.body = n
      BY <3>1, SealedFacts DEF KeyState
    <3>3. n \in Nat /\ n <= MaxData
      BY <3>1, SessionAssumption
    <3> HIDE DEF p
    <3> QED BY <3>1, <3>2, <3>3, NumberSent
  <2>3. CASE PeerSendsAlive(l)
    BY <2>3, PeerSendsAliveEffect, ControlFacts, RecordsTyped, NumberSent DEF PeerState
  <2>4. CASE PeerSendsPlain(l)
    BY <2>4, PeerSendsPlainEffect, ControlFacts, RecordsTyped, NumberSent DEF PeerState
  <2>5. CASE PeerReads(l)
    BY <2>5, NumberRead
  <2>6. CASE PeerCloses(l)
    <3>1. /\ UNCHANGED <<conn, pc>> /\ \A m \in Leg : (Gone(m) <=> Gone(m)') /\ Pending(m)' = Pending(m)
      BY <2>6, ReadFrame
    <3>2. /\ \A m \in Leg : m # l => peer'[m] = peer[m] /\ fromProxy'[m] = fromProxy[m]
          /\ peer'[l].open = FALSE /\ peer'[l].data = peer[l].data /\ peer'[l].got = peer[l].got
      BY <2>6, PeerClosesEffect
    <3>3. \A m \in Leg : NumberIn(m)'
      BY <3>1, <3>2, NumberInKept DEF NumberInv
    <3>4. \A m \in Leg : NumberOut(m)'
      BY <3>1, <3>2, NumberOutKept DEF NumberInv, NumberOut
    <3>5. \A m \in Leg : NumberGot(m)'
      BY <3>2 DEF NumberInv, NumberGot
    <3> QED BY <3>3, <3>4, <3>5 DEF NumberInv
  <2> QED BY <1>13, <2>1, <2>2, <2>3, <2>4, <2>5, <2>6 DEF Peer
<1> QED BY <1>4, <1>5, <1>6, <1>7, <1>8, <1>9, <1>10, <1>11, <1>12, <1>13, StepShapes

-----------------------------------------------------------------------------
(* Keys.                                                                   *)

\* Only a KEY packet changes the reader's key.
LEMMA KeyStepFacts ==
    ASSUME NEW a \in KeyState, NEW p \in Wire
    PROVE  /\ IsKey(p) /\ ~IsData(p) /\ p.key \in Keys => <<a, p, p.key>> \in KeyStep
           /\ ~IsKey(p) /\ (IsData(p) => a \in p.accepts) => <<a, p, a>> \in KeyStep
           /\ \A c : <<a, p, c>> \in KeyStep =>
                 /\ c = IF IsKey(p) THEN p.key ELSE a
                 /\ IsData(p) => c \in p.accepts
BY DEF KeyStep, KeyState

\* Reading a KEY packet, a reader takes its key.
LEMMA TableStep ==
    ASSUME NEW k \in Keys, NEW a \in KeyState
    PROVE  <<a, Table(k), k>> \in KeyStep
<1>1. Table(k) \in Wire /\ IsKey(Table(k)) /\ ~IsData(Table(k)) /\ Table(k).key = k
  BY TableFacts
<1>2. k \in KeyState
  BY DEF KeyState
<1> QED BY <1>1, <1>2 DEF KeyStep

\* The remote leg consumes a packet it can read.
LEMMA KeyTaken ==
    ASSUME TypeOK, LoopInv, KeyInv, NEW l \in Leg, Handling(l), Consume(l),
           conn'["remote"].key = IF l = "remote" /\ IsKey(AtFront(l)) THEN AtFront(l).key
                                 ELSE conn["remote"].key
    PROVE  ServerKeys'
<1>1. Pending(l)' = Tail(Pending(l)) /\ \A m \in Leg : m # l => Pending(m)' = Pending(m)
  BY ConsumeEffect
<1>2. peer' = peer /\ \A m \in Leg : Gone(m) <=> Gone(m)'
  BY ConsumeFrame
<1>3. CASE l = "local"
  BY <1>1, <1>2, <1>3 DEF KeyInv, ServerKeys, Leg
<1>4. CASE l = "remote"
  <2>1. Leads(KeyState, KeyStep, Pending(l), conn[l].key, peer[l].key)
    BY <1>4, HandlingIsNotGone DEF KeyInv, ServerKeys
  <2>2. Pending(l) \in Seq(Wire) /\ Pending(l) # <<>> /\ Head(Pending(l)) = AtFront(l) /\ AtFront(l) \in Wire
    BY PendingTyped, FrontFacts
  <2>3. PICK c \in KeyState : /\ <<conn[l].key, AtFront(l), c>> \in KeyStep
                              /\ Leads(KeyState, KeyStep, Tail(Pending(l)), c, peer[l].key)
    BY <2>1, <2>2, LeadsTail
  <2>4. c = conn'[l].key
    BY <1>4, <2>3 DEF KeyStep
  <2> QED BY <1>1, <1>2, <1>4, <2>3, <2>4 DEF ServerKeys
<1> QED BY <1>3, <1>4 DEF Leg

\* The server sends only what a reader of its stream can read.
LEMMA KeySent ==
    ASSUME TypeOK, KeyInv, NEW l \in Leg, NEW p \in Wire, Send(l, p), WellFormed(p),
           \A m \in Leg : m # l => peer'[m] = peer[m],
           peer'[l].key = IF l = "remote" /\ IsKey(p) THEN p.key ELSE peer[l].key,
           IsData(p) => p.key = peer[l].key /\ p.key \in Keys
    PROVE  KeyInv'
<1>1. /\ Pending(l)' = Append(Pending(l), p) /\ Pending(l) \in Seq(Wire)
      /\ Range(Pending(l)') = Range(Pending(l)) \cup {p}
      /\ \A m \in Leg : m # l => Pending(m)' = Pending(m)
  BY SendEffect, PendingTyped
<1>2. UNCHANGED <<conn, fromProxy, pc>> /\ \A m \in Leg : Gone(m) <=> Gone(m)'
  BY SendFrame
<1>3. IsKey(p) => ~IsData(p) /\ p.key \in Keys
  BY DEF WellFormed, IsData, IsKey, Verified
<1>4. IsData(p) => p.accepts = {p.key}
  BY DEF WellFormed
<1>5. ServerKeys'
  <2>1. CASE l = "local"
    BY <1>1, <1>2, <2>1 DEF KeyInv, ServerKeys, Leg
  <2>2. CASE l = "remote"
    <3>1. SUFFICES ASSUME ~Gone(l)
                   PROVE  Leads(KeyState, KeyStep, Append(Pending(l), p), conn[l].key, peer'[l].key)
      BY <1>1, <1>2, <2>2 DEF ServerKeys
    <3>2. Leads(KeyState, KeyStep, Pending(l), conn[l].key, peer[l].key)
      BY <2>2, <3>1 DEF KeyInv, ServerKeys
    <3>3. peer[l].key \in KeyState
      BY RecordsTyped DEF PeerState, KeyState
    <3>4. peer'[l].key \in KeyState /\ <<peer[l].key, p, peer'[l].key>> \in KeyStep
      BY <1>3, <1>4, <2>2, <3>3 DEF KeyStep, KeyState
    <3> QED BY <1>1, <3>2, <3>4, LeadsAppend
  <2> QED BY <2>1, <2>2 DEF Leg
<1>6. BeforeKey'
  <2>1. SUFFICES ASSUME ~conn["local"].haveKey PROVE BeforeKey'
    BY <1>2 DEF BeforeKey
  <2>2. peer["local"].key = NoKey /\ NoKey \notin Keys
    BY <2>1, KeyAssumption DEF KeyInv, BeforeKey
  <2>3. l = "local" => ~IsData(p)
    BY <2>2
  <2>4. peer'["local"].key = NoKey
    BY <2>2 DEF Leg
  <2>5. \A q \in Range(Pending("local")') : ~IsData(q)
    BY <1>1, <2>1, <2>3 DEF KeyInv, BeforeKey, Leg
  <2> QED BY <1>2, <2>1, <2>4, <2>5 DEF KeyInv, BeforeKey
<1>7. \A m \in Leg : HasKey(m)'
  BY <1>2 DEF KeyInv, HasKey
<1> QED BY <1>5, <1>6, <1>7 DEF KeyInv

\* Every step keeps what is known of the server's keys.
LEMMA KeyKept == IInv /\ [Next]_vars => KeyInv'
<1> SUFFICES ASSUME IInv, [Next]_vars PROVE KeyInv'
  OBVIOUS
<1> USE DEF IInv
<1>0. "local" \in Leg /\ "remote" \in Leg /\ "local" # "remote"
  BY DEF Leg
<1>1. ASSUME UNCHANGED <<conn, peer>>, \A m \in Leg : Gone(m) => Gone(m)',
             \A m \in Leg : ~Gone(m)' => Pending(m)' = Pending(m),
             \A m \in Leg : Range(Pending(m)') \subseteq Range(Pending(m)),
             \A m \in Leg : Range(fromProxy'[m]) \subseteq Range(fromProxy[m])
      PROVE  KeyInv'
  BY <1>0, <1>1 DEF KeyInv, HasKey, ServerKeys, BeforeKey
<1>2. ASSUME NEW l \in Leg, Consume(l), Handling(l), ~IsKey(AtFront(l)),
             \A m \in Leg : conn'[m].haveKey = conn[m].haveKey /\ conn'[m].key = conn[m].key,
             \A m \in Leg : \A p \in Range(fromProxy'[m]) : p \in Range(fromProxy[m]) \/ ~IsKey(p)
      PROVE  KeyInv'
  <2>1. ServerKeys'
    BY <1>0, <1>2, KeyTaken
  <2>2. BeforeKey'
    BY <1>0, <1>2, ConsumeEffect, ConsumeFrame DEF KeyInv, BeforeKey
  <2>3. \A m \in Leg : HasKey(m)'
    BY <1>2 DEF KeyInv, HasKey
  <2> QED BY <2>1, <2>2, <2>3 DEF KeyInv
<1>3. ASSUME NEW l \in Leg, Consume(l), Handling(l), ~IsKey(AtFront(l)),
             \A m \in Leg : conn'[m].haveKey = conn[m].haveKey /\ conn'[m].key = conn[m].key,
             NEW to \in Leg, NEW p \in Wire, ~IsKey(p), Write(to, p)
      PROVE  KeyInv'
  <2>1. \A m \in Leg : \A q \in Range(fromProxy'[m]) : q \in Range(fromProxy[m]) \/ ~IsKey(q)
    BY <1>3, WriteEffect
  <2> QED BY <1>2, <1>3, <2>1
<1>4. CASE Quiet
  BY <1>1, <1>4 DEF Quiet
<1>5. ASSUME NEW l \in Leg, NEW why \in {"peer", "noreply", "baddata"}, GivesUp(l, why) PROVE KeyInv'
  <2>1. \A m \in Leg : ~Gone(m)' => Pending(m)' = Pending(m)
    BY <1>5 DEF GivesUp
  <2> QED BY <1>1, <1>5, <2>1 DEF GivesUp
<1>6. CASE RemoteKey
  <2> DEFINE k == AtFront("remote").key
  <2>1. /\ k \in Keys /\ Handling("remote") /\ Consume("remote") /\ IsKey(AtFront("remote"))
        /\ \A m \in Leg : conn'[m].haveKey = TRUE /\ conn'[m].key = k
    BY <1>6, RemoteKeyEffect
  <2>2. ServerKeys'
    BY <1>0, <2>1, KeyTaken
  <2> QED BY <1>0, <2>1, <2>2 DEF KeyInv, HasKey, BeforeKey
<1>7. CASE LocalKey
  <2> DEFINE k == AtFront("local").key
  <2>1. /\ k \in Keys /\ Handling("local") /\ Consume("local")
        /\ conn'["local"].haveKey = TRUE /\ conn'["local"].key = k /\ conn'["remote"] = conn["remote"]
    BY <1>7, LocalKeyEffect
  <2>2. ServerKeys'
    BY <1>0, <2>1, KeyTaken
  <2>3. HasKey("local")' /\ HasKey("remote")'
    BY <1>0, <2>1 DEF KeyInv, HasKey
  <2> QED BY <1>0, <2>1, <2>2, <2>3 DEF KeyInv, BeforeKey, Leg
<1>8. CASE Close
  BY <1>1, <1>8, CloseEffect DEF Gone
<1>9. ASSUME NEW l \in Leg, Drop(l) PROVE KeyInv'
  BY <1>2, <1>9, DropEffect
<1>10. ASSUME NEW l \in Leg, Forward(l) PROVE KeyInv'
  <2> DEFINE to == Other(l)
             p == Sealed(conn[to].key, conn[to].seq, AtFront(l).body)
  <2>1. /\ Handling(l) /\ Consume(l) /\ IsData(AtFront(l)) /\ Write(to, p) /\ p \in Wire
        /\ conn'[l] = conn[l] /\ conn'[to].haveKey = conn[to].haveKey /\ conn'[to].key = conn[to].key
    BY <1>10, ForwardEffect
  <2>2. ~IsKey(p) /\ ~IsKey(AtFront(l))
    BY <2>1, ForwardedPacket DEF IsData, IsKey, Verified
  <2>3. to \in Leg /\ \A m \in Leg : m # l => m = to
    BY OtherLeg
  <2> HIDE DEF p, to
  <2> QED BY <1>3, <2>1, <2>2, <2>3
<1>11. ASSUME NEW l \in Leg, Replies(l) PROVE KeyInv'
  <2>1. LET p == Control({"ALIVE_REPLY"}) IN p \in Wire /\ ~IsKey(p)
    BY ControlFacts
  <2>2. ~IsKey(AtFront(l))
    BY <1>11 DEF Replies, IsKeepalive, IsKey, Verified
  <2> QED BY <1>3, <1>11, <2>1, <2>2 DEF Replies
<1>12. ASSUME NEW l \in Leg, BrokenPipe(l) PROVE KeyInv'
  BY <1>1, <1>12, BrokenPipeEffect
<1>13. ASSUME NEW l \in Leg, Peer(l) PROVE KeyInv'
  <2>1. ASSUME NEW k \in Keys, PeerSendsKey(l, k) PROVE KeyInv'
    BY <2>1, PeerSendsKeyEffect, TableFacts, KeySent
  <2>2. CASE PeerSendsData(l)
    <3> DEFINE n == peer[l].data + 1
               p == Sealed(peer[l].key, n, n)
    <3>1. /\ n \in 1 .. MaxData /\ peer[l].key \in Keys /\ Send(l, p) /\ p \in Wire
          /\ \A m \in Leg : m # l => peer'[m] = peer[m]
          /\ peer'[l].key = peer[l].key
      BY <2>2, PeerSendsDataEffect
    <3>2. IsData(p) /\ ~IsKey(p) /\ p.key = peer[l].key /\ WellFormed(p)
      BY <3>1, SealedFacts DEF KeyState
    <3> HIDE DEF p
    <3> QED BY <3>1, <3>2, KeySent
  <2>3. CASE PeerSendsAlive(l)
    BY <2>3, PeerSendsAliveEffect, ControlFacts, KeySent
  <2>4. CASE PeerSendsPlain(l)
    BY <2>4, PeerSendsPlainEffect, ControlFacts, KeySent
  <2>5. ASSUME PeerReads(l) \/ PeerCloses(l),
               Range(fromProxy'[l]) \subseteq Range(fromProxy[l]),
               \A m \in Leg : m # l => peer'[m] = peer[m] /\ fromProxy'[m] = fromProxy[m],
               l = "remote" \/ ~conn["local"].haveKey => peer'[l].key = peer[l].key
        PROVE  KeyInv'
    <3>1. conn' = conn /\ \A m \in Leg : (Gone(m) <=> Gone(m)') /\ Pending(m)' = Pending(m)
      BY <2>5, ReadFrame
    <3>2. peer'["remote"].key = peer["remote"].key
      BY <1>0, <2>5
    <3>3. ~conn["local"].haveKey => peer'["local"].key = peer["local"].key
      BY <1>0, <2>5
    <3>4. Range(fromProxy'["local"]) \subseteq Range(fromProxy["local"])
      BY <1>0, <2>5
    <3> QED BY <1>0, <3>1, <3>2, <3>3, <3>4 DEF KeyInv, HasKey, ServerKeys, BeforeKey
  <2>6. CASE PeerReads(l)
    <3> DEFINE p == Head(fromProxy[l])
    <3>1. /\ p \in Range(fromProxy[l]) /\ Range(fromProxy'[l]) \subseteq Range(fromProxy[l])
          /\ \A m \in Leg : m # l => peer'[m] = peer[m] /\ fromProxy'[m] = fromProxy[m]
          /\ peer'[l].key = IF IsKey(p) THEN p.key ELSE peer[l].key
      BY <2>6, PeerReadsEffect
    <3>2. l = "remote" => ~IsKey(p)
      BY <3>1 DEF WireInv
    <3>3. l = "local" /\ ~conn["local"].haveKey => ~IsKey(p)
      BY <3>1 DEF KeyInv, BeforeKey
    <3> QED BY <2>5, <2>6, <3>1, <3>2, <3>3 DEF Leg
  <2>7. CASE PeerCloses(l)
    <3>1. Range(<<>>) \subseteq {}
      BY DEF Range
    <3> QED BY <2>5, <2>7, <3>1, PeerClosesEffect
  <2> QED BY <1>13, <2>1, <2>2, <2>3, <2>4, <2>6, <2>7 DEF Peer
<1> QED BY <1>4, <1>5, <1>6, <1>7, <1>8, <1>9, <1>10, <1>11, <1>12, <1>13, StepShapes

\* What the server has sealed can always be read on the remote leg.
LEMMA BadChecksumIsLocal ==
    ASSUME TypeOK, LoopInv, KeyInv, NEW l \in Leg, Handling(l), IsData(AtFront(l)),
           conn[l].key \notin AtFront(l).accepts
    PROVE  l = "local"
<1> SUFFICES ASSUME l = "remote" PROVE FALSE
  BY DEF Leg
<1>1. Leads(KeyState, KeyStep, Pending(l), conn[l].key, peer[l].key)
  BY HandlingIsNotGone DEF KeyInv, ServerKeys
<1>2. Pending(l) \in Seq(Wire) /\ Pending(l) # <<>> /\ Head(Pending(l)) = AtFront(l)
  BY PendingTyped, FrontFacts
<1>3. PICK c \in KeyState : <<conn[l].key, AtFront(l), c>> \in KeyStep
  BY <1>1, <1>2, LeadsTail
<1>4. ~IsKey(AtFront(l))
  BY DEF IsData, IsKey, Verified
<1> QED BY <1>3, <1>4 DEF KeyStep

-----------------------------------------------------------------------------
(* What the peers read.                                                    *)

\* Keys are only ever added.
LEMMA KeysGrow ==
    ASSUME TypeOK, WireInv, LoopInv, [Next]_vars, NEW l \in Leg
    PROVE  Len(peer[l].keys) \in Nat /\ Len(peer'[l].keys) >= Len(peer[l].keys)
<1>1. \A m \in Leg : Len(peer[m].keys) \in Nat
  BY RecordsTyped DEF PeerState
<1>2. CASE peer' = peer
  BY <1>1, <1>2
<1>3. ASSUME NEW m \in Leg, Peer(m)
      PROVE  peer'[l] = peer[l] \/ peer'[l].keys = peer[l].keys \/ Len(peer'[l].keys) = Len(peer[l].keys) + 1
  BY <1>3, PeerSendsKeyEffect, PeerSendsDataEffect, PeerSendsAliveEffect, PeerSendsPlainEffect,
     PeerReadsEffect, PeerClosesEffect DEF Peer
<1>4. peer' = peer \/ \E m \in Leg : Peer(m)
  BY StepShapes, RemoteKeyEffect, LocalKeyEffect, CloseEffect, DropEffect, BrokenPipeEffect, ConsumeFrame
     DEF Quiet, GivesUp, Replies, Forward, Leg
<1> QED BY <1>1, <1>2, <1>3, <1>4

\* A data packet that the peer can read continues its sequence.
LEMMA ReadInSequence ==
    ASSUME TypeOK, WireInv, NEW l \in Leg, PeerReads(l), InSequence(l), NumberGot(l)',
           IsData(Head(fromProxy[l])) => peer[l].key \in Head(fromProxy[l]).accepts
    PROVE  InSequence(l)'
<1> DEFINE p == Head(fromProxy[l])
<1>1. /\ WellFormed(p) /\ peer[l].got \in Seq([body : Nat, seq : Nat])
      /\ Seen(l) \in [body : Nat, seq : Nat]
      /\ peer'[l].got = IF IsData(p) THEN Append(peer[l].got, Seen(l)) ELSE peer[l].got
  BY PeerReadsEffect
<1>2. CASE ~IsData(p)
  BY <1>1, <1>2 DEF InSequence
<1>3. CASE IsData(p)
  <2>1. peer'[l].got = Append(peer[l].got, Seen(l))
    BY <1>1, <1>3
  <2>2. /\ Len(peer[l].got) \in Nat /\ DOMAIN peer[l].got = 1 .. Len(peer[l].got)
        /\ Len(peer'[l].got) = Len(peer[l].got) + 1
        /\ DOMAIN peer'[l].got = 1 .. Len(peer[l].got) + 1
        /\ peer'[l].got[Len(peer[l].got) + 1] = Seen(l)
        /\ \A i \in 1 .. Len(peer[l].got) : peer'[l].got[i] = peer[l].got[i]
    <3>1. \A s \in Seq([body : Nat, seq : Nat]), e \in [body : Nat, seq : Nat] :
             /\ Len(s) \in Nat /\ DOMAIN s = 1 .. Len(s) /\ Append(s, e) \in Seq([body : Nat, seq : Nat])
             /\ Len(Append(s, e)) = Len(s) + 1 /\ Append(s, e)[Len(s) + 1] = e
             /\ \A i \in 1 .. Len(s) : Append(s, e)[i] = s[i]
      BY AppendProperties, LenProperties
    <3>2. DOMAIN Append(peer[l].got, Seen(l)) = 1 .. Len(Append(peer[l].got, Seen(l)))
      BY <1>1, <3>1
    <3> QED BY <1>1, <2>1, <3>1, <3>2
  <2>3. Seen(l) = [body |-> p.seq, seq |-> p.seq]
    BY <1>1, <1>3 DEF Seen, WellFormed
  <2>4. p.seq = Len(peer[l].got) + 1
    <3>1. Len(peer[l].got) + 1 \in 1 .. Len(peer'[l].got)
      BY <2>2
    <3>2. Seen(l).seq = Len(peer[l].got) + 1
      BY <2>2, <3>1 DEF NumberGot
    <3>3. Seen(l).seq = p.seq
      BY <2>3
    <3> QED BY <3>2, <3>3
  <2> HIDE DEF p
  <2>5. ASSUME NEW i \in DOMAIN peer'[l].got PROVE peer'[l].got[i] = [body |-> i, seq |-> i]
    <3>1. CASE i = Len(peer[l].got) + 1
      BY <2>2, <2>3, <2>4, <3>1
    <3>2. CASE i # Len(peer[l].got) + 1
      <4>1. i \in 1 .. Len(peer[l].got)
        BY <2>2, <3>2
      <4> QED BY <2>2, <4>1 DEF InSequence
    <3> QED BY <3>1, <3>2
  <2> QED BY <2>5 DEF InSequence
<1> QED BY <1>2, <1>3

\* What is written to the client is a KEY packet, or is sealed with its key.
LEMMA ClientWritten ==
    ASSUME TypeOK, ClientReads, pc # "closed", pc' # "closed", peer' = peer, NEW p \in Wire, Write("local", p),
           conn'["local"].key \in KeyState,
           <<conn["local"].key, p, conn'["local"].key>> \in KeyStep
    PROVE  ClientReads'
<1>0. "local" \in Leg
  BY DEF Leg
<1>1. SUFFICES ASSUME peer["local"].open
               PROVE  Leads(KeyState, KeyStep, fromProxy'["local"], peer["local"].key, conn'["local"].key)
  BY DEF ClientReads
<1>2. Leads(KeyState, KeyStep, fromProxy["local"], peer["local"].key, conn["local"].key)
  BY <1>1 DEF ClientReads
<1>3. fromProxy'["local"] = Append(fromProxy["local"], p) /\ fromProxy["local"] \in Seq(Wire)
  BY <1>0, <1>1, WriteEffect, PendingTyped
<1>4. Leads(KeyState, KeyStep, Append(fromProxy["local"], p), peer["local"].key, conn'["local"].key)
  BY <1>2, <1>3, LeadsAppend
<1> QED BY <1>3, <1>4

\* Every step keeps what the client can read, until it sends a key.
LEMMA ClientKept == IInv /\ [Next]_vars => ClientInv'
<1> SUFFICES ASSUME IInv, [Next]_vars, Len(peer'["local"].keys) = 0 PROVE ClientInv'
  BY DEF ClientInv
<1> USE DEF IInv
<1>a. "local" \in Leg /\ "remote" \in Leg /\ "local" # "remote"
  BY DEF Leg
<1>b. Len(peer["local"].keys) = 0
  BY <1>a, KeysGrow
<1>c. /\ \A p \in Range(Pending("local")) : ~IsKey(p)
      /\ conn["local"].key = conn["remote"].key
      /\ ClientReads
      /\ ClientSeesServerStream
  BY <1>b DEF ClientInv
<1>1. ASSUME UNCHANGED <<conn, peer, fromProxy>>, pc' # "closed" => pc # "closed",
             \A m \in Leg : Range(Pending(m)') \subseteq Range(Pending(m))
      PROVE  ClientInv'
  BY <1>a, <1>c, <1>1 DEF ClientInv, ClientReads, ClientSeesServerStream, InSequence
<1>2. ASSUME NEW l \in Leg, Consume(l), Handling(l),
             \A m \in Leg : conn'[m].key = conn[m].key,
             \/ fromProxy' = fromProxy
             \/ \E to \in Leg, p \in Wire :
                   Write(to, p) /\ ~IsKey(p) /\ (IsData(p) => p.accepts = {conn[to].key})
      PROVE  ClientInv'
  <2>1. pc # "closed" /\ pc' # "closed" /\ peer' = peer
    BY <1>2, ConsumeFrame DEF Handling, Leg
  <2>2. CASE fromProxy' = fromProxy
    BY <1>a, <1>c, <1>2, <2>1, <2>2, ConsumeEffect
       DEF ClientInv, ClientReads, ClientSeesServerStream, InSequence
  <2>3. ASSUME NEW to \in Leg, NEW p \in Wire,
               Write(to, p), ~IsKey(p), IsData(p) => p.accepts = {conn[to].key}
        PROVE  ClientReads'
    <3>1. CASE to = "local"
      <4>1. conn["local"].key \in KeyState
        BY <1>a, RecordsTyped DEF ConnState, KeyState
      <4>2. <<conn["local"].key, p, conn'["local"].key>> \in KeyStep
        BY <1>a, <1>2, <2>3, <3>1, <4>1, KeyStepFacts
      <4> QED BY <1>a, <1>c, <1>2, <2>1, <2>3, <3>1, <4>1, <4>2, ClientWritten
    <3>2. CASE to # "local"
      <4>1. fromProxy'["local"] = fromProxy["local"]
        BY <1>a, <2>3, <3>2, WriteEffect
      <4> QED BY <1>a, <1>c, <1>2, <2>1, <4>1 DEF ClientReads
    <3> QED BY <3>1, <3>2
  <2>4. \A p \in Range(Pending("local")') : ~IsKey(p)
    BY <1>a, <1>c, <1>2, ConsumeEffect
  <2> QED BY <1>a, <1>c, <1>2, <2>1, <2>2, <2>3, <2>4 DEF ClientInv, ClientSeesServerStream, InSequence
<1>4. CASE Quiet
  BY <1>1, <1>4 DEF Quiet
<1>5. ASSUME NEW l \in Leg, NEW why \in {"peer", "noreply", "baddata"}, GivesUp(l, why) PROVE ClientInv'
  BY <1>1, <1>5 DEF GivesUp
<1>6. CASE RemoteKey
  <2> DEFINE k == AtFront("remote").key
  <2>1. /\ k \in Keys /\ Handling("remote") /\ Consume("remote") /\ Write("local", Table(k))
        /\ \A m \in Leg : conn'[m].key = k
    BY <1>6, RemoteKeyEffect
  <2>2. Table(k) \in Wire /\ IsKey(Table(k)) /\ ~IsData(Table(k)) /\ Table(k).key = k
    BY <2>1, TableFacts
  <2>3. pc # "closed" /\ pc' # "closed" /\ peer' = peer
    BY <1>a, <2>1, ConsumeFrame DEF Handling
  <2>4. conn["local"].key \in KeyState /\ k \in KeyState
    BY <1>a, <2>1, RecordsTyped DEF ConnState, KeyState
  <2> HIDE DEF k
  <2>5. <<conn["local"].key, Table(k), conn'["local"].key>> \in KeyStep
    <3>1. <<conn["local"].key, Table(k), k>> \in KeyStep
      BY <2>1, <2>4, TableStep
    <3>2. conn'["local"].key = k
      BY <1>a, <2>1
    <3> QED BY <3>1, <3>2
  <2>6. ClientReads'
    BY <1>a, <1>c, <2>1, <2>2, <2>3, <2>4, <2>5, ClientWritten
  <2>7. \A p \in Range(Pending("local")') : ~IsKey(p)
    BY <1>a, <1>c, <2>1, ConsumeEffect
  <2> QED BY <1>a, <1>c, <2>1, <2>3, <2>6, <2>7 DEF ClientInv, ClientSeesServerStream, InSequence
<1>7. CASE LocalKey
  <2>1. Handling("local") /\ IsKey(AtFront("local"))
    BY <1>7, LocalKeyEffect
  <2>2. AtFront("local") \in Range(Pending("local"))
    BY <1>a, <2>1, FrontFacts
  <2> QED BY <1>c, <2>1, <2>2
<1>8. CASE Close
  <2>1. UNCHANGED <<conn, peer>> /\ pc' = "closed" /\ \A l \in Leg : Pending(l)' = Pending(l)
    BY <1>8, CloseEffect
  <2>2. ClientReads'
    <3>1. SUFFICES ASSUME peer["local"].open
                   PROVE  \E k \in KeyState : Leads(KeyState, KeyStep, fromProxy'["local"], peer["local"].key, k)
      BY <2>1 DEF ClientReads
    <3>2. PICK k \in KeyState : Leads(KeyState, KeyStep, fromProxy["local"], peer["local"].key, k)
      BY <1>c, <3>1 DEF ClientReads
    <3>3. PICK i \in 0 .. Len(fromProxy["local"]) : fromProxy'["local"] = SubSeq(fromProxy["local"], 1, i)
      BY <1>a, <1>8, CloseEffect
    <3> QED BY <1>a, <3>2, <3>3, PendingTyped, LeadsPrefix
  <2> QED BY <1>a, <1>c, <2>1, <2>2 DEF ClientInv, ClientSeesServerStream, InSequence
<1>9. ASSUME NEW l \in Leg, Drop(l) PROVE ClientInv'
  BY <1>2, <1>9, DropEffect
<1>10. ASSUME NEW l \in Leg, Forward(l) PROVE ClientInv'
  <2> DEFINE to == Other(l)
             p == Sealed(conn[to].key, conn[to].seq, AtFront(l).body)
  <2>1. /\ Handling(l) /\ Consume(l) /\ IsData(AtFront(l)) /\ Write(to, p) /\ p \in Wire
        /\ conn'[l] = conn[l] /\ conn'[to].key = conn[to].key
    BY <1>10, ForwardEffect
  <2>2. ~IsKey(p) /\ p.accepts = {conn[to].key}
    BY <2>1, ForwardedPacket
  <2>3. to \in Leg /\ \A m \in Leg : m # l => m = to
    BY OtherLeg
  <2> HIDE DEF p, to
  <2> QED BY <1>2, <2>1, <2>2, <2>3
<1>11. ASSUME NEW l \in Leg, Replies(l) PROVE ClientInv'
  <2>1. LET p == Control({"ALIVE_REPLY"}) IN p \in Wire /\ ~IsKey(p) /\ ~IsData(p)
    BY ControlFacts
  <2> QED BY <1>2, <1>11, <2>1 DEF Replies
<1>12. ASSUME NEW l \in Leg, BrokenPipe(l) PROVE ClientInv'
  <2>1. pc # "closed"
    BY <1>12, BrokenPipeEffect DEF Handling, Leg
  <2> QED BY <1>1, <1>12, <2>1, BrokenPipeEffect
<1>13. ASSUME NEW l \in Leg, Peer(l) PROVE ClientInv'
  <2>1. ASSUME NEW p \in Wire, Send(l, p), l = "local" => ~IsKey(p),
               \A m \in Leg : m # l => peer'[m] = peer[m],
               peer'[l].open = peer[l].open, peer'[l].got = peer[l].got,
               l = "local" => peer'[l].key = peer[l].key
        PROVE  ClientInv'
    <3>1. /\ Range(Pending(l)') = Range(Pending(l)) \cup {p}
          /\ \A m \in Leg : m # l => Pending(m)' = Pending(m)
          /\ UNCHANGED <<conn, fromProxy, pc>>
      BY <2>1, SendEffect, SendFrame
    <3>2. \A q \in Range(Pending("local")') : ~IsKey(q)
      BY <1>a, <1>c, <2>1, <3>1
    <3>3. /\ peer'["local"].open = peer["local"].open /\ peer'["local"].got = peer["local"].got
          /\ peer'["local"].key = peer["local"].key
      BY <1>a, <2>1
    <3> QED BY <1>a, <1>c, <3>1, <3>2, <3>3 DEF ClientInv, ClientReads, ClientSeesServerStream, InSequence
  <2>2. ASSUME NEW k \in Keys, PeerSendsKey(l, k) PROVE ClientInv'
    <3>1. l # "local"
      BY <1>a, <1>b, <2>2, PeerSendsKeyEffect
    <3> QED BY <2>1, <2>2, <3>1, PeerSendsKeyEffect
  <2>3. CASE PeerSendsData(l)
    <3> DEFINE n == peer[l].data + 1
               p == Sealed(peer[l].key, n, n)
    <3>1. /\ n \in 1 .. MaxData /\ peer[l].key \in Keys /\ Send(l, p) /\ p \in Wire
          /\ \A m \in Leg : m # l => peer'[m] = peer[m]
          /\ peer'[l].key = peer[l].key /\ peer'[l].open = peer[l].open /\ peer'[l].got = peer[l].got
      BY <2>3, PeerSendsDataEffect
    <3>2. ~IsKey(p)
      BY <3>1, SealedFacts DEF KeyState
    <3> HIDE DEF p
    <3> QED BY <2>1, <3>1, <3>2
  <2>4. CASE PeerSendsAlive(l)
    BY <2>1, <2>4, PeerSendsAliveEffect, ControlFacts
  <2>5. CASE PeerSendsPlain(l)
    BY <2>1, <2>5, PeerSendsPlainEffect, ControlFacts
  <2>6. ASSUME PeerReads(l) \/ PeerCloses(l), l # "local",
               \A m \in Leg : m # l => peer'[m] = peer[m] /\ fromProxy'[m] = fromProxy[m]
        PROVE  ClientInv'
    <3>1. UNCHANGED <<conn, pc>> /\ \A m \in Leg : Pending(m)' = Pending(m)
      BY <2>6, ReadFrame
    <3> QED BY <1>a, <1>c, <2>6, <3>1 DEF ClientInv, ClientReads, ClientSeesServerStream, InSequence
  <2>7. CASE PeerReads(l) /\ l = "local"
    <3> DEFINE p == Head(fromProxy[l])
    <3>1. UNCHANGED <<conn, pc>> /\ \A m \in Leg : Pending(m)' = Pending(m)
      BY <2>7, ReadFrame
    <3>2. /\ peer[l].open /\ fromProxy[l] \in Seq(Wire) /\ fromProxy[l] # <<>> /\ p \in Wire
          /\ peer'[l].key = IF IsKey(p) THEN p.key ELSE peer[l].key
          /\ fromProxy'[l] = Tail(fromProxy[l])
      BY <2>7, PeerReadsEffect
    <3>3. PICK k \in KeyState : /\ Leads(KeyState, KeyStep, fromProxy[l], peer[l].key, k)
                                /\ pc # "closed" => k = conn[l].key
      BY <1>c, <2>7, <3>2 DEF ClientReads
    <3>4. PICK c \in KeyState : /\ <<peer[l].key, p, c>> \in KeyStep
                                /\ Leads(KeyState, KeyStep, Tail(fromProxy[l]), c, k)
      BY <3>2, <3>3, LeadsTail
    <3>5. c = peer'[l].key /\ (IsData(p) => c \in p.accepts)
      BY <3>2, <3>4 DEF KeyStep
    <3>6. ClientReads'
      BY <2>7, <3>1, <3>2, <3>3, <3>4, <3>5 DEF ClientReads
    <3>7. IsData(p) => ~IsKey(p)
      BY DEF IsData, IsKey, Verified
    <3>8. InSequence(l)'
      <4>1. NumberGot(l)'
        BY NumberKept DEF NumberInv
      <4>2. IsData(p) => peer[l].key \in p.accepts
        BY <3>2, <3>5, <3>7
      <4> QED BY <1>c, <2>7, <4>1, <4>2, ReadInSequence DEF ClientSeesServerStream
    <3> QED BY <1>c, <2>7, <3>1, <3>6, <3>8 DEF ClientInv, ClientSeesServerStream
  <2>8. CASE PeerCloses(l) /\ l = "local"
    <3>1. UNCHANGED <<conn, pc>> /\ \A m \in Leg : Pending(m)' = Pending(m)
      BY <2>8, ReadFrame
    <3>2. peer'[l].open = FALSE /\ peer'[l].got = peer[l].got
      BY <2>8, PeerClosesEffect
    <3> QED BY <1>c, <2>8, <3>1, <3>2 DEF ClientInv, ClientReads, ClientSeesServerStream, InSequence
  <2>9. CASE PeerReads(l) /\ l # "local"
    BY <2>6, <2>9, PeerReadsEffect
  <2>10. CASE PeerCloses(l) /\ l # "local"
    BY <2>6, <2>10, PeerClosesEffect
  <2> QED BY <1>13, <2>2, <2>3, <2>4, <2>5, <2>7, <2>8, <2>9, <2>10 DEF Peer
<1> QED BY <1>4, <1>5, <1>6, <1>7, <1>8, <1>9, <1>10, <1>11, <1>12, <1>13, StepShapes

\* Every step keeps that before the first key nothing is sealed.
LEMMA NoKeyKept == IInv /\ [Next]_vars => NoKeyInv'
<1> SUFFICES ASSUME IInv, [Next]_vars, Len(peer'["remote"].keys) = 0 PROVE NoKeyInv'
  BY DEF NoKeyInv
<1> USE DEF IInv
<1>a. "local" \in Leg /\ "remote" \in Leg /\ "local" # "remote"
  BY DEF Leg
<1>b. Len(peer["remote"].keys) = 0
  BY <1>a, KeysGrow
<1>c. /\ \A l \in Leg : /\ peer[l].key = NoKey
                        /\ \A p \in Range(Pending(l)) : ~IsData(p)
                        /\ \A p \in Range(fromProxy[l]) : ~IsKey(p)
      /\ \A p \in Range(Pending("remote")) : ~IsKey(p)
  BY <1>b DEF NoKeyInv
<1>1. ASSUME \A m \in Leg : Range(Pending(m)') \subseteq Range(Pending(m)),
             \A m \in Leg : \A p \in Range(fromProxy'[m]) : p \in Range(fromProxy[m]) \/ ~IsKey(p),
             \A m \in Leg : peer'[m].key = peer[m].key
      PROVE  NoKeyInv'
  BY <1>a, <1>c, <1>1 DEF NoKeyInv
<1>2. ASSUME NEW l \in Leg, Consume(l), Handling(l),
             \/ fromProxy' = fromProxy
             \/ \E to \in Leg, p \in Wire : Write(to, p) /\ ~IsKey(p)
      PROVE  NoKeyInv'
  <2>1. /\ \A m \in Leg : Range(Pending(m)') \subseteq Range(Pending(m))
        /\ \A m \in Leg : peer'[m].key = peer[m].key
    BY <1>2, ConsumeEffect, ConsumeFrame
  <2>2. \A m \in Leg : \A p \in Range(fromProxy'[m]) : p \in Range(fromProxy[m]) \/ ~IsKey(p)
    BY <1>2, WriteEffect
  <2> QED BY <1>1, <2>1, <2>2
<1>4. CASE Quiet
  BY <1>1, <1>4 DEF Quiet
<1>5. ASSUME NEW l \in Leg, NEW why \in {"peer", "noreply", "baddata"}, GivesUp(l, why) PROVE NoKeyInv'
  BY <1>1, <1>5 DEF GivesUp
<1>6. CASE RemoteKey
  BY <1>a, <1>c, <1>6, RemoteKeyEffect, FrontFacts
<1>7. CASE LocalKey
  BY <1>2, <1>a, <1>7, LocalKeyEffect
<1>8. CASE Close
  BY <1>1, <1>8, CloseEffect
<1>9. ASSUME NEW l \in Leg, Drop(l) PROVE NoKeyInv'
  BY <1>2, <1>9, DropEffect
<1>10. ASSUME NEW l \in Leg, Forward(l) PROVE NoKeyInv'
  BY <1>c, <1>10, ForwardEffect, FrontFacts
<1>11. ASSUME NEW l \in Leg, Replies(l) PROVE NoKeyInv'
  <2>1. LET p == Control({"ALIVE_REPLY"}) IN p \in Wire /\ ~IsKey(p)
    BY ControlFacts
  <2> QED BY <1>2, <1>11, <2>1 DEF Replies
<1>12. ASSUME NEW l \in Leg, BrokenPipe(l) PROVE NoKeyInv'
  BY <1>1, <1>12, BrokenPipeEffect
<1>13. ASSUME NEW l \in Leg, Peer(l) PROVE NoKeyInv'
  <2>1. ASSUME NEW p \in Wire, Send(l, p), ~IsData(p), l = "remote" => ~IsKey(p),
               \A m \in Leg : m # l => peer'[m] = peer[m], peer'[l].key = peer[l].key
        PROVE  NoKeyInv'
    <3>1. /\ Range(Pending(l)') = Range(Pending(l)) \cup {p}
          /\ \A m \in Leg : m # l => Pending(m)' = Pending(m)
          /\ fromProxy' = fromProxy
      BY <2>1, SendEffect, SendFrame
    <3>2. \A m \in Leg : \A q \in Range(Pending(m)') : ~IsData(q)
      BY <1>c, <2>1, <3>1
    <3>3. \A q \in Range(Pending("remote")') : ~IsKey(q)
      BY <1>a, <1>c, <2>1, <3>1
    <3>4. \A m \in Leg : peer'[m].key = NoKey
      BY <1>c, <2>1
    <3> QED BY <1>c, <3>1, <3>2, <3>3, <3>4 DEF NoKeyInv
  <2>2. ASSUME NEW k \in Keys, PeerSendsKey(l, k) PROVE NoKeyInv'
    <3>1. l # "remote"
      BY <1>a, <1>b, <2>2, PeerSendsKeyEffect
    <3> QED BY <2>1, <2>2, <3>1, PeerSendsKeyEffect, TableFacts
  <2>3. CASE PeerSendsData(l)
    BY <1>c, <2>3, PeerSendsDataEffect, KeyAssumption
  <2>4. CASE PeerSendsAlive(l)
    BY <2>1, <2>4, PeerSendsAliveEffect, ControlFacts
  <2>5. CASE PeerSendsPlain(l)
    BY <2>1, <2>5, PeerSendsPlainEffect, ControlFacts
  <2>6. ASSUME PeerReads(l) \/ PeerCloses(l), Range(fromProxy'[l]) \subseteq Range(fromProxy[l]),
               \A m \in Leg : m # l => peer'[m] = peer[m] /\ fromProxy'[m] = fromProxy[m],
               peer'[l].key = peer[l].key
        PROVE  NoKeyInv'
    <3>1. \A m \in Leg : Pending(m)' = Pending(m)
      BY <2>6, ReadFrame
    <3>2. \A m \in Leg : Range(fromProxy'[m]) \subseteq Range(fromProxy[m]) /\ peer'[m].key = peer[m].key
      BY <2>6
    <3> QED BY <1>1, <3>1, <3>2
  <2>7. CASE PeerReads(l)
    <3> DEFINE p == Head(fromProxy[l])
    <3>1. /\ p \in Range(fromProxy[l]) /\ Range(fromProxy'[l]) \subseteq Range(fromProxy[l])
          /\ \A m \in Leg : m # l => peer'[m] = peer[m] /\ fromProxy'[m] = fromProxy[m]
          /\ peer'[l].key = IF IsKey(p) THEN p.key ELSE peer[l].key
      BY <2>7, PeerReadsEffect
    <3> HIDE DEF p
    <3>2. ~IsKey(p)
      BY <1>c, <3>1
    <3> QED BY <2>6, <2>7, <3>1, <3>2
  <2>8. CASE PeerCloses(l)
    <3>1. Range(<<>>) \subseteq {}
      BY DEF Range
    <3> QED BY <2>6, <2>8, <3>1, PeerClosesEffect
  <2> QED BY <1>13, <2>2, <2>3, <2>4, <2>5, <2>7, <2>8 DEF Peer
<1> QED BY <1>4, <1>5, <1>6, <1>7, <1>8, <1>9, <1>10, <1>11, <1>12, <1>13, StepShapes

\* A packet that is sealed with the key, or hands it out.
Uses(p, key) == IsKey(p) \/ IsData(p) => p.key = key

\* Every step keeps that with one key nothing is sealed with another.
LEMMA OneKeyKept == IInv /\ [Next]_vars => OneKeyInv'
<1> SUFFICES ASSUME IInv, [Next]_vars, Len(peer'["remote"].keys) <= 1, Len(peer'["local"].keys) = 0
             PROVE  OneKeyInv'
  BY DEF OneKeyInv
<1> USE DEF IInv
<1> DEFINE key == peer["remote"].key
<1>a. "local" \in Leg /\ "remote" \in Leg /\ "local" # "remote"
  BY DEF Leg
<1>b. Len(peer["remote"].keys) <= 1 /\ Len(peer["local"].keys) = 0 /\ Len(peer["remote"].keys) \in Nat
  <2>1. \A l \in Leg : Len(peer[l].keys) \in Nat /\ Len(peer'[l].keys) \in Nat /\ Len(peer'[l].keys) >= Len(peer[l].keys)
    <3>1. \A l \in Leg : peer'[l].keys \in Seq(Keys)
      BY TypeStep DEF TypeOK
    <3> QED BY <3>1, KeysGrow, LenProperties
  <2> QED BY <1>a, <2>1
<1>c. /\ \A l \in Leg : /\ \A p \in Range(Pending(l)) : Uses(p, key)
                        /\ \A p \in Range(fromProxy[l]) : Uses(p, key) /\ (IsKey(p) \/ IsData(p) => key \in Keys)
                        /\ conn[l].key \in {NoKey, key}
                        /\ peer[l].key \in {NoKey, key}
      /\ InSequence("remote")
  BY <1>b DEF OneKeyInv, Uses, ServerSeesClientStream
<1>d. /\ \A p \in Range(Pending("local")) : ~IsKey(p)
      /\ conn["local"].key = conn["remote"].key
  BY <1>b DEF ClientInv
<1>e. NoKey \notin Keys
  BY KeyAssumption
<1> HIDE DEF key
<1>f. ASSUME \A l \in Leg : /\ \A p \in Range(Pending(l)') : Uses(p, key)
                            /\ \A p \in Range(fromProxy'[l]) :
                                  Uses(p, key) /\ (IsKey(p) \/ IsData(p) => key \in Keys)
                            /\ conn'[l].key \in {NoKey, key}
                            /\ peer'[l].key \in {NoKey, key},
             InSequence("remote")', peer'["remote"].key = key
      PROVE  OneKeyInv'
  BY <1>f DEF OneKeyInv, Uses, ServerSeesClientStream
<1>1. ASSUME \A m \in Leg : Range(Pending(m)') \subseteq Range(Pending(m)),
             \A m \in Leg : \A p \in Range(fromProxy'[m]) :
                 p \in Range(fromProxy[m]) \/ (Uses(p, key) /\ (IsKey(p) \/ IsData(p) => key \in Keys)),
             \A m \in Leg : conn'[m].key \in {conn[m].key, key},
             \A m \in Leg : peer'[m].key = peer[m].key, peer'["remote"].got = peer["remote"].got
      PROVE  OneKeyInv'
  <2>1. peer'["remote"].key = key
    BY <1>a, <1>1 DEF key
  <2>2. InSequence("remote")'
    BY <1>c, <1>1 DEF InSequence
  <2> QED BY <1>c, <1>1, <1>f, <2>1, <2>2
<1>2. ASSUME NEW l \in Leg, Consume(l), Handling(l),
             \A m \in Leg : conn'[m].key \in {conn[m].key, key},
             \/ fromProxy' = fromProxy
             \/ \E to \in Leg, p \in Wire :
                   Write(to, p) /\ Uses(p, key) /\ (IsKey(p) \/ IsData(p) => key \in Keys)
      PROVE  OneKeyInv'
  <2>1. /\ \A m \in Leg : Range(Pending(m)') \subseteq Range(Pending(m))
        /\ peer' = peer
    BY <1>2, ConsumeEffect, ConsumeFrame
  <2>2. \A m \in Leg : \A p \in Range(fromProxy'[m]) :
             p \in Range(fromProxy[m]) \/ (Uses(p, key) /\ (IsKey(p) \/ IsData(p) => key \in Keys))
    <3>1. CASE fromProxy' = fromProxy
      BY <3>1
    <3>2. ASSUME NEW to \in Leg, NEW p \in Wire, Write(to, p)
          PROVE  \A m \in Leg : \A q \in Range(fromProxy'[m]) : q \in Range(fromProxy[m]) \/ q = p
      BY <3>2, WriteEffect
    <3> QED BY <1>2, <3>1, <3>2
  <2> QED BY <1>1, <1>2, <2>1, <2>2
<1>4. CASE Quiet
  BY <1>1, <1>4 DEF Quiet
<1>5. ASSUME NEW l \in Leg, NEW why \in {"peer", "noreply", "baddata"}, GivesUp(l, why) PROVE OneKeyInv'
  BY <1>1, <1>5 DEF GivesUp
<1>6. CASE RemoteKey
  <2> DEFINE k == AtFront("remote").key
  <2>1. /\ k \in Keys /\ Handling("remote") /\ Consume("remote") /\ IsKey(AtFront("remote"))
        /\ Write("local", Table(k)) /\ \A m \in Leg : conn'[m].key = k
    BY <1>6, RemoteKeyEffect
  <2>2. Table(k) \in Wire /\ Table(k).key = k
    BY <2>1, TableFacts
  <2>3. k = key
    BY <1>a, <1>c, <2>1, FrontFacts DEF Uses
  <2>4. Uses(Table(k), key)
    BY <2>2, <2>3 DEF Uses
  <2> QED BY <1>2, <1>a, <2>1, <2>2, <2>3, <2>4
<1>7. CASE LocalKey
  BY <1>a, <1>d, <1>7, LocalKeyEffect, FrontFacts
<1>8. CASE Close
  BY <1>1, <1>8, CloseEffect
<1>9. ASSUME NEW l \in Leg, Drop(l) PROVE OneKeyInv'
  BY <1>2, <1>9, DropEffect
<1>10. ASSUME NEW l \in Leg, Forward(l) PROVE OneKeyInv'
  <2> DEFINE to == Other(l)
             p == Sealed(conn[to].key, conn[to].seq, AtFront(l).body)
  <2>1. /\ Handling(l) /\ Consume(l) /\ IsData(AtFront(l)) /\ Write(to, p) /\ p \in Wire
        /\ conn[l].haveKey /\ conn'[l] = conn[l] /\ conn'[to].key = conn[to].key
    BY <1>10, ForwardEffect
  <2>2. p.key = conn[to].key
    BY <2>1, ForwardedPacket
  <2>3. to \in Leg /\ \A m \in Leg : m # l => m = to
    BY OtherLeg
  <2>4. conn[l].key \in Keys
    BY <2>1 DEF KeyInv, HasKey
  <2> HIDE DEF p, to
  <2>5. conn[to].key = conn[l].key
    BY <1>d, <2>3 DEF Leg
  <2>6. p.key = key /\ key \in Keys
    BY <1>c, <1>e, <2>2, <2>4, <2>5
  <2>7. Uses(p, key)
    BY <2>6 DEF Uses
  <2> QED BY <1>2, <2>1, <2>3, <2>6, <2>7
<1>11. ASSUME NEW l \in Leg, Replies(l) PROVE OneKeyInv'
  <2>1. LET p == Control({"ALIVE_REPLY"}) IN p \in Wire /\ ~IsKey(p) /\ ~IsData(p)
    BY ControlFacts
  <2> QED BY <1>2, <1>11, <2>1 DEF Replies, Uses
<1>12. ASSUME NEW l \in Leg, BrokenPipe(l) PROVE OneKeyInv'
  BY <1>1, <1>12, BrokenPipeEffect
<1>13. ASSUME NEW l \in Leg, Peer(l) PROVE OneKeyInv'
  <2>1. ASSUME NEW p \in Wire, Send(l, p), Uses(p, key),
               \A m \in Leg : m # l => peer'[m] = peer[m], peer'[l].key = peer[l].key,
               peer'[l].got = peer[l].got
        PROVE  OneKeyInv'
    <3>1. /\ Range(Pending(l)') = Range(Pending(l)) \cup {p}
          /\ \A m \in Leg : m # l => Pending(m)' = Pending(m)
          /\ UNCHANGED <<conn, fromProxy>>
      BY <2>1, SendEffect, SendFrame
    <3>2. \A m \in Leg : \A q \in Range(Pending(m)') : Uses(q, key)
      BY <1>c, <2>1, <3>1
    <3>3. \A m \in Leg : peer'[m].key = peer[m].key
      BY <2>1
    <3>4. peer'["remote"].key = key
      BY <1>a, <3>3 DEF key
    <3>5. InSequence("remote")'
      <4>1. peer'["remote"].got = peer["remote"].got
        BY <1>a, <2>1
      <4> QED BY <1>c, <4>1 DEF InSequence
    <3> QED BY <1>c, <1>f, <3>1, <3>2, <3>3, <3>4, <3>5
  <2>2. ASSUME NEW k \in Keys, PeerSendsKey(l, k) PROVE OneKeyInv'
    <3>1. /\ Send(l, Table(k)) /\ Table(k) \in Wire
          /\ \A m \in Leg : m # l => peer'[m] = peer[m]
          /\ Len(peer'[l].keys) = Len(peer[l].keys) + 1 /\ peer'[l].got = peer[l].got
          /\ peer'[l].key = IF l = "remote" THEN k ELSE peer[l].key
      BY <2>2, PeerSendsKeyEffect
    <3>2. l = "remote"
      <4>1. Len(peer["local"].keys) + 1 # 0
        BY <1>b
      <4> QED BY <3>1, <4>1 DEF Leg
    <3>3. Len(peer["remote"].keys) = 0
      BY <1>b, <3>1, <3>2
    <3>4. key = NoKey
      BY <1>a, <3>3 DEF NoKeyInv, key
    <3>5. /\ \A m \in Leg : \A p \in Range(Pending(m)) : ~IsData(p) /\ ~IsKey(p)
          /\ \A m \in Leg : \A p \in Range(fromProxy[m]) : ~IsData(p) /\ ~IsKey(p)
          /\ \A m \in Leg : peer[m].key = NoKey /\ conn[m].key = NoKey
      <4>1. \A m \in Leg : \A p \in Range(Pending(m)) : ~IsData(p) /\ ~IsKey(p)
        BY <1>a, <1>d, <3>3 DEF NoKeyInv, Leg
      <4>2. \A m \in Leg : \A p \in Range(fromProxy[m]) : ~IsData(p) /\ ~IsKey(p)
        BY <1>c, <1>e, <3>4
      <4>3. \A m \in Leg : peer[m].key = NoKey /\ conn[m].key = NoKey
        BY <1>c, <3>4
      <4> QED BY <4>1, <4>2, <4>3
    <3>6. /\ Range(Pending(l)') = Range(Pending(l)) \cup {Table(k)}
          /\ \A m \in Leg : m # l => Pending(m)' = Pending(m)
          /\ UNCHANGED <<conn, fromProxy>>
      BY <3>1, SendEffect, SendFrame
    <3>7. Table(k).key = k
      BY TableFacts
    <3>8. \A m \in Leg : \A p \in Range(Pending(m)') : Uses(p, k)
      BY <3>5, <3>6, <3>7 DEF Uses
    <3>9. \A m \in Leg : \A p \in Range(fromProxy'[m]) : Uses(p, k) /\ (IsKey(p) \/ IsData(p) => k \in Keys)
      BY <3>5, <3>6 DEF Uses
    <3>10. \A m \in Leg : peer'[m].key \in {NoKey, k} /\ conn'[m].key \in {NoKey, k}
      BY <3>1, <3>2, <3>5, <3>6
    <3>11. peer'["remote"].key = k
      BY <3>1, <3>2
    <3>12. InSequence("remote")'
      BY <1>c, <3>1, <3>2 DEF InSequence
    <3> QED BY <3>8, <3>9, <3>10, <3>11, <3>12 DEF OneKeyInv, Uses, ServerSeesClientStream
  <2>3. CASE PeerSendsData(l)
    <3> DEFINE n == peer[l].data + 1
               p == Sealed(peer[l].key, n, n)
    <3>1. /\ n \in 1 .. MaxData /\ peer[l].key \in Keys /\ Send(l, p) /\ p \in Wire
          /\ \A m \in Leg : m # l => peer'[m] = peer[m]
          /\ peer'[l].key = peer[l].key /\ peer'[l].got = peer[l].got
      BY <2>3, PeerSendsDataEffect
    <3>2. p.key = peer[l].key
      BY <3>1, SealedFacts DEF KeyState
    <3> HIDE DEF p
    <3>3. p.key = key
      BY <1>c, <1>e, <3>1, <3>2
    <3> QED BY <2>1, <3>1, <3>3 DEF Uses
  <2>4. CASE PeerSendsAlive(l)
    BY <2>1, <2>4, PeerSendsAliveEffect, ControlFacts DEF Uses
  <2>5. CASE PeerSendsPlain(l)
    BY <2>1, <2>5, PeerSendsPlainEffect, ControlFacts DEF Uses
  <2>6. ASSUME PeerReads(l) \/ PeerCloses(l), Range(fromProxy'[l]) \subseteq Range(fromProxy[l]),
               \A m \in Leg : m # l => peer'[m] = peer[m] /\ fromProxy'[m] = fromProxy[m],
               peer'[l].key \in {NoKey, key}, peer'["remote"].key = key, InSequence("remote")'
        PROVE  OneKeyInv'
    <3>1. conn' = conn /\ \A m \in Leg : Pending(m)' = Pending(m)
      BY <2>6, ReadFrame
    <3>2. \A m \in Leg : Range(fromProxy'[m]) \subseteq Range(fromProxy[m]) /\ peer'[m].key \in {NoKey, key}
      BY <1>c, <2>6
    <3> QED BY <1>c, <1>f, <2>6, <3>1, <3>2
  <2>7. CASE PeerReads(l)
    <3> DEFINE p == Head(fromProxy[l])
    <3>1. /\ p \in Range(fromProxy[l]) /\ WellFormed(p) /\ Range(fromProxy'[l]) \subseteq Range(fromProxy[l])
          /\ \A m \in Leg : m # l => peer'[m] = peer[m] /\ fromProxy'[m] = fromProxy[m]
          /\ peer'[l].key = IF IsKey(p) THEN p.key ELSE peer[l].key
      BY <2>7, PeerReadsEffect
    <3>2. l = "remote" => ~IsKey(p)
      BY <3>1 DEF WireInv
    <3>3. peer'[l].key \in {NoKey, key}
      BY <1>c, <3>1 DEF Uses
    <3>4. peer'["remote"].key = key
      BY <1>a, <3>1, <3>2 DEF key
    <3>5. InSequence("remote")'
      <4>1. CASE l = "remote"
        <5>1. NumberGot(l)'
          BY NumberKept DEF NumberInv
        <5>2. IsData(p) => peer[l].key \in p.accepts
          BY <1>c, <3>1, <4>1 DEF Uses, WellFormed, key
        <5> QED BY <1>c, <2>7, <4>1, <5>1, <5>2, ReadInSequence
      <4>2. CASE l # "remote"
        BY <1>a, <1>c, <3>1, <4>2 DEF InSequence
      <4> QED BY <4>1, <4>2
    <3> QED BY <2>6, <2>7, <3>1, <3>3, <3>4, <3>5
  <2>8. CASE PeerCloses(l)
    <3>1. Range(<<>>) \subseteq {}
      BY DEF Range
    <3>2. /\ fromProxy'[l] = <<>> /\ \A m \in Leg : m # l => peer'[m] = peer[m] /\ fromProxy'[m] = fromProxy[m]
          /\ peer'[l].key = peer[l].key /\ peer'[l].got = peer[l].got
      BY <2>8, PeerClosesEffect
    <3>3. peer'["remote"].key = key
      BY <1>a, <3>2 DEF key
    <3>4. InSequence("remote")'
      <4>1. peer'["remote"].got = peer["remote"].got
        BY <1>a, <3>2
      <4> QED BY <1>c, <4>1 DEF InSequence
    <3> QED BY <1>c, <2>6, <2>8, <3>1, <3>2, <3>3, <3>4
  <2> QED BY <1>13, <2>2, <2>3, <2>4, <2>5, <2>7, <2>8 DEF Peer
<1> QED BY <1>4, <1>5, <1>6, <1>7, <1>8, <1>9, <1>10, <1>11, <1>12, <1>13, StepShapes

-----------------------------------------------------------------------------
(* Keepalive replies.                                                      *)

\* What the counters of requests and of replies do with a packet.
LEMMA CountFacts ==
    ASSUME NEW n \in Nat, NEW r \in 0 .. n, NEW p \in Wire
    PROVE  /\ p.flags # {"ALIVE_REPLY"} => <<r, p, r>> \in ReplyStep(n)
           /\ p.flags = {"ALIVE_REPLY"} /\ r + 1 <= n => <<r, p, r + 1>> \in ReplyStep(n)
           /\ ~IsKeepalive(p) => <<r, p, r>> \in RequestStep(n)
           /\ \A c : <<r, p, c>> \in RequestStep(n) => c = IF IsKeepalive(p) THEN r + 1 ELSE r
           /\ \A c : <<r, p, c>> \in ReplyStep(n) => c = IF p.flags = {"ALIVE_REPLY"} THEN r + 1 ELSE r
BY DEF ReplyStep, RequestStep

\* The counters of a peer are numbers.
LEMMA RepliesTyped ==
    ASSUME TypeOK, NEW l \in Leg
    PROVE  peer[l].alive \in Nat /\ peer[l].replies \in Nat
BY RecordsTyped DEF PeerState

\* What Owed depends on: as long as it stays, it does.
LEMMA OwedKept ==
    ASSUME NEW l \in Leg, NEW r, Owed(l, r),
           peer'[l].alive = peer[l].alive, peer'[l].replies = peer[l].replies,
           peer'[l].open => peer[l].open /\ fromProxy'[l] = fromProxy[l],
           ~Gone(l)' => ~Gone(l) /\ Pending(l)' = Pending(l)
    PROVE  Owed(l, r)'
BY DEF Owed

\* Every step keeps the account of the keepalives.
LEMMA RepliesKept == IInv /\ [Next]_vars => RepliesInv'
<1> SUFFICES ASSUME IInv, [Next]_vars PROVE RepliesInv'
  OBVIOUS
<1> USE DEF IInv
<1>a. "local" \in Leg /\ "remote" \in Leg /\ "local" # "remote"
  BY DEF Leg
<1>b. ASSUME NEW l \in Leg,
             peer'[l].alive = peer[l].alive, peer'[l].replies = peer[l].replies,
             peer'[l].open => peer[l].open /\ fromProxy'[l] = fromProxy[l],
             ~Gone(l)' => ~Gone(l) /\ Pending(l)' = Pending(l)
      PROVE  peer'[l].replies <= peer'[l].alive /\ \E r \in 0 .. peer'[l].alive : Owed(l, r)'
  BY <1>b, OwedKept DEF RepliesInv
<1>1. ASSUME UNCHANGED <<peer, fromProxy>>,
             \A m \in Leg : ~Gone(m)' => ~Gone(m) /\ Pending(m)' = Pending(m)
      PROVE  RepliesInv'
  BY <1>1, <1>b DEF RepliesInv
<1>2. ASSUME NEW l \in Leg, Consume(l), Handling(l), ~IsKeepalive(AtFront(l)),
             \/ fromProxy' = fromProxy
             \/ \E to \in Leg, p \in Wire : Write(to, p) /\ p.flags # {"ALIVE_REPLY"}
      PROVE  RepliesInv'
  <2>1. /\ Pending(l)' = Tail(Pending(l)) /\ \A m \in Leg : m # l => Pending(m)' = Pending(m)
        /\ peer' = peer /\ \A m \in Leg : Gone(m) <=> Gone(m)'
    BY <1>2, ConsumeEffect, ConsumeFrame
  <2>2. ASSUME NEW m \in Leg PROVE \E r \in 0 .. peer'[m].alive : Owed(m, r)'
    <3> DEFINE n == peer[m].alive
    <3>1. PICK r \in 0 .. n : Owed(m, r)
      BY DEF RepliesInv
    <3>2. n \in Nat
      BY RepliesTyped
    <3>3. ~Gone(m) => Leads(0 .. n, RequestStep(n), Pending(m)', r, n)
      <4>1. CASE m # l
        BY <2>1, <3>1, <4>1 DEF Owed
      <4>2. CASE m = l /\ ~Gone(m)
        <5>1. Leads(0 .. n, RequestStep(n), Pending(l), r, n)
          BY <3>1, <4>2 DEF Owed
        <5>2. Pending(l) \in Seq(Wire) /\ Pending(l) # <<>> /\ Head(Pending(l)) = AtFront(l) /\ AtFront(l) \in Wire
          BY <1>2, PendingTyped, FrontFacts
        <5>3. PICK c \in 0 .. n : /\ <<r, AtFront(l), c>> \in RequestStep(n)
                                  /\ Leads(0 .. n, RequestStep(n), Tail(Pending(l)), c, n)
          BY <5>1, <5>2, LeadsTail
        <5>4. c = r
          BY <1>2, <3>2, <5>2, <5>3, CountFacts
        <5> QED BY <2>1, <4>2, <5>3, <5>4
      <4> QED BY <4>1, <4>2
    <3>4. peer[m].open => Leads(0 .. n, ReplyStep(n), fromProxy'[m], peer[m].replies, r)
      <4>1. SUFFICES ASSUME peer[m].open
                     PROVE  Leads(0 .. n, ReplyStep(n), fromProxy'[m], peer[m].replies, r)
        OBVIOUS
      <4>2. Leads(0 .. n, ReplyStep(n), fromProxy[m], peer[m].replies, r)
        BY <3>1, <4>1 DEF Owed
      <4>3. ASSUME NEW to \in Leg, NEW p \in Wire, Write(to, p), p.flags # {"ALIVE_REPLY"}
            PROVE  Leads(0 .. n, ReplyStep(n), fromProxy'[m], peer[m].replies, r)
        <5>1. CASE m # to
          BY <4>2, <4>3, <5>1, WriteEffect
        <5>2. CASE m = to
          <6>1. fromProxy'[m] = Append(fromProxy[m], p) /\ fromProxy[m] \in Seq(Wire)
            BY <4>1, <4>3, <5>2, WriteEffect, PendingTyped
          <6>2. <<r, p, r>> \in ReplyStep(n)
            BY <3>2, <4>3, CountFacts
          <6>3. Leads(0 .. n, ReplyStep(n), Append(fromProxy[m], p), peer[m].replies, r)
            BY <4>2, <6>1, <6>2, LeadsAppend
          <6> QED BY <6>1, <6>3
        <5> QED BY <5>1, <5>2
      <4> QED BY <1>2, <4>2, <4>3
    <3> QED BY <2>1, <3>3, <3>4 DEF Owed
  <2> QED BY <2>1, <2>2 DEF RepliesInv
<1>4. CASE Quiet
  BY <1>1, <1>4 DEF Quiet
<1>5. ASSUME NEW l \in Leg, NEW why \in {"peer", "noreply", "baddata"}, GivesUp(l, why) PROVE RepliesInv'
  BY <1>1, <1>5 DEF GivesUp
<1>6. CASE RemoteKey
  <2> DEFINE k == AtFront("remote").key
  <2>1. /\ k \in Keys /\ Handling("remote") /\ Consume("remote") /\ IsKey(AtFront("remote"))
        /\ Write("local", Table(k))
    BY <1>6, RemoteKeyEffect
  <2>2. Table(k) \in Wire /\ Table(k).flags # {"ALIVE_REPLY"}
    BY <2>1, TableFacts
  <2>3. ~IsKeepalive(AtFront("remote"))
    BY <2>1 DEF IsKeepalive, IsKey, Verified
  <2> QED BY <1>2, <1>a, <2>1, <2>2, <2>3
<1>7. CASE LocalKey
  <2>1. /\ Handling("local") /\ Consume("local") /\ fromProxy' = fromProxy
        /\ ~IsKeepalive(AtFront("local"))
    BY <1>7, LocalKeyEffect DEF IsKeepalive, IsKey, Verified
  <2> QED BY <1>2, <1>a, <2>1
<1>8. CASE Close
  <2>1. peer' = peer /\ cause' = cause /\ pc = "close" /\ pc' = "closed"
    BY <1>8, CloseEffect
  <2>2. \A m \in Leg : Gone(m)'
    BY <2>1 DEF Gone, LoopInv
  <2>3. ASSUME NEW m \in Leg PROVE \E r \in 0 .. peer'[m].alive : Owed(m, r)'
    <3> DEFINE n == peer[m].alive
    <3>1. PICK r \in 0 .. n : Owed(m, r)
      BY DEF RepliesInv
    <3>2. CASE ~peer[m].open
      BY <2>1, <2>2, <3>1, <3>2 DEF Owed
    <3>3. CASE peer[m].open
      <4>1. Leads(0 .. n, ReplyStep(n), fromProxy[m], peer[m].replies, r)
        BY <3>1, <3>3 DEF Owed
      <4>2. PICK i \in 0 .. Len(fromProxy[m]) : fromProxy'[m] = SubSeq(fromProxy[m], 1, i)
        BY <1>8, CloseEffect
      <4>3. PICK c \in 0 .. n : Leads(0 .. n, ReplyStep(n), SubSeq(fromProxy[m], 1, i), peer[m].replies, c)
        BY <4>1, PendingTyped, LeadsPrefix
      <4> QED BY <2>1, <2>2, <4>2, <4>3 DEF Owed
    <3> QED BY <3>2, <3>3
  <2> QED BY <2>1, <2>3 DEF RepliesInv
<1>9. ASSUME NEW l \in Leg, Drop(l) PROVE RepliesInv'
  BY <1>2, <1>9, DropEffect
<1>10. ASSUME NEW l \in Leg, Forward(l) PROVE RepliesInv'
  <2> DEFINE to == Other(l)
             p == Sealed(conn[to].key, conn[to].seq, AtFront(l).body)
  <2>1. /\ Handling(l) /\ Consume(l) /\ IsData(AtFront(l)) /\ Write(to, p) /\ p \in Wire
    BY <1>10, ForwardEffect
  <2>2. p.flags # {"ALIVE_REPLY"}
    BY <2>1, ForwardedPacket
  <2>3. to \in Leg /\ ~IsKeepalive(AtFront(l))
    BY <2>1, OtherLeg DEF IsData, IsKeepalive
  <2> HIDE DEF p, to
  <2> QED BY <1>2, <2>1, <2>2, <2>3
<1>11. ASSUME NEW l \in Leg, Replies(l) PROVE RepliesInv'
  <2> DEFINE q == Control({"ALIVE_REPLY"})
             n == peer[l].alive
  <2>1. Handling(l) /\ Consume(l) /\ IsKeepalive(AtFront(l)) /\ Write(l, q)
    BY <1>11 DEF Replies
  <2>2. q \in Wire /\ q.flags = {"ALIVE_REPLY"}
    BY ControlFacts
  <2> HIDE DEF q
  <2>3. /\ Pending(l)' = Tail(Pending(l)) /\ \A m \in Leg : m # l => Pending(m)' = Pending(m)
        /\ peer' = peer /\ \A m \in Leg : Gone(m) <=> Gone(m)'
        /\ \A m \in Leg : m # l => fromProxy'[m] = fromProxy[m]
    BY <2>1, <2>2, ConsumeEffect, ConsumeFrame, WriteEffect
  <2>4. \E r \in 0 .. n : Owed(l, r)'
    <3>1. PICK r \in 0 .. n : Owed(l, r)
      BY DEF RepliesInv
    <3>2. n \in Nat /\ ~Gone(l)
      BY <2>1, RepliesTyped, HandlingIsNotGone
    <3>3. Leads(0 .. n, RequestStep(n), Pending(l), r, n)
      BY <3>1, <3>2 DEF Owed
    <3>4. Pending(l) \in Seq(Wire) /\ Pending(l) # <<>> /\ Head(Pending(l)) = AtFront(l) /\ AtFront(l) \in Wire
      BY <2>1, PendingTyped, FrontFacts
    <3>5. PICK c \in 0 .. n : /\ <<r, AtFront(l), c>> \in RequestStep(n)
                              /\ Leads(0 .. n, RequestStep(n), Tail(Pending(l)), c, n)
      BY <3>3, <3>4, LeadsTail
    <3>6. c = r + 1
      BY <2>1, <3>2, <3>4, <3>5, CountFacts
    <3>7. peer[l].open => Leads(0 .. n, ReplyStep(n), fromProxy'[l], peer[l].replies, c)
      <4>1. SUFFICES ASSUME peer[l].open
                     PROVE  Leads(0 .. n, ReplyStep(n), fromProxy'[l], peer[l].replies, c)
        OBVIOUS
      <4>2. Leads(0 .. n, ReplyStep(n), fromProxy[l], peer[l].replies, r)
        BY <3>1, <4>1 DEF Owed
      <4>3. fromProxy'[l] = Append(fromProxy[l], q) /\ fromProxy[l] \in Seq(Wire)
        BY <2>1, <2>2, <4>1, WriteEffect, PendingTyped
      <4>4. <<r, q, c>> \in ReplyStep(n)
        <5>1. r \in 0 .. n /\ c \in 0 .. n
          BY <3>1, <3>5
        <5> QED BY <2>2, <3>6, <5>1 DEF ReplyStep
      <4>5. Leads(0 .. n, ReplyStep(n), Append(fromProxy[l], q), peer[l].replies, c)
        BY <2>2, <4>2, <4>3, <4>4, LeadsAppend
      <4> QED BY <4>3, <4>5
    <3> QED BY <2>3, <3>5, <3>7 DEF Owed
  <2>5. \A m \in Leg : m # l => \E r \in 0 .. peer'[m].alive : Owed(m, r)'
    BY <1>b, <2>3
  <2> QED BY <2>3, <2>4, <2>5 DEF RepliesInv
<1>12. ASSUME NEW l \in Leg, BrokenPipe(l) PROVE RepliesInv'
  BY <1>1, <1>12, BrokenPipeEffect
<1>13. ASSUME NEW l \in Leg, Peer(l) PROVE RepliesInv'
  <2>0. ASSUME peer'[l].replies <= peer'[l].alive /\ \E r \in 0 .. peer'[l].alive : Owed(l, r)',
               \A m \in Leg : m # l => peer'[m] = peer[m] /\ fromProxy'[m] = fromProxy[m] /\ Pending(m)' = Pending(m),
               \A m \in Leg : Gone(m) <=> Gone(m)'
        PROVE  RepliesInv'
    <3>1. \A m \in Leg : m # l => peer'[m].replies <= peer'[m].alive /\ \E r \in 0 .. peer'[m].alive : Owed(m, r)'
      BY <1>b, <2>0
    <3> QED BY <2>0, <3>1 DEF RepliesInv
  <2>1. ASSUME NEW p \in Wire, Send(l, p), \A m \in Leg : m # l => peer'[m] = peer[m],
               peer'[l].open = peer[l].open, peer'[l].replies = peer[l].replies,
               peer'[l].alive = IF IsKeepalive(p) THEN peer[l].alive + 1 ELSE peer[l].alive
        PROVE  RepliesInv'
    <3> DEFINE n == peer[l].alive
               k == peer'[l].alive
    <3>1. /\ Pending(l)' = Append(Pending(l), p) /\ Pending(l) \in Seq(Wire)
          /\ \A m \in Leg : m # l => Pending(m)' = Pending(m)
          /\ fromProxy' = fromProxy /\ \A m \in Leg : Gone(m) <=> Gone(m)'
      BY <2>1, SendEffect, SendFrame, PendingTyped
    <3>2. n \in Nat /\ k \in Nat /\ n <= k /\ k \in 0 .. k /\ peer[l].replies \in Nat
      BY <2>1, RepliesTyped
    <3>3. PICK r \in 0 .. n : Owed(l, r)
      BY DEF RepliesInv
    <3>4. 0 .. n \subseteq 0 .. k /\ r \in 0 .. k
      BY <3>2
    <3>5. RequestStep(n) \subseteq RequestStep(k) /\ ReplyStep(n) \subseteq ReplyStep(k)
      BY <3>4 DEF RequestStep, ReplyStep
    <3>6. <<n, p, k>> \in RequestStep(k)
      BY <2>1, <3>2 DEF RequestStep
    <3> HIDE DEF n, k
    <3>7. peer[l].open => Leads(0 .. k, ReplyStep(k), fromProxy[l], peer[l].replies, r)
      <4>1. peer[l].open => Leads(0 .. n, ReplyStep(n), fromProxy[l], peer[l].replies, r)
        BY <3>3 DEF Owed, n
      <4> QED BY <3>4, <3>5, <4>1, LeadsMore
    <3>8. ~Gone(l) => Leads(0 .. k, RequestStep(k), Append(Pending(l), p), r, k)
      <4>1. ~Gone(l) => Leads(0 .. n, RequestStep(n), Pending(l), r, n)
        BY <3>3 DEF Owed, n
      <4>2. ~Gone(l) => Leads(0 .. k, RequestStep(k), Pending(l), r, n)
        BY <3>4, <3>5, <4>1, LeadsMore
      <4> QED BY <3>1, <3>2, <3>6, <4>2, LeadsAppend
    <3>9. Owed(l, r)'
      BY <2>1, <3>1, <3>7, <3>8 DEF Owed, k
    <3>10. peer'[l].replies <= k
      BY <2>1, <3>2 DEF RepliesInv, n
    <3> QED BY <2>0, <2>1, <3>1, <3>4, <3>9, <3>10 DEF k
  <2>2. ASSUME NEW k \in Keys, PeerSendsKey(l, k) PROVE RepliesInv'
    BY <2>1, <2>2, PeerSendsKeyEffect, TableFacts
  <2>3. CASE PeerSendsData(l)
    <3> DEFINE n == peer[l].data + 1
               p == Sealed(peer[l].key, n, n)
    <3>1. /\ n \in 1 .. MaxData /\ peer[l].key \in Keys /\ Send(l, p) /\ p \in Wire
          /\ \A m \in Leg : m # l => peer'[m] = peer[m]
          /\ peer'[l].open = peer[l].open /\ peer'[l].replies = peer[l].replies
          /\ peer'[l].alive = peer[l].alive
      BY <2>3, PeerSendsDataEffect
    <3>2. ~IsKeepalive(p)
      BY <3>1, SealedFacts DEF KeyState
    <3> HIDE DEF p
    <3> QED BY <2>1, <3>1, <3>2
  <2>4. CASE PeerSendsAlive(l)
    BY <2>1, <2>4, PeerSendsAliveEffect, ControlFacts
  <2>5. CASE PeerSendsPlain(l)
    BY <2>1, <2>5, PeerSendsPlainEffect, ControlFacts
  <2>6. CASE PeerReads(l)
    <3> DEFINE p == Head(fromProxy[l])
               n == peer[l].alive
    <3>1. /\ peer[l].open /\ fromProxy[l] \in Seq(Wire) /\ fromProxy[l] # <<>> /\ p \in Wire
          /\ fromProxy'[l] = Tail(fromProxy[l])
          /\ \A m \in Leg : m # l => peer'[m] = peer[m] /\ fromProxy'[m] = fromProxy[m]
          /\ peer'[l].alive = n
          /\ peer'[l].replies = IF p.flags = {"ALIVE_REPLY"} THEN peer[l].replies + 1 ELSE peer[l].replies
      BY <2>6, PeerReadsEffect
    <3>2. \A m \in Leg : (Gone(m) <=> Gone(m)') /\ Pending(m)' = Pending(m)
      BY <2>6, ReadFrame
    <3>3. n \in Nat /\ peer[l].replies \in 0 .. n
      BY RepliesTyped DEF RepliesInv
    <3>4. PICK r \in 0 .. n : Owed(l, r)
      BY DEF RepliesInv
    <3>5. Leads(0 .. n, ReplyStep(n), fromProxy[l], peer[l].replies, r)
      BY <3>1, <3>4 DEF Owed
    <3>6. PICK c \in 0 .. n : /\ <<peer[l].replies, p, c>> \in ReplyStep(n)
                              /\ Leads(0 .. n, ReplyStep(n), Tail(fromProxy[l]), c, r)
      BY <3>1, <3>5, LeadsTail
    <3>7. c = peer'[l].replies
      BY <3>1, <3>6 DEF ReplyStep
    <3>8. Owed(l, r)'
      BY <3>1, <3>2, <3>4, <3>6, <3>7 DEF Owed
    <3>9. peer'[l].replies <= n
      BY <3>3, <3>6, <3>7
    <3> QED BY <2>0, <3>1, <3>2, <3>4, <3>8, <3>9
  <2>7. CASE PeerCloses(l)
    <3>1. /\ \A m \in Leg : m # l => peer'[m] = peer[m] /\ fromProxy'[m] = fromProxy[m]
          /\ peer'[l].open = FALSE /\ peer'[l].alive = peer[l].alive
          /\ peer'[l].replies = peer[l].replies
      BY <2>7, PeerClosesEffect
    <3>2. \A m \in Leg : (Gone(m) <=> Gone(m)') /\ Pending(m)' = Pending(m)
      BY <2>7, ReadFrame
    <3>3. peer'[l].replies <= peer'[l].alive /\ \E r \in 0 .. peer'[l].alive : Owed(l, r)'
      BY <1>b, <3>1, <3>2
    <3> QED BY <2>0, <3>1, <3>2, <3>3
  <2> QED BY <1>13, <2>2, <2>3, <2>4, <2>5, <2>6, <2>7 DEF Peer
<1> QED BY <1>4, <1>5, <1>6, <1>7, <1>8, <1>9, <1>10, <1>11, <1>12, <1>13, StepShapes

-----------------------------------------------------------------------------
(* The log.                                                                *)

\* The entries of a log up to the i-th that carry a key.
KeyEntries(s, i) == {j \in 1 .. i : IsKey(s[j].p)}

\* The CHOOSE of LastKey picks the last entry with a key, if there is one.
LEMMA LastKeyFacts ==
    ASSUME NEW s, NEW i \in Nat
    PROVE  /\ KeyEntries(s, i) = {} => LastKey(s, i) = NoKey
           /\ \A j \in KeyEntries(s, i) :
                 (\A h \in KeyEntries(s, i) : h <= j) => LastKey(s, i) = s[j].p.key
           /\ KeyEntries(s, i) # {} =>
                 \E j \in KeyEntries(s, i) : \A h \in KeyEntries(s, i) : h <= j
<1> DEFINE at == KeyEntries(s, i)
           last == CHOOSE j \in at : \A h \in at : h <= j
<1>1. LastKey(s, i) = IF at = {} THEN NoKey ELSE s[last].p.key
  BY DEF LastKey, KeyEntries
<1>2. at \subseteq 0 .. i
  BY DEF KeyEntries
<1> HIDE DEF at
<1>3. at # {} => \E j \in at : \A h \in at : h <= j
  BY <1>2, GreatestNumber
<1>4. ASSUME NEW j \in at, \A h \in at : h <= j PROVE last = j
  <2>1. last \in at /\ \A h \in at : h <= last
    BY <1>4
  <2> HIDE DEF last
  <2>2. last <= j /\ j <= last
    BY <1>4, <2>1
  <2>3. last \in Int /\ j \in Int
    <3>1. last \in 0 .. i /\ j \in 0 .. i
      BY <1>2, <2>1
    <3> QED BY <3>1
  <2> QED BY <2>2, <2>3
<1> HIDE DEF last
<1>5. ASSUME NEW j \in at, \A h \in at : h <= j PROVE LastKey(s, i) = s[j].p.key
  BY <1>1, <1>4, <1>5
<1>6. at = {} => LastKey(s, i) = NoKey
  BY <1>1
<1> QED BY <1>3, <1>5, <1>6 DEF at

\* An appended entry changes the key of no entry before it.
LEMMA LastKeyAppend ==
    ASSUME NEW s \in Seq(LogEntry), NEW e \in LogEntry
    PROVE  LET t == Append(s, e)
               n == Len(s) IN
           /\ \A i \in 0 .. n : LastKey(t, i) = LastKey(s, i)
           /\ LastKey(t, n + 1) = IF IsKey(e.p) THEN e.p.key ELSE LastKey(s, n)
<1> DEFINE t == Append(s, e)
           n == Len(s)
<1>1. n \in Nat /\ t[n + 1] = e /\ \A i \in 1 .. n : t[i] = s[i]
  BY LenProperties, AppendProperties
<1> HIDE DEF t, n
<1>2. ASSUME NEW i \in 0 .. n PROVE LastKey(t, i) = LastKey(s, i)
  <2>1. KeyEntries(t, i) = KeyEntries(s, i) /\ i \in Nat
    BY <1>1 DEF KeyEntries
  <2>2. CASE KeyEntries(s, i) = {}
    BY <2>1, <2>2, LastKeyFacts
  <2>3. CASE KeyEntries(s, i) # {}
    <3>1. PICK j \in KeyEntries(s, i) : \A h \in KeyEntries(s, i) : h <= j
      BY <2>1, <2>3, LastKeyFacts
    <3>2. LastKey(s, i) = s[j].p.key
      BY <2>1, <3>1, LastKeyFacts
    <3>3. LastKey(t, i) = t[j].p.key
      BY <2>1, <3>1, LastKeyFacts
    <3>4. t[j] = s[j]
      BY <1>1, <3>1 DEF KeyEntries
    <3> QED BY <3>2, <3>3, <3>4
  <2> QED BY <2>2, <2>3
<1>3. CASE IsKey(e.p)
  <2>1. n + 1 \in KeyEntries(t, n + 1) /\ \A h \in KeyEntries(t, n + 1) : h <= n + 1
    BY <1>1, <1>3 DEF KeyEntries
  <2>2. LastKey(t, n + 1) = t[n + 1].p.key
    BY <1>1, <2>1, LastKeyFacts
  <2> QED BY <1>1, <1>2, <1>3, <2>2 DEF t, n
<1>4. CASE ~IsKey(e.p)
  <2>1. KeyEntries(t, n + 1) = KeyEntries(t, n)
    BY <1>1, <1>4 DEF KeyEntries
  <2>2. LastKey(t, n + 1) = LastKey(t, n)
    <3>1. n + 1 \in Nat
      BY <1>1
    <3>2. CASE KeyEntries(t, n) = {}
      BY <1>1, <2>1, <3>1, <3>2, LastKeyFacts
    <3>3. CASE KeyEntries(t, n) # {}
      <4>1. PICK j \in KeyEntries(t, n) : \A h \in KeyEntries(t, n) : h <= j
        BY <1>1, <3>3, LastKeyFacts
      <4>2. LastKey(t, n) = t[j].p.key
        BY <1>1, <4>1, LastKeyFacts
      <4>3. LastKey(t, n + 1) = t[j].p.key
        BY <2>1, <3>1, <4>1, LastKeyFacts
      <4> QED BY <4>2, <4>3
    <3> QED BY <3>2, <3>3
  <2>3. LastKey(t, n) = LastKey(s, n)
    BY <1>1, <1>2
  <2> QED BY <1>2, <1>4, <2>2, <2>3 DEF t, n
<1> QED BY <1>3, <1>4

\* So what could be read of a log still can be.
LEMMA UndecodableAppend ==
    ASSUME NEW s \in Seq(LogEntry), NEW e \in LogEntry
    PROVE  /\ Undecodable(Append(s, e)) = Undecodable(s) \cup
                 IF IsData(e.p) /\ LastKey(s, Len(s)) \notin e.p.accepts THEN {Len(s) + 1} ELSE {}
           /\ \A i \in Undecodable(s) : Append(s, e)[i] = s[i]
<1> DEFINE t == Append(s, e)
           n == Len(s)
<1>1. /\ n \in Nat /\ DOMAIN s = 1 .. n /\ DOMAIN t = 1 .. n + 1
      /\ t[n + 1] = e /\ \A i \in 1 .. n : t[i] = s[i]
  BY LenProperties, AppendProperties
<1>2. /\ \A i \in 0 .. n : LastKey(t, i) = LastKey(s, i)
      /\ LastKey(t, n + 1) = IF IsKey(e.p) THEN e.p.key ELSE LastKey(s, n)
  BY LastKeyAppend
<1>3. IsData(e.p) => ~IsKey(e.p)
  BY DEF IsData, IsKey, Verified
<1> HIDE DEF t, n
<1>4. ASSUME NEW i \in 1 .. n PROVE i \in Undecodable(t) <=> i \in Undecodable(s)
  BY <1>1, <1>2 DEF Undecodable
<1>5. n + 1 \in Undecodable(t) <=> IsData(e.p) /\ LastKey(s, n) \notin e.p.accepts
  BY <1>1, <1>2, <1>3 DEF Undecodable
<1>6. Undecodable(t) \subseteq 1 .. n + 1 /\ Undecodable(s) \subseteq 1 .. n /\ n + 1 \notin Undecodable(s)
  BY <1>1 DEF Undecodable
<1>7. \A i \in 1 .. n + 1 : i \in 1 .. n \/ i = n + 1
  BY <1>1
<1>8. Undecodable(t) = Undecodable(s) \cup
          IF IsData(e.p) /\ LastKey(s, n) \notin e.p.accepts THEN {n + 1} ELSE {}
  BY <1>4, <1>5, <1>6, <1>7
<1>9. \A i \in Undecodable(s) : t[i] = s[i]
  BY <1>1, <1>6
<1> QED BY <1>8, <1>9 DEF t, n

\* What an entry adds to what the log's reader knows, and cannot read: log t
\* is log s and packet p, if leg l is logged.
Added(s, t, l, out, p) ==
    /\ t \in Seq(LogEntry)
    /\ LastKey(t, Len(t)) = IF l \in LogLegs /\ IsKey(p) THEN p.key ELSE LastKey(s, Len(s))
    /\ Undecodable(t) = Undecodable(s) \cup
          IF l \in LogLegs /\ IsData(p) /\ LastKey(s, Len(s)) \notin p.accepts
          THEN {Len(s) + 1} ELSE {}
    /\ \A i \in Undecodable(s) : t[i] = s[i]
    /\ l \in LogLegs => t[Len(s) + 1] = [leg |-> l, out |-> out, p |-> p]

\* Entry adds to a log what Added says.
LEMMA LogAdds ==
    ASSUME NEW s \in Seq(LogEntry), NEW l \in Leg, NEW out \in BOOLEAN, NEW p \in Wire
    PROVE  Added(s, s \o Entry(l, out, p), l, out, p)
<1> USE DEF Added
<1> DEFINE e == [leg |-> l, out |-> out, p |-> p]
<1>1. CASE l \notin LogLegs
  <2>1. Entry(l, out, p) = <<>>
    BY <1>1 DEF Entry
  <2>2. s \o Entry(l, out, p) = s
    BY <2>1, ConcatEmptySeq
  <2> QED BY <1>1, <2>2
<1>2. CASE l \in LogLegs
  <2>1. e \in LogEntry /\ e.p = p
    BY DEF LogEntry
  <2> HIDE DEF e
  <2>2. Entry(l, out, p) = <<e>>
    BY <1>2 DEF Entry, e
  <2>3. s \o Entry(l, out, p) = Append(s, e)
    BY <2>1, <2>2, AppendIsConcat
  <2>4. Append(s, e) \in Seq(LogEntry) /\ Len(Append(s, e)) = Len(s) + 1 /\ Append(s, e)[Len(s) + 1] = e
    BY <2>1, AppendProperties
  <2>5. LastKey(Append(s, e), Len(s) + 1) = IF IsKey(p) THEN p.key ELSE LastKey(s, Len(s))
    BY <2>1, LastKeyAppend
  <2>6. /\ Undecodable(Append(s, e)) = Undecodable(s) \cup
              IF IsData(p) /\ LastKey(s, Len(s)) \notin p.accepts THEN {Len(s) + 1} ELSE {}
        /\ \A i \in Undecodable(s) : Append(s, e)[i] = s[i]
    BY <2>1, UndecodableAppend
  <2> QED BY <1>2, <2>3, <2>4, <2>5, <2>6 DEF e
<1> QED BY <1>1, <1>2
\* The packet handled, as OnEvent logs it,
LEMMA LogRawAdds ==
    ASSUME TypeOK, NEW l \in Leg, Handling(l)
    PROVE  Added(log, log \o LogRaw(l), l, FALSE, AtFront(l))
<1>1. AtFront(l) \in Wire
  BY FrontFacts
<1>2. log \in Seq(LogEntry) /\ FALSE \in BOOLEAN
  BY DEF TypeOK, LogEntry
<1>3. \A p \in Wire : Added(log, log \o Entry(l, FALSE, p), l, FALSE, p)
  BY <1>2, LogAdds
<1> QED BY <1>1, <1>3 DEF LogRaw

\* and the packet written, as OnRemoteNewKey and SendPacket log it.
LEMMA LogEntryAdds ==
    ASSUME NEW s \in Seq(LogEntry)
    PROVE  \A l \in Leg, p \in Wire : Added(s, s \o Entry(l, TRUE, p), l, TRUE, p)
BY LogAdds


\* A log that gains no entry its reader cannot read keeps its promise.
LEMMA LogGrew ==
    ASSUME LogDecodable, cause # "baddata" => Undecodable(log) = {},
           Undecodable(log') = Undecodable(log),
           \A i \in Undecodable(log) : log'[i] = log[i],
           cause = "baddata" => cause' = "baddata"
    PROVE  LogDecodable' /\ (cause' # "baddata" => Undecodable(log') = {})
BY DEF LogDecodable

\* Every step keeps the log readable, until the client sends a key.
LEMMA LogKept == IInv /\ [Next]_vars => LogInv'
<1> SUFFICES ASSUME IInv, [Next]_vars, Len(peer'["local"].keys) = 0 PROVE LogInv'
  BY DEF LogInv
<1> USE DEF IInv
<1> DEFINE key == conn["remote"].key
           last == LastKey(log, Len(log))
<1>a. "local" \in Leg /\ "remote" \in Leg /\ "local" # "remote"
  BY DEF Leg
<1>b. Len(peer["local"].keys) = 0
  BY <1>a, KeysGrow
<1>c. /\ cause # "baddata" => Undecodable(log) = {}
      /\ LogDecodable
      /\ LogLegs # {} /\ pc # "killed" => last = key
  BY <1>b DEF LogInv
<1>d. \A l \in Leg : conn[l].key = key
  BY <1>b DEF ClientInv, Leg
<1>e. log \in Seq(LogEntry)
  BY DEF TypeOK, LogEntry
<1>f. \A l \in Leg : Handling(l) => pc # "killed"
  BY DEF Handling, Leg
<1> HIDE DEF key, last
<1>0. ASSUME log' = log, conn'["remote"].key = key, pc = "killed" => pc' = "killed",
             cause = "baddata" => cause' = "baddata"
      PROVE  LogInv'
  BY <1>c, <1>0, LogGrew DEF LogInv, key, last
<1>1. ASSUME NEW l \in Leg, Handling(l), log' = log \o LogRaw(l),
             ~IsKey(AtFront(l)), IsData(AtFront(l)) => key \in AtFront(l).accepts,
             conn'["remote"].key = key \/ pc' = "killed", cause = "baddata" => cause' = "baddata"
      PROVE  LogInv'
  <2>1. AtFront(l) \in Wire
    BY <1>1, FrontFacts
  <2>2. /\ LastKey(log', Len(log')) = last
        /\ Undecodable(log') = Undecodable(log) \cup
              IF l \in LogLegs /\ IsData(AtFront(l)) /\ last \notin AtFront(l).accepts
              THEN {Len(log) + 1} ELSE {}
        /\ \A i \in Undecodable(log) : log'[i] = log[i]
    <3>1. Added(log, log', l, FALSE, AtFront(l))
      BY <1>1, LogRawAdds
    <3> QED BY <1>1, <3>1 DEF Added, last
  <2>3. Undecodable(log') = Undecodable(log)
    BY <1>c, <1>f, <1>1, <2>2
  <2> QED BY <1>c, <1>f, <1>1, <2>2, <2>3, LogGrew DEF LogInv
<1>2. ASSUME NEW l \in Leg, Handling(l), ~IsKey(AtFront(l)),
             IsData(AtFront(l)) => key \in AtFront(l).accepts,
             NEW to \in Leg, NEW p \in Wire, ~IsKey(p), IsData(p) => key \in p.accepts,
             log' = (log \o LogRaw(l)) \o Entry(to, TRUE, p),
             conn'["remote"].key = key, cause' = cause
      PROVE  LogInv'
  <2> DEFINE s == log \o LogRaw(l)
  <2>1. AtFront(l) \in Wire
    BY <1>2, FrontFacts
  <2>2. /\ s \in Seq(LogEntry) /\ LastKey(s, Len(s)) = last
        /\ Undecodable(s) = Undecodable(log) \cup
              IF l \in LogLegs /\ IsData(AtFront(l)) /\ last \notin AtFront(l).accepts
              THEN {Len(log) + 1} ELSE {}
        /\ \A i \in Undecodable(log) : s[i] = log[i]
    <3>1. Added(log, s, l, FALSE, AtFront(l))
      BY <1>2, LogRawAdds
    <3> QED BY <1>2, <3>1 DEF Added, last
  <2>3. Undecodable(s) = Undecodable(log)
    BY <1>c, <1>f, <1>2, <2>2
  <2> HIDE DEF s
  <2>4. /\ LastKey(log', Len(log')) = last
        /\ Undecodable(log') = Undecodable(s) \cup
              IF to \in LogLegs /\ IsData(p) /\ last \notin p.accepts THEN {Len(s) + 1} ELSE {}
        /\ \A i \in Undecodable(s) : log'[i] = s[i]
    <3>1. log' = s \o Entry(to, TRUE, p)
      BY <1>2 DEF s
    <3>2. Added(s, log', to, TRUE, p)
      BY <1>2, <2>2, <3>1, LogEntryAdds
    <3> QED BY <1>2, <2>2, <3>2 DEF Added
  <2>5. Undecodable(log') = Undecodable(log) /\ \A i \in Undecodable(log) : log'[i] = log[i]
    BY <1>c, <1>f, <1>2, <2>2, <2>3, <2>4
  <2> QED BY <1>c, <1>f, <1>2, <2>4, <2>5, LogGrew DEF LogInv
<1>4. CASE Quiet
  BY <1>0, <1>4 DEF Quiet, key
<1>5. ASSUME NEW l \in Leg, NEW why \in {"peer", "noreply", "baddata"}, GivesUp(l, why) PROVE LogInv'
  <2>1. conn' = conn /\ cause' = (IF cause = "none" THEN why ELSE cause) /\ pc # "killed"
    BY <1>5 DEF GivesUp
  <2>2. CASE why = "peer"
    BY <1>0, <1>5, <2>1, <2>2 DEF GivesUp, key
  <2>3. CASE why = "noreply"
    <3>1. Handling(l) /\ IsKeepalive(AtFront(l)) /\ log' = log \o LogRaw(l)
      BY <1>5, <2>3 DEF GivesUp
    <3>2. ~IsKey(AtFront(l)) /\ ~IsData(AtFront(l))
      BY <3>1 DEF IsKeepalive, IsKey, IsData, Verified
    <3> QED BY <1>1, <2>1, <3>1, <3>2 DEF key
  <2>4. CASE why = "baddata"
    <3>1. /\ Handling(l) /\ IsData(AtFront(l)) /\ conn[l].haveKey
          /\ key \notin AtFront(l).accepts /\ log' = log \o LogRaw(l)
      BY <1>d, <1>5, <2>4 DEF GivesUp
    <3>2. l = "local"
      BY <3>1, <1>d, BadChecksumIsLocal
    <3>3. cause = "none" /\ cause' = "baddata"
      BY <2>1, <2>4, <3>1, <3>2 DEF LoopInv, Handling
    <3>4. ~IsKey(AtFront(l)) /\ AtFront(l) \in Wire
      BY <3>1, FrontFacts DEF IsKey, IsData, Verified
    <3>5. /\ LastKey(log', Len(log')) = last
          /\ Undecodable(log') = Undecodable(log) \cup
                IF l \in LogLegs /\ last \notin AtFront(l).accepts THEN {Len(log) + 1} ELSE {}
          /\ l \in LogLegs => log'[Len(log) + 1] = [leg |-> l, out |-> FALSE, p |-> AtFront(l)]
      <4>1. Added(log, log', l, FALSE, AtFront(l))
        BY <3>1, LogRawAdds
      <4> QED BY <3>1, <3>4, <4>1 DEF Added, last
    <3>6. Undecodable(log) = {}
      BY <1>c, <3>3
    <3>7. LogDecodable'
      BY <3>2, <3>3, <3>5, <3>6 DEF LogDecodable
    <3> QED BY <1>c, <2>1, <3>3, <3>5, <3>7 DEF LogInv, key
  <2> QED BY <2>2, <2>3, <2>4
<1>6. CASE RemoteKey
  <2> DEFINE k == AtFront("remote").key
             s == log \o LogRaw("remote")
  <2>1. /\ k \in Keys /\ Handling("remote") /\ Consume("remote") /\ IsKey(AtFront("remote"))
        /\ \A m \in Leg : conn'[m].key = k
        /\ log' = s \o Entry("local", TRUE, Table(k))
    BY <1>6, RemoteKeyEffect
  <2>2. Table(k) \in Wire /\ IsKey(Table(k)) /\ ~IsData(Table(k)) /\ Table(k).key = k
    BY <2>1, TableFacts
  <2>3. cause' = cause /\ AtFront("remote") \in Wire /\ ~IsData(AtFront("remote"))
    BY <1>a, <2>1, FrontFacts, ConsumeFrame DEF IsKey, IsData, Verified
  <2>4. /\ s \in Seq(LogEntry)
        /\ LastKey(s, Len(s)) = IF "remote" \in LogLegs THEN k ELSE last
        /\ Undecodable(s) = Undecodable(log) /\ \A i \in Undecodable(log) : s[i] = log[i]
    <3>1. Added(log, s, "remote", FALSE, AtFront("remote"))
      BY <1>a, <2>1, LogRawAdds
    <3> QED BY <2>1, <2>3, <3>1 DEF Added, last
  <2> HIDE DEF s, k
  <2>5. /\ LastKey(log', Len(log')) = IF "local" \in LogLegs THEN k ELSE LastKey(s, Len(s))
        /\ Undecodable(log') = Undecodable(s) /\ \A i \in Undecodable(s) : log'[i] = s[i]
    <3>1. Added(s, log', "local", TRUE, Table(k))
      <4>1. log' = s \o Entry("local", TRUE, Table(k))
        BY <2>1
      <4> QED BY <1>a, <2>2, <2>4, <4>1, LogEntryAdds
    <3> QED BY <2>2, <3>1 DEF Added
  <2>6. LogLegs # {} => LastKey(log', Len(log')) = k
    BY <2>4, <2>5, SessionAssumption DEF Leg
  <2>7. Undecodable(log') = Undecodable(log) /\ \A i \in Undecodable(log) : log'[i] = log[i]
    BY <2>4, <2>5
  <2> QED BY <1>a, <1>c, <2>1, <2>3, <2>6, <2>7, LogGrew DEF LogInv
<1>7. CASE LocalKey
  <2>1. Handling("local") /\ IsKey(AtFront("local"))
    BY <1>7, LocalKeyEffect
  <2>2. AtFront("local") \in Range(Pending("local"))
    BY <1>a, <2>1, FrontFacts
  <2> QED BY <1>b, <2>1, <2>2 DEF ClientInv
<1>8. CASE Close
  BY <1>0, <1>8, CloseEffect DEF key
<1>9. ASSUME NEW l \in Leg, Drop(l) PROVE LogInv'
  BY <1>1, <1>9, DropEffect, DroppedIsPlain, ConsumeFrame DEF key
<1>10. ASSUME NEW l \in Leg, Forward(l) PROVE LogInv'
  <2> DEFINE to == Other(l)
             p == Sealed(conn[to].key, conn[to].seq, AtFront(l).body)
  <2>1. /\ Handling(l) /\ Consume(l) /\ IsData(AtFront(l)) /\ p \in Wire
        /\ AtFront(l).accepts = {conn[l].key}
        /\ conn'[l] = conn[l] /\ conn'[to].key = conn[to].key
        /\ log' = (log \o LogRaw(l)) \o Entry(to, TRUE, p)
    BY <1>10, ForwardEffect
  <2>2. ~IsKey(p) /\ p.accepts = {conn[to].key} /\ ~IsKey(AtFront(l))
    BY <2>1, ForwardedPacket DEF IsKey, IsData, Verified
  <2>3. to \in Leg /\ \A m \in Leg : m # l => m = to
    BY OtherLeg
  <2>4. conn'["remote"].key = key /\ cause' = cause
    BY <1>a, <2>1, <2>3, ConsumeFrame DEF key
  <2> HIDE DEF p, to
  <2>5. key \in p.accepts /\ key \in AtFront(l).accepts
    BY <1>d, <2>1, <2>2, <2>3
  <2> QED BY <1>2, <2>1, <2>2, <2>3, <2>4, <2>5
<1>11. ASSUME NEW l \in Leg, Replies(l) PROVE LogInv'
  <2>1. ~IsKey(AtFront(l)) /\ ~IsData(AtFront(l))
    BY <1>11 DEF Replies, IsKeepalive, IsKey, IsData, Verified
  <2>2. /\ Handling(l) /\ log' = log \o LogRaw(l) /\ cause' = cause /\ conn' = conn
    BY <1>11, ConsumeFrame DEF Replies
  <2> QED BY <1>1, <2>1, <2>2 DEF key
<1>12. ASSUME NEW l \in Leg, BrokenPipe(l) PROVE LogInv'
  <2>1. /\ Handling(l) /\ cause' = cause /\ log' = log \o LogRaw(l) /\ pc' = "killed"
        /\ AtFront(l) \in Wire /\ (IsData(AtFront(l)) => key \in AtFront(l).accepts)
    BY <1>d, <1>12, BrokenPipeEffect, FrontFacts
  <2>2. CASE ~IsKey(AtFront(l))
    BY <1>1, <2>1, <2>2
  <2>3. CASE IsKey(AtFront(l))
    <3>1. ~IsData(AtFront(l))
      BY <2>3 DEF IsKey, IsData, Verified
    <3>2. Undecodable(log') = Undecodable(log) /\ \A i \in Undecodable(log) : log'[i] = log[i]
      <4>1. Added(log, log', l, FALSE, AtFront(l))
        BY <2>1, LogRawAdds
      <4> QED BY <3>1, <4>1 DEF Added
    <3> QED BY <1>c, <2>1, <3>2, LogGrew DEF LogInv
  <2> QED BY <2>2, <2>3
<1>13. ASSUME NEW l \in Leg, Peer(l) PROVE LogInv'
  <2>1. UNCHANGED <<conn, log, cause, pc>>
    BY <1>13, ReadFrame, SendFrame, SentIsWellFormed
  <2> QED BY <1>0, <2>1 DEF key
<1> QED BY <1>4, <1>5, <1>6, <1>7, <1>8, <1>9, <1>10, <1>11, <1>12, <1>13, StepShapes

-----------------------------------------------------------------------------
(* Why a session ends.                                                     *)

-----------------------------------------------------------------------------
(* Which of the server's keys a packet was sealed with.                    *)

\* The keys known so far are known later, and a later key is known then.
LEMMA KeysToFacts ==
    ASSUME NEW K \in Seq(Keys), NEW t \in 0 .. Len(K)
    PROVE  /\ Len(K) \in Nat
           /\ KeyAt(K, t) \in KeysTo(K, t) /\ NoKey \in KeysTo(K, t) /\ KeyAt(K, 0) = NoKey
           /\ \A i \in 1 .. Len(K) : KeyAt(K, i) = K[i] /\ K[i] \in Keys
           /\ \A u \in t .. Len(K) : KeysTo(K, t) \subseteq KeysTo(K, u)
<1>1. Len(K) \in Nat /\ \A i \in 1 .. Len(K) : K[i] \in Keys
  BY LenProperties, ElementOfSeq
<1>2. \A i \in 1 .. Len(K) : KeyAt(K, i) = K[i]
  BY <1>1 DEF KeyAt
<1>3. KeyAt(K, 0) = NoKey
  BY DEF KeyAt
<1>4. 0 \in 0 .. t /\ t \in 0 .. t
  BY <1>1
<1>5. KeyAt(K, t) \in KeysTo(K, t) /\ KeyAt(K, 0) \in KeysTo(K, t)
  BY <1>4 DEF KeysTo
<1>6. \A u \in t .. Len(K) : KeysTo(K, t) \subseteq KeysTo(K, u)
  BY <1>1 DEF KeysTo
<1> QED BY <1>1, <1>2, <1>3, <1>5, <1>6

\* A key that is handed out changes nothing about the earlier ones.
LEMMA KeysHandedOut ==
    ASSUME NEW K \in Seq(Keys), NEW k \in Keys
    PROVE  LET L == Append(K, k) IN
           /\ L \in Seq(Keys) /\ Len(L) = Len(K) + 1 /\ Len(K) \in Nat
           /\ Range(K) \subseteq Range(L) /\ k \in Range(L)
           /\ KeyAt(L, Len(L)) = k
           /\ \A i \in 0 .. Len(K) : KeyAt(L, i) = KeyAt(K, i) /\ KeysTo(L, i) = KeysTo(K, i)
           /\ OrderStep(K) \subseteq OrderStep(L)
<1> DEFINE L == Append(K, k)
<1>1. /\ L \in Seq(Keys) /\ Len(L) = Len(K) + 1 /\ Len(K) \in Nat /\ L[Len(K) + 1] = k
      /\ \A i \in 1 .. Len(K) : L[i] = K[i]
  BY LenProperties, AppendProperties
<1>2. Range(L) = Range(K) \cup {k}
  BY RangeAppend
<1> HIDE DEF L
<1>3. KeyAt(L, Len(L)) = k
  BY <1>1 DEF KeyAt
<1>4. \A i \in 0 .. Len(K) : KeyAt(L, i) = KeyAt(K, i)
  BY <1>1 DEF KeyAt
<1>5. ASSUME NEW i \in 0 .. Len(K) PROVE KeysTo(L, i) = KeysTo(K, i)
  <2>1. \A j \in 0 .. i : KeyAt(L, j) = KeyAt(K, j)
    BY <1>1, <1>4
  <2> QED BY <2>1 DEF KeysTo
<1>6. ASSUME NEW s \in OrderStep(K) PROVE s \in OrderStep(L)
  <2>1. /\ s \in (0 .. Len(K)) \X Wire \X (0 .. Len(K))
        /\ s[3] = IF IsKey(s[2]) THEN s[1] + 1 ELSE s[1]
        /\ IsKey(s[2]) => s[2].key = KeyAt(K, s[3])
    BY DEF OrderStep
  <2>2. s \in (0 .. Len(L)) \X Wire \X (0 .. Len(L))
    BY <1>1, <2>1
  <2>3. s[3] \in 0 .. Len(K)
    BY <2>1
  <2> QED BY <1>4, <2>1, <2>2, <2>3 DEF OrderStep
<1> QED BY <1>1, <1>2, <1>3, <1>4, <1>5, <1>6 DEF L

\* The server's stream carries its keys in the order it handed them out.
LEMMA OrderTaken ==
    ASSUME TypeOK, LoopInv, NEW t, OrderAt(t), Handling("remote")
    PROVE  LET K == peer["remote"].keys
               p == AtFront("remote")
               u == IF IsKey(p) THEN t + 1 ELSE t IN
           /\ u \in t .. Len(K) /\ u \in 0 .. Len(K)
           /\ IsKey(p) => p.key = KeyAt(K, u)
           /\ Leads(0 .. Len(K), OrderStep(K), Tail(Pending("remote")), u, Len(K))
<1> DEFINE K == peer["remote"].keys
           p == AtFront("remote")
           q == Pending("remote")
<1>1. "remote" \in Leg
  BY DEF Leg
<1>2. t \in 0 .. Len(K) /\ Leads(0 .. Len(K), OrderStep(K), q, t, Len(K))
  BY <1>1, HandlingIsNotGone DEF OrderAt
<1>3. q \in Seq(Wire) /\ q # <<>> /\ Head(q) = p
  BY <1>1, PendingTyped, FrontFacts
<1>4. K \in Seq(Keys)
  BY <1>1, RecordsTyped DEF PeerState
<1> HIDE DEF K, p, q
<1>5. PICK c \in 0 .. Len(K) : <<t, p, c>> \in OrderStep(K) /\ Leads(0 .. Len(K), OrderStep(K), Tail(q), c, Len(K))
  BY <1>2, <1>3, LeadsTail
<1>6. c = (IF IsKey(p) THEN t + 1 ELSE t) /\ (IsKey(p) => p.key = KeyAt(K, c))
  BY <1>5 DEF OrderStep
<1>7. c \in t .. Len(K)
  BY <1>2, <1>4, <1>5, <1>6, KeysToFacts
<1> QED BY <1>5, <1>6, <1>7 DEF K, p, q

\* Every step keeps what is known of the order of the keys.
LEMMA OrderKept == IInv /\ [Next]_vars => OrderInv'
<1> SUFFICES ASSUME IInv, [Next]_vars PROVE OrderInv'
  OBVIOUS
<1> USE DEF IInv
<1> DEFINE K == peer["remote"].keys
           own == Range(peer["local"].keys)
<1>a. "local" \in Leg /\ "remote" \in Leg /\ "local" # "remote"
  BY DEF Leg
<1>b. K \in Seq(Keys) /\ peer["local"].keys \in Seq(Keys)
  BY <1>a, RecordsTyped DEF PeerState
<1>c. PICK t : OrderAt(t)
  BY DEF OrderInv
<1>d. /\ t \in 0 .. Len(K) /\ conn["remote"].key = KeyAt(K, t)
      /\ ~Gone("remote") => Leads(0 .. Len(K), OrderStep(K), Pending("remote"), t, Len(K))
      /\ peer["local"].key \in KeysTo(K, t)
      /\ \A p \in Range(fromProxy["local"]) : IsKey(p) => p.key \in KeysTo(K, t)
      /\ \A p \in Range(Pending("local")) : IsData(p) => p.key \in KeysTo(K, t)
  BY <1>c DEF OrderAt
<1>e. /\ \A p \in Range(Pending("local")) : IsKey(p) => p.key \in own
      /\ conn["local"].key = conn["remote"].key \/ conn["local"].key \in own
  BY DEF OrderInv
<1> HIDE DEF K, own
<1>1. ASSUME peer'["remote"].keys = K, Range(peer'["local"].keys) = own,
             NEW u \in t .. Len(K), conn'["remote"].key = KeyAt(K, u),
             ~Gone("remote")' => Leads(0 .. Len(K), OrderStep(K), Pending("remote")', u, Len(K)),
             peer'["local"].key \in KeysTo(K, u),
             \A p \in Range(fromProxy'["local"]) :
                 p \in Range(fromProxy["local"]) \/ (IsKey(p) => p.key \in KeysTo(K, u)),
             \A p \in Range(Pending("local")') :
                 \/ p \in Range(Pending("local"))
                 \/ (IsData(p) => p.key \in KeysTo(K, u)) /\ (IsKey(p) => p.key \in own),
             conn'["local"].key = conn'["remote"].key \/ conn'["local"].key \in own
      PROVE  OrderInv'
  <2>1. u \in 0 .. Len(K) /\ KeysTo(K, t) \subseteq KeysTo(K, u)
    BY <1>b, <1>d, KeysToFacts
  <2>2. \A p \in Range(fromProxy'["local"]) : IsKey(p) => p.key \in KeysTo(K, u)
    BY <1>1, <1>d, <2>1
  <2>3. \A p \in Range(Pending("local")') : (IsData(p) => p.key \in KeysTo(K, u)) /\ (IsKey(p) => p.key \in own)
    BY <1>1, <1>d, <1>e, <2>1
  <2>4. OrderAt(u)'
    BY <1>1, <2>1, <2>2, <2>3 DEF OrderAt
  <2> QED BY <1>1, <2>3, <2>4 DEF OrderInv
<1>2. t \in t .. Len(K) /\ Len(K) \in Nat
  BY <1>b, <1>d, KeysToFacts
<1>3. ASSUME peer' = peer, conn' = conn, Gone("remote") => Gone("remote")',
             ~Gone("remote")' => Pending("remote")' = Pending("remote"),
             Range(Pending("local")') \subseteq Range(Pending("local")),
             Range(fromProxy'["local"]) \subseteq Range(fromProxy["local"])
      PROVE  OrderInv'
  <2>1. ~Gone("remote")' => Leads(0 .. Len(K), OrderStep(K), Pending("remote")', t, Len(K))
    BY <1>3, <1>d
  <2> QED BY <1>1, <1>2, <1>3, <1>d, <1>e, <2>1 DEF K, own
<1>4. ASSUME NEW l \in Leg, Consume(l), Handling(l), ~IsKey(AtFront(l)),
             \A m \in Leg : conn'[m].key = conn[m].key,
             \A p \in Range(fromProxy'["local"]) : p \in Range(fromProxy["local"]) \/ ~IsKey(p)
      PROVE  OrderInv'
  <2>1. /\ Pending(l)' = Tail(Pending(l)) /\ \A m \in Leg : m # l => Pending(m)' = Pending(m)
        /\ Range(Pending("local")') \subseteq Range(Pending("local"))
    BY <1>4, <1>a, ConsumeEffect
  <2>2. peer' = peer /\ (Gone("remote") <=> Gone("remote")')
    BY <1>4, <1>a, ConsumeFrame
  <2>3. ~Gone("remote")' => Leads(0 .. Len(K), OrderStep(K), Pending("remote")', t, Len(K))
    <3>1. CASE l = "remote"
      BY <1>4, <1>c, <2>1, <3>1, OrderTaken DEF K
    <3>2. CASE l # "remote"
      BY <1>a, <1>d, <2>1, <2>2, <3>2
    <3> QED BY <3>1, <3>2
  <2> QED BY <1>1, <1>2, <1>4, <1>a, <1>d, <1>e, <2>1, <2>2, <2>3 DEF K, own
<1>5. ASSUME NEW l \in Leg, Consume(l), Handling(l), ~IsKey(AtFront(l)),
             \A m \in Leg : conn'[m].key = conn[m].key,
             NEW to \in Leg, NEW p \in Wire, ~IsKey(p), Write(to, p)
      PROVE  OrderInv'
  <2>1. \A m \in Leg : \A q \in Range(fromProxy'[m]) : q \in Range(fromProxy[m]) \/ ~IsKey(q)
    BY <1>5, WriteEffect
  <2> QED BY <1>4, <1>5, <1>a, <2>1
<1>6. CASE Quiet
  BY <1>3, <1>6, <1>a DEF Quiet
<1>7. ASSUME NEW l \in Leg, NEW why \in {"peer", "noreply", "baddata"}, GivesUp(l, why) PROVE OrderInv'
  <2>1. ~Gone("remote")' => Pending("remote")' = Pending("remote")
    BY <1>7, <1>a DEF GivesUp
  <2> QED BY <1>3, <1>7, <1>a, <2>1 DEF GivesUp
<1>8. CASE RemoteKey
  <2> DEFINE k == AtFront("remote").key
  <2>1. /\ k \in Keys /\ Handling("remote") /\ Consume("remote") /\ IsKey(AtFront("remote"))
        /\ Write("local", Table(k)) /\ \A m \in Leg : conn'[m].key = k
    BY <1>8, RemoteKeyEffect
  <2>2. /\ t + 1 \in t .. Len(K) /\ t + 1 \in 0 .. Len(K) /\ k = KeyAt(K, t + 1)
        /\ Leads(0 .. Len(K), OrderStep(K), Tail(Pending("remote")), t + 1, Len(K))
    BY <1>c, <2>1, OrderTaken DEF K
  <2>3. /\ Pending("remote")' = Tail(Pending("remote")) /\ Pending("local")' = Pending("local")
        /\ peer' = peer
    BY <1>a, <2>1, ConsumeEffect, ConsumeFrame
  <2>4. /\ Table(k) \in Wire /\ Table(k).key = k /\ k \in KeysTo(K, t + 1)
        /\ KeysTo(K, t) \subseteq KeysTo(K, t + 1)
    BY <1>b, <1>d, <2>1, <2>2, TableFacts, KeysToFacts
  <2> HIDE DEF k
  <2>5. \A q \in Range(fromProxy'["local"]) : q \in Range(fromProxy["local"]) \/ q = Table(k)
    BY <1>a, <2>1, <2>4, WriteEffect
  <2>6. peer'["remote"].keys = K /\ Range(peer'["local"].keys) = own /\ peer'["local"].key \in KeysTo(K, t + 1)
    BY <1>d, <2>3, <2>4 DEF K, own
  <2>7. conn'["remote"].key = KeyAt(K, t + 1) /\ conn'["local"].key = conn'["remote"].key
    BY <1>a, <2>1, <2>2
  <2>8. \A q \in Range(fromProxy'["local"]) :
            q \in Range(fromProxy["local"]) \/ (IsKey(q) => q.key \in KeysTo(K, t + 1))
    BY <2>4, <2>5
  <2> QED BY <1>1, <2>2, <2>3, <2>6, <2>7, <2>8
<1>9. CASE LocalKey
  <2> DEFINE k == AtFront("local").key
  <2>1. /\ k \in Keys /\ Handling("local") /\ Consume("local") /\ IsKey(AtFront("local"))
        /\ conn'["local"].key = k /\ conn'["remote"] = conn["remote"] /\ fromProxy' = fromProxy
    BY <1>9, LocalKeyEffect
  <2>2. k \in own
    BY <1>a, <1>e, <2>1, FrontFacts
  <2>3. /\ Range(Pending("local")') \subseteq Range(Pending("local")) /\ Pending("remote")' = Pending("remote")
        /\ peer' = peer /\ (Gone("remote") <=> Gone("remote")')
    BY <1>a, <2>1, ConsumeEffect, ConsumeFrame
  <2>4. ~Gone("remote")' => Leads(0 .. Len(K), OrderStep(K), Pending("remote")', t, Len(K))
    BY <1>d, <2>3
  <2> QED BY <1>1, <1>2, <1>d, <2>1, <2>2, <2>3, <2>4 DEF K, own
<1>10. CASE Close
  BY <1>3, <1>10, <1>a, CloseEffect DEF Gone
<1>11. ASSUME NEW l \in Leg, Drop(l) PROVE OrderInv'
  BY <1>4, <1>11, DropEffect
<1>12. ASSUME NEW l \in Leg, Forward(l) PROVE OrderInv'
  <2> DEFINE to == Other(l)
             p == Sealed(conn[to].key, conn[to].seq, AtFront(l).body)
  <2>1. /\ Handling(l) /\ Consume(l) /\ IsData(AtFront(l)) /\ Write(to, p) /\ p \in Wire
        /\ conn'[l] = conn[l] /\ conn'[to].key = conn[to].key
    BY <1>12, ForwardEffect
  <2>2. ~IsKey(p) /\ ~IsKey(AtFront(l))
    BY <2>1, ForwardedPacket DEF IsData, IsKey, Verified
  <2>3. to \in Leg /\ \A m \in Leg : m # l => m = to
    BY OtherLeg
  <2> HIDE DEF p, to
  <2> QED BY <1>5, <2>1, <2>2, <2>3
<1>13. ASSUME NEW l \in Leg, Replies(l) PROVE OrderInv'
  <2>1. LET p == Control({"ALIVE_REPLY"}) IN p \in Wire /\ ~IsKey(p)
    BY ControlFacts
  <2>2. ~IsKey(AtFront(l))
    BY <1>13 DEF Replies, IsKeepalive, IsKey, Verified
  <2> QED BY <1>5, <1>13, <2>1, <2>2 DEF Replies
<1>14. ASSUME NEW l \in Leg, BrokenPipe(l) PROVE OrderInv'
  BY <1>3, <1>14, <1>a, BrokenPipeEffect
<1>15. ASSUME NEW l \in Leg, Peer(l) PROVE OrderInv'
  <2>1. ASSUME NEW p \in Wire, Send(l, p), \A m \in Leg : m # l => peer'[m] = peer[m],
               peer'[l].keys = peer[l].keys, ~IsKey(p), peer'[l].key = peer[l].key,
               IsData(p) => p.key = peer[l].key
        PROVE  OrderInv'
    <3>1. /\ Pending(l)' = Append(Pending(l), p) /\ Range(Pending(l)') = Range(Pending(l)) \cup {p}
          /\ \A m \in Leg : m # l => Pending(m)' = Pending(m)
          /\ conn' = conn /\ fromProxy' = fromProxy /\ (Gone("remote") <=> Gone("remote")')
      BY <1>a, <2>1, SendEffect, SendFrame
    <3>2. peer'["remote"].keys = K /\ Range(peer'["local"].keys) = own /\ peer'["local"].key = peer["local"].key
      BY <1>a, <2>1 DEF K, own
    <3>3. ~Gone("remote")' => Leads(0 .. Len(K), OrderStep(K), Pending("remote")', t, Len(K))
      <4>1. CASE l = "remote"
        <5>1. <<Len(K), p, Len(K)>> \in OrderStep(K) /\ Len(K) \in 0 .. Len(K)
          BY <1>2, <2>1 DEF OrderStep
        <5>2. Pending(l) \in Seq(Wire)
          BY PendingTyped
        <5> QED BY <1>d, <3>1, <4>1, <5>1, <5>2, LeadsAppend
      <4>2. CASE l # "remote"
        BY <1>a, <1>d, <3>1, <4>2
      <4> QED BY <4>1, <4>2
    <3>4. \A q \in Range(Pending("local")') :
              \/ q \in Range(Pending("local"))
              \/ (IsData(q) => q.key \in KeysTo(K, t)) /\ (IsKey(q) => q.key \in own)
      BY <1>a, <1>d, <2>1, <3>1
    <3> QED BY <1>1, <1>2, <1>d, <1>e, <3>1, <3>2, <3>3, <3>4
  <2>2. ASSUME NEW k \in Keys, PeerSendsKey(l, k) PROVE OrderInv'
    <3>1. /\ Send(l, Table(k)) /\ Table(k) \in Wire /\ IsKey(Table(k)) /\ ~IsData(Table(k)) /\ Table(k).key = k
          /\ \A m \in Leg : m # l => peer'[m] = peer[m]
          /\ peer'[l].keys = Append(peer[l].keys, k)
          /\ l = "local" => peer'[l].key = peer[l].key
      BY <2>2, PeerSendsKeyEffect, TableFacts
    <3>2. /\ Pending(l)' = Append(Pending(l), Table(k)) /\ Range(Pending(l)') = Range(Pending(l)) \cup {Table(k)}
          /\ \A m \in Leg : m # l => Pending(m)' = Pending(m)
          /\ conn' = conn /\ fromProxy' = fromProxy /\ (Gone("remote") <=> Gone("remote")')
      BY <1>a, <3>1, SendEffect, SendFrame
    <3>3. CASE l = "local"
      <4>1. /\ Range(peer'["local"].keys) = own \cup {k}
            /\ peer'["remote"].keys = K /\ peer'["local"].key = peer["local"].key
        <5>1. Range(Append(peer["local"].keys, k)) = Range(peer["local"].keys) \cup {k}
          BY <1>b, RangeAppend
        <5> QED BY <1>a, <3>1, <3>3, <5>1 DEF own, K
      <4>2. Pending("remote")' = Pending("remote") /\ Range(Pending("local")') = Range(Pending("local")) \cup {Table(k)}
        BY <1>a, <3>2, <3>3
      <4>3. OrderAt(t)'
        BY <1>d, <3>1, <3>2, <4>1, <4>2 DEF OrderAt
      <4>4. \A p \in Range(Pending("local")') : IsKey(p) => p.key \in own \cup {k}
        BY <1>e, <3>1, <4>2
      <4>5. conn'["local"].key = conn'["remote"].key \/ conn'["local"].key \in own \cup {k}
        BY <1>e, <3>2
      <4> QED BY <4>1, <4>3, <4>4, <4>5 DEF OrderInv
    <3>4. CASE l = "remote"
      <4> DEFINE L == Append(K, k)
      <4>1. /\ peer'["remote"].keys = L /\ peer'["local"] = peer["local"]
            /\ Pending("local")' = Pending("local")
            /\ Pending("remote")' = Append(Pending("remote"), Table(k)) /\ Pending("remote") \in Seq(Wire)
        BY <1>a, <3>1, <3>2, <3>4, PendingTyped DEF K
      <4>2. /\ Len(L) = Len(K) + 1 /\ Len(K) \in Nat /\ KeyAt(L, Len(L)) = k
            /\ \A i \in 0 .. Len(K) : KeyAt(L, i) = KeyAt(K, i) /\ KeysTo(L, i) = KeysTo(K, i)
            /\ OrderStep(K) \subseteq OrderStep(L)
        BY <1>b, KeysHandedOut
      <4> HIDE DEF L
      <4>3. ~Gone("remote")' => Leads(0 .. Len(L), OrderStep(L), Pending("remote")', t, Len(L))
        <5>1. SUFFICES ASSUME ~Gone("remote")
                       PROVE  Leads(0 .. Len(L), OrderStep(L), Append(Pending("remote"), Table(k)), t, Len(L))
          BY <3>2, <4>1
        <5>2. 0 .. Len(K) \subseteq 0 .. Len(L)
          BY <4>2
        <5>3. Leads(0 .. Len(L), OrderStep(L), Pending("remote"), t, Len(K))
          BY <1>d, <4>2, <5>1, <5>2, LeadsMore
        <5>4. <<Len(K), Table(k), Len(L)>> \in OrderStep(L) /\ Len(L) \in 0 .. Len(L)
          BY <3>1, <4>2 DEF OrderStep
        <5> QED BY <3>1, <4>1, <5>3, <5>4, LeadsAppend
      <4>4. t \in 0 .. Len(L) /\ KeyAt(L, t) = KeyAt(K, t) /\ KeysTo(L, t) = KeysTo(K, t)
        BY <1>d, <4>2
      <4>5. OrderAt(t)'
        BY <1>d, <3>2, <4>1, <4>3, <4>4 DEF OrderAt
      <4> QED BY <1>e, <3>2, <4>1, <4>5 DEF OrderInv, own
    <3> QED BY <3>3, <3>4 DEF Leg
  <2>3. CASE PeerSendsData(l)
    <3> DEFINE n == peer[l].data + 1
               p == Sealed(peer[l].key, n, n)
    <3>1. /\ n \in 1 .. MaxData /\ peer[l].key \in Keys /\ Send(l, p) /\ p \in Wire
          /\ \A m \in Leg : m # l => peer'[m] = peer[m]
          /\ peer'[l].key = peer[l].key /\ peer'[l].keys = peer[l].keys
      BY <2>3, PeerSendsDataEffect
    <3>2. ~IsKey(p) /\ p.key = peer[l].key
      BY <3>1, SealedFacts DEF KeyState
    <3> HIDE DEF p
    <3> QED BY <2>1, <3>1, <3>2
  <2>4. CASE PeerSendsAlive(l)
    BY <2>1, <2>4, PeerSendsAliveEffect, ControlFacts
  <2>5. CASE PeerSendsPlain(l)
    BY <2>1, <2>5, PeerSendsPlainEffect, ControlFacts
  <2>6. ASSUME PeerReads(l) \/ PeerCloses(l),
               Range(fromProxy'[l]) \subseteq Range(fromProxy[l]),
               \A m \in Leg : m # l => peer'[m] = peer[m] /\ fromProxy'[m] = fromProxy[m],
               peer'[l].keys = peer[l].keys,
               l = "local" => peer'[l].key \in KeysTo(K, t)
        PROVE  OrderInv'
    <3>1. conn' = conn /\ \A m \in Leg : (Gone(m) <=> Gone(m)') /\ Pending(m)' = Pending(m)
      BY <2>6, ReadFrame
    <3>2. /\ peer'["remote"].keys = K /\ Range(peer'["local"].keys) = own
          /\ peer'["local"].key \in KeysTo(K, t)
          /\ Range(fromProxy'["local"]) \subseteq Range(fromProxy["local"])
      BY <1>a, <1>d, <2>6 DEF K, own
    <3>3. ~Gone("remote")' => Leads(0 .. Len(K), OrderStep(K), Pending("remote")', t, Len(K))
      BY <1>a, <1>d, <3>1
    <3> QED BY <1>1, <1>2, <1>a, <1>d, <1>e, <3>1, <3>2, <3>3
  <2>7. CASE PeerReads(l)
    <3> DEFINE p == Head(fromProxy[l])
    <3>1. /\ p \in Range(fromProxy[l]) /\ Range(fromProxy'[l]) \subseteq Range(fromProxy[l])
          /\ \A m \in Leg : m # l => peer'[m] = peer[m] /\ fromProxy'[m] = fromProxy[m]
          /\ peer'[l].key = IF IsKey(p) THEN p.key ELSE peer[l].key
          /\ peer'[l].keys = peer[l].keys
      BY <2>7, PeerReadsEffect
    <3>2. l = "local" => peer'[l].key \in KeysTo(K, t)
      BY <1>d, <3>1
    <3> QED BY <2>6, <2>7, <3>1, <3>2
  <2>8. CASE PeerCloses(l)
    <3>1. Range(<<>>) \subseteq {}
      BY DEF Range
    <3> QED BY <1>d, <2>6, <2>8, <3>1, PeerClosesEffect
  <2> QED BY <1>15, <2>2, <2>3, <2>4, <2>5, <2>7, <2>8 DEF Peer
<1> QED BY <1>6, <1>7, <1>8, <1>9, <1>10, <1>11, <1>12, <1>13, <1>14, <1>15, StepShapes

\* A packet that does not verify is the client's, sealed with a key of the
\* server's that was replaced, or with the server's after the client's own.
LEMMA WhyBadChecksum ==
    ASSUME IInv, NEW l \in Leg, Handling(l), IsData(AtFront(l)), conn[l].haveKey,
           conn[l].key \notin AtFront(l).accepts
    PROVE  l = "local" /\ (CrossedKeyChange(AtFront(l)) \/ FollowsOwnKey(AtFront(l)))
<1> USE DEF IInv
<1> DEFINE K == peer["remote"].keys
           own == peer["local"].keys
           p == AtFront(l)
<1>1. l = "local"
  BY BadChecksumIsLocal
<1>2. "local" \in Leg /\ "remote" \in Leg
  BY DEF Leg
<1>3. K \in Seq(Keys) /\ own \in Seq(Keys) /\ DOMAIN K = 1 .. Len(K)
  BY <1>2, RecordsTyped, LenProperties DEF PeerState
<1>4. p \in Range(Pending(l)) /\ p.accepts = {p.key} /\ p.key \in Keys
  BY FrontFacts, FrontIsWellFormed DEF WellFormed
<1>5. conn["local"].key \in Keys /\ conn["local"].key # p.key /\ NoKey \notin Keys
  BY <1>1, <1>2, <1>4, KeyAssumption DEF KeyInv, HasKey
<1>6. PICK t : OrderAt(t)
  BY DEF OrderInv
<1>7. /\ t \in 0 .. Len(K) /\ conn["remote"].key = KeyAt(K, t) /\ p.key \in KeysTo(K, t)
      /\ conn["local"].key = conn["remote"].key \/ conn["local"].key \in Range(own)
  BY <1>1, <1>4, <1>6 DEF OrderAt, OrderInv
<1> HIDE DEF K, own, p
<1>8. PICK i \in 0 .. t : p.key = KeyAt(K, i)
  BY <1>7 DEF KeysTo
<1>9. i \in 1 .. Len(K) /\ i \in DOMAIN K /\ p.key = K[i]
  <2>1. i # 0
    BY <1>3, <1>4, <1>5, <1>7, <1>8, KeysToFacts
  <2> QED BY <1>3, <1>7, <1>8, <2>1, KeysToFacts
<1>10. CASE conn["local"].key = conn["remote"].key
  <2>1. t # i /\ t \in 1 .. Len(K) /\ i < t
    BY <1>3, <1>5, <1>7, <1>8, <1>9, <1>10, KeysToFacts
  <2>2. t \in DOMAIN K /\ conn["local"].key = K[t]
    BY <1>3, <1>7, <1>10, <2>1, KeysToFacts
  <2>3. CrossedKeyChange(p)
    BY <1>9, <2>1, <2>2 DEF CrossedKeyChange, K
  <2> QED BY <1>1, <2>3 DEF p
<1>11. CASE conn["local"].key # conn["remote"].key
  <2>1. \E j \in DOMAIN own : own[j] = conn["local"].key
    BY <1>7, <1>11 DEF Range
  <2>2. FollowsOwnKey(p)
    BY <1>9, <1>11, <2>1 DEF FollowsOwnKey, K, own
  <2> QED BY <1>1, <2>2 DEF p
<1> QED BY <1>10, <1>11

\* The step that ends a session has one of the reasons allowed.
EndsFor ==
    cause' # cause =>
        IF cause' = "baddata"
        THEN pc = "local" /\ LET p == AtFront("local") IN CrossedKeyChange(p) \/ FollowsOwnKey(p)
        ELSE \E l \in Leg : ~peer[l].open

LEMMA HonestStep == IInv /\ [Next]_vars => EndsFor
<1> SUFFICES ASSUME IInv, [Next]_vars, cause' # cause PROVE EndsFor
  BY DEF EndsFor
<1>1. \E l \in Leg, why \in {"peer", "noreply", "baddata"} : GivesUp(l, why)
  BY StepShapes, RemoteKeyEffect, LocalKeyEffect, CloseEffect, DropEffect, BrokenPipeEffect,
     ConsumeFrame, ReadFrame, SendFrame, SentIsWellFormed
     DEF IInv, Quiet, Replies, Forward, Leg
<1>2. PICK l \in Leg, why \in {"peer", "noreply", "baddata"} : GivesUp(l, why)
  BY <1>1
<1>3. cause' = why
  BY <1>2 DEF GivesUp
<1>4. CASE why # "baddata"
  <2>1. ~peer[l].open
    BY <1>2, <1>4 DEF GivesUp
  <2> QED BY <1>3, <1>4, <2>1 DEF EndsFor
<1>5. CASE why = "baddata"
  <2>1. /\ Handling(l) /\ IsData(AtFront(l)) /\ conn[l].haveKey
        /\ conn[l].key \notin AtFront(l).accepts
    BY <1>2, <1>5 DEF GivesUp
  <2>2. pc = l
    BY <2>1 DEF Handling
  <2> QED BY <1>3, <1>5, <2>1, <2>2, WhyBadChecksum DEF EndsFor
<1> QED BY <1>4, <1>5

-----------------------------------------------------------------------------
(* The theorems.                                                           *)

\* The invariant holds of a session that begins,
LEMMA InitIInv == Init => IInv
<1> SUFFICES ASSUME Init PROVE IInv
  OBVIOUS
<1> USE DEF Init
<1>a. "local" \in Leg /\ "remote" \in Leg /\ NoKey \in KeyState /\ 0 \in Number
  BY SessionAssumption DEF Leg, KeyState, Number
<1>b. \A l \in Leg : Pending(l) = <<>> /\ fromProxy[l] = <<>> /\ Other(l) \in Leg
  BY ConcatEmptySeq, OtherLeg DEF Pending
<1>c. Range(<<>>) = {}
  BY EmptySeq DEF Range
<1>d. \A S, R, q : q \in S => Leads(S, R, <<>>, q, q)
  BY LeadsEmpty
<1>e. MaxData \in Nat /\ \A l \in Leg : conn[l] = [haveKey |-> FALSE, key |-> NoKey, seq |-> 1]
  BY SessionAssumption
<1>f. \A l \in Leg :
        /\ peer[l] = [open |-> TRUE, key |-> NoKey, keys |-> <<>>, data |-> 0,
                      alive |-> 0, plain |-> 0, replies |-> 0, got |-> <<>>]
        /\ peer[l].open /\ peer[l].key = NoKey /\ peer[l].keys = <<>> /\ Len(peer[l].keys) = 0 /\ peer[l].data = 0
        /\ peer[l].alive = 0 /\ peer[l].replies = 0 /\ peer[l].got = <<>>
  OBVIOUS
<1>1. TypeOK
  <2>1. \A l \in Leg : conn[l] \in [haveKey : BOOLEAN, key : Keys \cup {NoKey}, seq : 1 .. MaxData + 1]
    BY <1>e
  <2>2. \A l \in Leg : peer[l] \in [open : BOOLEAN, key : Keys \cup {NoKey},
                         keys : Seq(Keys), data : Nat, alive : Nat, plain : Nat, replies : Nat,
                         got : Seq([body : Nat, seq : Nat])]
    BY <1>f, EmptySeq
  <2>3. \A S : <<>> \in Seq(S)
    BY EmptySeq
  <2> QED BY <2>1, <2>2, <2>3 DEF TypeOK
<1>2. WireInv
  BY <1>b, <1>c DEF WireInv
<1>3. LoopInv
  BY DEF LoopInv
<1>4. NumberInv
  <2>1. \A l \in Leg : NumberIn(l)
    BY <1>a, <1>b, <1>d, <1>e, <1>f DEF NumberIn
  <2>2. \A l \in Leg : NumberOut(l) /\ NumberGot(l)
    <3>1. Len(<<>>) = 0
      BY EmptySeq
    <3> QED BY <1>a, <1>b, <1>d, <1>e, <1>f, <3>1 DEF NumberOut, NumberGot
  <2> QED BY <2>1, <2>2 DEF NumberInv
<1>5. KeyInv
  BY <1>a, <1>b, <1>c, <1>d, <1>e, <1>f, KeyAssumption DEF KeyInv, HasKey, ServerKeys, BeforeKey
<1>6. ClientInv
  BY <1>a, <1>b, <1>c, <1>d, <1>e, <1>f DEF ClientInv, ClientReads, ClientSeesServerStream, InSequence
<1>7. OneKeyInv
  BY <1>a, <1>b, <1>c, <1>e, <1>f DEF OneKeyInv, ServerSeesClientStream, InSequence
<1>8. NoKeyInv
  BY <1>a, <1>b, <1>c, <1>f DEF NoKeyInv
<1>9. RepliesInv
  <2>1. \A l \in Leg : Owed(l, 0)
    BY <1>b, <1>d, <1>f DEF Owed
  <2> QED BY <1>f, <2>1 DEF RepliesInv
<1>10. LogInv
  <2>1. Undecodable(log) = {}
    BY DEF Undecodable
  <2>2. LastKey(log, Len(log)) = NoKey
    BY DEF LastKey
  <2> QED BY <1>a, <1>e, <2>1, <2>2 DEF LogInv, LogDecodable
<1>11. OrderInv
  <2>1. OrderAt(0)
    <3>1. peer["remote"].keys = <<>> /\ Len(<<>>) = 0 /\ 0 \in 0 .. 0
      BY <1>a, <1>f
    <3>2. KeyAt(<<>>, 0) = NoKey /\ NoKey \in KeysTo(<<>>, 0)
      BY DEF KeyAt, KeysTo
    <3> QED BY <1>a, <1>b, <1>c, <1>d, <1>e, <1>f, <3>1, <3>2 DEF OrderAt
  <2> QED BY <1>a, <1>b, <1>c, <1>e, <2>1 DEF OrderInv
<1>12. ~(Len(peer["local"].keys) > 0)
  BY <1>a, <1>f
<1> QED BY <1>1, <1>2, <1>3, <1>4, <1>5, <1>6, <1>7, <1>8, <1>9, <1>10, <1>11, <1>12 DEF IInv

\* Only a client that may do so sends a key.
LEMMA ClientKeysKept ==
    IInv /\ [Next]_vars => (Len(peer'["local"].keys) > 0 => ClientSendsKey)
<1> SUFFICES ASSUME IInv, [Next]_vars PROVE Len(peer'["local"].keys) > 0 => ClientSendsKey
  OBVIOUS
<1> USE DEF IInv
<1>a. "local" \in Leg
  BY DEF Leg
<1>1. CASE peer' = peer
  BY <1>1
<1>2. ASSUME NEW m \in Leg, Peer(m)
      PROVE  \/ peer'["local"] = peer["local"] \/ peer'["local"].keys = peer["local"].keys
             \/ ClientSendsKey
  BY <1>a, <1>2, PeerSendsKeyEffect, PeerSendsDataEffect, PeerSendsAliveEffect, PeerSendsPlainEffect,
     PeerReadsEffect, PeerClosesEffect DEF Peer
<1>3. peer' = peer \/ \E m \in Leg : Peer(m)
  BY StepShapes, RemoteKeyEffect, LocalKeyEffect, CloseEffect, DropEffect, BrokenPipeEffect, ConsumeFrame
     DEF Quiet, GivesUp, Replies, Forward, Leg
<1>4. CASE peer'["local"].keys = peer["local"].keys
  BY <1>4
<1> QED BY <1>1, <1>2, <1>3, <1>4

\* and every step keeps it.
LEMMA NextIInv == IInv /\ [Next]_vars => IInv'
<1> SUFFICES ASSUME IInv, [Next]_vars PROVE IInv'
  OBVIOUS
<1>1. TypeOK' /\ WireInv' /\ LoopInv'
  BY TypeStep, WireStep, LoopStep DEF IInv
<1>2. NumberInv' /\ KeyInv' /\ ClientInv' /\ OneKeyInv' /\ NoKeyInv'
  BY NumberKept, KeyKept, ClientKept, OneKeyKept, NoKeyKept
<1>3. OrderInv' /\ RepliesInv' /\ LogInv'
  BY OrderKept, RepliesKept, LogKept
<1>4. Len(peer'["local"].keys) > 0 => ClientSendsKey
  BY ClientKeysKept
<1> QED BY <1>1, <1>2, <1>3, <1>4 DEF IInv

\* Every state a session of the proxy can reach satisfies the inductive
\* invariant.
THEOREM Inductive == Spec => []IInv
<1>1. Init => IInv
  BY InitIInv
<1>2. IInv /\ [Next]_vars => IInv'
  BY NextIInv
<1> QED BY <1>1, <1>2, PTL DEF Spec

\* A session's state keeps its types; m_Sequence, which SendPacket counts,
\* passes what the opposite peer may send by one at most.
THEOREM TypeCorrect == Spec => []TypeOK
<1>1. IInv => TypeOK
  BY DEF IInv
<1> QED BY <1>1, Inductive, PTL

\* The keepalive replies a peer gets were asked for: OnEvent answers a
\* request once, on its own leg, and forwards nobody else's.
THEOREM NoReplyUnasked == Spec => []RepliesAreOwed
<1>1. IInv => RepliesAreOwed
  BY DEF IInv, RepliesInv, RepliesAreOwed
<1> QED BY <1>1, Inductive, PTL

\* Between peers that keep to the protocol OnEvent returns false only when a
\* peer has left, or on a data packet of the client's that was sealed with a
\* key of the server's which a later one has replaced, or with the server's
\* after the client's own key was taken; never on a packet of the server's.
THEOREM SessionSurvives == Spec => HonestSessionSurvives
<1>1. IInv /\ [Next]_vars => [EndsFor]_vars
  BY HonestStep
<1>2. Spec => [][EndsFor]_vars
  BY <1>1, Inductive, PTL DEF Spec
<1> QED BY <1>2 DEF HonestSessionSurvives, EndsFor

\* What a session promises to a client that sends no key.
SessionPromises == ClientSeesServerStream /\ ServerSeesClientStream /\ KeysAgree /\ LogDecodable

\* The promises follow from the invariant.
LEMMA PromisesFollow == IInv /\ Len(peer["local"].keys) = 0 => SessionPromises
<1> SUFFICES ASSUME IInv, Len(peer["local"].keys) = 0 PROVE SessionPromises
  OBVIOUS
<1>1. ClientSeesServerStream /\ KeysAgree /\ LogDecodable
  BY DEF IInv, ClientInv, LogInv, KeysAgree
<1>2. ServerSeesClientStream
  BY DEF IInv, OneKeyInv, ServerSeesClientStream
<1> QED BY <1>1, <1>2 DEF SessionPromises

\* Until a client has sent a key of its own, which OnEvent stores although
\* OnLocalNewKey says that it will be ignored, a session keeps its promises.
THEOREM PromisedUntilClientKey == Spec => [](Len(peer["local"].keys) = 0 => SessionPromises)
<1>1. IInv => (Len(peer["local"].keys) = 0 => SessionPromises)
  BY PromisesFollow
<1> QED BY <1>1, Inductive, PTL

\* A client that never does leaves them standing.
LEMMA Promised == ~ClientSendsKey => (Spec => []SessionPromises)
<1> SUFFICES ASSUME ~ClientSendsKey PROVE Spec => []SessionPromises
  OBVIOUS
<1>1. IInv => SessionPromises
  <2> SUFFICES ASSUME IInv PROVE Len(peer["local"].keys) = 0
    BY PromisesFollow
  <2>1. Len(peer["local"].keys) \in Nat
    BY RecordsTyped DEF IInv, PeerState, Leg
  <2> QED BY <2>1 DEF IInv
<1> QED BY <1>1, Inductive, PTL

\* A client that sends no key gets the server's packets whole, in order and
\* without gaps, sealed with the key it was told last, whenever and however
\* often the server changes that key: OnRemoteNewKey copies the key before
\* any later packet is sealed, and SendPacket numbers them.
THEOREM ClientStream ==
    ASSUME ~ClientSendsKey PROVE Spec => []ClientSeesServerStream
<1>1. SessionPromises => ClientSeesServerStream
  BY DEF SessionPromises
<1> QED BY <1>1, Promised, PTL

\* The same towards the server, while it has handed out one key at most: a
\* packet the client sealed with an older key ends the session.
THEOREM ServerStream ==
    ASSUME ~ClientSendsKey PROVE Spec => []ServerSeesClientStream
<1>1. SessionPromises => ServerSeesClientStream
  BY DEF SessionPromises
<1> QED BY <1>1, Promised, PTL

\* "The key is used both ways": once the client's leg has a key it is the
\* server leg's (OnRemoteNewKey, CopyKey).
THEOREM OneKeyForBoth ==
    ASSUME ~ClientSendsKey PROVE Spec => []KeysAgree
<1>1. SessionPromises => KeysAgree
  BY DEF SessionPromises
<1> QED BY <1>1, Promised, PTL

\* The log, raw and processed packets of both legs in the order OnEvent and
\* SendPacket write them, can be decoded with one current key, whichever
\* legs are logged, except for the packet that ended the session.
THEOREM LogIsReadable ==
    ASSUME ~ClientSendsKey PROVE Spec => []LogDecodable
<1>1. SessionPromises => LogDecodable
  BY DEF SessionPromises
<1> QED BY <1>1, Promised, PTL

=============================================================================
