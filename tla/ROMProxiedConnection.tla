------------------------ MODULE ROMProxiedConnection ------------------------
(***************************************************************************)
(* One proxied connection: the local leg to the game client, the remote    *)
(* leg to the game server, and the turns the proxy's loop gives the two.   *)
(* Each leg answers whole packets, which ROMConnection is proved to do     *)
(* (theorem Refinement there); the questions asked of a packet are those   *)
(* of ROMPackets.  The client, the server and the kernel's socket buffers  *)
(* are external: they are modelled by what the code expects of them.       *)
(***************************************************************************)
EXTENDS ROMPackets, Sequences

CONSTANTS
    LogLegs,            \* the legs whose traffic is logged: -c local, -s remote
    ClientSendsKey,     \* may the client send a KEY packet of its own?
    MaxData,            \* data packets a peer sends
    MaxKeys,            \* KEY packets a peer sends
    MaxControl,         \* other packets a peer sends: keepalives, or such as
                        \* the proxy drops
    SockCap             \* packets a socket holds in one direction

Leg == {"local", "remote"}
Other(l) == IF l = "local" THEN "remote" ELSE "local"

ASSUME SessionAssumption ==
    /\ LogLegs \subseteq Leg
    /\ ClientSendsKey \in BOOLEAN
    /\ MaxData \in Nat /\ MaxKeys \in Nat /\ MaxControl \in Nat
    /\ SockCap \in Nat \ {0}

VARIABLES
    conn,       \* m_HaveKey, m_Key and m_Sequence of the two ROMConnections
    inbuf,      \* packets read from a leg and not answered yet
    toProxy,    \* packets of a leg's peer in the proxy's receive buffer
    fromProxy,  \* packets written to a leg and not read by its peer
    pc,         \* where the loop stands: a leg is handling its event
    ready,      \* the legs select reported that have not been read yet
    cause,      \* "none", or why an event handler returned false
    log,        \* the packets in the log file
    peer        \* the client (local) and the server (remote)

vars == <<conn, inbuf, toProxy, fromProxy, pc, ready, cause, log, peer>>
proxyVars == <<conn, inbuf, pc, ready, cause, log>>

Table(k) == [length |-> HeaderSize + KeyLength, flags |-> {"KEY", "ENCRYPTED"},
             keynum |-> "fixed", hdrok |-> TRUE, key |-> k,
             accepts |-> {FixedKey}, seq |-> 0, body |-> 0]
Sealed(k, seq, body) ==
            [length |-> HeaderSize, flags |-> {"ENCRYPTED"},
             keynum |-> "table", hdrok |-> TRUE, key |-> k,
             accepts |-> {k}, seq |-> seq, body |-> body]
Control(flags) ==
            [length |-> HeaderSize, flags |-> flags,
             keynum |-> "fixed", hdrok |-> TRUE, key |-> FixedKey,
             accepts |-> {FixedKey}, seq |-> 0, body |-> 0]

Wire == [length : {HeaderSize, HeaderSize + KeyLength}, flags : SUBSET Flag,
         keynum : KeyNum, hdrok : BOOLEAN, key : Keys \cup {FixedKey, NoKey},
         accepts : SUBSET (Keys \cup {FixedKey, NoKey}),
         seq : Nat, body : Nat]

TypeOK ==
    /\ conn \in [Leg -> [haveKey : BOOLEAN, key : Keys \cup {NoKey},
                     seq : 1 .. MaxData + 1]]
    /\ inbuf \in [Leg -> Seq(Wire)]
    /\ toProxy \in [Leg -> Seq(Wire)]
    /\ fromProxy \in [Leg -> Seq(Wire)]
    /\ pc \in Leg \cup {"select", "close", "closed", "killed"}
    /\ ready \subseteq Leg
    /\ cause \in {"none", "peer", "badheader", "baddata", "noreply"}
    /\ log \in Seq([leg : Leg, out : BOOLEAN, p : Wire])
    /\ peer \in [Leg -> [open : BOOLEAN, key : Keys \cup {NoKey},
                         keys : Seq(Keys),
                         data : Nat, alive : Nat, plain : Nat, replies : Nat,
                         got : Seq([body : Nat, seq : Nat])]]

Init ==
    /\ conn = [l \in Leg |-> [haveKey |-> FALSE, key |-> NoKey, seq |-> 1]]
    /\ inbuf = [l \in Leg |-> <<>>]
    /\ toProxy = [l \in Leg |-> <<>>]
    /\ fromProxy = [l \in Leg |-> <<>>]
    /\ pc = "select"
    /\ ready = {}
    /\ cause = "none"
    /\ log = <<>>
    /\ peer = [l \in Leg |-> [open |-> TRUE, key |-> NoKey, keys |-> <<>>, data |-> 0,
                              alive |-> 0, plain |-> 0, replies |-> 0, got |-> <<>>]]

-----------------------------------------------------------------------------
(* The loop: select, then the local event, then the remote event.          *)

Readable(l) == toProxy[l] # <<>> \/ ~peer[l].open

Select ==
    /\ pc = "select"
    /\ \E l \in Leg : Readable(l)
    /\ ready' = {l \in Leg : Readable(l)}
    /\ pc' = "local"
    /\ UNCHANGED <<conn, inbuf, toProxy, fromProxy, cause, log, peer>>

AfterEvent(l, why) ==
    IF l = "local" THEN "remote" ELSE IF why = "none" THEN "select" ELSE "close"

\* The handler of leg l returns: true if it has run out of packets, false
\* with a reason otherwise.
Return(l, why) ==
    /\ cause' = IF cause = "none" THEN why ELSE cause
    /\ pc' = AfterEvent(l, cause')
    /\ ready' = ready \ {l}
    /\ inbuf' = [inbuf EXCEPT ![l] = <<>>]

\* One recv takes some of the packets that have arrived.
Recv(l) ==
    /\ pc = l /\ l \in ready
    /\ \E n \in 1 .. Len(toProxy[l]) :
          /\ inbuf' = [inbuf EXCEPT ![l] = SubSeq(toProxy[l], 1, n)]
          /\ toProxy' = [toProxy EXCEPT ![l] = SubSeq(@, n + 1, Len(@))]
    /\ ready' = ready \ {l}
    /\ UNCHANGED <<conn, fromProxy, pc, cause, log, peer>>

\* recv returns 0: the peer has closed and everything it sent was read.
RecvEnd(l) ==
    /\ pc = l /\ l \in ready
    /\ toProxy[l] = <<>>
    /\ Return(l, "peer")
    /\ UNCHANGED <<conn, toProxy, fromProxy, log, peer>>

\* One packet per event, the others of the same recv forgotten.
EventDone_Early(l) ==
    /\ pc = l /\ l \notin ready
    /\ Return(l, "none")
    /\ UNCHANGED <<conn, toProxy, fromProxy, log, peer>>

EventDone(l) ==
    /\ pc = l /\ l \notin ready
    /\ inbuf[l] = <<>>
    /\ Return(l, "none")
    /\ UNCHANGED <<conn, toProxy, fromProxy, log, peer>>

-----------------------------------------------------------------------------
(* Answering the packet at the front of a leg's buffer.                    *)

Handling(l) == pc = l /\ l \notin ready /\ inbuf[l] # <<>>
AtFront(l) == Head(inbuf[l])

\* A blocking write waits until the socket has room.  What is written to a
\* peer that has closed is never read: its kernel answers it with a reset.
Write(l, p) ==
    IF peer[l].open
    THEN /\ Len(fromProxy[l]) < SockCap
         /\ fromProxy' = [fromProxy EXCEPT ![l] = Append(@, p)]
    ELSE fromProxy' = [fromProxy EXCEPT ![l] = <<p>>]

Entry(l, out, p) == IF l \in LogLegs THEN <<[leg |-> l, out |-> out, p |-> p]>> ELSE <<>>
LogRaw(l) == Entry(l, FALSE, AtFront(l))

Consume(l) ==
    /\ inbuf' = [inbuf EXCEPT ![l] = Tail(@)]
    /\ UNCHANGED <<pc, ready, cause, toProxy, peer>>

\* SendKey before CopyKey: the client gets the local leg's old key.
RemoteKey_SendFirst ==
    /\ Handling("remote") /\ CarriesKey(AtFront("remote"))
    /\ LET k == AtFront("remote").key IN
       /\ conn' = [l \in Leg |-> [conn[l] EXCEPT !.haveKey = TRUE, !.key = k]]
       /\ Write("local", Table(conn["local"].key))
       /\ log' = log \o LogRaw("remote") \o Entry("local", TRUE, Table(k))
    /\ Consume("remote")

\* Only the first key is copied to the local leg.
RemoteKey_CopyOnce ==
    /\ Handling("remote") /\ CarriesKey(AtFront("remote"))
    /\ LET k == AtFront("remote").key IN
       /\ conn' = [l \in Leg |-> IF l = "local" /\ conn[l].haveKey THEN conn[l]
                                 ELSE [conn[l] EXCEPT !.haveKey = TRUE, !.key = k]]
       /\ Write("local", Table(conn'["local"].key))
       /\ log' = log \o LogRaw("remote") \o Entry("local", TRUE, Table(k))
    /\ Consume("remote")

\* The KEY packet takes a sequence number, as SendPacket would give it.
RemoteKey_Numbered ==
    /\ Handling("remote") /\ CarriesKey(AtFront("remote"))
    /\ LET k == AtFront("remote").key IN
       /\ conn' = [l \in Leg |-> [conn[l] EXCEPT !.haveKey = TRUE, !.key = k,
                                                 !.seq = @ + 1]]
       /\ Write("local", Table(k))
       /\ log' = log \o LogRaw("remote") \o Entry("local", TRUE, Table(k))
    /\ Consume("remote")

\* The server's key is taken for both legs and passed on to the client.
RemoteKey ==
    /\ Handling("remote") /\ CarriesKey(AtFront("remote"))
    /\ LET k == AtFront("remote").key IN
       /\ conn' = [l \in Leg |-> [conn[l] EXCEPT !.haveKey = TRUE, !.key = k]]
       /\ Write("local", Table(k))
       /\ log' = log \o LogRaw("remote") \o Entry("local", TRUE, Table(k))
    /\ Consume("remote")

\* The client's key is taken for both legs, as the server's is.
LocalKey_Copied ==
    /\ Handling("local") /\ CarriesKey(AtFront("local"))
    /\ conn' = [l \in Leg |-> [conn[l] EXCEPT !.haveKey = TRUE, !.key = AtFront("local").key]]
    /\ log' = log \o LogRaw("local")
    /\ Consume("local")
    /\ UNCHANGED fromProxy

\* OnEvent has stored the client's key by the time OnLocalNewKey says that it
\* will be ignored.
LocalKey ==
    /\ Handling("local") /\ CarriesKey(AtFront("local"))
    /\ conn' = [conn EXCEPT !["local"].haveKey = TRUE, !["local"].key = AtFront("local").key]
    /\ log' = log \o LogRaw("local")
    /\ Consume("local")
    /\ UNCHANGED fromProxy

\* A KEY packet of another size, a packet that is not encrypted and anything
\* encrypted before the first key are flushed.
Drop(l) ==
    /\ Handling(l) /\ Ignored(AtFront(l), conn[l].haveKey)
    /\ log' = log \o LogRaw(l)
    /\ Consume(l)
    /\ UNCHANGED <<conn, fromProxy>>

\* The leg the packet came from is numbered, not the one it is sent on.
Forward_OwnSequence(l) ==
    LET to == Other(l)
        p  == Sealed(conn[to].key, conn[to].seq, AtFront(l).body) IN
    /\ Handling(l) /\ IsData(AtFront(l)) /\ conn[l].haveKey
    /\ TRUE \in DataChecksum(AtFront(l), conn[l].key)
    /\ Write(to, p)
    /\ conn' = [conn EXCEPT ![l].seq = @ + 1]
    /\ log' = log \o LogRaw(l) \o Entry(to, TRUE, p)
    /\ Consume(l)

\* The packet is logged before SendPacket has sealed it again.
Forward_LogFirst(l) ==
    LET to == Other(l)
        p  == Sealed(conn[to].key, conn[to].seq, AtFront(l).body) IN
    /\ Handling(l) /\ IsData(AtFront(l)) /\ conn[l].haveKey
    /\ TRUE \in DataChecksum(AtFront(l), conn[l].key)
    /\ Write(to, p)
    /\ conn' = [conn EXCEPT ![to].seq = @ + 1]
    /\ log' = log \o LogRaw(l) \o Entry(to, TRUE, [AtFront(l) EXCEPT !.accepts = {}])
    /\ Consume(l)

\* A data packet is sealed with the other leg's key and numbered from the
\* other leg's sequence.
Forward(l) ==
    LET to == Other(l)
        p  == Sealed(conn[to].key, conn[to].seq, AtFront(l).body) IN
    /\ Handling(l) /\ IsData(AtFront(l)) /\ conn[l].haveKey
    /\ TRUE \in DataChecksum(AtFront(l), conn[l].key)
    /\ Write(to, p)
    /\ conn' = [conn EXCEPT ![to].seq = @ + 1]
    /\ log' = log \o LogRaw(l) \o Entry(to, TRUE, p)
    /\ Consume(l)

BadChecksum(l) ==
    /\ Handling(l) /\ IsData(AtFront(l)) /\ conn[l].haveKey
    /\ FALSE \in DataChecksum(AtFront(l), conn[l].key)
    /\ log' = log \o LogRaw(l)
    /\ Return(l, "baddata")
    /\ UNCHANGED <<conn, toProxy, fromProxy, peer>>

\* The request is not flushed, or not answered.
Keepalive_NotFlushed(l) ==
    /\ Handling(l) /\ IsKeepalive(AtFront(l))
    /\ log' = log \o LogRaw(l)
    /\ Write(l, Control({"ALIVE_REPLY"}))
    /\ UNCHANGED <<conn, inbuf, pc, ready, cause, toProxy, peer>>
Keepalive_Silent(l) ==
    /\ Handling(l) /\ IsKeepalive(AtFront(l))
    /\ log' = log \o LogRaw(l)
    /\ Consume(l)
    /\ UNCHANGED <<conn, fromProxy>>

\* A keepalive request is answered on its own leg and goes no further.
Keepalive(l) ==
    /\ Handling(l) /\ IsKeepalive(AtFront(l))
    /\ log' = log \o LogRaw(l)
    /\ \/ Write(l, Control({"ALIVE_REPLY"})) /\ Consume(l)
       \/ /\ ~peer[l].open
          /\ Return(l, "noreply")
          /\ UNCHANGED <<toProxy, fromProxy, peer>>
    /\ UNCHANGED conn

\* The leg that answering the front packet writes to, if any.
Writes(l) ==
    {to \in Leg :
        \/ to = l /\ IsKeepalive(AtFront(l))
        \/ /\ to = Other(l)
           /\ \/ l = "remote" /\ CarriesKey(AtFront(l))
              \/ /\ IsData(AtFront(l)) /\ conn[l].haveKey
                 /\ TRUE \in DataChecksum(AtFront(l), conn[l].key)}

\* A write after the reset that an earlier one provoked raises SIGPIPE, which
\* the program neither ignores nor handles.  The packet has been logged.
BrokenPipe(l) ==
    /\ Handling(l)
    /\ \E to \in Writes(l) : ~peer[to].open /\ fromProxy[to] # <<>>
    /\ log' = log \o LogRaw(l)
    /\ pc' = "killed"
    /\ UNCHANGED <<conn, inbuf, toProxy, fromProxy, ready, cause, peer>>

\* The connection is deleted and both sockets closed; what their peers have
\* not read by then may be lost.
Close ==
    /\ pc = "close"
    /\ pc' = "closed"
    /\ \E kept \in [Leg -> 0 .. SockCap] :
          /\ \A l \in Leg : kept[l] <= Len(fromProxy[l])
          /\ fromProxy' = [l \in Leg |-> SubSeq(fromProxy[l], 1, kept[l])]
    /\ UNCHANGED <<conn, inbuf, toProxy, ready, cause, log, peer>>

HandleEvent(l) == \/ Recv(l) \/ RecvEnd(l) \/ EventDone(l)
                  \/ Drop(l) \/ Forward(l) \/ BadChecksum(l) \/ Keepalive(l)
                  \/ BrokenPipe(l)
Loop == Select \/ RemoteKey \/ LocalKey \/ Close \/ \E l \in Leg : HandleEvent(l)

-----------------------------------------------------------------------------
(* The client and the server.                                              *)

Send(l, p) ==
    /\ peer[l].open
    /\ pc \notin {"closed", "killed"}
    /\ Len(toProxy[l]) < SockCap
    /\ toProxy' = [toProxy EXCEPT ![l] = Append(@, p)]
    /\ UNCHANGED <<proxyVars, fromProxy>>

\* The server hands out a key, and may do so again later.
PeerSendsKey(l, k) ==
    /\ l = "remote" \/ ClientSendsKey
    /\ Len(peer[l].keys) < MaxKeys
    /\ k # peer[l].key
    /\ Send(l, Table(k))
    /\ peer' = [peer EXCEPT ![l].keys = Append(@, k),
                            ![l].key = IF l = "remote" THEN k ELSE @]

\* Data is sealed with the key the peer knows; its n-th packet has body n.
PeerSendsData(l) ==
    LET n == peer[l].data + 1 IN
    /\ peer[l].key \in Keys
    /\ n <= MaxData
    /\ Send(l, Sealed(peer[l].key, n, n))
    /\ peer' = [peer EXCEPT ![l].data = n]

PeerSendsAlive(l) ==
    /\ peer[l].alive + peer[l].plain < MaxControl
    /\ Send(l, Control({"ALIVE_REQUEST"}))
    /\ peer' = [peer EXCEPT ![l].alive = @ + 1]

\* A packet without flags, or a keepalive reply nobody asked for.
PeerSendsPlain(l) ==
    /\ peer[l].alive + peer[l].plain < MaxControl
    /\ \E flags \in {{}, {"ALIVE_REPLY"}} : Send(l, Control(flags))
    /\ peer' = [peer EXCEPT ![l].plain = @ + 1]

\* The client learns the key from the stream; a body sealed with another key
\* than the peer's is not readable.
Garbled == 0
PeerReads(l) ==
    /\ peer[l].open
    /\ fromProxy[l] # <<>>
    /\ LET p == Head(fromProxy[l])
           seen == [body |-> IF peer[l].key \in p.accepts THEN p.body ELSE Garbled,
                    seq |-> p.seq] IN
       peer' = [peer EXCEPT
                  ![l].key = IF IsKey(p) THEN p.key ELSE @,
                  ![l].got = IF IsData(p) THEN Append(@, seen) ELSE @,
                  ![l].replies = IF p.flags = {"ALIVE_REPLY"} THEN @ + 1 ELSE @]
    /\ fromProxy' = [fromProxy EXCEPT ![l] = Tail(@)]
    /\ UNCHANGED <<proxyVars, toProxy>>

PeerCloses(l) ==
    /\ peer[l].open
    /\ peer' = [peer EXCEPT ![l].open = FALSE]
    /\ fromProxy' = [fromProxy EXCEPT ![l] = <<>>]
    /\ UNCHANGED <<proxyVars, toProxy>>

Peer(l) == \/ \E k \in Keys : PeerSendsKey(l, k)
           \/ PeerSendsData(l) \/ PeerSendsAlive(l) \/ PeerSendsPlain(l)
           \/ PeerReads(l) \/ PeerCloses(l)

Next == Loop \/ \E l \in Leg : Peer(l)

Spec == Init /\ [][Next]_vars

\* The loop runs on its own; peers read what arrives but need not send.
FairSpec == Spec /\ WF_vars(Loop) /\ \A l \in Leg : WF_vars(PeerReads(l))

-----------------------------------------------------------------------------
\* The bodies a peer got, in order and without gaps, under contiguous
\* sequence numbers.
InSequence(l) == \A i \in DOMAIN peer[l].got : peer[l].got[i] = [body |-> i, seq |-> i]

\* The client gets exactly what the server sent, in order, sealed with the
\* key it has been told last, even when the server changes the key.
ClientSeesServerStream == InSequence("local")

\* The server gets exactly what the client sent as long as it has handed out
\* one key only.
ServerSeesClientStream == Len(peer["remote"].keys) <= 1 => InSequence("remote")

\* The key is used both ways (romproxiedconnection.cc:90).
KeysAgree == conn["local"].haveKey => conn["local"].key = conn["remote"].key

\* The data packet p was sealed with a key of the server's that a later one has
\* replaced by the time the proxy reads p: p crossed the change of key.
CrossedKeyChange(p) ==
    LET handed == peer["remote"].keys IN
    \E i, j \in DOMAIN handed :
        i < j /\ p.key = handed[i] /\ conn["local"].key = handed[j]

\* The client has sent a key of its own, and goes on sealing with the server's.
FollowsOwnKey(p) ==
    /\ conn["local"].key # conn["remote"].key
    /\ \E i \in DOMAIN peer["local"].keys : peer["local"].keys[i] = conn["local"].key
    /\ \E i \in DOMAIN peer["remote"].keys : peer["remote"].keys[i] = p.key

\* The proxy ends a session of well-behaved peers only when a peer has left, or
\* over a data packet of the client's that crossed a change of key or followed
\* a key of the client's own; never over a packet of the server's.
HonestSessionSurvives ==
    [][cause' # cause =>
        IF cause' = "baddata"
        THEN pc = "local" /\ LET p == AtFront("local") IN CrossedKeyChange(p) \/ FollowsOwnKey(p)
        ELSE \E l \in Leg : ~peer[l].open]_vars

\* The log can be decoded from front to back with one current key, the way
\* romdump reads it, except for the one packet that ended the session.
LastKey(s, i) ==
    LET at == {j \in 1 .. i : IsKey(s[j].p)} IN
    IF at = {} THEN NoKey ELSE s[CHOOSE j \in at : \A h \in at : h <= j].p.key
Undecodable(s) == {i \in DOMAIN s : IsData(s[i].p) /\ LastKey(s, i) \notin s[i].p.accepts}
LogDecodable ==
    \A i \in Undecodable(log) :
        /\ cause = "baddata"
        /\ Undecodable(log) = {i}
        /\ log[i].leg = "local" /\ ~log[i].out

\* No peer ever gets more keepalive replies than it asked for.
RepliesAreOwed == \A l \in Leg : peer[l].replies <= peer[l].alive

\* What a peer sends reaches the other one, unless the session ends.
Ended == cause # "none" \/ pc = "killed" \/ \E l \in Leg : ~peer[l].open
EverythingArrives ==
    \A l \in Leg : \A n \in 1 .. MaxData :
        peer[l].data >= n ~> Ended \/ Len(peer[Other(l)].got) >= n
KeepalivesAnswered ==
    \A l \in Leg : \A n \in 1 .. MaxControl :
        peer[l].alive >= n ~> Ended \/ peer[l].replies >= n

-----------------------------------------------------------------------------
(* What the program says of itself and does not keep.                      *)

\* "*local* side sent a key?! - it will be ignored" (romproxiedconnection.cc:123)
LocalKeyIgnored ==
    [][pc = "local" => \A l \in Leg : /\ conn'[l].haveKey = conn[l].haveKey
                                      /\ conn'[l].key = conn[l].key]_vars
=============================================================================
