------------------------------ MODULE ROMProxy ------------------------------
(***************************************************************************)
(* The proxy program around its sessions: ROMProxy::Run's loop over select *)
(* and one pass over all proxies, the listening sockets, the descriptors   *)
(* the kernel hands out lowest first, the proxies made on demand when a    *)
(* server's answer is rewritten, and SIGINT.  What travels through a       *)
(* connection is ROMProxiedConnection's business; here an event reads one  *)
(* item: some data, whatever ends the session (the end of the stream, a    *)
(* packet that does not verify), or the name of another server.            *)
(***************************************************************************)
EXTENDS Integers, Sequences, FiniteSets, FiniteSetsExt

CONSTANTS
    Servers,      \* addresses of game servers a packet may name
    LoginServer,  \* the address on the command line
    FDs,          \* descriptors the process may use besides stdio and the log
    LoginPort,    \* port the login proxy listens on
    PortMax,      \* 65535 in the code: ports are uint16_t
    TakenPorts,   \* ports other programs hold
    Backlog       \* connections the kernel keeps for a listening socket

ASSUME ProxyAssumption ==
    /\ FDs \subseteq Nat /\ FDs # {} /\ IsFiniteSet(FDs)
    /\ PortMax \in Nat /\ LoginPort \in 1 .. PortMax
    /\ TakenPorts \subseteq 1 .. PortMax
    /\ LoginPort \notin TakenPorts
    /\ Backlog \in Nat \ {0}

VARIABLES
    proxies,   \* m_proxies, each with its listening socket and connections
    bindPort,  \* the port in m_BindAddress
    open,      \* descriptors in use
    backlog,   \* connections waiting on each descriptor
    rx,        \* what each descriptor has to be read
    fds,       \* the fd_set select filled in
    pc,        \* where Run stands: a proxy, one of its connections, a step
    m_quit,
    told,      \* where clients have been sent for which server
    accepting  \* the sockets to a client and to the server while a client is
               \* accepted: fd in Server::Accept and in Address::Connect

vars == <<proxies, bindPort, open, backlog, rx, fds, pc, m_quit, told, accepting>>

Direct == -1       \* the client was told the server's own address
NoFD == -1
Nobody == [local |-> NoFD, remote |-> NoFD]
Item == {"data", "eof"} \cup Servers
Address == Servers \cup {LoginServer}

TypeOK ==
    /\ proxies \in Seq([remote : Address, port : 0 .. PortMax, fd : FDs,
                        conns : Seq([local : FDs, remote : FDs])])
    /\ bindPort \in 0 .. PortMax
    /\ open \subseteq FDs
    /\ backlog \in [FDs -> 0 .. Backlog]
    /\ rx \in [FDs -> Seq(Item)]
    /\ fds \subseteq FDs
    /\ pc \in [at : {"check", "fill", "select", "accept", "socket", "connect",
                     "close", "local", "remote", "reap", "stopped"},
               p : Nat, c : Nat, ok : BOOLEAN]
    /\ m_quit \in BOOLEAN
    /\ told \subseteq [server : Servers, port : 0 .. PortMax \cup {Direct}]
    /\ accepting \in [local : FDs \cup {NoFD}, remote : FDs \cup {NoFD}]

At(at) == [at |-> at, p |-> 0, c |-> 0, ok |-> TRUE]

Init ==
    /\ proxies = << [remote |-> LoginServer, port |-> LoginPort,
                     fd |-> Min(FDs), conns |-> <<>>] >>
    /\ bindPort = LoginPort
    /\ open = {Min(FDs)}
    /\ backlog = [f \in FDs |-> 0]
    /\ rx = [f \in FDs |-> <<>>]
    /\ fds = {}
    /\ pc = At("check")
    /\ m_quit = FALSE
    /\ told = {}
    /\ accepting = Nobody

-----------------------------------------------------------------------------
(* The loop: test m_quit, collect the descriptors, select, one pass.       *)

ConnFds(conn) == {conn.local, conn.remote}
ProxyFds(proxy) == {proxy.fd} \cup UNION {ConnFds(proxy.conns[c]) : c \in DOMAIN proxy.conns}
Watched == UNION {ProxyFds(proxies[p]) : p \in DOMAIN proxies}
Ready == {f \in Watched : backlog[f] > 0 \/ rx[f] # <<>>}

LoopOnly == UNCHANGED <<proxies, bindPort, open, backlog, rx, m_quit, told, accepting>>

Check == /\ pc.at = "check"
         /\ pc' = At(IF m_quit THEN "stopped" ELSE "fill")
         /\ UNCHANGED fds /\ LoopOnly

FillFdSet == /\ pc.at = "fill"
             /\ fds' = Watched
             /\ pc' = At("select")
             /\ LoopOnly

Select == /\ pc.at = "select"
          /\ Ready # {}
          /\ fds' = Ready
          /\ pc' = [At("accept") EXCEPT !.p = 1]
          /\ LoopOnly

\* The pass starts over instead of moving on to the next proxy.
ToConn_Restart(c, len) ==
    IF c <= len THEN pc' = [pc EXCEPT !.at = "local", !.c = c, !.ok = TRUE]
    ELSE IF pc.p < Len(proxies') THEN pc' = [At("accept") EXCEPT !.p = 1]
    ELSE pc' = At("check")

\* Step to a connection of the current proxy if it has one, or else to the
\* next proxy; the list may have grown since the pass began.
ToConn(c, len) ==
    IF c <= len THEN pc' = [pc EXCEPT !.at = "local", !.c = c, !.ok = TRUE]
    ELSE IF pc.p < Len(proxies') THEN pc' = [At("accept") EXCEPT !.p = pc.p + 1]
    ELSE pc' = At("check")

-----------------------------------------------------------------------------
(* Server::Accept and ProxyServer::CreateClient, if the listening          *)
(* descriptor is in the set: the socket of the client, a connection object *)
(* without sockets, the socket to the server.  Whatever was taken is given *)
(* back, the last first, when the next step fails.                         *)

Free == FDs \ open
Here == proxies[pc.p]
Conns == Here.conns

\* The kernel hands out the lowest free descriptor.
Takes(side) ==
    /\ Free # {}
    /\ open' = open \cup {Min(Free)}
    /\ accepting' = [accepting EXCEPT ![side] = Min(Free)]
Closes(side) ==
    /\ open' = open \ {accepting[side]}
    /\ accepting' = [accepting EXCEPT ![side] = NoFD]
AcceptGoesTo(at) ==
    /\ pc' = [pc EXCEPT !.at = at]
    /\ UNCHANGED <<proxies, bindPort, rx, fds, m_quit, told>>

NoAccept ==
    /\ pc.at = "accept"
    /\ Here.fd \notin fds
    /\ fds' = fds /\ LoopOnly
    /\ ToConn(1, Len(Conns))

\* accept blocks until somebody connects.
Accept ==
    /\ pc.at = "accept"
    /\ Here.fd \in fds
    /\ backlog[Here.fd] > 0
    /\ Takes("local")
    /\ backlog' = [backlog EXCEPT ![Here.fd] = @ - 1]
    /\ AcceptGoesTo("socket")

\* accept finds no descriptor: the client keeps waiting.
AcceptFails ==
    /\ pc.at = "accept"
    /\ Here.fd \in fds
    /\ backlog[Here.fd] > 0
    /\ Free = {}
    /\ fds' = fds /\ LoopOnly
    /\ ToConn(1, Len(Conns))

Socket ==
    /\ pc.at = "socket"
    /\ Takes("remote")
    /\ AcceptGoesTo("connect")
    /\ UNCHANGED backlog

NoSocket ==
    /\ pc.at = "socket"
    /\ Free = {}
    /\ AcceptGoesTo("close")
    /\ UNCHANGED <<open, backlog, accepting>>

\* The server answers.  Ready and AddConnection follow, and back in Accept the
\* connection is given the client's socket.
Connected ==
    /\ pc.at = "connect"
    /\ proxies' = [proxies EXCEPT ![pc.p].conns = Append(@, accepting)]
    /\ accepting' = Nobody
    /\ ToConn(1, Len(Conns) + 1)
    /\ UNCHANGED <<bindPort, open, backlog, rx, fds, m_quit, told>>

\* The server does not answer: Address::Connect closes its socket.  The
\* connection that CreateClient deletes has none to close.
Refused ==
    /\ pc.at = "connect"
    /\ Closes("remote")
    /\ AcceptGoesTo("close")
    /\ UNCHANGED backlog

\* CreateClient returned NULL and the client is not closed.
CloseClient_Leak ==
    /\ pc.at = "close"
    /\ accepting' = Nobody
    /\ UNCHANGED <<proxies, bindPort, open, backlog, rx, fds, m_quit, told>>
    /\ ToConn(1, Len(Conns))

\* CreateClient returned NULL: the client is closed.
CloseClient ==
    /\ pc.at = "close"
    /\ Closes("local")
    /\ UNCHANGED <<proxies, bindPort, backlog, rx, fds, m_quit, told>>
    /\ ToConn(1, Len(Conns))

-----------------------------------------------------------------------------
(* A server's packet names another server: the name is resolved, which     *)
(* takes a free descriptor for a moment (Address::Resolve tries a socket), *)
(* and GetProxyForAddress finds or makes the proxy to send the client to.  *)

\* The port in an int instead of 16 bits.
NextPort_Wide == bindPort + 1

NextPort == (bindPort + 1) % (PortMax + 1)
CanListen(port) ==
    port = 0 \/ port \notin TakenPorts \cup {proxies[p].port : p \in DOMAIN proxies}

Tell(s, port) == told' = told \cup {[server |-> s, port |-> port]}

\* Slips of the search: any proxy will do, or none is looked for.
Redirect_AnyProxy(s) ==
    /\ \E p \in DOMAIN proxies : Tell(s, proxies[p].port)
    /\ UNCHANGED <<proxies, bindPort, open>>
Redirect_AlwaysNew(s) ==
    /\ Free # {}
    /\ bindPort' = NextPort
    /\ IF CanListen(NextPort)
       THEN /\ proxies' = Append(proxies, [remote |-> s, port |-> NextPort,
                                           fd |-> Min(Free), conns |-> <<>>])
            /\ open' = open \cup {Min(Free)}
            /\ Tell(s, NextPort)
       ELSE /\ Tell(s, Direct)
            /\ UNCHANGED <<proxies, open>>

Redirect(s) ==
    \/ /\ Free # {}
       /\ \E p \in DOMAIN proxies :
             /\ proxies[p].remote = s
             /\ \A q \in 1 .. p - 1 : proxies[q].remote # s
             /\ Tell(s, proxies[p].port)
       /\ UNCHANGED <<proxies, bindPort, open>>
    \/ /\ Free # {}
       /\ \A p \in DOMAIN proxies : proxies[p].remote # s
       /\ bindPort' = NextPort
       /\ IF CanListen(NextPort)
          THEN /\ proxies' = Append(proxies, [remote |-> s, port |-> NextPort,
                                              fd |-> Min(Free), conns |-> <<>>])
               /\ open' = open \cup {Min(Free)}
               /\ Tell(s, NextPort)
          ELSE /\ Tell(s, Direct)
               /\ UNCHANGED <<proxies, open>>
    \/ /\ Tell(s, Direct)      \* the name does not resolve
       /\ UNCHANGED <<proxies, bindPort, open>>

-----------------------------------------------------------------------------
(* The connections of the current proxy: local event, remote event, and    *)
(* deletion if one of them returned false.                                 *)

Conn == Conns[pc.c]
Step(side) == IF side = "local" THEN "remote" ELSE "reap"

NoEvent(side) ==
    /\ pc.at = side
    /\ Conn[side] \notin fds
    /\ pc' = [pc EXCEPT !.at = Step(side)]
    /\ fds' = fds /\ LoopOnly

\* recv blocks until there is something to read.
Event(side) ==
    LET fd == Conn[side] IN
    /\ pc.at = side
    /\ fd \in fds
    /\ rx[fd] # <<>>
    /\ rx' = [rx EXCEPT ![fd] = Tail(@)]
    /\ pc' = [pc EXCEPT !.at = Step(side), !.ok = @ /\ Head(rx[fd]) # "eof"]
    /\ IF Head(rx[fd]) \in Servers
       THEN Redirect(Head(rx[fd]))
       ELSE UNCHANGED <<proxies, bindPort, open, told>>
    /\ UNCHANGED <<backlog, fds, m_quit, accepting>>

Keep ==
    /\ pc.at = "reap" /\ pc.ok
    /\ fds' = fds /\ LoopOnly
    /\ ToConn(pc.c + 1, Len(Conns))

\* The connection is deleted: both its descriptors are closed and free again.
Without(s, i) == SubSeq(s, 1, i - 1) \o SubSeq(s, i + 1, Len(s))
Reap ==
    /\ pc.at = "reap" /\ ~pc.ok
    /\ proxies' = [proxies EXCEPT ![pc.p].conns = Without(@, pc.c)]
    /\ open' = open \ ConnFds(Conn)
    /\ rx' = [f \in FDs |-> IF f \in ConnFds(Conn) THEN <<>> ELSE rx[f]]
    /\ ToConn(pc.c, Len(Conns) - 1)
    /\ UNCHANGED <<bindPort, backlog, fds, m_quit, told, accepting>>

Loop == \/ Check \/ FillFdSet \/ Select
        \/ NoAccept \/ Accept \/ AcceptFails \/ Socket \/ NoSocket
        \/ Connected \/ Refused \/ CloseClient
        \/ \E side \in {"local", "remote"} : NoEvent(side) \/ Event(side)
        \/ Keep \/ Reap

\* The current step handles a descriptor of the set that has nothing to
\* report: it blocks.
Pending(f) == backlog[f] > 0 \/ rx[f] # <<>>
StaleEvent ==
    \/ pc.at = "accept" /\ Here.fd \in fds /\ ~Pending(Here.fd)
    \/ pc.at \in {"local", "remote"} /\ Conn[pc.at] \in fds /\ ~Pending(Conn[pc.at])

-----------------------------------------------------------------------------
(* The world: clients connect where they have been sent, peers send and    *)
(* close, the user presses ^C.                                             *)

\* What arrives during a pass is first seen by the next select, unless the
\* loop is blocked in accept or recv waiting for it, and m_quit is not read
\* before the next test.  It makes no difference that the world moves only
\* while the loop waits.
Waiting == pc.at \in {"fill", "select"} \/ StaleEvent

World == UNCHANGED <<proxies, bindPort, open, fds, told, accepting>>

ClientConnects(p) ==
    /\ backlog[proxies[p].fd] < Backlog
    /\ backlog' = [backlog EXCEPT ![proxies[p].fd] = @ + 1]
    /\ UNCHANGED <<rx, pc, m_quit>> /\ World

\* One item at a time; only a server names other servers.
Arrives(fd, item) ==
    /\ rx[fd] = <<>>
    /\ rx' = [rx EXCEPT ![fd] = <<item>>]
    /\ UNCHANGED <<backlog, pc, m_quit>> /\ World

\* The handler sets m_quit; a blocked select returns with EINTR.
Sigint ==
    /\ Waiting
    /\ ~m_quit
    /\ m_quit' = TRUE
    /\ pc' = IF pc.at = "select" THEN At("check") ELSE pc
    /\ UNCHANGED <<backlog, rx>> /\ World

Environment ==
    /\ Waiting
    /\ \E p \in DOMAIN proxies :
          \/ ClientConnects(p)
          \/ \E c \in DOMAIN proxies[p].conns :
                \/ \E item \in {"data", "eof"} : Arrives(proxies[p].conns[c].local, item)
                \/ \E item \in Item : Arrives(proxies[p].conns[c].remote, item)

Next == Loop \/ Environment \/ Sigint

Spec == Init /\ [][Next]_vars

\* The loop takes its next step whenever it is not blocked in a system call.
FairSpec == Spec /\ WF_vars(Loop)

-----------------------------------------------------------------------------
\* The sockets that have descriptor f: those of the proxies and, as of no
\* proxy, those of a client that is being accepted.
Sockets(f) ==
    {<<p, 0, "listen">> : p \in {p \in DOMAIN proxies : proxies[p].fd = f}} \cup
    {<<0, 0, side>> : side \in {side \in {"local", "remote"} : accepting[side] = f}} \cup
    UNION {{<<p, c, side>> : c \in {c \in DOMAIN proxies[p].conns : proxies[p].conns[c][side] = f}} :
            p \in DOMAIN proxies, side \in {"local", "remote"}}

\* Every open descriptor has exactly one owner and nothing owns a closed one:
\* none leaks when there is no socket, the server refuses or a session ends,
\* and none is closed under its owner.  Except while a client is accepted,
\* the loop watches all of them.
DescriptorsOwned ==
    /\ \A f \in open : Cardinality(Sockets(f)) = 1
    /\ \A f \in FDs \ open : Sockets(f) = {}
    /\ pc.at \in {"socket", "connect", "close"} \/ Watched = open

\* A client that was sent to the proxy for a server finds a proxy for just
\* that server there, now and at any later time.
RedirectsLeadHome ==
    \A t \in told : t.port \notin {0, Direct} =>
        \E p \in DOMAIN proxies : proxies[p].port = t.port /\ proxies[p].remote = t.server

\* No two proxies for one server, and no two on one port, even after the
\* 16-bit port has wrapped; port 0 lets the kernel choose.
ProxiesDistinct ==
    \A p, q \in DOMAIN proxies : p # q =>
        /\ proxies[p].remote # proxies[q].remote
        /\ proxies[p].port # proxies[q].port \/ proxies[p].port = 0

\* Nothing but such a step can keep the loop from the end of its pass.
PassEnds == pc.at = "accept" ~> pc.at = "check" \/ StaleEvent

-----------------------------------------------------------------------------
(* What the program says of itself and does not keep.                      *)

\* "Called when the local side has something to report" (proxiedconnection.h:34)
CalledOnlyWithWork == ~StaleEvent

\* "Request the proxy to quit" (romproxy.h:37)
QuitIsHonoured == m_quit ~> pc.at = "stopped"
=============================================================================
