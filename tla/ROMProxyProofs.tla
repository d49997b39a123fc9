--------------------------- MODULE ROMProxyProofs ---------------------------
(***************************************************************************)
(* Theorems about the proxy program, for any number of descriptors, ports  *)
(* and servers.  Who owns which descriptor is followed on two levels: a    *)
(* step changes the connections of one proxy or appends a proxy, and what  *)
(* it takes is free and what it closes becomes free.                       *)
(***************************************************************************)
EXTENDS ROMProxy, Traces, FiniteSetTheorems

Connection == [local : FDs, remote : FDs]
Proxy == [remote : Address, port : 0 .. PortMax, fd : FDs, conns : Seq(Connection)]
PC == [at : {"check", "fill", "select", "accept", "socket", "connect", "close",
             "local", "remote", "reap", "stopped"},
       p : Nat, c : Nat, ok : BOOLEAN]
Accepting == [local : FDs \cup {NoFD}, remote : FDs \cup {NoFD}]

\* The loop stands at a proxy and a connection there are: Reap and Redirect
\* change the list under the running pass.  In the middle of an accept it
\* holds just the sockets it has taken and not yet given back.
OnTheWay ==
    /\ pc.at \in {"accept", "socket", "connect", "close", "local", "remote", "reap"} =>
          pc.p \in DOMAIN proxies
    /\ pc.at \in {"local", "remote", "reap"} => pc.c \in DOMAIN proxies[pc.p].conns
    /\ pc.at \in {"socket", "close"} => accepting.local \in FDs /\ accepting.remote = NoFD
    /\ pc.at = "connect" => /\ accepting.local \in FDs /\ accepting.remote \in FDs
                            /\ accepting.local # accepting.remote
    /\ pc.at \notin {"socket", "connect", "close"} => accepting = Nobody

\* The descriptors of a client that is being accepted.
Held == {accepting.local, accepting.remote} \ {NoFD}

\* The sockets of one proxy have different descriptors.
WellOwned(proxy) ==
    /\ \A c \in DOMAIN proxy.conns :
          /\ proxy.conns[c].local # proxy.conns[c].remote
          /\ proxy.fd \notin ConnFds(proxy.conns[c])
    /\ \A c, d \in DOMAIN proxy.conns :
          c # d => ConnFds(proxy.conns[c]) \cap ConnFds(proxy.conns[d]) = {}

\* So have those of different proxies.
ListOwned ==
    /\ \A p \in DOMAIN proxies : WellOwned(proxies[p])
    /\ \A p, q \in DOMAIN proxies : p # q => ProxyFds(proxies[p]) \cap ProxyFds(proxies[q]) = {}

\* All of them are open, those of a client being accepted as well, and only
\* they.
Owned ==
    /\ ListOwned
    /\ Watched \cap Held = {}
    /\ open = Watched \cup Held

IInv == TypeOK /\ OnTheWay /\ Owned /\ RedirectsLeadHome /\ ProxiesDistinct

-----------------------------------------------------------------------------
(* Descriptors.                                                            *)

\* The kernel hands out the lowest descriptor.
LEMMA MinIsFirst ==
    ASSUME NEW S, S \subseteq FDs, S # {}
    PROVE  Min(S) \in S
<1>1. S \subseteq Nat
  BY ProxyAssumption
<1>2. \E x \in S : \A y \in S : x <= y
  BY <1>1, LeastNumber
<1> QED BY <1>2 DEF Min

\* A socket takes a free one.
LEMMA FirstFree ==
    ASSUME Free # {}
    PROVE  Min(Free) \in FDs /\ Min(Free) \notin open /\ Min(Free) # NoFD
<1>1. Min(Free) \in Free /\ Free \subseteq FDs
  BY MinIsFirst DEF Free
<1>2. NoFD \notin FDs
  BY ProxyAssumption DEF NoFD
<1> QED BY <1>1, <1>2 DEF Free

\* A connection more.
LEMMA AppendConnection ==
    ASSUME NEW x \in Proxy, WellOwned(x), NEW conn \in Connection, conn.local # conn.remote,
           ConnFds(conn) \cap ProxyFds(x) = {}
    PROVE  LET y == [x EXCEPT !.conns = Append(@, conn)] IN
           /\ y \in Proxy /\ WellOwned(y) /\ ProxyFds(y) = ProxyFds(x) \cup ConnFds(conn)
           /\ Len(y.conns) = Len(x.conns) + 1
           /\ y.remote = x.remote /\ y.port = x.port
<1> DEFINE y == [x EXCEPT !.conns = Append(@, conn)]
           s == x.conns
           t == Append(s, conn)
           n == Len(s)
<1>1. s \in Seq(Connection)
  BY DEF Proxy
<1>2. /\ t \in Seq(Connection) /\ n \in Nat /\ DOMAIN s = 1 .. n /\ DOMAIN t = 1 .. n + 1
      /\ Len(t) = n + 1 /\ t[n + 1] = conn /\ \A c \in 1 .. n : t[c] = s[c]
  BY <1>1, AppendProperties, LenProperties
<1>3. y.conns = t /\ y.fd = x.fd /\ y.remote = x.remote /\ y.port = x.port
  BY DEF Proxy
<1>4. y \in Proxy
  BY <1>2 DEF Proxy
<1> HIDE DEF y, t, n
<1>5. ProxyFds(y) = ProxyFds(x) \cup ConnFds(conn)
  <2>1. \A f : f \in ProxyFds(x) <=> f = x.fd \/ \E c \in 1 .. n : f \in ConnFds(s[c])
    BY <1>2 DEF ProxyFds
  <2>2. \A f : f \in ProxyFds(y) <=> f = x.fd \/ \E c \in 1 .. n + 1 : f \in ConnFds(t[c])
    BY <1>2, <1>3 DEF ProxyFds
  <2>3. \A c : c \in 1 .. n + 1 <=> c \in 1 .. n \/ c = n + 1
    BY <1>2
  <2>4. \A f : f \in ProxyFds(y) <=> f \in ProxyFds(x) \/ f \in ConnFds(conn)
    BY <1>2, <2>1, <2>2, <2>3
  <2> QED BY <2>4
<1>6. \A c \in 1 .. n : ConnFds(s[c]) \subseteq ProxyFds(x) /\ x.fd \in ProxyFds(x)
  BY <1>2 DEF ProxyFds
<1>7. WellOwned(y)
  <2>1. ASSUME NEW c \in 1 .. n + 1 PROVE t[c].local # t[c].remote /\ y.fd \notin ConnFds(t[c])
    <3>1. CASE c \in 1 .. n
      BY <1>2, <1>3, <3>1 DEF WellOwned
    <3>2. CASE c = n + 1
      <4>1. x.fd \in ProxyFds(x)
        BY DEF ProxyFds
      <4> QED BY <1>2, <1>3, <3>2, <4>1
    <3> QED BY <1>2, <3>1, <3>2
  <2>2. ASSUME NEW c \in 1 .. n + 1, NEW d \in 1 .. n + 1, c # d
        PROVE  ConnFds(t[c]) \cap ConnFds(t[d]) = {}
    <3>1. CASE c \in 1 .. n /\ d \in 1 .. n
      BY <1>2, <2>2, <3>1 DEF WellOwned
    <3>2. CASE c \in 1 .. n /\ d = n + 1
      BY <1>2, <1>6, <3>2
    <3>3. CASE c = n + 1 /\ d \in 1 .. n
      BY <1>2, <1>6, <3>3
    <3> QED BY <1>2, <2>2, <3>1, <3>2, <3>3
  <2> QED BY <1>2, <1>3, <2>1, <2>2 DEF WellOwned
<1> QED BY <1>2, <1>3, <1>4, <1>5, <1>7 DEF y, t, n

\* A connection less: the others move up.
LEMMA WithoutFacts ==
    ASSUME NEW T, NEW s \in Seq(T), NEW i \in 1 .. Len(s)
    PROVE  /\ Without(s, i) \in Seq(T) /\ Len(Without(s, i)) = Len(s) - 1
           /\ \A c \in 1 .. Len(s) - 1 : Without(s, i)[c] = s[IF c < i THEN c ELSE c + 1]
<1>1. Len(s) \in Nat /\ i - 1 \in Nat /\ Len(s) - 1 \in Nat
  BY LenProperties
<1>2. SubSeq(s, 1, i - 1) \in Seq(T) /\ Len(SubSeq(s, 1, i - 1)) = i - 1
      /\ \A c \in 1 .. i - 1 : SubSeq(s, 1, i - 1)[c] = s[c]
  BY <1>1, SubSeqProperties
<1>3. SubSeq(s, i + 1, Len(s)) \in Seq(T) /\ Len(SubSeq(s, i + 1, Len(s))) = Len(s) - i
      /\ \A c \in 1 .. Len(s) - i : SubSeq(s, i + 1, Len(s))[c] = s[i + c]
  BY <1>1, SubSeqProperties
<1> DEFINE t == SubSeq(s, 1, i - 1)
           u == SubSeq(s, i + 1, Len(s))
<1> HIDE DEF t, u
<1>4. t \o u \in Seq(T) /\ Len(t \o u) = Len(t) + Len(u)
      /\ \A c \in 1 .. Len(t) + Len(u) : (t \o u)[c] = IF c <= Len(t) THEN t[c] ELSE u[c - Len(t)]
  <2>1. t \in Seq(T) /\ u \in Seq(T)
    BY <1>2, <1>3 DEF t, u
  <2> QED BY <2>1, ConcatProperties
<1>5. Without(s, i) = t \o u
  BY DEF Without, t, u
<1>6. Len(t) = i - 1 /\ Len(u) = Len(s) - i
  BY <1>2, <1>3 DEF t, u
<1>7. ASSUME NEW c \in 1 .. Len(s) - 1
      PROVE  (t \o u)[c] = s[IF c < i THEN c ELSE c + 1]
  <2>1. c \in 1 .. Len(t) + Len(u)
    BY <1>1, <1>6
  <2>2. CASE c < i
    <3>1. c <= Len(t) /\ c \in 1 .. i - 1
      BY <1>1, <1>6, <2>2
    <3>2. t[c] = s[c]
      BY <1>2, <3>1 DEF t
    <3> QED BY <1>4, <2>1, <2>2, <3>1, <3>2
  <2>3. CASE ~(c < i)
    <3>1. ~(c <= Len(t)) /\ c - Len(t) \in 1 .. Len(s) - i /\ i + (c - Len(t)) = c + 1
      BY <1>1, <1>6, <2>3
    <3>2. u[c - Len(t)] = s[c + 1]
      BY <1>3, <3>1 DEF u
    <3> QED BY <1>4, <2>1, <2>3, <3>1, <3>2
  <2> QED BY <2>2, <2>3
<1>8. Len(t \o u) = Len(s) - 1
  BY <1>1, <1>4, <1>6
<1> QED BY <1>4, <1>5, <1>7, <1>8

LEMMA DropConnection ==
    ASSUME NEW x \in Proxy, WellOwned(x), NEW i \in DOMAIN x.conns
    PROVE  LET y == [x EXCEPT !.conns = Without(@, i)] IN
           /\ y \in Proxy /\ WellOwned(y)
           /\ ProxyFds(y) = ProxyFds(x) \ ConnFds(x.conns[i])
           /\ ConnFds(x.conns[i]) \subseteq ProxyFds(x)
           /\ Len(y.conns) = Len(x.conns) - 1
           /\ y.remote = x.remote /\ y.port = x.port
<1> DEFINE y == [x EXCEPT !.conns = Without(@, i)]
           s == x.conns
           t == Without(s, i)
           n == Len(s)
           Old(c) == IF c < i THEN c ELSE c + 1
<1>1. s \in Seq(Connection) /\ n \in Nat /\ DOMAIN s = 1 .. n /\ i \in 1 .. n
  BY LenProperties DEF Proxy
<1>2. t \in Seq(Connection) /\ DOMAIN t = 1 .. n - 1 /\ Len(t) = n - 1
      /\ \A c \in 1 .. n - 1 : t[c] = s[Old(c)]
  BY <1>1, WithoutFacts, LenProperties, SMTT(20)
<1>3. y.conns = t /\ y.fd = x.fd /\ y.remote = x.remote /\ y.port = x.port
  BY DEF Proxy
<1>4. y \in Proxy
  BY <1>2 DEF Proxy
<1>5. /\ \A c \in 1 .. n - 1 : Old(c) \in 1 .. n /\ Old(c) # i
      /\ \A c, d \in 1 .. n - 1 : c # d => Old(c) # Old(d)
      /\ \A c \in 1 .. n : c # i => \E d \in 1 .. n - 1 : Old(d) = c
  <2>1. ASSUME NEW c \in 1 .. n, c # i PROVE \E d \in 1 .. n - 1 : Old(d) = c
    <3>1. CASE c < i
      <4>1. c \in 1 .. n - 1 /\ Old(c) = c
        BY <1>1, <3>1
      <4> QED BY <4>1
    <3>2. CASE c > i
      <4>1. c - 1 \in 1 .. n - 1 /\ Old(c - 1) = c
        BY <1>1, <3>2
      <4> QED BY <4>1
    <3> QED BY <1>1, <2>1, <3>1, <3>2
  <2>2. \A c \in 1 .. n - 1 : Old(c) \in 1 .. n /\ Old(c) # i
    BY <1>1
  <2>3. \A c, d \in 1 .. n - 1 : c # d => Old(c) # Old(d)
    BY <1>1
  <2> QED BY <2>1, <2>2, <2>3
<1> HIDE DEF y, t, n, Old
<1>6. \A c, d \in 1 .. n : c # d => ConnFds(s[c]) \cap ConnFds(s[d]) = {}
  BY <1>1 DEF WellOwned
<1>7. \A c \in 1 .. n : s[c].local # s[c].remote /\ x.fd \notin ConnFds(s[c])
  BY <1>1 DEF WellOwned
<1>8. ProxyFds(y) = ProxyFds(x) \ ConnFds(s[i])
  <2>1. \A f : f \in ProxyFds(x) <=> f = x.fd \/ \E c \in 1 .. n : f \in ConnFds(s[c])
    BY <1>1 DEF ProxyFds
  <2>2. \A f : f \in ProxyFds(y) <=> f = x.fd \/ \E c \in 1 .. n - 1 : f \in ConnFds(s[Old(c)])
    BY <1>2, <1>3 DEF ProxyFds
  <2>3. ASSUME NEW f, f \in ProxyFds(y) PROVE f \in ProxyFds(x) /\ f \notin ConnFds(s[i])
    <3>1. CASE f = x.fd
      BY <1>1, <1>7, <2>1, <3>1
    <3>2. ASSUME NEW c \in 1 .. n - 1, f \in ConnFds(s[Old(c)])
          PROVE  f \in ProxyFds(x) /\ f \notin ConnFds(s[i])
      <4>1. Old(c) \in 1 .. n /\ Old(c) # i
        BY <1>5
      <4>2. ConnFds(s[Old(c)]) \cap ConnFds(s[i]) = {}
        BY <1>1, <1>6, <4>1
      <4> QED BY <2>1, <3>2, <4>1, <4>2
    <3> QED BY <2>2, <2>3, <3>1, <3>2
  <2>4. ASSUME NEW f, f \in ProxyFds(x), f \notin ConnFds(s[i]) PROVE f \in ProxyFds(y)
    BY <1>1, <1>5, <2>1, <2>2, <2>4
  <2> QED BY <2>3, <2>4
<1>9. WellOwned(y)
  <2>1. \A c \in 1 .. n - 1 : t[c].local # t[c].remote /\ y.fd \notin ConnFds(t[c])
    BY <1>2, <1>3, <1>5, <1>7
  <2>2. \A c, d \in 1 .. n - 1 : c # d => ConnFds(t[c]) \cap ConnFds(t[d]) = {}
    BY <1>2, <1>5, <1>6, ZenonT(30)
  <2> QED BY <1>2, <1>3, <2>1, <2>2 DEF WellOwned
<1>10. ConnFds(s[i]) \subseteq ProxyFds(x)
  BY <1>1 DEF ProxyFds
<1> QED BY <1>2, <1>3, <1>4, <1>8, <1>9, <1>10 DEF y, t, n

-----------------------------------------------------------------------------
(* The list of proxies.                                                    *)

LEMMA ListTyped ==
    ASSUME TypeOK
    PROVE  /\ proxies \in Seq(Proxy) /\ Len(proxies) \in Nat /\ DOMAIN proxies = 1 .. Len(proxies)
           /\ \A p \in DOMAIN proxies : /\ proxies[p] \in Proxy
                                        /\ DOMAIN proxies[p].conns = 1 .. Len(proxies[p].conns)
           /\ pc \in PC /\ accepting \in Accepting
<1>1. proxies \in Seq(Proxy) /\ pc \in PC /\ accepting \in Accepting
  BY DEF TypeOK, Proxy, Connection, PC, Accepting
<1>2. Len(proxies) \in Nat /\ DOMAIN proxies = 1 .. Len(proxies) /\ \A p \in DOMAIN proxies : proxies[p] \in Proxy
  BY <1>1, LenProperties, ElementOfSeq
<1>3. \A p \in DOMAIN proxies : DOMAIN proxies[p].conns = 1 .. Len(proxies[p].conns)
  BY <1>2, LenProperties DEF Proxy
<1> QED BY <1>1, <1>2, <1>3

\* Watched, one element at a time.
LEMMA WatchedFacts == \A f : f \in Watched <=> \E p \in DOMAIN proxies : f \in ProxyFds(proxies[p])
BY DEF Watched

LEMMA WatchedFactsNext == \A f : f \in Watched' <=> \E p \in DOMAIN proxies' : f \in ProxyFds(proxies'[p])
BY DEF Watched, ProxyFds, ConnFds

\* One proxy's connections change and no client is being accepted any more.
LEMMA ProxyChanges ==
    ASSUME TypeOK, ListOwned, NEW p \in DOMAIN proxies, NEW y \in Proxy, WellOwned(y),
           NEW more, more \cap Watched = {}, NEW less,
           ProxyFds(y) = (ProxyFds(proxies[p]) \cup more) \ less, less \subseteq ProxyFds(proxies[p]),
           y.remote = proxies[p].remote, y.port = proxies[p].port,
           proxies' = [proxies EXCEPT ![p] = y],
           accepting' = Nobody, open' = (Watched \cup more) \ less
    PROVE  /\ proxies' \in Seq(Proxy) /\ DOMAIN proxies' = DOMAIN proxies /\ proxies'[p] = y
           /\ Len(proxies') = Len(proxies)
           /\ \A q \in DOMAIN proxies : /\ proxies'[q].remote = proxies[q].remote
                                        /\ proxies'[q].port = proxies[q].port
           /\ Owned'
<1>1. /\ proxies \in Seq(Proxy) /\ Len(proxies) \in Nat /\ DOMAIN proxies = 1 .. Len(proxies)
      /\ p \in 1 .. Len(proxies)
  BY ListTyped
<1>2. /\ proxies' \in Seq(Proxy) /\ Len(proxies') = Len(proxies) /\ DOMAIN proxies' = DOMAIN proxies
      /\ proxies'[p] = y /\ \A q \in DOMAIN proxies : q # p => proxies'[q] = proxies[q]
  <2>1. proxies' \in Seq(Proxy) /\ Len(proxies') = Len(proxies)
    BY <1>1, ExceptSeq
  <2> QED BY <1>1, <2>1, LenProperties
<1>3. ASSUME NEW q \in DOMAIN proxies, NEW r \in DOMAIN proxies, q # r
      PROVE  ProxyFds(proxies'[q]) \cap ProxyFds(proxies'[r]) = {}
  <2>1. \A s \in DOMAIN proxies : ProxyFds(proxies[s]) \subseteq Watched
    BY WatchedFacts
  <2>2. ProxyFds(proxies[q]) \cap ProxyFds(proxies[r]) = {}
    BY <1>3 DEF ListOwned
  <2> QED BY <1>2, <1>3, <2>1, <2>2
<1>4. \A q \in DOMAIN proxies : WellOwned(proxies'[q])
  BY <1>2 DEF ListOwned
<1>5. Watched' = (Watched \cup more) \ less
  <2>1. \A f : f \in Watched' <=> \E q \in DOMAIN proxies : f \in ProxyFds(proxies'[q])
    BY <1>2, WatchedFactsNext
  <2>2. \A f : f \in Watched <=> \E q \in DOMAIN proxies : f \in ProxyFds(proxies[q])
    BY WatchedFacts
  <2>3. \A q \in DOMAIN proxies : q # p => ProxyFds(proxies[q]) \cap less = {}
    BY DEF ListOwned
  <2>4. ASSUME NEW f PROVE f \in Watched' <=> f \in (Watched \cup more) \ less
    BY <1>2, <2>1, <2>2, <2>3
  <2> QED BY <2>4
<1>6. ListOwned'
  <2>1. \A q \in DOMAIN proxies' : WellOwned(proxies'[q])
    BY <1>2, <1>4
  <2>2. \A q, r \in DOMAIN proxies' : q # r => ProxyFds(proxies'[q]) \cap ProxyFds(proxies'[r]) = {}
    BY <1>2, <1>3
  <2> QED BY <2>1, <2>2 DEF ListOwned, WellOwned, ProxyFds, ConnFds
<1>7. \A q \in DOMAIN proxies : /\ proxies'[q].remote = proxies[q].remote
                                /\ proxies'[q].port = proxies[q].port
  BY <1>2
<1>8. Owned'
  <2>1. Held' = {}
    BY DEF Held, Nobody
  <2> QED BY <1>5, <1>6, <2>1 DEF Owned
<1> QED BY <1>2, <1>7, <1>8

\* A proxy more.
LEMMA ProxyAppended ==
    ASSUME TypeOK, ListOwned, NEW y \in Proxy, y.conns = <<>>, y.fd \notin Watched,
           proxies' = Append(proxies, y)
    PROVE  /\ proxies' \in Seq(Proxy) /\ Len(proxies') = Len(proxies) + 1
           /\ DOMAIN proxies' = DOMAIN proxies \cup {Len(proxies) + 1}
           /\ \A q \in DOMAIN proxies : proxies'[q] = proxies[q]
           /\ proxies'[Len(proxies) + 1] = y
           /\ ListOwned' /\ Watched' = Watched \cup {y.fd}
<1> DEFINE n == Len(proxies)
<1>1. /\ proxies \in Seq(Proxy) /\ n \in Nat /\ DOMAIN proxies = 1 .. n
  BY ListTyped
<1>2. /\ proxies' \in Seq(Proxy) /\ Len(proxies') = n + 1 /\ DOMAIN proxies' = 1 .. n + 1
      /\ proxies'[n + 1] = y /\ \A q \in 1 .. n : proxies'[q] = proxies[q]
  BY <1>1, AppendProperties, LenProperties
<1> HIDE DEF n
<1>3. 1 .. n + 1 = 1 .. n \cup {n + 1} /\ n + 1 \notin 1 .. n
  BY <1>1
<1>4. ProxyFds(y) = {y.fd} /\ WellOwned(y)
  BY EmptySeq DEF ProxyFds, WellOwned
<1>5. \A q \in 1 .. n : ProxyFds(proxies[q]) \subseteq Watched
  BY <1>1, WatchedFacts
<1>6. \A q \in 1 .. n + 1 : WellOwned(proxies'[q])
  BY <1>1, <1>2, <1>3, <1>4 DEF ListOwned
<1>7. ASSUME NEW q \in 1 .. n + 1, NEW r \in 1 .. n + 1, q # r
      PROVE  ProxyFds(proxies'[q]) \cap ProxyFds(proxies'[r]) = {}
  <2>1. CASE q \in 1 .. n /\ r \in 1 .. n
    BY <1>1, <1>2, <1>7, <2>1 DEF ListOwned
  <2>2. CASE q \in 1 .. n /\ r = n + 1
    BY <1>2, <1>4, <1>5, <2>2
  <2>3. CASE q = n + 1 /\ r \in 1 .. n
    BY <1>2, <1>4, <1>5, <2>3
  <2> QED BY <1>3, <1>7, <2>1, <2>2, <2>3
<1>8. Watched' = Watched \cup {y.fd}
  <2>1. \A f : f \in Watched' <=> \E q \in 1 .. n + 1 : f \in ProxyFds(proxies'[q])
    BY <1>2, WatchedFactsNext
  <2>2. \A f : f \in Watched <=> \E q \in 1 .. n : f \in ProxyFds(proxies[q])
    BY <1>1, WatchedFacts
  <2>3. ASSUME NEW f PROVE f \in Watched' <=> f \in Watched \cup {y.fd}
    BY <1>2, <1>3, <1>4, <2>1, <2>2
  <2> QED BY <2>3
<1>9. ListOwned'
  <2>1. \A p \in DOMAIN proxies' : WellOwned(proxies'[p])
    BY <1>2, <1>6
  <2>2. \A p, q \in DOMAIN proxies' : p # q => ProxyFds(proxies'[p]) \cap ProxyFds(proxies'[q]) = {}
    BY <1>2, <1>7
  <2> QED BY <2>1, <2>2 DEF ListOwned, WellOwned, ProxyFds, ConnFds
<1> QED BY <1>1, <1>2, <1>3, <1>8, <1>9 DEF n

\* No proxy changes.
LEMMA ListSame ==
    ASSUME ListOwned, UNCHANGED proxies
    PROVE  ListOwned' /\ Watched' = Watched
<1>1. Watched' = Watched
  BY DEF Watched, ProxyFds, ConnFds
<1>2. \A p \in DOMAIN proxies' : WellOwned(proxies'[p])
  BY DEF ListOwned
<1>3. \A p, q \in DOMAIN proxies' : p # q => ProxyFds(proxies'[p]) \cap ProxyFds(proxies'[q]) = {}
  BY DEF ListOwned
<1> QED BY <1>1, <1>2, <1>3 DEF ListOwned, WellOwned, ProxyFds, ConnFds

\* The proxies stay where they are, for the servers they are.
LEMMA ListKept ==
    ASSUME TypeOK, RedirectsLeadHome, ProxiesDistinct, told' = told,
           DOMAIN proxies' = DOMAIN proxies,
           \A q \in DOMAIN proxies : /\ proxies'[q].remote = proxies[q].remote
                                     /\ proxies'[q].port = proxies[q].port
    PROVE  RedirectsLeadHome' /\ ProxiesDistinct'
<1>1. RedirectsLeadHome'
  BY DEF RedirectsLeadHome
<1>2. ProxiesDistinct'
  BY DEF ProxiesDistinct
<1> QED BY <1>1, <1>2

\* Where the pass goes from a connection is where there is one.
LEMMA ToConnEffect ==
    ASSUME pc \in PC, proxies' \in Seq(Proxy), pc.p \in DOMAIN proxies',
           NEW c \in Nat, c >= 1, ToConn(c, Len(proxies'[pc.p].conns)), accepting' = Nobody
    PROVE  pc' \in PC /\ OnTheWay'
<1> DEFINE len == Len(proxies'[pc.p].conns)
<1>1. /\ len \in Nat /\ DOMAIN (proxies'[pc.p].conns) = 1 .. len
      /\ Len(proxies') \in Nat /\ DOMAIN proxies' = 1 .. Len(proxies')
  BY LenProperties, ElementOfSeq DEF Proxy
<1>2. pc.p \in Nat /\ pc.p >= 1 /\ pc.p <= Len(proxies')
  BY <1>1
<1> HIDE DEF len
<1>3. CASE c <= len
  <2>1. pc' = [pc EXCEPT !.at = "local", !.c = c, !.ok = TRUE]
    BY <1>3 DEF ToConn, len
  <2>2. pc' \in PC /\ pc'.at = "local" /\ pc'.c = c /\ pc'.p = pc.p
    BY <2>1 DEF PC
  <2>3. c \in 1 .. len
    BY <1>1, <1>3
  <2> QED BY <1>1, <2>2, <2>3 DEF OnTheWay
<1>4. CASE ~(c <= len) /\ pc.p < Len(proxies')
  <2> DEFINE n == pc.p + 1
  <2>1. pc' = [At("accept") EXCEPT !.p = n]
    BY <1>4 DEF ToConn, len
  <2>3. n \in 1 .. Len(proxies') /\ n \in Nat
    BY <1>1, <1>2, <1>4
  <2> HIDE DEF n
  <2>2. pc'.at = "accept" /\ pc'.p = n /\ pc' \in PC
    BY <2>1, <2>3 DEF PC, At
  <2> QED BY <1>1, <2>2, <2>3 DEF OnTheWay
<1>5. CASE ~(c <= len) /\ ~(pc.p < Len(proxies'))
  <2>1. pc' = At("check")
    BY <1>5 DEF ToConn, len
  <2>2. pc'.at = "check" /\ pc' \in PC
    BY <2>1 DEF PC, At
  <2> QED BY <2>2 DEF OnTheWay
<1> QED BY <1>3, <1>4, <1>5

-----------------------------------------------------------------------------
(* The steps.                                                              *)

\* A step that leaves the proxies alone and tells nothing: only the sockets of
\* a client being accepted are opened and closed.
LEMMA HoldStep ==
    ASSUME IInv, UNCHANGED <<proxies, bindPort, told>>,
           backlog' \in [FDs -> 0 .. Backlog], rx' \in [FDs -> Seq(Item)], fds' \subseteq FDs,
           pc' \in PC, OnTheWay', m_quit' \in BOOLEAN,
           accepting' \in Accepting, Watched \cap Held' = {}, open' = Watched \cup Held'
    PROVE  IInv'
<1>1. ListOwned' /\ Watched' = Watched
  BY ListSame DEF IInv, Owned
<1>2. Owned'
  BY <1>1 DEF Owned
<1>3. open' \subseteq FDs
  BY DEF IInv, TypeOK, Owned, Held, Accepting
<1>4. TypeOK'
  BY <1>3 DEF IInv, TypeOK, PC, Accepting
<1>5. RedirectsLeadHome' /\ ProxiesDistinct'
  BY ListKept DEF IInv
<1> QED BY <1>2, <1>4, <1>5 DEF IInv

\* A step that neither opens, closes nor tells anything.
LEMMA QuietStep ==
    ASSUME IInv, UNCHANGED <<proxies, bindPort, open, told, accepting>>,
           backlog' \in [FDs -> 0 .. Backlog], rx' \in [FDs -> Seq(Item)], fds' \subseteq FDs,
           pc' \in PC, OnTheWay', m_quit' \in BOOLEAN
    PROVE  IInv'
<1>1. accepting' \in Accepting
  BY ListTyped DEF IInv
<1>2. Held' = Held
  BY DEF Held
<1>3. Watched \cap Held' = {} /\ open' = Watched \cup Held'
  BY <1>2 DEF IInv, Owned
<1> QED BY <1>1, <1>3, HoldStep

\* The connection and the descriptors a step of the pass is about.
LEMMA HereFacts ==
    ASSUME IInv, pc.at \in {"accept", "socket", "connect", "close", "local", "remote", "reap"}
    PROVE  /\ pc.p \in DOMAIN proxies /\ pc.p \in 1 .. Len(proxies) /\ Here \in Proxy /\ WellOwned(Here)
           /\ Here.fd \in FDs /\ Len(Conns) \in Nat /\ DOMAIN Conns = 1 .. Len(Conns)
           /\ pc.at \in {"local", "remote", "reap"} =>
                 pc.c \in DOMAIN Conns /\ pc.c \in Nat /\ pc.c >= 1 /\ Conn \in Connection
<1>1. pc.p \in DOMAIN proxies /\ Here \in Proxy /\ pc.p \in 1 .. Len(proxies)
  BY ListTyped DEF IInv, OnTheWay, Here
<1>2. WellOwned(Here)
  BY <1>1 DEF IInv, Owned, ListOwned, Here
<1>3. Conns \in Seq(Connection) /\ Here.fd \in FDs
  BY <1>1 DEF Proxy, Conns
<1>4. Len(Conns) \in Nat /\ DOMAIN Conns = 1 .. Len(Conns)
  BY <1>3, LenProperties
<1>5. ASSUME pc.at \in {"local", "remote", "reap"}
      PROVE  pc.c \in DOMAIN Conns /\ pc.c \in Nat /\ pc.c >= 1 /\ Conn \in Connection
  <2>1. pc.c \in DOMAIN Conns
    BY <1>5 DEF IInv, OnTheWay, Conns, Here
  <2> QED BY <1>3, <1>4, <2>1, ElementOfSeq DEF Conn
<1> QED BY <1>1, <1>2, <1>3, <1>4, <1>5

\* Steps of the loop between two passes, and the world's.
LEMMA IdleStep ==
    ASSUME IInv, Check \/ FillFdSet \/ Select \/ Environment \/ Sigint
    PROVE  IInv'
<1>a. TypeOK /\ OnTheWay /\ Owned /\ pc \in PC
  BY ListTyped DEF IInv
<1>b. Watched \subseteq FDs
  BY <1>a DEF Owned, TypeOK
<1>1. CASE Check
  <2>1. pc' \in PC /\ OnTheWay'
    BY <1>1, <1>a DEF Check, At, PC, OnTheWay, LoopOnly
  <2> QED BY <1>1, <1>a, <2>1, QuietStep DEF Check, LoopOnly, TypeOK
<1>2. CASE FillFdSet
  <2>1. pc' \in PC /\ OnTheWay'
    BY <1>2, <1>a DEF FillFdSet, At, PC, OnTheWay, LoopOnly
  <2> QED BY <1>2, <1>a, <1>b, <2>1, QuietStep DEF FillFdSet, LoopOnly, TypeOK
<1>3. CASE Select
  <2>1. fds' = Ready /\ Ready \subseteq FDs /\ Ready # {}
    BY <1>3, <1>b DEF Select, Ready
  <2>2. 1 \in DOMAIN proxies
    <3>1. PICK f \in Ready : TRUE
      BY <2>1
    <3>2. f \in Watched
      BY <3>1 DEF Ready
    <3>3. PICK p \in DOMAIN proxies : TRUE
      BY <3>2, WatchedFacts
    <3> QED BY <1>a, <3>3, ListTyped
  <2>3. pc' = [At("accept") EXCEPT !.p = 1]
    BY <1>3 DEF Select
  <2>4. pc' \in PC /\ pc'.at = "accept" /\ pc'.p = 1
    BY <2>3 DEF At, PC
  <2>5. OnTheWay'
    BY <1>3, <1>a, <2>2, <2>4 DEF OnTheWay, Select, LoopOnly
  <2> QED BY <1>3, <1>a, <2>1, <2>4, <2>5, QuietStep DEF Select, LoopOnly, TypeOK
<1>4. ASSUME NEW p \in DOMAIN proxies, ClientConnects(p) PROVE IInv'
  <2>1. proxies[p].fd \in FDs
    BY <1>a, ListTyped DEF Proxy
  <2>2. backlog[proxies[p].fd] + 1 \in 0 .. Backlog
    <3>1. backlog[proxies[p].fd] \in 0 .. Backlog /\ backlog[proxies[p].fd] < Backlog
      BY <1>4, <1>a, <2>1 DEF ClientConnects, TypeOK
    <3> QED BY <3>1, ProxyAssumption
  <2>3. backlog' \in [FDs -> 0 .. Backlog]
    BY <1>4, <1>a, <2>1, <2>2 DEF ClientConnects, TypeOK
  <2>4. OnTheWay'
    BY <1>4, <1>a DEF OnTheWay, ClientConnects, World
  <2> QED BY <1>4, <1>a, <2>3, <2>4, QuietStep DEF ClientConnects, World, TypeOK
<1>5. ASSUME NEW f \in FDs, NEW item \in Item, Arrives(f, item) PROVE IInv'
  <2>1. rx' \in [FDs -> Seq(Item)]
    BY <1>5, <1>a DEF Arrives, TypeOK
  <2>2. OnTheWay'
    BY <1>5, <1>a DEF OnTheWay, Arrives, World
  <2> QED BY <1>5, <1>a, <2>1, <2>2, QuietStep DEF Arrives, World, TypeOK
<1>6. CASE Environment
  <2>1. PICK p \in DOMAIN proxies :
          \/ ClientConnects(p)
          \/ \E c \in DOMAIN proxies[p].conns :
                \/ \E item \in {"data", "eof"} : Arrives(proxies[p].conns[c].local, item)
                \/ \E item \in Item : Arrives(proxies[p].conns[c].remote, item)
    BY <1>6 DEF Environment
  <2>2. \A c \in DOMAIN proxies[p].conns : proxies[p].conns[c].local \in FDs /\ proxies[p].conns[c].remote \in FDs
    <3>1. proxies[p].conns \in Seq(Connection)
      BY <1>a, ListTyped DEF Proxy
    <3>2. \A c \in DOMAIN proxies[p].conns : proxies[p].conns[c] \in Connection
      BY <3>1, ElementOfSeq, LenProperties
    <3> QED BY <3>2 DEF Connection
  <2>3. {"data", "eof"} \subseteq Item
    BY DEF Item
  <2> QED BY <1>4, <1>5, <2>1, <2>2, <2>3
<1>7. CASE Sigint
  <2>1. pc' \in PC /\ OnTheWay'
    BY <1>7, <1>a DEF Sigint, World, At, PC, OnTheWay
  <2> QED BY <1>7, <1>a, <2>1, QuietStep DEF Sigint, World, TypeOK
<1> QED BY <1>1, <1>2, <1>3, <1>6, <1>7

\* Steps of the pass that leave the connections alone.
LEMMA PassStep ==
    ASSUME IInv, NoAccept \/ AcceptFails \/ Keep \/ \E side \in {"local", "remote"} : NoEvent(side)
    PROVE  IInv'
<1>a. TypeOK /\ OnTheWay /\ pc \in PC
  BY ListTyped DEF IInv
<1>1. ASSUME pc.at \in {"accept", "reap"}, LoopOnly, fds' = fds,
             NEW c \in Nat, c >= 1, ToConn(c, Len(Conns))
      PROVE  IInv'
  <2>1. pc.p \in DOMAIN proxies' /\ proxies' \in Seq(Proxy)
    BY <1>1, <1>a, HereFacts, ListTyped DEF LoopOnly
  <2>2. ToConn(c, Len(proxies'[pc.p].conns)) /\ accepting' = Nobody
    BY <1>1, <1>a DEF Conns, Here, LoopOnly, OnTheWay
  <2>3. pc' \in PC /\ OnTheWay'
    BY <1>1, <1>a, <2>1, <2>2, ToConnEffect
  <2> QED BY <1>1, <1>a, <2>3, QuietStep DEF TypeOK, LoopOnly
<1>2. CASE NoAccept
  BY <1>1, <1>2 DEF NoAccept
<1>3. CASE AcceptFails
  BY <1>1, <1>3 DEF AcceptFails
<1>4. CASE Keep
  <2>1. pc.c + 1 \in Nat /\ pc.c + 1 >= 1
    BY <1>4, HereFacts DEF Keep
  <2> QED BY <1>1, <1>4, <2>1 DEF Keep
<1>5. ASSUME NEW side \in {"local", "remote"}, NoEvent(side) PROVE IInv'
  <2>1. pc' = [pc EXCEPT !.at = Step(side)] /\ proxies' = proxies /\ accepting' = accepting
    BY <1>5 DEF NoEvent, LoopOnly
  <2>2. pc' \in PC /\ pc'.p = pc.p /\ pc'.c = pc.c /\ pc'.at \in {"remote", "reap"}
    BY <1>a, <2>1 DEF PC, Step
  <2>3. OnTheWay'
    BY <1>5, <1>a, <2>1, <2>2 DEF OnTheWay, NoEvent
  <2> QED BY <1>5, <1>a, <2>2, <2>3, QuietStep DEF NoEvent, LoopOnly, TypeOK
<1> QED BY <1>2, <1>3, <1>4, <1>5

\* What the next step of an accept takes or closes.
LEMMA AcceptStep ==
    ASSUME IInv, Accept \/ Socket \/ NoSocket \/ Refused
    PROVE  IInv'
<1>a. TypeOK /\ OnTheWay /\ Owned /\ pc \in PC /\ accepting \in Accepting
  BY ListTyped DEF IInv
<1>b. NoFD \notin FDs
  BY ProxyAssumption DEF NoFD
<1>1. ASSUME NEW at \in {"socket", "connect", "close"}, AcceptGoesTo(at), pc.p \in DOMAIN proxies
      PROVE  pc' \in PC /\ pc'.at = at /\ pc'.p \in DOMAIN proxies'
  BY <1>1, <1>a DEF AcceptGoesTo, PC
<1>2. ASSUME UNCHANGED <<proxies, bindPort, rx, fds, m_quit, told>>,
             backlog' \in [FDs -> 0 .. Backlog], pc' \in PC, OnTheWay', accepting' \in Accepting,
             Watched \cap Held' = {}, open' = Watched \cup Held'
      PROVE  IInv'
  BY <1>2, <1>a, HoldStep DEF TypeOK
<1>3. CASE Accept
  <2> DEFINE f == Min(Free)
  <2>1. f \in FDs /\ f \notin open /\ f # NoFD
    BY <1>3, FirstFree DEF Accept, Takes
  <2>2. /\ open' = open \cup {f} /\ accepting' = [accepting EXCEPT !.local = f]
        /\ UNCHANGED <<proxies, bindPort, rx, fds, m_quit, told>>
        /\ accepting = Nobody /\ pc.p \in DOMAIN proxies
    BY <1>3, <1>a DEF Accept, Takes, AcceptGoesTo, OnTheWay
  <2> HIDE DEF f
  <2>3. accepting' = [local |-> f, remote |-> NoFD]
    BY <2>2 DEF Nobody
  <2>4. accepting' \in Accepting /\ Held' = {f} /\ Held = {}
    BY <2>1, <2>2, <2>3 DEF Held, Accepting, Nobody
  <2>5. Watched \cap Held' = {} /\ open' = Watched \cup Held'
    BY <1>a, <2>1, <2>2, <2>4 DEF Owned
  <2>6. pc' \in PC /\ OnTheWay'
    BY <1>1, <1>3, <2>1, <2>2, <2>3 DEF Accept, OnTheWay
  <2>7. Here.fd \in FDs /\ backlog[Here.fd] \in 0 .. Backlog /\ backlog[Here.fd] > 0
    BY <1>3, <1>a, HereFacts DEF Accept, TypeOK
  <2>8. backlog' \in [FDs -> 0 .. Backlog]
    <3>1. backlog[Here.fd] - 1 \in 0 .. Backlog
      BY <2>7, ProxyAssumption
    <3> QED BY <1>3, <1>a, <2>7, <3>1 DEF Accept, TypeOK
  <2> QED BY <1>2, <2>2, <2>4, <2>5, <2>6, <2>8
<1>4. CASE Socket
  <2> DEFINE f == Min(Free)
             g == accepting.local
  <2>1. f \in FDs /\ f \notin open /\ f # NoFD
    BY <1>4, FirstFree DEF Socket, Takes
  <2>2. /\ open' = open \cup {f} /\ accepting' = [accepting EXCEPT !.remote = f]
        /\ UNCHANGED <<proxies, bindPort, backlog, rx, fds, m_quit, told>>
        /\ g \in FDs /\ accepting.remote = NoFD /\ pc.p \in DOMAIN proxies
    BY <1>4, <1>a DEF Socket, Takes, AcceptGoesTo, OnTheWay
  <2> HIDE DEF f
  <2>3. accepting' = [local |-> g, remote |-> f]
    BY <1>a, <2>2 DEF Accepting
  <2>4. Held = {g}
    BY <1>b, <2>2 DEF Held
  <2> HIDE DEF g
  <2>5. accepting' \in Accepting /\ Held' = {f, g}
    <3>1. g \in FDs /\ g # NoFD
      BY <1>b, <2>2 DEF g
    <3> QED BY <2>1, <2>3, <3>1 DEF Held, Accepting
  <2>6. Watched \cap Held' = {} /\ open' = Watched \cup Held' /\ f # g
    BY <1>a, <2>1, <2>2, <2>4, <2>5 DEF Owned
  <2>7. pc' \in PC /\ OnTheWay'
    BY <1>1, <1>4, <2>1, <2>2, <2>3, <2>6 DEF Socket, OnTheWay
  <2> QED BY <1>2, <1>a, <2>2, <2>5, <2>6, <2>7 DEF TypeOK
<1>5. CASE NoSocket
  <2>1. /\ UNCHANGED <<proxies, bindPort, open, backlog, rx, fds, m_quit, told, accepting>>
        /\ pc.at = "socket" /\ pc.p \in DOMAIN proxies
    BY <1>5, <1>a DEF NoSocket, AcceptGoesTo, OnTheWay
  <2>2. pc' \in PC /\ pc'.at = "close" /\ pc'.p \in DOMAIN proxies'
    BY <1>1, <1>5, <2>1 DEF NoSocket
  <2>3. OnTheWay'
    BY <1>a, <2>1, <2>2 DEF OnTheWay
  <2> QED BY <1>a, <2>1, <2>2, <2>3, QuietStep DEF TypeOK
<1>6. CASE Refused
  <2> DEFINE f == accepting.remote
             g == accepting.local
  <2>1. /\ open' = open \ {f} /\ accepting' = [accepting EXCEPT !.remote = NoFD]
        /\ UNCHANGED <<proxies, bindPort, backlog, rx, fds, m_quit, told>>
        /\ f \in FDs /\ g \in FDs /\ f # g /\ pc.p \in DOMAIN proxies
    BY <1>6, <1>a DEF Refused, Closes, AcceptGoesTo, OnTheWay
  <2>2. accepting' = [local |-> g, remote |-> NoFD] /\ Held = {f, g}
    BY <1>a, <1>b, <2>1 DEF Accepting, Held
  <2> HIDE DEF f, g
  <2>3. accepting' \in Accepting /\ Held' = {g}
    <3>1. g \in FDs /\ g # NoFD
      BY <1>b, <2>1 DEF g
    <3> QED BY <2>2, <3>1 DEF Held, Accepting
  <2>4. Watched \cap Held' = {} /\ open' = Watched \cup Held'
    BY <1>a, <2>1, <2>2, <2>3 DEF Owned
  <2>5. pc' \in PC /\ OnTheWay'
    BY <1>1, <1>6, <2>1, <2>2 DEF Refused, OnTheWay
  <2> QED BY <1>2, <1>a, <2>1, <2>3, <2>4, <2>5 DEF TypeOK
<1> QED BY <1>3, <1>4, <1>5, <1>6

\* The server could not be reached and the client is closed.
LEMMA CloseClientStep == IInv /\ CloseClient => IInv'
<1> SUFFICES ASSUME IInv, CloseClient PROVE IInv'
  OBVIOUS
<1> DEFINE g == accepting.local
<1>a. TypeOK /\ Owned /\ OnTheWay /\ pc \in PC /\ accepting \in Accepting
  BY ListTyped DEF IInv
<1>b. pc.p \in DOMAIN proxies /\ proxies \in Seq(Proxy)
  BY <1>a, ListTyped DEF CloseClient, OnTheWay
<1>1. /\ open' = open \ {g} /\ accepting' = [accepting EXCEPT !.local = NoFD]
      /\ UNCHANGED <<proxies, bindPort, backlog, rx, fds, m_quit, told>>
      /\ accepting.remote = NoFD
  BY <1>a DEF CloseClient, Closes, OnTheWay
<1>2. accepting' = Nobody /\ Held \subseteq {g}
  BY <1>a, <1>1 DEF Accepting, Held, Nobody
<1> HIDE DEF g
<1>3. accepting' \in Accepting /\ Held' = {}
  BY <1>2 DEF Held, Accepting, Nobody
<1>4. open' = Watched
  <2>1. g \in Held
    BY <1>a, ProxyAssumption DEF CloseClient, OnTheWay, Held, NoFD, g
  <2> QED BY <1>a, <1>1, <1>2, <2>1 DEF Owned
<1>5. pc' \in PC /\ OnTheWay'
  <2>1. ToConn(1, Len(proxies'[pc.p].conns))
    BY <1>1 DEF CloseClient, Conns, Here
  <2> QED BY <1>a, <1>b, <1>1, <1>2, <2>1, ToConnEffect
<1> QED BY <1>a, <1>1, <1>3, <1>4, <1>5, HoldStep DEF TypeOK

\* The server answers: the two sockets are the connection's from now on.
LEMMA ConnectedStep == IInv /\ Connected => IInv'
<1> SUFFICES ASSUME IInv, Connected PROVE IInv'
  OBVIOUS
<1> DEFINE conn == accepting
           y == [Here EXCEPT !.conns = Append(@, conn)]
<1>a. TypeOK /\ Owned /\ ListOwned /\ OnTheWay /\ pc \in PC /\ pc.at = "connect"
  BY ListTyped DEF IInv, Connected, Owned
<1>b. pc.p \in DOMAIN proxies /\ Here \in Proxy /\ WellOwned(Here) /\ Len(Conns) \in Nat
  BY <1>a, HereFacts
<1>2. /\ proxies' = [proxies EXCEPT ![pc.p].conns = Append(@, conn)]
      /\ accepting' = Nobody
      /\ ToConn(1, Len(Conns) + 1)
      /\ UNCHANGED <<bindPort, open, backlog, rx, fds, m_quit, told>>
  BY DEF Connected
<1>3. conn \in Connection /\ conn.local # conn.remote /\ ConnFds(conn) = Held
  <2>1. conn \in Accepting /\ NoFD \notin FDs
    BY <1>a, ListTyped, ProxyAssumption DEF NoFD
  <2> QED BY <1>a, <2>1 DEF OnTheWay, Accepting, Connection, ConnFds, Held
<1>4. accepting' \in Accepting /\ Held' = {}
  BY <1>2 DEF Accepting, Nobody, Held
<1>5. ProxyFds(Here) \subseteq Watched
  BY <1>b, WatchedFacts DEF Here
<1>6. /\ y \in Proxy /\ WellOwned(y) /\ ProxyFds(y) = ProxyFds(Here) \cup Held
      /\ Len(y.conns) = Len(Conns) + 1 /\ y.remote = Here.remote /\ y.port = Here.port
  <2>1. ConnFds(conn) \cap ProxyFds(Here) = {}
    BY <1>a, <1>3, <1>5 DEF Owned
  <2> HIDE DEF conn
  <2>2. /\ y \in Proxy /\ WellOwned(y) /\ ProxyFds(y) = ProxyFds(Here) \cup ConnFds(conn)
        /\ Len(y.conns) = Len(Here.conns) + 1 /\ y.remote = Here.remote /\ y.port = Here.port
    BY <1>b, <1>3, <2>1, AppendConnection
  <2> HIDE DEF y
  <2> QED BY <1>3, <2>2 DEF Conns
<1>7. proxies' = [proxies EXCEPT ![pc.p] = y]
  BY <1>2, <1>b DEF Here
<1> HIDE DEF y, conn
<1>8. /\ proxies' \in Seq(Proxy) /\ DOMAIN proxies' = DOMAIN proxies /\ proxies'[pc.p] = y
      /\ \A q \in DOMAIN proxies : /\ proxies'[q].remote = proxies[q].remote
                                   /\ proxies'[q].port = proxies[q].port
      /\ Owned'
  <2>1. ASSUME NEW more, NEW less, more \cap Watched = {}, less \subseteq ProxyFds(proxies[pc.p]),
               open' = (Watched \cup more) \ less,
               ProxyFds(y) = (ProxyFds(proxies[pc.p]) \cup more) \ less
        PROVE  /\ proxies' \in Seq(Proxy) /\ DOMAIN proxies' = DOMAIN proxies /\ proxies'[pc.p] = y
               /\ \A q \in DOMAIN proxies : /\ proxies'[q].remote = proxies[q].remote
                                            /\ proxies'[q].port = proxies[q].port
               /\ Owned'
    <3>1. y \in Proxy /\ WellOwned(y) /\ y.remote = proxies[pc.p].remote /\ y.port = proxies[pc.p].port
      BY <1>6 DEF Here
    <3>2. pc.p \in DOMAIN proxies /\ TypeOK /\ ListOwned /\ accepting' = Nobody
      BY <1>a, <1>b, <1>2
    <3> QED BY <1>7, <2>1, <3>1, <3>2, ProxyChanges
  <2>2. /\ ProxyFds(y) = (ProxyFds(proxies[pc.p]) \cup Held) \ {}
        /\ {} \subseteq ProxyFds(proxies[pc.p]) /\ Held \cap Watched = {}
    BY <1>a, <1>6 DEF Here, Owned
  <2>3. open' = (Watched \cup Held) \ {}
    BY <1>a, <1>2 DEF Owned
  <2> QED BY <2>1, <2>2, <2>3
<1>9. RedirectsLeadHome' /\ ProxiesDistinct'
  BY <1>2, <1>8, ListKept DEF IInv
<1>10. pc' \in PC /\ OnTheWay'
  <2>1. pc.p \in DOMAIN proxies' /\ proxies' \in Seq(Proxy)
    BY <1>b, <1>8
  <2>2. ToConn(1, Len(proxies'[pc.p].conns))
    BY <1>2, <1>6, <1>8
  <2> QED BY <1>a, <1>2, <2>1, <2>2, ToConnEffect
<1>11. TypeOK'
  BY <1>a, <1>2, <1>4, <1>8, <1>10 DEF TypeOK, PC, Proxy, Connection, Accepting
<1> QED BY <1>8, <1>9, <1>10, <1>11 DEF IInv

\* A connection is deleted.
LEMMA ReapStep == IInv /\ Reap => IInv'
<1> SUFFICES ASSUME IInv, Reap PROVE IInv'
  OBVIOUS
<1> DEFINE y == [Here EXCEPT !.conns = Without(@, pc.c)]
<1>a. TypeOK /\ Owned /\ ListOwned /\ pc \in PC /\ pc.at = "reap" /\ accepting = Nobody
  BY ListTyped DEF IInv, Reap, OnTheWay, Owned
<1>b. /\ pc.p \in DOMAIN proxies /\ Here \in Proxy /\ WellOwned(Here)
      /\ pc.c \in DOMAIN Conns /\ pc.c \in Nat /\ pc.c >= 1 /\ Conn \in Connection
  BY <1>a, HereFacts
<1>2. /\ open' = open \ ConnFds(Conn)
      /\ proxies' = [proxies EXCEPT ![pc.p].conns = Without(@, pc.c)]
      /\ rx' = [f \in FDs |-> IF f \in ConnFds(Conn) THEN <<>> ELSE rx[f]]
      /\ ToConn(pc.c, Len(Conns) - 1)
      /\ UNCHANGED <<bindPort, backlog, fds, m_quit, told, accepting>>
  BY DEF Reap
<1>6. /\ y \in Proxy /\ WellOwned(y) /\ ProxyFds(y) = ProxyFds(Here) \ ConnFds(Conn)
      /\ ConnFds(Conn) \subseteq ProxyFds(Here)
      /\ Len(y.conns) = Len(Conns) - 1 /\ y.remote = Here.remote /\ y.port = Here.port
  BY <1>b, DropConnection DEF Conns, Conn
<1>7. proxies' = [proxies EXCEPT ![pc.p] = y]
  BY <1>2, <1>b DEF Here
<1> HIDE DEF y
<1>8. /\ proxies' \in Seq(Proxy) /\ DOMAIN proxies' = DOMAIN proxies /\ proxies'[pc.p] = y
      /\ \A q \in DOMAIN proxies : /\ proxies'[q].remote = proxies[q].remote
                                   /\ proxies'[q].port = proxies[q].port
      /\ Owned'
  <2>1. ASSUME NEW more, NEW less, more \cap Watched = {}, less \subseteq ProxyFds(proxies[pc.p]),
               open' = (Watched \cup more) \ less,
               ProxyFds(y) = (ProxyFds(proxies[pc.p]) \cup more) \ less
        PROVE  /\ proxies' \in Seq(Proxy) /\ DOMAIN proxies' = DOMAIN proxies /\ proxies'[pc.p] = y
               /\ \A q \in DOMAIN proxies : /\ proxies'[q].remote = proxies[q].remote
                                            /\ proxies'[q].port = proxies[q].port
               /\ Owned'
    <3>1. y \in Proxy /\ WellOwned(y) /\ y.remote = proxies[pc.p].remote /\ y.port = proxies[pc.p].port
      BY <1>6 DEF Here
    <3>2. pc.p \in DOMAIN proxies /\ TypeOK /\ ListOwned /\ accepting' = Nobody
      BY <1>a, <1>b, <1>2
    <3> QED BY <1>7, <2>1, <3>1, <3>2, ProxyChanges
  <2>2. /\ ProxyFds(y) = (ProxyFds(proxies[pc.p]) \cup {}) \ ConnFds(Conn)
        /\ ConnFds(Conn) \subseteq ProxyFds(proxies[pc.p]) /\ {} \cap Watched = {}
    BY <1>6 DEF Here
  <2>3. open' = (Watched \cup {}) \ ConnFds(Conn)
    BY <1>a, <1>2 DEF Owned, Held, Nobody
  <2> QED BY <2>1, <2>2, <2>3
<1>9. RedirectsLeadHome' /\ ProxiesDistinct'
  BY <1>2, <1>8, ListKept DEF IInv
<1>10. pc' \in PC /\ OnTheWay'
  BY <1>a, <1>b, <1>2, <1>6, <1>8, ToConnEffect
<1>11. rx' \in [FDs -> Seq(Item)]
  <2>1. \A f \in FDs : rx[f] \in Seq(Item) /\ <<>> \in Seq(Item)
    BY <1>a, EmptySeq DEF TypeOK
  <2> QED BY <1>2, <2>1
<1>12. TypeOK'
  BY <1>a, <1>2, <1>8, <1>10, <1>11 DEF TypeOK, PC, Proxy, Connection
<1> QED BY <1>8, <1>9, <1>10, <1>12 DEF IInv

\* A 16-bit port wraps to 0.
LEMMA NextPortTyped ==
    ASSUME TypeOK
    PROVE  NextPort \in 0 .. PortMax
<1>1. bindPort \in 0 .. PortMax /\ PortMax \in Nat
  BY ProxyAssumption DEF TypeOK
<1>2. CASE bindPort < PortMax
  <2>1. bindPort + 1 \in 0 .. PortMax
    BY <1>1, <1>2
  <2>2. (bindPort + 1) % (PortMax + 1) \in 0 .. PortMax
    BY <1>1
  <2> QED BY <2>2 DEF NextPort
<1>3. CASE bindPort = PortMax
  <2>1. (bindPort + 1) % (PortMax + 1) \in 0 .. PortMax
    BY <1>1
  <2> QED BY <2>1 DEF NextPort
<1> QED BY <1>1, <1>2, <1>3

\* What GetProxyForAddress does to the list, the ports and the descriptors.
LEMMA RedirectStep ==
    ASSUME IInv, NEW s \in Servers, Redirect(s), accepting = Nobody, accepting' = Nobody
    PROVE  /\ proxies' \in Seq(Proxy) /\ DOMAIN proxies \subseteq DOMAIN proxies'
           /\ \A q \in DOMAIN proxies : proxies'[q] = proxies[q]
           /\ bindPort' \in 0 .. PortMax /\ open' \subseteq FDs
           /\ told' \subseteq [server : Servers, port : 0 .. PortMax \cup {Direct}]
           /\ Owned' /\ RedirectsLeadHome' /\ ProxiesDistinct'
<1>a. TypeOK /\ Owned /\ RedirectsLeadHome /\ ProxiesDistinct
  BY DEF IInv
<1>b. /\ proxies \in Seq(Proxy) /\ \A p \in DOMAIN proxies : proxies[p] \in Proxy
      /\ Len(proxies) + 1 \notin DOMAIN proxies
  BY <1>a, ListTyped
<1>c. /\ bindPort \in 0 .. PortMax /\ open \subseteq FDs
      /\ told \subseteq [server : Servers, port : 0 .. PortMax \cup {Direct}]
  BY <1>a DEF TypeOK
<1>d. Held = {} /\ Held' = {}
  BY DEF Held, Nobody
<1>e. ASSUME UNCHANGED <<proxies, open>> PROVE Owned'
  BY <1>a, <1>d, <1>e, ListSame DEF Owned
<1>1. CASE /\ \E p \in DOMAIN proxies : proxies[p].remote = s /\ Tell(s, proxies[p].port)
           /\ UNCHANGED <<proxies, bindPort, open>>
  <2>1. PICK p \in DOMAIN proxies : proxies[p].remote = s /\ Tell(s, proxies[p].port)
    BY <1>1
  <2>2. told' = told \cup {[server |-> s, port |-> proxies[p].port]} /\ proxies[p].port \in 0 .. PortMax
    BY <1>b, <2>1 DEF Tell, Proxy
  <2>3. told' \subseteq [server : Servers, port : 0 .. PortMax \cup {Direct}]
    BY <1>c, <2>2
  <2>4. RedirectsLeadHome' /\ ProxiesDistinct'
    BY <1>a, <1>1, <2>1, <2>2 DEF RedirectsLeadHome, ProxiesDistinct
  <2> QED BY <1>a, <1>b, <1>c, <1>e, <1>1, <2>3, <2>4
<1>2. CASE Tell(s, Direct) /\ UNCHANGED <<proxies, open>> /\ bindPort' \in 0 .. PortMax
  <2>1. told' = told \cup {[server |-> s, port |-> Direct]}
    BY <1>2 DEF Tell
  <2>2. told' \subseteq [server : Servers, port : 0 .. PortMax \cup {Direct}]
    BY <1>c, <2>1
  <2>3. RedirectsLeadHome' /\ ProxiesDistinct'
    BY <1>a, <1>2, <2>1 DEF RedirectsLeadHome, ProxiesDistinct
  <2> QED BY <1>a, <1>b, <1>c, <1>e, <1>2, <2>2, <2>3
<1>3. CASE /\ Free # {} /\ \A p \in DOMAIN proxies : proxies[p].remote # s
           /\ CanListen(NextPort) /\ bindPort' = NextPort
           /\ proxies' = Append(proxies, [remote |-> s, port |-> NextPort,
                                          fd |-> Min(Free), conns |-> <<>>])
           /\ open' = open \cup {Min(Free)}
           /\ Tell(s, NextPort)
  <2> DEFINE port == NextPort
             f == Min(Free)
             y == [remote |-> s, port |-> port, fd |-> f, conns |-> <<>>]
             n == Len(proxies) + 1
  <2>1. f \in Free /\ f \in FDs /\ f \notin open
    BY <1>3, MinIsFirst DEF Free
  <2>2. port \in 0 .. PortMax
    BY <1>a, NextPortTyped
  <2>3. port # 0 => \A p \in DOMAIN proxies : proxies[p].port # port
    BY <1>3 DEF CanListen
  <2>4. told' = told \cup {[server |-> s, port |-> port]}
    BY <1>3 DEF Tell
  <2> HIDE DEF port, f
  <2>5. y \in Proxy /\ y.conns = <<>> /\ y.fd = f /\ y.remote = s /\ y.port = port
    BY <2>1, <2>2, EmptySeq DEF Proxy, Address
  <2>6. proxies' = Append(proxies, y) /\ open' = open \cup {y.fd}
    BY <1>3 DEF port, f
  <2> HIDE DEF y
  <2>7. /\ proxies' \in Seq(Proxy) /\ DOMAIN proxies' = DOMAIN proxies \cup {n}
        /\ \A q \in DOMAIN proxies : proxies'[q] = proxies[q]
        /\ proxies'[n] = y /\ Owned'
    <3>1. y.fd \notin Watched
      BY <1>a, <2>1, <2>5 DEF Owned
    <3> QED BY <1>a, <1>d, <2>5, <2>6, <3>1, ProxyAppended DEF Owned
  <2>8. told' \subseteq [server : Servers, port : 0 .. PortMax \cup {Direct}]
    BY <1>c, <2>2, <2>4
  <2> HIDE DEF n
  <2>9. RedirectsLeadHome'
    <3> SUFFICES ASSUME NEW t \in told', t.port \notin {0, Direct}
                 PROVE  \E p \in DOMAIN proxies' : proxies'[p].port = t.port /\ proxies'[p].remote = t.server
      BY DEF RedirectsLeadHome
    <3>1. CASE t \in told
      BY <1>a, <2>7, <3>1 DEF RedirectsLeadHome
    <3>2. CASE t = [server |-> s, port |-> port]
      BY <2>5, <2>7, <3>2
    <3> QED BY <2>4, <3>1, <3>2
  <2>10. ProxiesDistinct'
    <3> SUFFICES ASSUME NEW p \in DOMAIN proxies', NEW q \in DOMAIN proxies', p # q
                 PROVE  /\ proxies'[p].remote # proxies'[q].remote
                        /\ proxies'[p].port # proxies'[q].port \/ proxies'[p].port = 0
      BY DEF ProxiesDistinct
    <3>1. CASE p \in DOMAIN proxies /\ q \in DOMAIN proxies
      BY <1>a, <2>7, <3>1 DEF ProxiesDistinct
    <3>2. CASE p \in DOMAIN proxies /\ q = n
      BY <1>3, <2>3, <2>5, <2>7, <3>2
    <3>3. CASE p = n /\ q \in DOMAIN proxies
      BY <1>3, <2>3, <2>5, <2>7, <3>3
    <3> QED BY <2>7, <3>1, <3>2, <3>3
  <2> QED BY <1>3, <1>c, <2>1, <2>2, <2>5, <2>6, <2>7, <2>8, <2>9, <2>10 DEF port
<1>4. NextPort \in 0 .. PortMax
  BY <1>a, NextPortTyped
<1> QED BY <1>c, <1>1, <1>2, <1>3, <1>4 DEF Redirect

\* One item is read from a connection.
LEMMA EventStep == ASSUME IInv, NEW side \in {"local", "remote"}, Event(side) PROVE IInv'
<1>a. TypeOK /\ Owned /\ OnTheWay /\ pc \in PC
  BY ListTyped DEF IInv
<1>b. pc.at = side /\ Conn \in Connection /\ Conn[side] \in FDs
  <2>1. Conn \in Connection /\ pc.at = side
    BY HereFacts DEF Event
  <2> QED BY <2>1 DEF Connection
<1> DEFINE fd == Conn[side]
<1>1. /\ rx' = [rx EXCEPT ![fd] = Tail(@)] /\ rx[fd] # <<>>
      /\ pc' = [pc EXCEPT !.at = Step(side), !.ok = @ /\ Head(rx[fd]) # "eof"]
      /\ UNCHANGED <<backlog, fds, m_quit, accepting>>
      /\ accepting = Nobody
  BY <1>a, <1>b DEF Event, OnTheWay
<1>2. \/ Head(rx[fd]) \in Servers /\ Redirect(Head(rx[fd]))
      \/ UNCHANGED <<proxies, bindPort, open, told>>
  BY DEF Event
<1> HIDE DEF fd
<1>3. rx' \in [FDs -> Seq(Item)]
  <2>1. rx[fd] \in Seq(Item) /\ rx \in [FDs -> Seq(Item)]
    BY <1>a, <1>b DEF TypeOK, fd
  <2>2. Tail(rx[fd]) \in Seq(Item)
    BY <1>1, <2>1, HeadTailProperties
  <2> QED BY <1>1, <2>1, <2>2
<1>4. pc' \in PC /\ pc'.p = pc.p /\ pc'.c = pc.c /\ pc'.at \in {"remote", "reap"}
  <2> DEFINE ok == pc.ok /\ Head(rx[fd]) # "eof"
  <2>1. ok \in BOOLEAN /\ pc' = [pc EXCEPT !.at = Step(side), !.ok = ok]
    BY <1>1
  <2> HIDE DEF ok
  <2>2. Step(side) \in {"remote", "reap"}
    BY DEF Step
  <2> QED BY <1>a, <2>1, <2>2 DEF PC
<1>5. CASE UNCHANGED <<proxies, bindPort, open, told>>
  <2>1. OnTheWay'
    BY <1>a, <1>b, <1>1, <1>4, <1>5 DEF OnTheWay
  <2> QED BY <1>a, <1>1, <1>3, <1>4, <1>5, <2>1, QuietStep DEF TypeOK
<1>6. CASE Head(rx[fd]) \in Servers /\ Redirect(Head(rx[fd]))
  <2>1. /\ proxies' \in Seq(Proxy) /\ DOMAIN proxies \subseteq DOMAIN proxies'
        /\ \A q \in DOMAIN proxies : proxies'[q] = proxies[q]
        /\ bindPort' \in 0 .. PortMax /\ open' \subseteq FDs
        /\ told' \subseteq [server : Servers, port : 0 .. PortMax \cup {Direct}]
        /\ Owned' /\ RedirectsLeadHome' /\ ProxiesDistinct'
    BY <1>1, <1>6, RedirectStep
  <2>2. OnTheWay'
    BY <1>a, <1>b, <1>1, <1>4, <2>1 DEF OnTheWay
  <2>3. TypeOK'
    BY <1>a, <1>1, <1>3, <1>4, <2>1 DEF TypeOK, PC, Proxy, Connection
  <2> QED BY <2>1, <2>2, <2>3 DEF IInv
<1> QED BY <1>2, <1>5, <1>6

-----------------------------------------------------------------------------
(* The theorems.                                                           *)

\* In the beginning there is the login proxy, listening on one descriptor.
LEMMA InitIInv == Init => IInv
<1> SUFFICES ASSUME Init PROVE IInv
  OBVIOUS
<1> USE DEF Init
<1> DEFINE f == Min(FDs)
           y == [remote |-> LoginServer, port |-> LoginPort, fd |-> f, conns |-> <<>>]
<1>1. f \in FDs
  BY MinIsFirst, ProxyAssumption
<1> HIDE DEF f
<1>2. y \in Proxy /\ y.conns = <<>> /\ y.fd = f
  BY <1>1, ProxyAssumption, EmptySeq DEF Proxy, Address
<1>3. proxies = <<y>> /\ open = {f}
  BY DEF f
<1> HIDE DEF y
<1>4. proxies \in Seq(Proxy) /\ DOMAIN proxies = {1} /\ proxies[1] = y
  BY <1>2, <1>3
<1>5. TypeOK
  <2>1. \A S : <<>> \in Seq(S)
    BY EmptySeq
  <2>2. bindPort \in 0 .. PortMax /\ 0 \in 0 .. Backlog
    BY ProxyAssumption
  <2> QED BY <1>1, <1>3, <1>4, <2>1, <2>2 DEF TypeOK, At, Proxy, Connection, Nobody
<1>6. OnTheWay
  BY DEF OnTheWay, At
<1>7. Owned
  <2>1. ProxyFds(y) = {f} /\ WellOwned(y)
    BY <1>2, EmptySeq DEF ProxyFds, WellOwned
  <2>2. Watched = {f}
    BY <1>4, <2>1, WatchedFacts
  <2>3. Held = {}
    BY DEF Held, Nobody
  <2> QED BY <1>3, <1>4, <2>1, <2>2, <2>3 DEF Owned, ListOwned
<1>8. RedirectsLeadHome /\ ProxiesDistinct
  BY <1>4 DEF RedirectsLeadHome, ProxiesDistinct
<1> QED BY <1>5, <1>6, <1>7, <1>8 DEF IInv

\* Every step keeps the invariant.
LEMMA NextIInv == IInv /\ [Next]_vars => IInv'
<1> SUFFICES ASSUME IInv, [Next]_vars PROVE IInv'
  OBVIOUS
<1>1. CASE Check \/ FillFdSet \/ Select \/ Environment \/ Sigint
  BY <1>1, IdleStep
<1>2. CASE NoAccept \/ AcceptFails \/ Keep \/ \E side \in {"local", "remote"} : NoEvent(side)
  BY <1>2, PassStep
<1>3. CASE Accept \/ Socket \/ NoSocket \/ Refused
  BY <1>3, AcceptStep
<1>4. CASE Connected
  BY <1>4, ConnectedStep
<1>5. CASE CloseClient
  BY <1>5, CloseClientStep
<1>6. CASE Reap
  BY <1>6, ReapStep
<1>7. CASE \E side \in {"local", "remote"} : Event(side)
  BY <1>7, EventStep
<1>8. CASE UNCHANGED vars
  <2>1. TypeOK /\ pc \in PC /\ OnTheWay
    BY ListTyped DEF IInv
  <2>2. OnTheWay'
    BY <1>8, <2>1 DEF OnTheWay, vars
  <2> QED BY <1>8, <2>1, <2>2, QuietStep DEF vars, TypeOK
<1> QED BY <1>1, <1>2, <1>3, <1>4, <1>5, <1>6, <1>7, <1>8 DEF Next, Loop

\* The sockets that have a descriptor, one at a time.
LEMMA SocketsFacts ==
    ASSUME NEW f
    PROVE  \A x : x \in Sockets(f) <=>
              \/ \E p \in DOMAIN proxies : x = <<p, 0, "listen">> /\ proxies[p].fd = f
              \/ \E side \in {"local", "remote"} : x = <<0, 0, side>> /\ accepting[side] = f
              \/ \E p \in DOMAIN proxies, side \in {"local", "remote"} :
                    \E c \in DOMAIN proxies[p].conns :
                       x = <<p, c, side>> /\ proxies[p].conns[c][side] = f
<1> DEFINE L == {<<p, 0, "listen">> : p \in {p \in DOMAIN proxies : proxies[p].fd = f}}
           B == {<<0, 0, side>> : side \in {side \in {"local", "remote"} : accepting[side] = f}}
           A(p, side) == {<<p, c, side>> :
                             c \in {c \in DOMAIN proxies[p].conns : proxies[p].conns[c][side] = f}}
           U == UNION {A(p, side) : p \in DOMAIN proxies, side \in {"local", "remote"}}
<1>1. Sockets(f) = L \cup B \cup U
  BY DEF Sockets
<1>2. \A x : x \in L <=> \E p \in DOMAIN proxies : x = <<p, 0, "listen">> /\ proxies[p].fd = f
  OBVIOUS
<1>3. \A x : x \in B <=> \E side \in {"local", "remote"} : x = <<0, 0, side>> /\ accepting[side] = f
  OBVIOUS
<1>4. \A p, side : \A x : x \in A(p, side) <=>
         \E c \in DOMAIN proxies[p].conns : x = <<p, c, side>> /\ proxies[p].conns[c][side] = f
  OBVIOUS
<1> HIDE DEF L, A, B
<1>5. \A x : x \in U <=> \E p \in DOMAIN proxies, side \in {"local", "remote"} : x \in A(p, side)
  OBVIOUS
<1> HIDE DEF U
<1> QED BY <1>1, <1>2, <1>3, <1>4, <1>5

\* Followed on two levels, each open descriptor has just one socket.
LEMMA OwnedOnce == IInv => DescriptorsOwned
<1> SUFFICES ASSUME IInv PROVE DescriptorsOwned
  OBVIOUS
<1>a. TypeOK /\ Owned /\ OnTheWay
  BY DEF IInv
<1>b. \A p \in DOMAIN proxies : WellOwned(proxies[p]) /\ proxies[p] \in Proxy
  BY <1>a, ListTyped DEF Owned, ListOwned
<1>c. NoFD \notin FDs /\ open \subseteq FDs
  BY <1>a, ProxyAssumption DEF NoFD, TypeOK
<1>d. \A f \in FDs : f \in Held <=> accepting["local"] = f \/ accepting["remote"] = f
  BY <1>c DEF Held
<1>1. ASSUME NEW f \in Watched PROVE \E x : Sockets(f) = {x}
  <2>1. PICK p \in DOMAIN proxies : f \in ProxyFds(proxies[p])
    BY WatchedFacts
  <2>2. ASSUME NEW q \in DOMAIN proxies, f \in ProxyFds(proxies[q]) PROVE q = p
    BY <1>a, <2>1, <2>2 DEF Owned, ListOwned
  <2>3. \A q \in DOMAIN proxies :
          f \in ProxyFds(proxies[q]) <=>
             \/ proxies[q].fd = f
             \/ \E c \in DOMAIN proxies[q].conns : f \in ConnFds(proxies[q].conns[c])
    BY DEF ProxyFds
  <2>4. \A q \in DOMAIN proxies : \A c \in DOMAIN proxies[q].conns :
          f \in ConnFds(proxies[q].conns[c]) <=>
             proxies[q].conns[c]["local"] = f \/ proxies[q].conns[c]["remote"] = f
    BY DEF ConnFds
  <2>5. \A x : x \in Sockets(f) <=>
            \/ x = <<p, 0, "listen">> /\ proxies[p].fd = f
            \/ \E c \in DOMAIN proxies[p].conns, side \in {"local", "remote"} :
                  x = <<p, c, side>> /\ proxies[p].conns[c][side] = f
    <3>1. accepting["local"] # f /\ accepting["remote"] # f
      BY <1>a, <1>c, <1>d DEF Owned
    <3> QED BY <2>1, <2>2, <2>3, <2>4, <3>1, SocketsFacts
  <2>6. CASE proxies[p].fd = f
    <3>1. \A c \in DOMAIN proxies[p].conns, side \in {"local", "remote"} : proxies[p].conns[c][side] # f
      BY <1>b, <2>4, <2>6 DEF WellOwned
    <3>2. Sockets(f) = {<<p, 0, "listen">>}
      BY <2>5, <2>6, <3>1
    <3> QED BY <3>2
  <2>7. CASE proxies[p].fd # f
    <3>1. PICK c \in DOMAIN proxies[p].conns, side \in {"local", "remote"} : proxies[p].conns[c][side] = f
      BY <2>1, <2>3, <2>4, <2>7
    <3>2. ASSUME NEW d \in DOMAIN proxies[p].conns, NEW other \in {"local", "remote"},
                 proxies[p].conns[d][other] = f
          PROVE  d = c /\ other = side
      <4>1. d = c
        BY <1>b, <2>4, <3>1, <3>2, SMTT(20) DEF WellOwned
      <4>2. proxies[p].conns[c]["local"] # proxies[p].conns[c]["remote"]
        BY <1>b DEF WellOwned
      <4> QED BY <3>1, <3>2, <4>1, <4>2
    <3>3. Sockets(f) = {<<p, c, side>>}
      BY <2>5, <2>7, <3>1, <3>2
    <3> QED BY <3>3
  <2> QED BY <2>6, <2>7
<1>2. ASSUME NEW f \in FDs, f \notin Watched
      PROVE  \A x : x \in Sockets(f) <=>
                \E side \in {"local", "remote"} : x = <<0, 0, side>> /\ accepting[side] = f
  <2>1. \A p \in DOMAIN proxies : f \notin ProxyFds(proxies[p])
    BY <1>2, WatchedFacts
  <2>2. \A p \in DOMAIN proxies :
          /\ proxies[p].fd # f
          /\ \A c \in DOMAIN proxies[p].conns :
                proxies[p].conns[c]["local"] # f /\ proxies[p].conns[c]["remote"] # f
    BY <2>1 DEF ProxyFds, ConnFds
  <2> QED BY <2>2, SocketsFacts
<1>3. ASSUME NEW f \in Held PROVE \E x : Sockets(f) = {x}
  <2>1. f \in FDs /\ f \notin Watched
    BY <1>a, <1>c DEF Owned
  <2>2. PICK side \in {"local", "remote"} : accepting[side] = f
    BY <1>d, <2>1
  <2>3. accepting["local"] # accepting["remote"]
    <3>1. accepting["local"] = accepting.local /\ accepting["remote"] = accepting.remote
      OBVIOUS
    <3>2. Held # {} /\ Nobody.local = NoFD /\ Nobody.remote = NoFD
      BY DEF Nobody
    <3> QED BY <1>a, <1>c, <3>1, <3>2 DEF OnTheWay, Held
  <2>4. \A x : x \in Sockets(f) <=> x = <<0, 0, side>>
    BY <1>2, <2>1, <2>2, <2>3
  <2>5. Sockets(f) = {<<0, 0, side>>}
    BY <2>4
  <2> QED BY <2>5
<1>4. \A x : Cardinality({x}) = 1
  BY FS_Singleton
<1>5. \A f \in open : Cardinality(Sockets(f)) = 1
  <2>1. \A f \in open : f \in Watched \/ f \in Held
    BY <1>a DEF Owned
  <2> QED BY <1>1, <1>3, <1>4, <2>1
<1>6. \A f \in FDs \ open : Sockets(f) = {}
  <2>1. ASSUME NEW f \in FDs \ open PROVE \A x : x \notin Sockets(f)
    <3>1. f \notin Watched /\ f \notin Held
      BY <1>a DEF Owned
    <3> QED BY <1>2, <1>d, <3>1
  <2> QED BY <2>1
<1>7. pc.at \in {"socket", "connect", "close"} \/ Watched = open
  BY <1>a DEF OnTheWay, Owned, Held, Nobody
<1> QED BY <1>5, <1>6, <1>7 DEF DescriptorsOwned

\* Every state the proxy program can reach satisfies the invariant.
THEOREM Inductive == Spec => []IInv
BY InitIInv, NextIInv, PTL DEF Spec

\* The program's state keeps its types; the port in m_BindAddress stays one
\* of 16 bits when GetProxyForAddress counts it past the last.
THEOREM TypeCorrect == Spec => []TypeOK
<1>1. IInv => TypeOK
  BY DEF IInv
<1> QED BY <1>1, Inductive, PTL

\* Every descriptor is closed by just the session or proxy that owns it, or by
\* the accept under way (Server::Accept, Address::Connect): none is left behind
\* when the socket or the server is not to be had, the destructor of a
\* connection closes two, and a proxy made in the middle of a pass takes one
\* that is free.
THEOREM EachOwned == Spec => []DescriptorsOwned
BY OwnedOnce, Inductive, PTL

\* A client told by RewriteServerAddress where to go finds the proxy for its
\* server there, however many proxies are made after it.
THEOREM LeadsHome == Spec => []RedirectsLeadHome
<1>1. IInv => RedirectsLeadHome
  BY DEF IInv
<1> QED BY <1>1, Inductive, PTL

\* GetProxyForAddress makes one proxy for a server and gives no port twice,
\* wherever the counter stands.
THEOREM Distinct == Spec => []ProxiesDistinct
<1>1. IInv => ProxiesDistinct
  BY DEF IInv
<1> QED BY <1>1, Inductive, PTL
=============================================================================
