---------------------------- MODULE ROMDumpProofs ----------------------------
(***************************************************************************)
(* Theorems about romdump's reader, for any number of flows of any length, *)
(* whatever they carry, and any way the file cuts them up.                 *)
(***************************************************************************)
EXTENDS ROMDump, Traces

Entry == [conn : Conns, at : 0 .. StreamLen, verdict : Verdict]

\* AnalyzeFlow has gone as far into the flow as it can.
Settled(c) == Left(c) >= HeaderSize /\ Peeked(c).length >= HeaderSize => Peeked(c).length > Left(c)

\* NothingWaits is not inductive: while one flow is analysed, the others must
\* not wait either.
OthersSettled == pc # "done" => \A c \in Conns : c # pc => Settled(c)

\* The key in g_State is the last one analysed.
KeyIsLatest == m_Key = KeyBefore(Len(analysed))

\* A reader that has stopped does nothing more.
StoppedIsDone == cause # "none" => pc = "done"

IInv == /\ TypeOK /\ EachPacketOnce /\ OthersSettled /\ KeyIsLatest /\ LatestKeyDecodes
        /\ StoppedIsDone /\ ProxyLogsAreRead

-----------------------------------------------------------------------------
(* The last entry of a kind.                                               *)

\* Max is the library's.
LEMMA MaxIsLast ==
    ASSUME NEW n \in Nat, NEW S, S \subseteq 1 .. n, S # {}
    PROVE  Max(S) \in S /\ \A j \in S : j <= Max(S)
<1>1. S \subseteq 0 .. n
  OBVIOUS
<1>2. \E j \in S : \A h \in S : h <= j
  <2> HIDE DEF Max
  <2> QED BY <1>1, GreatestNumber
<1>3. \E x \in S : \A y \in S : x >= y
  BY <1>2
<1>4. Max(S) \in S /\ \A y \in S : Max(S) >= y
  BY <1>3 DEF Max
<1> QED BY <1>4

\* An entry appended is the last of its own kind and changes no other.
LEMMA LastOfKind ==
    ASSUME NEW n \in Nat, NEW S, NEW T, S \subseteq 1 .. n,
           T = S \/ T = S \cup {n + 1}
    PROVE  n + 1 \in T => Max(T) = n + 1
<1> SUFFICES ASSUME n + 1 \in T PROVE Max(T) = n + 1
  OBVIOUS
<1>1. T \subseteq 1 .. n + 1 /\ n + 1 \in Nat /\ T # {}
  <2>1. 1 .. n \subseteq 1 .. n + 1 /\ n + 1 \in 1 .. n + 1 /\ n + 1 \in Nat
    OBVIOUS
  <2> QED BY <2>1
<1>2. Max(T) \in T /\ n + 1 <= Max(T)
  BY <1>1, MaxIsLast
<1>3. Max(T) \in 1 .. n + 1
  BY <1>1, <1>2
<1> HIDE DEF Max
<1> QED BY <1>2, <1>3

\* The reader analyses one packet more.
LEMMA AnalysedMore ==
    ASSUME TypeOK, NEW e \in Entry, analysed' = Append(analysed, e), stream' = stream,
           NEW n, n = Len(analysed)
    PROVE  /\ n \in Nat /\ DOMAIN analysed = 1 .. n /\ DOMAIN analysed' = 1 .. n + 1
           /\ Len(analysed') = n + 1 /\ analysed' \in Seq(Entry)
           /\ analysed'[n + 1] = e /\ \A i \in 1 .. n : analysed'[i] = analysed[i]
           /\ \A c \in Conns, i \in 0 .. n : EndBefore(c, i)' = EndBefore(c, i)
           /\ \A c \in Conns : EndBefore(c, n + 1)' = IF e.conn = c THEN End(e) ELSE EndBefore(c, n)
           /\ \A i \in 0 .. n : KeyBefore(i)' = KeyBefore(i)
           /\ KeyBefore(n + 1)' = IF e.verdict = "key" THEN stream[e.conn][e.at].key ELSE KeyBefore(n)
<1> DEFINE t == analysed'
<1>1. analysed \in Seq(Entry)
  BY DEF TypeOK, Entry
<1>2. /\ n \in Nat /\ DOMAIN analysed = 1 .. n /\ DOMAIN t = 1 .. n + 1
      /\ Len(t) = n + 1 /\ t \in Seq(Entry)
      /\ t[n + 1] = e /\ \A i \in 1 .. n : t[i] = analysed[i]
  BY <1>1, AppendProperties, LenProperties
<1> DEFINE Mine(c, i) == {j \in 1 .. i : analysed[j].conn = c}
           MineNext(c, i) == {j \in 1 .. i : t[j].conn = c}
           KeysTo(i) == {j \in 1 .. i : analysed[j].verdict = "key"}
           KeysToNext(i) == {j \in 1 .. i : t[j].verdict = "key"}
           key(i) == stream[analysed[Max(KeysTo(i))].conn][analysed[Max(KeysTo(i))].at].key
           keyNext(i) == stream[t[Max(KeysToNext(i))].conn][t[Max(KeysToNext(i))].at].key
<1>3. \A c, i : EndBefore(c, i) = IF Mine(c, i) = {} THEN 0 ELSE End(analysed[Max(Mine(c, i))])
  BY DEF EndBefore
<1>4. \A c, i : EndBefore(c, i)' = IF MineNext(c, i) = {} THEN 0 ELSE End(t[Max(MineNext(c, i))])
  BY DEF EndBefore, End
<1>5. \A i : KeyBefore(i) = IF KeysTo(i) = {} THEN NoKey ELSE key(i)
  BY DEF KeyBefore
<1>6. \A i : KeyBefore(i)' = IF KeysToNext(i) = {} THEN NoKey ELSE keyNext(i)
  BY DEF KeyBefore
<1>7. ASSUME NEW c, NEW i \in 0 .. n
      PROVE  /\ MineNext(c, i) = Mine(c, i) /\ KeysToNext(i) = KeysTo(i)
             /\ Mine(c, i) \subseteq 1 .. i /\ KeysTo(i) \subseteq 1 .. i /\ i \in Nat
             /\ \A j \in 1 .. i : t[j] = analysed[j]
  BY <1>2
<1>8. ASSUME NEW c
      PROVE  /\ MineNext(c, n + 1) = Mine(c, n) \cup IF e.conn = c THEN {n + 1} ELSE {}
             /\ KeysToNext(n + 1) = KeysTo(n) \cup IF e.verdict = "key" THEN {n + 1} ELSE {}
             /\ n \in 0 .. n
  <2>1. \A j : j \in 1 .. n + 1 <=> j \in 1 .. n \/ j = n + 1
    BY <1>2
  <2> QED BY <1>2, <2>1
<1> HIDE DEF Mine, MineNext, KeysTo, KeysToNext, t
<1>9. ASSUME NEW c \in Conns, NEW i \in 0 .. n PROVE EndBefore(c, i)' = EndBefore(c, i)
  <2>1. CASE Mine(c, i) = {}
    BY <1>3, <1>4, <1>7, <2>1
  <2>2. CASE Mine(c, i) # {}
    <3>1. Max(Mine(c, i)) \in 1 .. i
      BY <1>7, <2>2, MaxIsLast
    <3>2. t[Max(Mine(c, i))] = analysed[Max(Mine(c, i))]
      BY <1>7, <3>1
    <3> QED BY <1>3, <1>4, <1>7, <2>2, <3>2
  <2> QED BY <2>1, <2>2
<1>10. ASSUME NEW i \in 0 .. n PROVE KeyBefore(i)' = KeyBefore(i)
  <2>1. CASE KeysTo(i) = {}
    BY <1>5, <1>6, <1>7, <2>1
  <2>2. CASE KeysTo(i) # {}
    <3>1. Max(KeysTo(i)) \in 1 .. i
      BY <1>7, <2>2, MaxIsLast
    <3>2. t[Max(KeysTo(i))] = analysed[Max(KeysTo(i))]
      BY <1>7, <3>1
    <3> QED BY <1>5, <1>6, <1>7, <2>2, <3>2
  <2> QED BY <2>1, <2>2
<1>11. ASSUME NEW c \in Conns
       PROVE  EndBefore(c, n + 1)' = IF e.conn = c THEN End(e) ELSE EndBefore(c, n)
  <2>1. CASE e.conn = c
    <3>1. MineNext(c, n + 1) = Mine(c, n) \cup {n + 1} /\ Mine(c, n) \subseteq 1 .. n
      BY <1>7, <1>8, <2>1
    <3>2. Max(MineNext(c, n + 1)) = n + 1
      BY <1>2, <3>1, LastOfKind
    <3> QED BY <1>2, <1>4, <2>1, <3>1, <3>2
  <2>2. CASE e.conn # c
    <3>1. MineNext(c, n + 1) = Mine(c, n) /\ MineNext(c, n) = Mine(c, n)
      <4>1. n \in 0 .. n
        BY <1>2
      <4>2. MineNext(c, n + 1) = Mine(c, n) \cup IF e.conn = c THEN {n + 1} ELSE {}
        BY <1>8
      <4>3. MineNext(c, n + 1) = Mine(c, n)
        BY <2>2, <4>2
      <4>4. MineNext(c, n) = Mine(c, n)
        BY <1>7, <4>1
      <4> QED BY <4>3, <4>4
    <3> QED BY <1>4, <1>8, <1>9, <2>2, <3>1
  <2> QED BY <2>1, <2>2
<1>12. KeyBefore(n + 1)' = IF e.verdict = "key" THEN stream[e.conn][e.at].key ELSE KeyBefore(n)
  <2>1. CASE e.verdict = "key"
    <3>1. KeysToNext(n + 1) = KeysTo(n) \cup {n + 1} /\ KeysTo(n) \subseteq 1 .. n
      BY <1>7, <1>8, <2>1
    <3>2. Max(KeysToNext(n + 1)) = n + 1
      BY <1>2, <3>1, LastOfKind
    <3> QED BY <1>2, <1>6, <2>1, <3>1, <3>2
  <2>2. CASE e.verdict # "key"
    <3>1. KeysToNext(n + 1) = KeysTo(n) /\ KeysToNext(n) = KeysTo(n)
      BY <1>7, <1>8, <2>2
    <3> QED BY <1>6, <1>8, <1>10, <2>2, <3>1
  <2> QED BY <2>1, <2>2
<1> QED BY <1>2, <1>9, <1>10, <1>11, <1>12 DEF t

-----------------------------------------------------------------------------
(* Where a packet is, and what a step does to the flows.                   *)

LEMMA Typed ==
    ASSUME TypeOK, NEW c \in Conns
    PROVE  /\ stream[c] \in [0 .. StreamLen -> Packet] /\ StreamLen \in Nat
           /\ used[c] \in 0 .. StreamLen /\ offset[c] \in 0 .. StreamLen /\ offset[c] <= used[c]
           /\ Peeked(c) \in Packet /\ Peeked(c).length \in Nat
           /\ stream[c][used[c]] \in Packet /\ Record(c) \in Nat
           /\ HeaderSize \in Nat /\ HeaderSize > 0
           /\ c \notin {"detect", "read", "done"}
<1>1. /\ stream[c] \in [0 .. StreamLen -> Packet] /\ StreamLen \in Nat
      /\ used[c] \in 0 .. StreamLen /\ offset[c] \in 0 .. StreamLen /\ offset[c] <= used[c]
  BY FileAssumption DEF TypeOK
<1>2. Peeked(c) \in Packet /\ stream[c][used[c]] \in Packet
  BY <1>1 DEF Peeked
<1>3. Peeked(c).length \in Nat /\ Record(c) \in Nat
  BY <1>2 DEF Packet, Record
<1> QED BY <1>1, <1>2, <1>3, SizeAssumption, FileAssumption

\* The reader's variables stay: what is said of the packets analysed does too.
LEMMA SaidOfSame ==
    ASSUME UNCHANGED <<stream, analysed>>
    PROVE  /\ \A c \in Conns : \A i : EndBefore(c, i)' = EndBefore(c, i)
           /\ \A i : KeyBefore(i)' = KeyBefore(i)
           /\ LatestKeyDecodes => LatestKeyDecodes'
<1>1. \A c, i : EndBefore(c, i)' = EndBefore(c, i)
  BY DEF EndBefore, End
<1>2. \A i : KeyBefore(i)' = KeyBefore(i)
  BY DEF KeyBefore
<1>3. LatestKeyDecodes => LatestKeyDecodes'
  BY <1>2 DEF LatestKeyDecodes
<1> QED BY <1>1, <1>2, <1>3

LEMMA EachPacketOnceSame ==
    ASSUME EachPacketOnce, UNCHANGED <<stream, analysed, offset>>
    PROVE  EachPacketOnce'
<1>1. \A c \in Conns : \A i : EndBefore(c, i)' = EndBefore(c, i)
  BY DEF EndBefore, End
<1>2. \A c \in Conns : EndBefore(c, Len(analysed))' = EndBefore(c, Len(analysed))
  BY DEF EndBefore, End
<1> QED BY <1>1, <1>2 DEF EachPacketOnce

-----------------------------------------------------------------------------
(* The steps.                                                              *)

\* Every step that stops the reader.
LEMMA StopStep ==
    ASSUME IInv, NEW why \in {"eof", "badheader", "toolarge", "badkey", "abort"}, Stop(why),
           why = "toolarge" => \E c \in Conns : Record(c) > MaxPacketSize,
           why = "abort" => \E c \in Conns : Left(c) > 0 /\ Peeked(c).length > MaxPacketSize,
           why = "badkey" =>
               \E c \in Conns : Left(c) > 0 /\ IsKey(Peeked(c)) /\ ~CarriesKey(Peeked(c))
    PROVE  IInv'
<1> USE DEF IInv
<1>1. /\ pc' = "done" /\ cause' = why
      /\ UNCHANGED <<format, stream, used, offset, isLog, beheaded, m_HaveKey, m_Key, analysed>>
  BY DEF Stop
<1>2. TypeOK'
  BY <1>1 DEF TypeOK
<1>3. EachPacketOnce' /\ LatestKeyDecodes'
  BY <1>1, EachPacketOnceSame, SaidOfSame
<1>4. KeyIsLatest'
  BY <1>1 DEF KeyIsLatest, KeyBefore
<1>5. StoppedIsDone' /\ OthersSettled'
  BY <1>1 DEF StoppedIsDone, OthersSettled
<1>6. ProxyLogsAreRead'
  <2>1. CASE why = "toolarge"
    <3>1. PICK c \in Conns : Record(c) > MaxPacketSize
      BY <2>1
    <3>2. ~LengthOK(stream[c][used[c]])
      BY <3>1, Typed, SizeAssumption DEF LengthOK, Record
    <3> QED BY <1>1, <2>1, <3>2 DEF ProxyLogsAreRead
  <2>2. CASE why = "abort"
    <3>1. PICK c \in Conns : Left(c) > 0 /\ Peeked(c).length > MaxPacketSize
      BY <2>2
    <3>2. ~LengthOK(Peeked(c))
      BY <3>1, Typed, SizeAssumption DEF LengthOK, Peeked
    <3> QED BY <1>1, <2>2, <3>1, <3>2 DEF ProxyLogsAreRead, Left, Peeked
  <2>3. CASE why = "badkey"
    BY <1>1, <2>3 DEF ProxyLogsAreRead, Left, Peeked
  <2>4. CASE why \notin {"toolarge", "abort", "badkey"}
    BY <1>1, <2>4 DEF ProxyLogsAreRead
  <2> QED BY <2>1, <2>2, <2>3, <2>4
<1> QED BY <1>1, <1>2, <1>3, <1>4, <1>5, <1>6

\* A step that reads and analyses nothing.
LEMMA IdleStep ==
    ASSUME IInv, UNCHANGED <<format, stream, used, offset, m_HaveKey, m_Key, analysed, cause>>,
           pc # "done", pc' = "read", isLog' \in BOOLEAN, beheaded' \in BOOLEAN,
           pc \in Conns => Settled(pc)
    PROVE  IInv'
<1> USE DEF IInv
<1>1. TypeOK'
  BY DEF TypeOK
<1>2. EachPacketOnce' /\ LatestKeyDecodes'
  BY EachPacketOnceSame, SaidOfSame
<1>3. KeyIsLatest'
  BY DEF KeyIsLatest, KeyBefore
<1>4. StoppedIsDone' /\ ProxyLogsAreRead'
  BY DEF StoppedIsDone, ProxyLogsAreRead
<1>5. OthersSettled'
  <2>1. \A c \in Conns : Settled(c)
    BY DEF OthersSettled
  <2> QED BY <2>1 DEF OthersSettled, Settled, Left, Peeked
<1> QED BY <1>1, <1>2, <1>3, <1>4, <1>5

\* A chunk is appended to a flow.
LEMMA FeedStep ==
    ASSUME IInv, NEW c \in Conns, NEW len \in Nat, used[c] + len <= StreamLen, Feed(c, len),
           pc = "read"
    PROVE  IInv'
<1> USE DEF IInv
<1>1. /\ used' = [used EXCEPT ![c] = @ + len] /\ pc' = c
      /\ UNCHANGED <<format, stream, offset, isLog, beheaded, m_HaveKey, m_Key, analysed, cause>>
  BY DEF Feed
<1>2. \A d \in Conns : d # c => used'[d] = used[d]
  BY <1>1 DEF TypeOK
<1>3. TypeOK'
  <2> DEFINE n == used[c] + len
  <2>1. n \in 0 .. StreamLen /\ offset[c] <= n
    BY Typed
  <2>2. used' = [used EXCEPT ![c] = n]
    BY <1>1
  <2> HIDE DEF n
  <2>3. used' \in [Conns -> 0 .. StreamLen] /\ used'[c] = n
    BY <2>1, <2>2 DEF TypeOK
  <2>4. \A d \in Conns : offset'[d] <= used'[d]
    BY <1>1, <1>2, <2>1, <2>3 DEF TypeOK
  <2> QED BY <1>1, <2>3, <2>4 DEF TypeOK
<1>4. EachPacketOnce' /\ LatestKeyDecodes'
  BY <1>1, EachPacketOnceSame, SaidOfSame
<1>5. KeyIsLatest'
  BY <1>1 DEF KeyIsLatest, KeyBefore
<1>6. StoppedIsDone' /\ ProxyLogsAreRead'
  BY <1>1 DEF StoppedIsDone, ProxyLogsAreRead
<1>7. OthersSettled'
  <2>1. \A d \in Conns : d # c => Settled(d)
    BY Typed DEF OthersSettled
  <2>2. \A d \in Conns : d # c => Settled(d)'
    BY <1>1, <1>2, <2>1 DEF Settled, Left, Peeked
  <2> QED BY <1>1, <2>2 DEF OthersSettled
<1> QED BY <1>3, <1>4, <1>5, <1>6, <1>7

\* A packet is cut off a flow.
LEMMA AnalysedStep ==
    ASSUME IInv, NEW c \in Conns, pc = c, Ready(c), NEW verdict \in Verdict, Analysed(c, verdict),
           m_HaveKey' \in BOOLEAN,
           m_Key' = IF verdict = "key" THEN Peeked(c).key ELSE m_Key,
           verdict \in {"good", "bad"} /\ Peeked(c).keynum # "beyond" =>
              (verdict = "good" <=> KeyFor(Peeked(c), m_Key) \in Peeked(c).accepts)
    PROVE  IInv'
<1> USE DEF IInv
<1> DEFINE e == [conn |-> c, at |-> offset[c], verdict |-> verdict]
           to == offset[c] + Peeked(c).length
<1>a. cause = "none" /\ pc # "done"
  BY Typed DEF StoppedIsDone
<1>1. /\ analysed' = Append(analysed, e) /\ offset' = [offset EXCEPT ![c] = to]
      /\ UNCHANGED <<format, stream, used, isLog, beheaded, pc, cause>>
  BY DEF Analysed, Advance
<1>2. e \in Entry /\ e.conn = c /\ e.at = offset[c] /\ e.verdict = verdict
  BY Typed DEF Entry
<1>3. to \in 0 .. StreamLen /\ to <= used[c] /\ End(e) = to
  <2>1. Left(c) >= HeaderSize /\ Peeked(c).length >= HeaderSize /\ Peeked(c).length <= Left(c)
    BY Typed DEF Ready, Starving, Left
  <2> QED BY <1>2, <2>1, Typed DEF Left, End, Peeked
<1> HIDE DEF e, to
<1> DEFINE n == Len(analysed)
<1>4. /\ n \in Nat /\ DOMAIN analysed = 1 .. n /\ DOMAIN analysed' = 1 .. n + 1
      /\ Len(analysed') = n + 1 /\ analysed' \in Seq(Entry)
      /\ analysed'[n + 1] = e /\ \A i \in 1 .. n : analysed'[i] = analysed[i]
  BY <1>1, <1>2, AnalysedMore
<1>5. TypeOK'
  <2>1. offset' \in [Conns -> 0 .. StreamLen] /\ \A d \in Conns : offset'[d] <= used'[d]
    BY <1>1, <1>3, Typed DEF TypeOK
  <2>2. m_Key' \in Keys \cup {NoKey}
    BY Typed DEF Packet, TypeOK
  <2> QED BY <1>1, <1>4, <2>1, <2>2 DEF TypeOK, Entry
<1>6. EachPacketOnce'
  <2> SUFFICES ASSUME NEW m, m = Len(analysed), NEW d \in Conns
               PROVE  /\ \A i \in 1 .. m + 1 :
                            analysed'[i].conn = d => analysed'[i].at = EndBefore(d, i - 1)'
                      /\ offset'[d] = EndBefore(d, m + 1)'
    <3>1. ASSUME NEW d \in Conns, NEW m, m = Len(analysed'), offset'[d] = EndBefore(d, m)'
          PROVE  offset'[d] = EndBefore(d, Len(analysed))'
      BY <3>1 DEF EndBefore, End
    <3> QED BY <1>4, <3>1 DEF EachPacketOnce
  <2>1. /\ \A i \in 0 .. m : EndBefore(d, i)' = EndBefore(d, i)
        /\ EndBefore(d, m + 1)' = IF e.conn = d THEN End(e) ELSE EndBefore(d, m)
    BY <1>1, <1>2, AnalysedMore
  <2>2. offset[d] = EndBefore(d, m)
    BY DEF EachPacketOnce
  <2>3. offset'[d] = EndBefore(d, m + 1)'
    BY <1>1, <1>2, <1>3, <2>1, <2>2 DEF TypeOK
  <2>4. ASSUME NEW i \in 1 .. m + 1, analysed'[i].conn = d
        PROVE  analysed'[i].at = EndBefore(d, i - 1)'
    <3>1. CASE i \in 1 .. m
      <4>1. analysed[i].at = EndBefore(d, i - 1) /\ analysed'[i] = analysed[i]
        BY <1>4, <2>4, <3>1 DEF EachPacketOnce
      <4>2. i - 1 \in 0 .. m
        BY <1>4, <3>1
      <4> QED BY <2>1, <4>1, <4>2
    <3>2. CASE i = m + 1
      <4>1. m \in 0 .. m /\ i - 1 = m
        BY <1>4, <3>2
      <4> QED BY <1>2, <1>4, <2>1, <2>2, <2>4, <3>2, <4>1
    <3> QED BY <1>4, <3>1, <3>2
  <2> QED BY <2>3, <2>4
<1>7. KeyIsLatest' /\ LatestKeyDecodes'
  <2>1. PICK m : m = Len(analysed)
    OBVIOUS
  <2>2. /\ \A i \in 0 .. m : KeyBefore(i)' = KeyBefore(i)
        /\ KeyBefore(m + 1)' = IF e.verdict = "key" THEN stream[e.conn][e.at].key ELSE KeyBefore(m)
    BY <1>1, <1>2, <2>1, AnalysedMore
  <2>3. m_Key = KeyBefore(m)
    BY <2>1 DEF KeyIsLatest
  <2>4. m_Key' = KeyBefore(m + 1)'
    BY <1>2, <2>2, <2>3 DEF Peeked
  <2>5. KeyIsLatest'
    <3>1. ASSUME NEW j, j = Len(analysed'), m_Key' = KeyBefore(j)' PROVE m_Key' = KeyBefore(Len(analysed))'
      BY <3>1 DEF KeyBefore
    <3> QED BY <1>4, <2>1, <2>4, <3>1 DEF KeyIsLatest
  <2>6. ASSUME NEW i \in 1 .. m + 1,
               analysed'[i].verdict \in {"good", "bad"},
               stream[analysed'[i].conn][analysed'[i].at].keynum # "beyond"
        PROVE  analysed'[i].verdict = "good" <=>
                  KeyFor(stream[analysed'[i].conn][analysed'[i].at], KeyBefore(i - 1)')
                     \in stream[analysed'[i].conn][analysed'[i].at].accepts
    <3>1. CASE i \in 1 .. m
      <4>1. analysed'[i] = analysed[i] /\ i - 1 \in 0 .. m
        BY <1>4, <2>1, <3>1
      <4>2. analysed[i].verdict = "good" <=>
                  KeyFor(stream[analysed[i].conn][analysed[i].at], KeyBefore(i - 1))
                     \in stream[analysed[i].conn][analysed[i].at].accepts
        BY <1>4, <2>1, <2>6, <3>1, <4>1 DEF LatestKeyDecodes
      <4> QED BY <2>2, <4>1, <4>2
    <3>2. CASE i = m + 1
      <4>1. analysed'[i] = e /\ i - 1 = m /\ m \in 0 .. m
        BY <1>4, <2>1, <3>2
      <4>2. stream[e.conn][e.at] = Peeked(c)
        BY <1>2 DEF Peeked
      <4>3. KeyBefore(i - 1)' = m_Key
        BY <2>2, <2>3, <4>1
      <4> QED BY <1>2, <2>6, <4>1, <4>2, <4>3
    <3> QED BY <1>4, <2>1, <3>1, <3>2
  <2>7. LatestKeyDecodes'
    BY <1>1, <1>4, <2>1, <2>6 DEF LatestKeyDecodes
  <2> QED BY <2>5, <2>7
<1>8. StoppedIsDone' /\ ProxyLogsAreRead'
  BY <1>1, <1>a DEF StoppedIsDone, ProxyLogsAreRead
<1>9. OthersSettled'
  <2>1. \A d \in Conns : d # c => offset'[d] = offset[d]
    BY <1>1 DEF TypeOK
  <2> QED BY <1>1, <1>a, <2>1 DEF OthersSettled, Settled, Left, Peeked
<1> QED BY <1>5, <1>6, <1>7, <1>8, <1>9

-----------------------------------------------------------------------------
(* The theorems.                                                           *)

\* Nothing has been read: there is nothing to say of it.
LEMMA InitIInv == Init => IInv
<1> SUFFICES ASSUME Init PROVE IInv
  OBVIOUS
<1> USE DEF Init
<1>1. StreamLen \in Nat /\ 0 \in 0 .. StreamLen /\ Streams \subseteq [0 .. StreamLen -> Packet]
  BY FileAssumption
<1>2. TypeOK
  <2>1. stream \in [Conns -> [0 .. StreamLen -> Packet]]
    BY <1>1
  <2>2. analysed \in Seq([conn : Conns, at : 0 .. StreamLen, verdict : Verdict])
    BY EmptySeq
  <2>3. /\ used \in [Conns -> 0 .. StreamLen] /\ offset \in [Conns -> 0 .. StreamLen]
        /\ \A c \in Conns : offset[c] <= used[c]
    BY <1>1
  <2> QED BY <2>1, <2>2, <2>3 DEF TypeOK
<1>3. Len(analysed) = 0 /\ DOMAIN analysed = {}
  BY EmptySeq
<1>4. \A c \in Conns : EndBefore(c, Len(analysed)) = 0
  BY <1>3 DEF EndBefore
<1>5. EachPacketOnce
  BY <1>3, <1>4 DEF EachPacketOnce
<1>6. KeyIsLatest /\ LatestKeyDecodes
  BY <1>3 DEF KeyIsLatest, KeyBefore, LatestKeyDecodes
<1>7. OthersSettled
  <2>1. \A c \in Conns : Left(c) = 0
    BY DEF Left
  <2> QED BY <2>1, SizeAssumption DEF OthersSettled, Settled
<1> QED BY <1>2, <1>5, <1>6, <1>7 DEF IInv, StoppedIsDone, ProxyLogsAreRead

\* AnalyzeFlow keeps the invariant,
LEMMA FlowStep == ASSUME IInv, NEW c \in Conns, AnalyzeFlow(c) PROVE IInv'
<1>a. TypeOK
  BY DEF IInv
<1>b. pc = c
  BY DEF AnalyzeFlow, Skip, TakeKey, BadKey, Show, GiveUp, Starve
<1>1. CASE Skip(c)
  <2>1. /\ Ready(c) /\ Analysed(c, "skipped") /\ UNCHANGED <<m_HaveKey, m_Key>>
        /\ "skipped" \in Verdict
    BY <1>1 DEF Skip, Verdict
  <2> QED BY <1>a, <1>b, <2>1, AnalysedStep DEF TypeOK
<1>2. CASE TakeKey(c)
  <2>1. /\ Ready(c) /\ Analysed(c, "key") /\ m_HaveKey' = TRUE /\ m_Key' = Peeked(c).key
        /\ "key" \in Verdict
    BY <1>2 DEF TakeKey, Verdict
  <2> QED BY <1>b, <2>1, AnalysedStep
<1>3. CASE Show(c)
  <2>1. PICK verdict \in Verdict :
          /\ IF Peeked(c).flags = {"ENCRYPTED"}
             THEN \E ok \in DataChecksum(Peeked(c), m_Key) :
                     verdict = IF ok THEN "good" ELSE "bad"
             ELSE verdict = "plain"
          /\ Analysed(c, verdict)
    BY <1>3 DEF Show
  <2>2. Ready(c) /\ UNCHANGED <<m_HaveKey, m_Key>>
    BY <1>3 DEF Show
  <2>3. verdict # "key"
    BY <2>1
  <2>4. verdict \in {"good", "bad"} /\ Peeked(c).keynum # "beyond" =>
           (verdict = "good" <=> KeyFor(Peeked(c), m_Key) \in Peeked(c).accepts)
    BY <2>1 DEF DataChecksum
  <2> QED BY <1>a, <1>b, <2>1, <2>2, <2>3, <2>4, AnalysedStep DEF TypeOK
<1>4. CASE BadKey(c)
  <2>1. /\ Stop("badkey") /\ Left(c) > 0 /\ IsKey(Peeked(c)) /\ ~CarriesKey(Peeked(c))
    BY <1>4, <1>a, Typed, SizeAssumption DEF BadKey, Ready, Starving, Left
  <2> QED BY <2>1, StopStep
<1>5. CASE GiveUp(c)
  <2>1. Stop("abort") /\ Left(c) > 0 /\ Peeked(c).length > MaxPacketSize
    BY <1>5, <1>a, Typed, SizeAssumption DEF GiveUp, Obscene, Left
  <2> QED BY <2>1, StopStep
<1>6. CASE Starve(c)
  <2>1. Settled(c)
    BY <1>6, <1>a, Typed DEF Starve, Starving, Settled, Left
  <2>2. pc # "done"
    BY <1>a, <1>b, Typed
  <2> QED BY <1>6, <1>a, <1>b, <2>1, <2>2, IdleStep DEF Starve, TypeOK
<1> QED BY <1>1, <1>2, <1>3, <1>4, <1>5, <1>6 DEF AnalyzeFlow

\* and so does every other step.
LEMMA NextIInv == IInv /\ [Next]_vars => IInv'
<1> SUFFICES ASSUME IInv, [Next]_vars PROVE IInv'
  OBVIOUS
<1>a. TypeOK /\ ("read" \notin Conns /\ "detect" \notin Conns)
  BY FileAssumption DEF IInv
<1>1. CASE Detect
  BY <1>1, <1>a, IdleStep DEF Detect
<1>2. CASE EndOfFile \/ BadHeader
  BY <1>2, StopStep DEF EndOfFile, BadHeader
<1>3. ASSUME NEW c \in Conns, ReadRecord(c) PROVE IInv'
  <2>1. CASE TooLarge(Record(c))
    BY <1>3, <2>1, StopStep DEF ReadRecord, TooLarge
  <2>2. CASE ~TooLarge(Record(c))
    <3>1. Feed(c, Record(c)) /\ used[c] + Record(c) <= StreamLen /\ pc = "read"
      BY <1>3, <2>2 DEF ReadRecord
    <3> QED BY <1>a, <3>1, Typed, FeedStep
  <2> QED BY <2>1, <2>2
<1>4. ASSUME NEW c \in Conns, NEW len \in 1 .. MaxPacketSize, ReadSegment(c, len) PROVE IInv'
  <2>1. len \in Nat
    BY SizeAssumption
  <2> QED BY <1>4, <2>1, FeedStep DEF ReadSegment
<1>5. CASE UNCHANGED vars
  <2>1. EachPacketOnce' /\ LatestKeyDecodes'
    BY <1>5, EachPacketOnceSame, SaidOfSame DEF vars, IInv
  <2>2. TypeOK' /\ StoppedIsDone' /\ ProxyLogsAreRead' /\ KeyIsLatest'
    BY <1>5 DEF vars, IInv, TypeOK, StoppedIsDone, ProxyLogsAreRead, Left, Peeked, KeyIsLatest, KeyBefore
  <2>3. OthersSettled'
    BY <1>5 DEF vars, IInv, OthersSettled, Settled, Left, Peeked
  <2> QED BY <2>1, <2>2, <2>3 DEF IInv
<1> QED BY <1>1, <1>2, <1>3, <1>4, <1>5, FlowStep DEF Next

\* Every state romdump's reader can reach satisfies the invariant.
THEOREM Inductive == Spec => []IInv
BY InitIInv, NextIInv, PTL DEF Spec

\* The reader's state keeps its types; no flow is read past what the file has
\* given of it (AnalyzeFlow's CurrentDataOffset and m_DataBufferUsed).
THEOREM TypeCorrect == Spec => []TypeOK
<1>1. IInv => TypeOK
  BY DEF IInv
<1> QED BY <1>1, Inductive, PTL

\* AnalyzeFlow analyses every packet of a flow once, in order and without
\* gaps, whatever else the file mixes in and wherever it cuts the flow.
THEOREM PacketsOnce == Spec => []EachPacketOnce
<1>1. IInv => EachPacketOnce
  BY DEF IInv
<1> QED BY <1>1, Inductive, PTL

\* Between two chunks no flow holds a packet that is whole: AnalyzeFlow's
\* loop stops for no other reason.
THEOREM NoneWaits == Spec => []NothingWaits
<1>1. IInv => NothingWaits
  <2> SUFFICES ASSUME IInv, pc = "read", NEW c \in Conns PROVE Settled(c)
    BY DEF NothingWaits, Settled
  <2>1. c # pc
    BY FileAssumption
  <2> QED BY <2>1 DEF IInv, OthersSettled
<1> QED BY <1>1, Inductive, PTL

\* A packet is judged with the key of the last KEY packet before it in the
\* file, on whichever flow that was: g_State holds one for all of them.
THEOREM DecodedWithLatest == Spec => []LatestKeyDecodes
<1>1. IInv => LatestKeyDecodes
  BY DEF IInv
<1> QED BY <1>1, Inductive, PTL

\* romdump gives up on a log of the proxy's only over a length that
\* ROMConnection refuses, or over a KEY packet of another length than a key
\* has, which ROMConnection logs and ignores.
THEOREM LogsAreRead == Spec => []ProxyLogsAreRead
<1>1. IInv => ProxyLogsAreRead
  BY DEF IInv
<1> QED BY <1>1, Inductive, PTL
=============================================================================
