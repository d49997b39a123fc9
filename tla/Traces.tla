------------------------------- MODULE Traces -------------------------------
(***************************************************************************)
(* What a reader makes of a queue it reads from front to back.  R is the   *)
(* set of its steps: <<a, p, b>> if reading p takes it from a to b.  A     *)
(* queue leads it from a to b if its states can be written down, one       *)
(* before each element and one after the last.  The lemmas say what the    *)
(* operations on queues do to that; they replace induction over queues.    *)
(***************************************************************************)
EXTENDS Integers, Sequences, SequenceTheorems, WellFoundedInduction, TLAPS

Leads(S, R, q, a, b) ==
    \E f \in [0 .. Len(q) -> S] :
        /\ f[0] = a
        /\ f[Len(q)] = b
        /\ \A i \in 1 .. Len(q) : <<f[i - 1], q[i], f[i]>> \in R

\* An empty queue leads nowhere.
LEMMA LeadsEmpty ==
    ASSUME NEW S, NEW R, NEW a \in S
    PROVE  Leads(S, R, <<>>, a, a)
<1> DEFINE f == [i \in 0 .. 0 |-> a]
<1>1. f \in [0 .. Len(<<>>) -> S] /\ f[0] = a /\ f[Len(<<>>)] = a
  OBVIOUS
<1>2. \A i \in 1 .. Len(<<>>) : <<f[i - 1], <<>>[i], f[i]>> \in R
  OBVIOUS
<1> HIDE DEF f
<1> QED BY <1>1, <1>2 DEF Leads

\* A reader starts and ends in states of its own.
LEMMA LeadsEnds ==
    ASSUME NEW T, NEW q \in Seq(T), NEW S, NEW R, NEW a, NEW b, Leads(S, R, q, a, b)
    PROVE  a \in S /\ b \in S
BY LenProperties DEF Leads

\* Its first element takes the reader one step, the others the rest.
LEMMA LeadsTail ==
    ASSUME NEW T, NEW q \in Seq(T), q # <<>>,
           NEW S, NEW R, NEW a, NEW b, Leads(S, R, q, a, b)
    PROVE  \E c \in S : <<a, Head(q), c>> \in R /\ Leads(S, R, Tail(q), c, b)
<1>1. PICK f \in [0 .. Len(q) -> S] :
        /\ f[0] = a
        /\ f[Len(q)] = b
        /\ \A i \in 1 .. Len(q) : <<f[i - 1], q[i], f[i]>> \in R
  BY DEF Leads
<1> DEFINE g == [i \in 0 .. Len(q) - 1 |-> f[i + 1]]
<1>2. /\ Len(q) \in Nat \ {0}
      /\ Len(Tail(q)) = Len(q) - 1
      /\ Head(q) = q[1]
      /\ \A i \in 1 .. Len(q) - 1 : Tail(q)[i] = q[i + 1]
  BY EmptySeq, LenProperties, HeadTailProperties
<1>3. g \in [0 .. Len(Tail(q)) -> S] /\ g[0] = f[1] /\ g[Len(Tail(q))] = b /\ f[1] \in S
  BY <1>1, <1>2
<1>4. ASSUME NEW i \in 1 .. Len(Tail(q)) PROVE <<g[i - 1], Tail(q)[i], g[i]>> \in R
  <2>1. g[i - 1] = f[i] /\ g[i] = f[i + 1] /\ Tail(q)[i] = q[i + 1] /\ i + 1 \in 1 .. Len(q)
    BY <1>2
  <2>2. <<f[(i + 1) - 1], q[i + 1], f[i + 1]>> \in R
    BY <1>1, <2>1
  <2>3. (i + 1) - 1 = i
    OBVIOUS
  <2> QED BY <2>1, <2>2, <2>3
<1>5. <<a, Head(q), f[1]>> \in R
  BY <1>1, <1>2
<1> HIDE DEF g
<1>6. Leads(S, R, Tail(q), f[1], b)
  BY <1>3, <1>4 DEF Leads
<1> QED BY <1>3, <1>5, <1>6

\* What is appended takes the reader one step further.
LEMMA LeadsAppend ==
    ASSUME NEW T, NEW q \in Seq(T), NEW p \in T,
           NEW S, NEW R, NEW a, NEW b, NEW c \in S,
           Leads(S, R, q, a, b), <<b, p, c>> \in R
    PROVE  Leads(S, R, Append(q, p), a, c)
<1>1. PICK f \in [0 .. Len(q) -> S] :
        /\ f[0] = a
        /\ f[Len(q)] = b
        /\ \A i \in 1 .. Len(q) : <<f[i - 1], q[i], f[i]>> \in R
  BY DEF Leads
<1> DEFINE n == Len(q)
           s == Append(q, p)
           g == [i \in 0 .. n + 1 |-> IF i = n + 1 THEN c ELSE f[i]]
<1>2. n \in Nat /\ Len(s) = n + 1 /\ s[n + 1] = p /\ \A i \in 1 .. n : s[i] = q[i]
  BY LenProperties, AppendProperties
<1>3. g \in [0 .. Len(s) -> S] /\ g[0] = a /\ g[Len(s)] = c
  BY <1>1, <1>2
<1>4. ASSUME NEW i \in 1 .. Len(s) PROVE <<g[i - 1], s[i], g[i]>> \in R
  <2>1. CASE i = n + 1
    <3>1. g[i - 1] = f[n] /\ g[i] = c /\ s[i] = p
      BY <1>2, <2>1
    <3> QED BY <1>1, <3>1
  <2>2. CASE i # n + 1
    <3>1. i \in 1 .. n /\ g[i - 1] = f[i - 1] /\ g[i] = f[i] /\ s[i] = q[i]
      BY <1>2, <2>2
    <3> QED BY <1>1, <3>1
  <2> QED BY <2>1, <2>2
<1> HIDE DEF g, s, n
<1>5. Leads(S, R, s, a, c)
  BY <1>3, <1>4 DEF Leads
<1> QED BY <1>5 DEF s

\* The front part of a queue leads somewhere.
LEMMA LeadsPrefix ==
    ASSUME NEW T, NEW q \in Seq(T), NEW n \in 0 .. Len(q),
           NEW S, NEW R, NEW a, NEW b, Leads(S, R, q, a, b)
    PROVE  \E c \in S : Leads(S, R, SubSeq(q, 1, n), a, c)
<1>1. PICK f \in [0 .. Len(q) -> S] :
        /\ f[0] = a
        /\ f[Len(q)] = b
        /\ \A i \in 1 .. Len(q) : <<f[i - 1], q[i], f[i]>> \in R
  BY DEF Leads
<1> DEFINE s == SubSeq(q, 1, n)
           g == [i \in 0 .. n |-> f[i]]
<1>2. Len(q) \in Nat /\ Len(s) = n /\ \A i \in 1 .. n : s[i] = q[i]
  <2>1. Len(q) \in Nat /\ \A i \in 1 .. n : q[i] \in T
    BY LenProperties, ElementOfSeq
  <2> QED BY <2>1, SubSeqProperties
<1>3. g \in [0 .. Len(s) -> S] /\ g[0] = a /\ g[Len(s)] = f[n] /\ f[n] \in S
  BY <1>1, <1>2
<1>4. ASSUME NEW i \in 1 .. Len(s) PROVE <<g[i - 1], s[i], g[i]>> \in R
  <2>1. i \in 1 .. Len(q) /\ g[i - 1] = f[i - 1] /\ g[i] = f[i] /\ s[i] = q[i]
    BY <1>2
  <2> QED BY <1>1, <2>1
<1> HIDE DEF g, s
<1>5. Leads(S, R, s, a, f[n])
  BY <1>3, <1>4 DEF Leads
<1> QED BY <1>3, <1>5 DEF s

\* More states and more steps do no harm.
LEMMA LeadsMore ==
    ASSUME NEW S, NEW S2, S \subseteq S2, NEW R, NEW R2, R \subseteq R2,
           NEW q, NEW a, NEW b, Leads(S, R, q, a, b)
    PROVE  Leads(S2, R2, q, a, b)
<1>1. PICK f \in [0 .. Len(q) -> S] :
        /\ f[0] = a
        /\ f[Len(q)] = b
        /\ \A i \in 1 .. Len(q) : <<f[i - 1], q[i], f[i]>> \in R
  BY DEF Leads
<1>2. f \in [0 .. Len(q) -> S2]
  BY <1>1
<1> QED BY <1>1, <1>2 DEF Leads

-----------------------------------------------------------------------------
(* Queues and what is in them.                                             *)

\* The elements of a queue are packets of its type.
LEMMA RangeIsTyped ==
    ASSUME NEW T, NEW q \in Seq(T)
    PROVE  Range(q) \subseteq T
BY RangeOfSeq

\* What an append, a read and a cut do to the set of a queue's elements.
LEMMA RangeAppend ==
    ASSUME NEW T, NEW q \in Seq(T), NEW p \in T
    PROVE  Range(Append(q, p)) = Range(q) \cup {p}
<1> DEFINE s == Append(q, p)
<1>1. /\ Len(q) \in Nat /\ s \in Seq(T) /\ Len(s) = Len(q) + 1
      /\ s[Len(q) + 1] = p /\ \A i \in 1 .. Len(q) : s[i] = q[i]
  BY LenProperties, AppendProperties
<1>2. DOMAIN s = 1 .. Len(q) + 1 /\ DOMAIN q = 1 .. Len(q)
  BY <1>1, LenProperties
<1> HIDE DEF s
<1>3. Range(s) = Range(q) \cup {p}
  BY <1>1, <1>2 DEF Range
<1> QED BY <1>3 DEF s

\* A read takes at most one element out of the set.
LEMMA RangeTail ==
    ASSUME NEW T, NEW q \in Seq(T), q # <<>>
    PROVE  /\ Tail(q) \in Seq(T) /\ Range(Tail(q)) \subseteq Range(q)
           /\ Head(q) \in Range(q) /\ Head(q) \in T
<1>1. /\ Len(q) \in Nat \ {0} /\ Head(q) = q[1] /\ Head(q) \in T
      /\ Tail(q) \in Seq(T) /\ Len(Tail(q)) = Len(q) - 1
      /\ \A i \in 1 .. Len(q) - 1 : Tail(q)[i] = q[i + 1]
  BY EmptySeq, LenProperties, HeadTailProperties
<1>2. DOMAIN Tail(q) = 1 .. Len(q) - 1 /\ DOMAIN q = 1 .. Len(q)
  BY <1>1, LenProperties
<1> QED BY <1>1, <1>2 DEF Range

\* A cut adds none.
LEMMA RangePrefix ==
    ASSUME NEW T, NEW q \in Seq(T), NEW n \in 0 .. Len(q)
    PROVE  /\ SubSeq(q, 1, n) \in Seq(T)
           /\ Range(SubSeq(q, 1, n)) \subseteq Range(q)
           /\ Len(SubSeq(q, 1, n)) = n
<1>1. Len(q) \in Nat /\ \A i \in 1 .. n : q[i] \in T
  BY LenProperties, ElementOfSeq
<1>2. /\ SubSeq(q, 1, n) \in Seq(T) /\ Len(SubSeq(q, 1, n)) = n
      /\ \A i \in 1 .. n : SubSeq(q, 1, n)[i] = q[i]
  BY <1>1, SubSeqProperties
<1>3. DOMAIN SubSeq(q, 1, n) = 1 .. n /\ DOMAIN q = 1 .. Len(q)
  BY <1>2, LenProperties
<1> QED BY <1>1, <1>2, <1>3 DEF Range

\* Two queues read one after the other.
LEMMA ConcatRange ==
    ASSUME NEW T, NEW r \in Seq(T), NEW q \in Seq(T)
    PROVE  r \o q \in Seq(T) /\ Range(r \o q) = Range(r) \cup Range(q)
BY ConcatProperties, RangeConcatenation

\* Two queues read one after the other: the front one's first element goes
\* first, an append is to the back one, and both together are the split queue.
LEMMA ConcatTail ==
    ASSUME NEW T, NEW r \in Seq(T), NEW q \in Seq(T), r # <<>>
    PROVE  /\ r \o q # <<>>
           /\ Head(r \o q) = Head(r)
           /\ Tail(r) \o q = Tail(r \o q)
<1> DEFINE s == r \o q
           u == Tail(r) \o q
           v == Tail(r \o q)
<1>1. Len(r) \in Nat \ {0} /\ Len(q) \in Nat
  BY EmptySeq, LenProperties
<1>2. /\ s \in Seq(T) /\ Len(s) = Len(r) + Len(q)
      /\ \A i \in 1 .. Len(r) + Len(q) : s[i] = IF i <= Len(r) THEN r[i] ELSE q[i - Len(r)]
  BY ConcatProperties
<1>3. s # <<>>
  BY <1>1, <1>2, EmptySeq
<1>4. Head(s) = s[1] /\ Head(r) = r[1]
  OBVIOUS
<1>5. Head(s) = Head(r)
  BY <1>1, <1>2, <1>4
<1>6. /\ Tail(r) \in Seq(T) /\ Len(Tail(r)) = Len(r) - 1
      /\ \A i \in 1 .. Len(r) - 1 : Tail(r)[i] = r[i + 1]
  BY HeadTailProperties
<1> HIDE DEF s
<1>7. /\ Tail(s) \in Seq(T) /\ Len(Tail(s)) = Len(s) - 1
      /\ \A i \in 1 .. Len(s) - 1 : Tail(s)[i] = s[i + 1]
  BY <1>2, <1>3, HeadTailProperties
<1>8. /\ u \in Seq(T) /\ Len(u) = Len(r) - 1 + Len(q)
      /\ \A i \in 1 .. Len(r) - 1 + Len(q) :
            u[i] = IF i <= Len(r) - 1 THEN Tail(r)[i] ELSE q[i - (Len(r) - 1)]
  BY <1>6, ConcatProperties
<1> HIDE DEF u
<1>9. ASSUME NEW i \in 1 .. Len(u) PROVE u[i] = Tail(s)[i]
  <2>1. i \in 1 .. Len(r) - 1 + Len(q) /\ i + 1 \in 1 .. Len(r) + Len(q) /\ i \in 1 .. Len(s) - 1
    BY <1>1, <1>2, <1>8
  <2>2. Tail(s)[i] = s[i + 1] /\ s[i + 1] = IF i + 1 <= Len(r) THEN r[i + 1] ELSE q[i + 1 - Len(r)]
    BY <1>2, <1>7, <2>1
  <2>3. CASE i <= Len(r) - 1
    <3>1. u[i] = Tail(r)[i] /\ Tail(r)[i] = r[i + 1] /\ i + 1 <= Len(r)
      BY <1>1, <1>6, <1>8, <2>1, <2>3
    <3> QED BY <2>2, <3>1
  <2>4. CASE ~(i <= Len(r) - 1)
    <3>1. u[i] = q[i - (Len(r) - 1)] /\ ~(i + 1 <= Len(r)) /\ i - (Len(r) - 1) = i + 1 - Len(r)
      BY <1>1, <1>8, <2>1, <2>4
    <3> QED BY <2>2, <3>1
  <2> QED BY <2>3, <2>4
<1>10. u = Tail(s)
  <2>1. Len(u) = Len(Tail(s))
    BY <1>1, <1>2, <1>7, <1>8
  <2> QED BY <1>7, <1>8, <1>9, <2>1, SeqEqual
<1> QED BY <1>3, <1>5, <1>10 DEF s, u

\* An append to the back queue is an append to both.
LEMMA ConcatAppend ==
    ASSUME NEW T, NEW r \in Seq(T), NEW q \in Seq(T), NEW p \in T
    PROVE  r \o Append(q, p) = Append(r \o q, p)
<1>1. <<p>> \in Seq(T)
  OBVIOUS
<1>2. Append(q, p) = q \o <<p>> /\ Append(r \o q, p) = (r \o q) \o <<p>>
  BY ConcatProperties, AppendIsConcat
<1> QED BY <1>1, <1>2, ConcatAssociative

\* A queue cut in two.
LEMMA ConcatSplit ==
    ASSUME NEW T, NEW q \in Seq(T), NEW n \in 0 .. Len(q)
    PROVE  /\ SubSeq(q, 1, n) \in Seq(T) /\ SubSeq(q, n + 1, Len(q)) \in Seq(T)
           /\ SubSeq(q, 1, n) \o SubSeq(q, n + 1, Len(q)) = q
<1>1. Len(q) \in Nat /\ \A i \in 1 .. Len(q) : q[i] \in T
  BY LenProperties, ElementOfSeq
<1>2. SubSeq(q, 1, n) \in Seq(T) /\ SubSeq(q, n + 1, Len(q)) \in Seq(T)
  BY <1>1, SubSeqProperties
<1>3. 1 \in 1 .. Len(q) + 1 /\ n \in (1 - 1) .. Len(q) /\ Len(q) \in n .. Len(q)
  BY <1>1
<1>4. SubSeq(q, 1, n) \o SubSeq(q, n + 1, Len(q)) = SubSeq(q, 1, Len(q))
  BY <1>3, ConcatAdjacentSubSeq
<1> QED BY <1>2, <1>4, SubSeqFull

-----------------------------------------------------------------------------
(* A set of numbers has a least one, and a greatest one if it is bounded:  *)
(* what stands in for induction over the numbers.                          *)

\* A set of numbers that has an element has a least one: the library's
\* well-foundedness of the naturals, without its operator parameter.
LEMMA LeastNumber ==
    ASSUME NEW T, T \subseteq Nat, T # {}
    PROVE  \E m \in T : \A h \in T : m <= h
<1>1. PICK m \in T : \A h \in T : ~ (<<h, m>> \in OpToRel(<, Nat))
  BY NatLessThanWellFounded, WFMin
<1>2. \A h \in T : ~(h < m)
  BY <1>1 DEF OpToRel
<1> QED BY <1>2

\* So a set of numbers up to n that has an element has a greatest one.
LEMMA GreatestNumber ==
    ASSUME NEW n \in Nat, NEW T, T \subseteq 0 .. n, T # {}
    PROVE  \E m \in T : \A h \in T : h <= m
<1> DEFINE U == {n - h : h \in T}
<1>1. U \subseteq Nat /\ U # {}
  <2>1. PICK h \in T : TRUE
    OBVIOUS
  <2>2. n - h \in U
    BY <2>1
  <2>3. U \subseteq Nat
    OBVIOUS
  <2> QED BY <2>2, <2>3
<1>2. PICK u \in U : \A v \in U : u <= v
  BY <1>1, LeastNumber
<1>3. PICK m \in T : u = n - m
  BY <1>2
<1>4. ASSUME NEW h \in T PROVE h <= m
  <2>1. u <= n - h
    BY <1>2
  <2> QED BY <1>3, <2>1
<1> QED BY <1>3, <1>4
=============================================================================
