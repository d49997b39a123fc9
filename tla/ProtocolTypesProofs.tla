------------------------ MODULE ProtocolTypesProofs ------------------------
(***************************************************************************)
(* What the Fill functions of the builtin types take, for every width,     *)
(* count and number of bytes left, what the recursive functions of the     *)
(* model compute, and that what is loaded from a well-formed file is well  *)
(* made, at every moment of the loading.                                   *)
(***************************************************************************)
EXTENDS ProtocolLoader, Traces

\* The builtin types the loader can make, with counts as the loader takes them.
Sized(t) ==
    /\ t.width \in Nat \ {0} /\ t.count \in Nat /\ t.min \in Nat
    /\ t.min <= t.count
    /\ ~IsStruct(t)

\* Multiplication by a width grows with the number of entries.
LEMMA ProductGrows ==
    ASSUME NEW w \in Nat, NEW a \in Nat, NEW b \in Nat, a <= b
    PROVE  w * a <= w * b
<1>1. PICK d \in Nat : b = a + d
  <2>1. (b - a) \in Nat /\ b = a + (b - a)
    OBVIOUS
  <2> QED BY <2>1
<1>2. w * b = w * a + w * d
  BY <1>1
<1>3. w * d \in Nat /\ w * a \in Nat
  BY <1>1
<1> QED BY <1>2, <1>3

\* Whole entries in a bytes take no more than a bytes.
LEMMA QuotientFits ==
    ASSUME NEW a \in Nat, NEW w \in Nat \ {0}
    PROVE  (a \div w) \in Nat /\ w * (a \div w) <= a
<1>1. a = w * (a \div w) + (a % w) /\ (a % w) \in 0..(w - 1) /\ (a \div w) \in Int
  OBVIOUS
<1>2. w * (a \div w) <= a
  BY <1>1
<1>3. (a \div w) >= 0
  BY <1>1
<1> QED BY <1>1, <1>2, <1>3

\* A number of entries that fits is at most the number of whole ones.
LEMMA LeastQuotient ==
    ASSUME NEW a \in Nat, NEW w \in Nat \ {0}, NEW n \in Nat, w * n <= a
    PROVE  n <= a \div w
<1> DEFINE q == a \div w
<1>1. a = w * q + (a % w) /\ (a % w) \in 0..(w - 1) /\ q \in Nat
  BY QuotientFits
<1>2. SUFFICES ASSUME q + 1 <= n PROVE FALSE
  BY <1>1
<1>3. w * (q + 1) <= w * n
  BY <1>1, <1>2, ProductGrows
<1>4. w * (q + 1) = w * q + w /\ w * n \in Nat /\ w * q \in Nat
  BY <1>1
<1> QED BY <1>1, <1>3, <1>4

\* The entries read fit into what is left and into the field, and are no fewer
\* than the least it may have.
LEMMA EntriesFit ==
    ASSUME NEW t, Sized(t), NEW left \in Nat
    PROVE  /\ Entries(t, left) \in 0..t.count
           /\ t.width * Entries(t, left) <= left
           /\ Entries(t, left) # 0 => t.min <= Entries(t, left)
<1> DEFINE w == t.width  q == left \div w
<1>1. w \in Nat \ {0} /\ t.count \in Nat /\ t.min \in Nat /\ t.min <= t.count
  BY DEF Sized
<1>2. q \in Nat /\ w * q <= left
  BY <1>1, QuotientFits
<1>3. CASE w * t.min > left
  BY <1>1, <1>3 DEF Entries
<1>4. CASE ~(w * t.min > left)
  <2>1. Entries(t, left) = Least(q, t.count)
    BY <1>4 DEF Entries
  <2>2. CASE q <= t.count
    <3>1. t.min <= q
      BY <1>1, <1>2, <1>4, LeastQuotient
    <3> QED BY <1>1, <1>2, <2>1, <2>2, <3>1 DEF Least
  <2>3. CASE ~(q <= t.count)
    <3>1. Entries(t, left) = t.count
      BY <2>1, <2>3 DEF Least
    <3>2. t.count <= q
      BY <1>1, <1>2, <2>3
    <3>3. w * t.count <= w * q
      BY <1>1, <1>2, <3>2, ProductGrows
    <3>4. w * t.count \in Nat /\ w * q \in Nat
      BY <1>1, <1>2
    <3>5. w * t.count <= left
      BY <1>2, <3>3, <3>4
    <3> QED BY <1>1, <3>1, <3>5
  <2> QED BY <2>2, <2>3
<1> QED BY <1>3, <1>4

\* Field::Process moves by what Fill returns: never beyond the data.
THEOREM FillStaysInside ==
    ASSUME NEW t, Sized(t), NEW value, NEW left \in Nat
    PROVE  Taken(t, value, left) \in 0..left
<1>1. t.width \in Nat /\ Entries(t, left) \in Nat
  BY EntriesFit DEF Sized
<1>2. t.width * Entries(t, left) \in 0..left
  BY <1>1, EntriesFit
<1> QED BY <1>2 DEF Taken

\* A type that promises a constant size takes just that, or nothing: a header
\* that took its constant size has been supplied in full.
THEOREM ConstantOrNothing ==
    ASSUME NEW t, Sized(t), NEW value, NEW left \in Nat, ConstantSize(t) # 0
    PROVE  Taken(t, value, left) \in {0, ConstantSize(t)}
<1>1. t.count \in Nat /\ t.count = t.min /\ ConstantSize(t) = t.count * t.width
  BY DEF ConstantSize, Sized
<1>2. Entries(t, left) \in {0, t.count}
  BY <1>1, EntriesFit
<1>3. t.width * 0 = 0 /\ t.width * t.count = t.count * t.width
  BY <1>1 DEF Sized
<1> QED BY <1>1, <1>2, <1>3 DEF Taken

-----------------------------------------------------------------------------
(* Recursive functions: F takes a value and the number of a step to the    *)
(* next value.                                                             *)

\* What such a function computes stays in the set of the values.
LEMMA RecursionTyped ==
    ASSUME NEW S, NEW n \in Nat, NEW F \in [S \X (1 .. n) -> S], NEW f, f[0] \in S,
           \A i \in 1 .. n : f[i - 1] \in S => f[i] = F[<<f[i - 1], i>>]
    PROVE  \A i \in 0 .. n : f[i] \in S
<1> DEFINE Astray == {i \in 0 .. n : f[i] \notin S}
<1>1. SUFFICES ASSUME Astray # {} PROVE FALSE
  OBVIOUS
<1>2. PICK m \in Astray : \A h \in Astray : m <= h
  <2>1. Astray \subseteq Nat
    OBVIOUS
  <2> HIDE DEF Astray
  <2> QED BY <1>1, <2>1, LeastNumber
<1>3. m \in 1 .. n /\ m - 1 \in 0 .. n /\ ~(m <= m - 1)
  OBVIOUS
<1>4. f[m - 1] \in S
  <2>1. m - 1 \notin Astray
    <3> HIDE DEF Astray
    <3> QED BY <1>2, <1>3
  <2> QED BY <1>3, <2>1
<1>5. f[m] = F[<<f[m - 1], m>>]
  BY <1>3, <1>4
<1>6. <<f[m - 1], m>> \in S \X (1 .. n)
  BY <1>3, <1>4
<1>7. f[m] \in S
  BY <1>5, <1>6
<1> QED BY <1>2, <1>7

\* f goes on from a for n steps.
Recursion(S, n, F, a, f) ==
    f \in [0 .. n -> S] /\ f[0] = a /\ \A i \in 1 .. n : f[i] = F[<<f[i - 1], i>>]

\* There is one from any value on: it can be continued by one step.
LEMMA RecursionExists ==
    ASSUME NEW S, NEW n \in Nat, NEW F \in [S \X (1 .. n) -> S], NEW a \in S
    PROVE  \E f : Recursion(S, n, F, a, f)
<1> DEFINE IsUpTo(f, k) ==
               f \in [0 .. k -> S] /\ f[0] = a /\ \A i \in 1 .. k : f[i] = F[<<f[i - 1], i>>]
           Missing == {k \in 0 .. n : ~ \E f : IsUpTo(f, k)}
<1>1. SUFFICES \E f : IsUpTo(f, n)
  BY DEF Recursion
<1>2. SUFFICES ASSUME Missing # {} PROVE FALSE
  <2> HIDE DEF IsUpTo
  <2> QED OBVIOUS
<1>3. PICK m \in Missing : \A h \in Missing : m <= h
  <2>1. Missing \subseteq Nat
    OBVIOUS
  <2> HIDE DEF Missing
  <2> QED BY <1>2, <2>1, LeastNumber
<1>4. CASE m = 0
  <2>1. IsUpTo([i \in 0 .. 0 |-> a], 0)
    OBVIOUS
  <2> QED BY <1>3, <1>4, <2>1
<1>5. CASE m # 0
  <2>1. m - 1 \in 0 .. n /\ m \in 1 .. n /\ ~(m - 1 \in Missing)
    <3>1. m \in 0 .. n
      BY <1>3
    <3>2. m - 1 \in 0 .. n /\ m \in 1 .. n /\ ~(m <= m - 1)
      BY <1>5, <3>1
    <3> HIDE DEF Missing
    <3> QED BY <1>3, <3>2
  <2>2. PICK f : IsUpTo(f, m - 1)
    <3>1. \E f : IsUpTo(f, m - 1)
      BY <2>1
    <3> QED BY <3>1
  <2> DEFINE v == F[<<f[m - 1], m>>]
             g == [i \in 0 .. m |-> IF i = m THEN v ELSE f[i]]
  <2>3. v \in S
    <3>1. f[m - 1] \in S
      BY <2>1, <2>2
    <3> QED BY <2>1, <3>1
  <2>4. g \in [0 .. m -> S]
    <3>1. ASSUME NEW i \in 0 .. m, i # m PROVE f[i] \in S
      <4>1. i \in 0 .. m - 1
        BY <2>1, <3>1
      <4> QED BY <2>2, <4>1
    <3> HIDE DEF v
    <3> QED BY <2>3, <3>1
  <2>5. g[0] = a
    BY <2>1, <2>2
  <2>6. ASSUME NEW i \in 1 .. m PROVE g[i] = F[<<g[i - 1], i>>]
    <3>1. g[i - 1] = f[i - 1]
      BY <2>1
    <3>2. CASE i = m
      <4>1. g[i] = v /\ v = F[<<f[i - 1], i>>]
        BY <3>2
      <4> QED BY <3>1, <4>1
    <3>3. CASE i # m
      <4>1. i \in 1 .. m - 1 /\ i \in 0 .. m
        BY <2>1, <3>3
      <4>2. g[i] = f[i] /\ f[i] = F[<<f[i - 1], i>>]
        BY <2>2, <3>3, <4>1
      <4> QED BY <3>1, <4>2
    <3> QED BY <3>2, <3>3
  <2>7. IsUpTo(g, m)
    <3> HIDE DEF g
    <3> QED BY <2>4, <2>5, <2>6
  <2> QED BY <1>3, <2>7
<1> QED BY <1>4, <1>5

\* Sums adds up numbers.
LEMMA SumsByNumber ==
    ASSUME NEW ns \in Seq(Nat)
    PROVE  /\ Sums(ns) \in [0 .. Len(ns) -> Nat]
           /\ Sums(ns)[0] = 0
           /\ \A i \in 1 .. Len(ns) : Sums(ns)[i] = Sums(ns)[i - 1] + ns[i]
<1> DEFINE n == Len(ns)
           F == [p \in Nat \X (1 .. n) |-> p[1] + ns[p[2]]]
           Equation(f) == f = [i \in 0 .. n |-> IF i = 0 THEN 0 ELSE f[i - 1] + ns[i]]
           t == CHOOSE f : Equation(f)
<1>1. n \in Nat
  BY LenProperties
<1>2. F \in [Nat \X (1 .. n) -> Nat]
  BY <1>1
<1>3. PICK f : Recursion(Nat, n, F, 0, f)
  <2>1. 0 \in Nat
    OBVIOUS
  <2> HIDE DEF F, n
  <2> QED BY <1>1, <1>2, <2>1, RecursionExists
<1>4. Equation(f)
  <2>1. ASSUME NEW i \in 0 .. n, i # 0 PROVE f[i] = f[i - 1] + ns[i]
    <3>1. i \in 1 .. n /\ f[i - 1] \in Nat
      BY <1>1, <1>3, <2>1 DEF Recursion
    <3> QED BY <1>3, <3>1 DEF Recursion
  <2> QED BY <1>1, <1>3, <2>1 DEF Recursion
<1>5. Equation(t)
  BY <1>4
<1>6. Sums(ns) = t
  BY DEF Sums
<1> HIDE DEF t
<1>7. t[0] = 0 /\ \A i \in 1 .. n : t[i] = t[i - 1] + ns[i]
  BY <1>1, <1>5
<1>8. \A i \in 0 .. n : t[i] \in Nat
  <2>1. ASSUME NEW i \in 1 .. n, t[i - 1] \in Nat PROVE t[i] = F[<<t[i - 1], i>>]
    BY <1>7, <2>1
  <2>2. t[0] \in Nat
    BY <1>7
  <2> HIDE DEF F
  <2> QED BY <1>1, <1>2, <2>1, <2>2, RecursionTyped, Zenon
<1>9. t \in [0 .. n -> Nat]
  BY <1>5, <1>8
<1> QED BY <1>6, <1>7, <1>9

\* Sums never fall, and grow where all the numbers are positive.
LEMMA SumsGrow ==
    ASSUME NEW ns \in Seq(Nat), NEW i \in 0 .. Len(ns), NEW j \in 0 .. Len(ns), i <= j
    PROVE  /\ Sums(ns)[i] <= Sums(ns)[j]
           /\ (\A k \in 1 .. Len(ns) : ns[k] > 0) /\ i < j => Sums(ns)[i] < Sums(ns)[j]
<1> DEFINE Grows(k) == /\ Sums(ns)[i] <= Sums(ns)[k]
                       /\ (\A h \in 1 .. Len(ns) : ns[h] > 0) /\ i < k => Sums(ns)[i] < Sums(ns)[k]
           Falls == {k \in i .. Len(ns) : ~Grows(k)}
<1>0. Len(ns) \in Nat
  BY LenProperties
<1>1. SUFFICES ASSUME Falls # {} PROVE FALSE
  <2>1. j \in i .. Len(ns)
    BY <1>0
  <2> QED BY <2>1
<1>2. PICK m \in Falls : \A h \in Falls : m <= h
  <2>1. Falls \subseteq Nat
    BY <1>0
  <2> HIDE DEF Falls
  <2> QED BY <1>1, <2>1, LeastNumber
<1>3. m \in i .. Len(ns) /\ ~Grows(m)
  BY <1>2
<1>4. m # i
  <2>1. Sums(ns)[i] \in Nat
    BY SumsByNumber
  <2>2. Grows(i)
    BY <2>1
  <2> QED BY <1>3, <2>2
<1>5. m - 1 \in i .. Len(ns) /\ m \in 1 .. Len(ns) /\ m - 1 \in 0 .. Len(ns) /\ ~(m <= m - 1)
  BY <1>0, <1>3, <1>4
<1>6. Grows(m - 1)
  <2>1. m - 1 \notin Falls
    <3> HIDE DEF Falls
    <3> QED BY <1>2, <1>5
  <2> HIDE DEF Grows
  <2> QED BY <1>5, <2>1
<1>7. /\ Sums(ns)[m] = Sums(ns)[m - 1] + ns[m] /\ ns[m] \in Nat
      /\ Sums(ns)[m - 1] \in Nat /\ Sums(ns)[i] \in Nat
  BY <1>5, SumsByNumber, ElementOfSeq
<1>8. Sums(ns)[i] <= Sums(ns)[m]
  BY <1>6, <1>7
<1>9. ASSUME \A h \in 1 .. Len(ns) : ns[h] > 0 PROVE Sums(ns)[i] < Sums(ns)[m]
  <2>1. ns[m] > 0
    BY <1>5, <1>9
  <2> QED BY <1>6, <1>7, <2>1
<1> QED BY <1>3, <1>8, <1>9

\* What holds at 0 and goes on from number to number holds up to n.
LEMMA UpTo ==
    ASSUME NEW n \in Nat, NEW T, 0 \in T, \A i \in 1 .. n : i - 1 \in T => i \in T
    PROVE  \A i \in 0 .. n : i \in T
<1> DEFINE Missing == {i \in 0 .. n : i \notin T}
<1>1. SUFFICES ASSUME Missing # {} PROVE FALSE
  OBVIOUS
<1>2. PICK m \in Missing : \A h \in Missing : m <= h
  <2>1. Missing \subseteq Nat
    OBVIOUS
  <2> HIDE DEF Missing
  <2> QED BY <1>1, <2>1, LeastNumber
<1>3. m \in 1 .. n /\ m \notin T
  BY <1>2
<1>4. m - 1 \in 0 .. n /\ ~(m <= m - 1)
  BY <1>3
<1>5. m - 1 \notin Missing
  <2> HIDE DEF Missing
  <2> QED BY <1>2, <1>4
<1> QED BY <1>3, <1>4, <1>5

\* Numbers that are no more than others come to no more, and what one of them
\* is less by is left.
LEMMA SumsBelow ==
    ASSUME NEW a \in Seq(Nat), NEW b \in Seq(Nat), Len(a) = Len(b), \A i \in 1 .. Len(a) : a[i] <= b[i],
           NEW j \in 0 .. Len(a), NEW delta \in Nat, j = 0 => delta = 0, j > 0 => a[j] + delta <= b[j]
    PROVE  Total(a) + delta <= Total(b)
<1> DEFINE n == Len(a)
           Below(i) == Sums(a)[i] + (IF i >= j THEN delta ELSE 0) <= Sums(b)[i]
           T == {i \in 0 .. n : Below(i)}
<1>1. n \in Nat
  BY LenProperties
<1>2. /\ Sums(a)[0] = 0 /\ Sums(b)[0] = 0
      /\ \A i \in 0 .. n : Sums(a)[i] \in Nat /\ Sums(b)[i] \in Nat
      /\ \A i \in 1 .. n : Sums(a)[i] = Sums(a)[i - 1] + a[i] /\ Sums(b)[i] = Sums(b)[i - 1] + b[i]
  BY SumsByNumber
<1>3. 0 \in T
  BY <1>1, <1>2
<1>4. ASSUME NEW i \in 1 .. n, i - 1 \in T PROVE i \in T
  <2> DEFINE p == Sums(a)[i - 1]
             q == Sums(b)[i - 1]
             s == Sums(a)[i]
             t == Sums(b)[i]
             x == a[i]
             y == b[i]
  <2>1. /\ p \in Nat /\ q \in Nat /\ x \in Nat /\ y \in Nat
        /\ s = p + x /\ t = q + y
        /\ x <= y /\ i \in 0 .. n /\ i - 1 \in 0 .. n
    <3>1. i - 1 \in 0 .. n /\ i \in 0 .. n
      BY <1>1
    <3> QED BY <1>2, <3>1, ElementOfSeq
  <2>2. p + (IF i - 1 >= j THEN delta ELSE 0) <= q /\ (i = j => x + delta <= y)
    BY <1>4
  <2>3. SUFFICES s + (IF i >= j THEN delta ELSE 0) <= t
    BY <2>1
  <2> HIDE DEF p, q, s, t, x, y, n
  <2>4. CASE i = j
    BY <2>1, <2>2, <2>4
  <2>5. CASE i # j
    <3>1. i >= j <=> i - 1 >= j
      BY <2>1, <2>5
    <3> QED BY <2>1, <2>2, <3>1
  <2> QED BY <2>4, <2>5
<1>5. \A i \in 0 .. n : i \in T
  <2> HIDE DEF T, n
  <2> QED BY <1>1, <1>3, <1>4, UpTo
<1>6. n \in T /\ n >= j
  BY <1>1, <1>5
<1> QED BY <1>6 DEF Total

\* The sum of what stands before a zero and of what stands after it.
LEMMA SumsAround ==
    ASSUME NEW ns \in Seq(Nat), NEW at \in 1 .. Len(ns), ns[at] = 0,
           NEW b \in Seq(Nat), Len(b) = at - 1, \A k \in 1 .. at - 1 : b[k] = ns[k],
           NEW c \in Seq(Nat), Len(c) = Len(ns) - at, \A k \in 1 .. Len(ns) - at : c[k] = ns[at + k]
    PROVE  Total(ns) = Total(b) + Total(c)
<1> DEFINE n == Len(ns)
           m == n - at
           P == {i \in 0 .. at - 1 : Sums(b)[i] = Sums(ns)[i]}
           Q == {i \in 0 .. m : Sums(ns)[at + i] = Sums(ns)[at] + Sums(c)[i]}
<1>1. n \in Nat /\ m \in Nat /\ at \in 1 .. n /\ n = at + m /\ at - 1 \in Nat
  BY LenProperties
<1>2. /\ Sums(ns)[0] = 0 /\ \A i \in 0 .. n : Sums(ns)[i] \in Nat
      /\ \A i \in 1 .. n : Sums(ns)[i] = Sums(ns)[i - 1] + ns[i]
  BY SumsByNumber
<1>3. /\ Sums(b)[0] = 0 /\ \A i \in 0 .. at - 1 : Sums(b)[i] \in Nat
      /\ \A i \in 1 .. at - 1 : Sums(b)[i] = Sums(b)[i - 1] + ns[i]
  <2> DEFINE l == Len(b)
             B == Sums(b)
  <2>1. B \in [0 .. l -> Nat] /\ B[0] = 0 /\ \A i \in 1 .. l : B[i] = B[i - 1] + b[i]
    BY SumsByNumber
  <2>2. l = at - 1 /\ \A k \in 1 .. l : b[k] = ns[k]
    OBVIOUS
  <2> HIDE DEF l, B
  <2>3. B[0] = 0 /\ (\A i \in 0 .. l : B[i] \in Nat) /\ \A i \in 1 .. l : B[i] = B[i - 1] + ns[i]
    BY <2>1, <2>2
  <2>4. B[0] = 0 /\ (\A i \in 0 .. at - 1 : B[i] \in Nat) /\ \A i \in 1 .. at - 1 : B[i] = B[i - 1] + ns[i]
    BY <2>2, <2>3
  <2> QED BY <2>4 DEF B
<1>4. /\ Sums(c)[0] = 0 /\ \A i \in 0 .. m : Sums(c)[i] \in Nat
      /\ \A i \in 1 .. m : Sums(c)[i] = Sums(c)[i - 1] + ns[at + i]
  <2> DEFINE l == Len(c)
             C == Sums(c)
  <2>1. C \in [0 .. l -> Nat] /\ C[0] = 0 /\ \A i \in 1 .. l : C[i] = C[i - 1] + c[i]
    BY SumsByNumber
  <2>2. l = m /\ \A k \in 1 .. l : c[k] = ns[at + k]
    OBVIOUS
  <2> HIDE DEF l, C, m
  <2>3. C[0] = 0 /\ (\A i \in 0 .. l : C[i] \in Nat) /\ \A i \in 1 .. l : C[i] = C[i - 1] + ns[at + i]
    BY <2>1, <2>2
  <2>4. C[0] = 0 /\ (\A i \in 0 .. m : C[i] \in Nat) /\ \A i \in 1 .. m : C[i] = C[i - 1] + ns[at + i]
    BY <2>2, <2>3
  <2> QED BY <2>4 DEF C
<1>5. at - 1 \in P
  <2>1. 0 \in P
    BY <1>1, <1>2, <1>3
  <2>2. ASSUME NEW i \in 1 .. at - 1, i - 1 \in P PROVE i \in P
    <3>1. i \in 1 .. n
      BY <1>1
    <3> QED BY <1>2, <1>3, <2>2, <3>1
  <2>3. \A i \in 0 .. at - 1 : i \in P
    <3> HIDE DEF P
    <3> QED BY <1>1, <2>1, <2>2, UpTo
  <2> QED BY <1>1, <2>3
<1>6. m \in Q
  <2>1. 0 \in Q
    BY <1>1, <1>2, <1>4
  <2>2. ASSUME NEW i \in 1 .. m, i - 1 \in Q PROVE i \in Q
    <3>1. at + i \in 1 .. n /\ at + (i - 1) = (at + i) - 1 /\ i \in 0 .. m /\ i - 1 \in 0 .. m /\ at \in 0 .. n
      BY <1>1
    <3>2. Sums(ns)[at + i] = Sums(ns)[(at + i) - 1] + ns[at + i]
      BY <1>2, <3>1
    <3>3. Sums(ns)[(at + i) - 1] = Sums(ns)[at] + Sums(c)[i - 1]
      BY <2>2, <3>1
    <3>4. Sums(c)[i] = Sums(c)[i - 1] + ns[at + i]
      BY <1>4
    <3>5. Sums(ns)[at] \in Nat /\ Sums(c)[i - 1] \in Nat /\ ns[at + i] \in Nat
      BY <1>2, <1>4, <3>1, ElementOfSeq
    <3> DEFINE u == Sums(ns)[at]
               v == Sums(c)[i - 1]
               w == ns[at + i]
    <3>6. u + v + w = u + (v + w)
      <4>1. u \in Nat /\ v \in Nat /\ w \in Nat
        BY <3>5
      <4> HIDE DEF u, v, w
      <4> QED BY <4>1
    <3> QED BY <3>1, <3>2, <3>3, <3>4, <3>6
  <2>3. \A i \in 0 .. m : i \in Q
    <3> HIDE DEF Q, m
    <3> QED BY <1>1, <2>1, <2>2, UpTo
  <2> QED BY <1>1, <2>3
<1>7. Sums(ns)[at] = Sums(ns)[at - 1]
  <2>1. at - 1 \in 0 .. n
    BY <1>1
  <2>2. Sums(ns)[at] = Sums(ns)[at - 1] + 0 /\ Sums(ns)[at - 1] \in Nat
    BY <1>1, <1>2, <2>1
  <2> QED BY <2>2
<1>8. Sums(ns)[n] = Sums(ns)[at - 1] + Sums(c)[m]
  BY <1>1, <1>6, <1>7
<1> QED BY <1>5, <1>8 DEF Total

\* w bytes hold some number of numbers.
LEMMA CapacityPositive ==
    ASSUME NEW w \in Nat
    PROVE  Capacity(w) \in Nat \ {0}
<1> DEFINE S == Nat \ {0}
           F == [p \in S \X (1 .. w) |-> ByteBase * p[1]]
           Equation(f) == f = [k \in 0 .. w |-> IF k = 0 THEN 1 ELSE ByteBase * f[k - 1]]
           t == CHOOSE f : Equation(f)
<1>1. F \in [S \X (1 .. w) -> S]
  <2>1. ASSUME NEW n \in S PROVE ByteBase * n \in S
    BY <2>1, WordAssumption
  <2> HIDE DEF S
  <2> QED BY <2>1
<1>2. PICK f : Recursion(S, w, F, 1, f)
  <2>1. 1 \in S
    OBVIOUS
  <2> HIDE DEF F, S
  <2> QED BY <1>1, <2>1, RecursionExists
<1>3. Equation(f)
  <2>1. ASSUME NEW k \in 0 .. w, k # 0 PROVE f[k] = ByteBase * f[k - 1]
    <3>1. k \in 1 .. w /\ f[k - 1] \in S
      BY <1>2, <2>1 DEF Recursion
    <3> QED BY <1>2, <3>1 DEF Recursion
  <2> QED BY <1>2, <2>1 DEF Recursion
<1>4. Equation(t)
  BY <1>3
<1>5. Capacity(w) = t[w]
  BY DEF Capacity
<1> HIDE DEF t
<1>6. t[0] = 1 /\ \A k \in 1 .. w : t[k] = ByteBase * t[k - 1]
  BY <1>4
<1>7. \A k \in 0 .. w : t[k] \in S
  <2>1. ASSUME NEW k \in 1 .. w, t[k - 1] \in S PROVE t[k] = F[<<t[k - 1], k>>]
    BY <1>6, <2>1
  <2>2. t[0] \in S
    BY <1>6
  <2> HIDE DEF F, S
  <2> QED BY <1>1, <2>1, <2>2, RecursionTyped, Zenon
<1> QED BY <1>5, <1>7

\* A number read from bytes is one.
LEMMA NumberTyped ==
    ASSUME NEW buf \in Seq(Nat), NEW i \in Nat, NEW w \in Nat, i + w <= Len(buf)
    PROVE  Number(buf, i, w) \in Nat
<1> DEFINE Byte(k) == buf[i + w - k + 1]
           F == [p \in Nat \X (1 .. w) |-> ByteBase * p[1] + Byte(p[2])]
           Equation(f) == f = [k \in 0 .. w |-> IF k = 0 THEN 0 ELSE ByteBase * f[k - 1] + Byte(k)]
           t == CHOOSE f : Equation(f)
<1>0. ASSUME NEW k \in 1 .. w PROVE Byte(k) \in Nat
  <2>1. i + w - k + 1 \in 1 .. Len(buf)
    BY LenProperties
  <2> QED BY <2>1, ElementOfSeq
<1>5. Number(buf, i, w) = t[w]
  BY DEF Number
<1> HIDE DEF Byte
<1>1. F \in [Nat \X (1 .. w) -> Nat]
  <2>1. ASSUME NEW n \in Nat, NEW k \in 1 .. w PROVE ByteBase * n + Byte(k) \in Nat
    <3>1. ByteBase * n \in Nat
      BY WordAssumption
    <3> QED BY <1>0, <3>1
  <2> QED BY <2>1
<1>2. PICK f : Recursion(Nat, w, F, 0, f)
  <2>1. 0 \in Nat
    OBVIOUS
  <2> HIDE DEF F
  <2> QED BY <1>1, <2>1, RecursionExists
<1>3. Equation(f)
  <2>1. ASSUME NEW k \in 0 .. w, k # 0 PROVE f[k] = ByteBase * f[k - 1] + Byte(k)
    <3>1. k \in 1 .. w /\ f[k - 1] \in Nat
      BY <1>2, <2>1 DEF Recursion
    <3> QED BY <1>2, <3>1 DEF Recursion
  <2> QED BY <1>2, <2>1 DEF Recursion
<1>4. Equation(t)
  BY <1>3
<1> HIDE DEF t
<1>6. t[0] = 0 /\ \A k \in 1 .. w : t[k] = ByteBase * t[k - 1] + Byte(k)
  BY <1>4
<1>7. \A k \in 0 .. w : t[k] \in Nat
  <2>1. ASSUME NEW k \in 1 .. w, t[k - 1] \in Nat PROVE t[k] = F[<<t[k - 1], k>>]
    BY <1>6, <2>1
  <2>2. t[0] \in Nat
    BY <1>6
  <2> HIDE DEF F
  <2> QED BY <1>1, <2>1, <2>2, RecursionTyped, Zenon
<1> QED BY <1>5, <1>7

\* So is what is kept of it.
LEMMA StoredTyped ==
    ASSUME NEW kind, NEW n \in Nat
    PROVE  Stored(kind, n) \in Nat
<1>1. Capacity(Word) \in Nat \ {0} /\ Word \in Nat
  BY WordAssumption, CapacityPositive
<1>2. \A c \in Nat \ {0} : (n + Word) % c \in Nat
  BY <1>1
<1> QED BY <1>1, <1>2 DEF Stored

\* Only picks elements out of a sequence.
LEMMA OnlyTyped ==
    ASSUME NEW T, NEW parts \in Seq(T), NEW do
    PROVE  Only(do, parts) \in Seq({p \in T : p.do = do})
<1> DEFINE n == Len(parts)
           S == Seq({p \in T : p.do = do})
           Next(s, i) == IF parts[i].do = do THEN Append(s, parts[i]) ELSE s
           F == [p \in S \X (1 .. n) |-> Next(p[1], p[2])]
           Equation(f) == f = [i \in 0 .. n |-> IF i = 0 THEN <<>> ELSE Next(f[i - 1], i)]
           t == CHOOSE f : Equation(f)
<1>0. n \in Nat
  BY LenProperties
<1>5. Only(do, parts) = t[n]
  BY DEF Only
<1>1. F \in [S \X (1 .. n) -> S]
  <2>1. ASSUME NEW s \in S, NEW i \in 1 .. n PROVE Next(s, i) \in S
    <3>1. parts[i] \in T
      BY <1>0, ElementOfSeq
    <3> QED BY <3>1, AppendProperties
  <2> HIDE DEF Next, S
  <2> QED BY <2>1
<1>8. <<>> \in S
  OBVIOUS
<1> HIDE DEF Next, S
<1>2. PICK f : Recursion(S, n, F, <<>>, f)
  <2> HIDE DEF F, n
  <2> QED BY <1>0, <1>1, <1>8, RecursionExists
<1>3. Equation(f)
  <2>1. ASSUME NEW i \in 0 .. n, i # 0 PROVE f[i] = Next(f[i - 1], i)
    <3>1. i \in 1 .. n /\ f[i - 1] \in S
      BY <1>0, <1>2, <2>1 DEF Recursion
    <3> QED BY <1>2, <3>1 DEF Recursion
  <2> QED BY <1>2, <2>1 DEF Recursion
<1>4. Equation(t)
  BY <1>3
<1> HIDE DEF t
<1>6. t[0] = <<>> /\ \A i \in 1 .. n : t[i] = Next(t[i - 1], i)
  BY <1>0, <1>4
<1>7. \A i \in 0 .. n : t[i] \in S
  <2>1. ASSUME NEW i \in 1 .. n, t[i - 1] \in S PROVE t[i] = F[<<t[i - 1], i>>]
    BY <1>6, <2>1
  <2>2. t[0] \in S
    BY <1>6, <1>8
  <2> HIDE DEF F, n
  <2> QED BY <1>0, <1>1, <2>1, <2>2, RecursionTyped, Zenon
<1>9. t[n] \in S
  BY <1>0, <1>7
<1> QED BY <1>5, <1>9 DEF S
-----------------------------------------------------------------------------
(* Sequences of whatever is in them.                                       *)

LEMMA SequenceOf ==
    ASSUME NEW T, NEW s \in Seq(T)
    PROVE  IsSequence(s)
<1>1. Len(s) \in Nat /\ DOMAIN s = 1 .. Len(s) /\ s = [i \in 1 .. Len(s) |-> s[i]]
  BY LenProperties
<1> QED BY <1>1 DEF IsSequence

LEMMA SequenceFacts ==
    ASSUME NEW s, IsSequence(s)
    PROVE  Len(s) \in Nat /\ DOMAIN s = 1 .. Len(s) /\ (s = <<>> <=> Len(s) = 0)
BY LenProperties, EmptySeq DEF IsSequence

LEMMA SequenceOfMore ==
    ASSUME NEW S, NEW T, S \subseteq T, NEW s \in Seq(S)
    PROVE  s \in Seq(T)
OBVIOUS

LEMMA SequenceAppend ==
    ASSUME NEW s, IsSequence(s), NEW v
    PROVE  /\ IsSequence(Append(s, v)) /\ Len(Append(s, v)) = Len(s) + 1
           /\ Append(s, v)[Len(s) + 1] = v
           /\ \A k \in 1 .. Len(s) : Append(s, v)[k] = s[k]
<1> DEFINE T == {s[i] : i \in DOMAIN s} \cup {v}
<1>1. s \in Seq(T)
  <2>1. s \in Seq({s[i] : i \in DOMAIN s})
    BY DEF IsSequence
  <2>2. {s[i] : i \in DOMAIN s} \subseteq T
    OBVIOUS
  <2> HIDE DEF T
  <2> QED BY <2>1, <2>2
<1>2. v \in T
  OBVIOUS
<1> HIDE DEF T
<1>3. /\ Append(s, v) \in Seq(T) /\ Len(Append(s, v)) = Len(s) + 1
      /\ Append(s, v)[Len(s) + 1] = v /\ \A k \in 1 .. Len(s) : Append(s, v)[k] = s[k]
  BY <1>1, <1>2, AppendProperties
<1>4. IsSequence(Append(s, v))
  BY <1>3, SequenceOf
<1> QED BY <1>3, <1>4

LEMMA SequenceTail ==
    ASSUME NEW s, IsSequence(s), s # <<>>
    PROVE  /\ IsSequence(Tail(s)) /\ Len(Tail(s)) = Len(s) - 1 /\ Head(s) = s[1] /\ Len(s) # 0
           /\ \A i \in 1 .. Len(s) - 1 : Tail(s)[i] = s[i + 1]
<1> DEFINE S == {s[i] : i \in DOMAIN s}
<1>1. s \in Seq(S)
  BY DEF IsSequence
<1> HIDE DEF S
<1>2. Tail(s) \in Seq(S) /\ Len(Tail(s)) = Len(s) - 1 /\ Head(s) = s[1] /\ Len(s) # 0
  BY <1>1
<1>3. \A i \in 1 .. Len(s) - 1 : Tail(s)[i] = s[i + 1]
  BY <1>1
<1> QED BY <1>2, <1>3, SequenceOf

LEMMA SequenceReplace ==
    ASSUME NEW s, IsSequence(s), NEW j \in 1 .. Len(s), NEW v
    PROVE  /\ IsSequence([s EXCEPT ![j] = v]) /\ Len([s EXCEPT ![j] = v]) = Len(s)
           /\ [s EXCEPT ![j] = v][j] = v
           /\ \A k \in 1 .. Len(s) : k # j => [s EXCEPT ![j] = v][k] = s[k]
<1> DEFINE T == {s[i] : i \in DOMAIN s} \cup {v}
<1>1. s \in Seq(T)
  <2>1. s \in Seq({s[i] : i \in DOMAIN s})
    BY DEF IsSequence
  <2>2. {s[i] : i \in DOMAIN s} \subseteq T
    OBVIOUS
  <2> HIDE DEF T
  <2> QED BY <2>1, <2>2
<1>2. v \in T
  OBVIOUS
<1> HIDE DEF T
<1> DEFINE r == [s EXCEPT ![j] = v]
<1>3. r \in Seq(T) /\ Len(r) = Len(s) /\ \A k \in 1 .. Len(s) : r[k] = IF k = j THEN v ELSE s[k]
  BY <1>1, <1>2, ExceptSeq
<1>4. IsSequence(r)
  BY <1>3, SequenceOf
<1> HIDE DEF r
<1>5. r[j] = v /\ \A k \in 1 .. Len(s) : k # j => r[k] = s[k]
  BY <1>3
<1> QED BY <1>3, <1>4, <1>5 DEF r

LEMMA SequenceMade ==
    ASSUME NEW n \in Nat, NEW s, DOMAIN s = 1 .. n, s = [k \in 1 .. n |-> s[k]]
    PROVE  IsSequence(s) /\ Len(s) = n
<1>1. s \in [1 .. n -> {s[i] : i \in DOMAIN s}]
  OBVIOUS
<1> QED BY <1>1 DEF IsSequence
-----------------------------------------------------------------------------
(* What the decoder relies on: the definition has been loaded well.        *)

Kinds == {"unsigned", "signed", "string", "float", "double", "length", "unixtime"}

\* A builtin type, as an attribute may have changed it.
Atom(t) ==
    /\ Sized(t) /\ t.kind \in Kinds
    /\ t.fixed # {} => t.count = 1 /\ t.min = 1 /\ t.kind \in {"unsigned", "signed"}
    /\ t.fixed \subseteq Nat
    /\ t.kind = "length" => t.count = 1

OnlyFields(acts) == \A i \in 1 .. Len(acts) : acts[i].do = "field"

\* A structure.
Compound(t) ==
    /\ IsStruct(t) /\ t.count = 1 /\ t.min = 1 /\ t.fixed = {}
    /\ t.width \in Nat /\ t.size \in Nat /\ (t.size # 0 => t.size = t.width)
    /\ t.size = StructSize(t.actions)
    /\ IsSequence(t.actions) /\ OnlyFields(t.actions)
    /\ t.places \subseteq Seq(Nat \ {0})

\* With the types of its fields, and theirs, and so on: structures do not
\* contain themselves, but nothing here depends on that.
Closed(S) ==
    \A u \in S :
        \/ Atom(u)
        \/ Compound(u) /\ \A i \in 1 .. Len(u.actions) : u.actions[i].type \in S
WellMade(t) == \E S : t \in S /\ Closed(S)

Listed(acts) ==
    /\ IsSequence(acts)
    /\ \A i \in 1 .. Len(acts) :
          /\ acts[i].do \in {"field", "transformation", "annotation"}
          /\ acts[i].do = "field" => WellMade(acts[i].type)

\* What an annotation looks up stands before it and does not vary.
Annotated(acts) ==
    \A i, j \in 1 .. Len(acts) :
        acts[i].do = "annotation" /\ acts[j].do = "field" /\ acts[j].name \in LooksFor(acts[i].name)
        => j < i /\ Atom(acts[j].type) /\ acts[j].type.min = acts[j].type.count

OneTransformation(acts) ==
    \A i, j \in 1 .. Len(acts) :
        acts[i].do = "transformation" /\ acts[j].do = "transformation" => i = j

PacketOK(p) ==
    /\ Listed(p.actions) /\ OnlyFields(p.actions)
    /\ p.header = StructSize(p.actions)
    /\ IsSequence(p.subpackets)
    /\ p.subpackets # <<>> => p.header # 0
    /\ \A s \in 1 .. Len(p.subpackets) :
          /\ Listed(p.subpackets[s].actions)
          /\ OneTransformation(p.subpackets[s].actions)
          /\ Annotated(p.subpackets[s].actions)

PacketsOK == IsSequence(def.packets) /\ \A k \in 1 .. Len(def.packets) : PacketOK(def.packets[k])

LEMMA WellMadeParts ==
    ASSUME NEW t, WellMade(t)
    PROVE  \/ Atom(t)
           \/ Compound(t) /\ Listed(t.actions)
<1>1. PICK S : t \in S /\ Closed(S)
  BY DEF WellMade
<1>2. CASE Atom(t)
  BY <1>2
<1>3. CASE ~Atom(t)
  <2>1. Compound(t) /\ \A i \in 1 .. Len(t.actions) : t.actions[i].type \in S
    BY <1>1, <1>3 DEF Closed
  <2>2. \A i \in 1 .. Len(t.actions) : WellMade(t.actions[i].type)
    BY <1>1, <2>1 DEF WellMade
  <2>3. IsSequence(t.actions) /\ OnlyFields(t.actions)
    BY <2>1 DEF Compound
  <2> QED BY <2>1, <2>2, <2>3 DEF Listed, OnlyFields
<1> QED BY <1>2, <1>3

\* Sizes are numbers, and a constant size is the full size.
LEMMA SizesOfTypes ==
    ASSUME NEW t, WellMade(t)
    PROVE  /\ ConstantSize(t) \in Nat /\ FullSize(t) \in Nat
           /\ ConstantSize(t) # 0 => ConstantSize(t) = FullSize(t)
<1>1. CASE Atom(t)
  <2>1. t.width \in Nat /\ t.count \in Nat /\ ~IsStruct(t)
    BY <1>1 DEF Atom, Sized
  <2>2. t.count * t.width \in Nat
    BY <2>1
  <2> QED BY <2>1, <2>2 DEF ConstantSize, FullSize
<1>2. CASE Compound(t)
  BY <1>2 DEF Compound, ConstantSize, FullSize
<1> QED BY <1>1, <1>2, WellMadeParts

LEMMA SizesOfActions ==
    ASSUME NEW acts, Listed(acts)
    PROVE  /\ Sizes(acts, ConstantSize) \in Seq(Nat) /\ Len(Sizes(acts, ConstantSize)) = Len(acts)
           /\ StructSize(acts) \in Nat
           /\ StructSize(acts) # 0 =>
                 /\ StructSize(acts) = Sums(Sizes(acts, ConstantSize))[Len(acts)]
                 /\ \A i \in 1 .. Len(acts) : acts[i].do = "field" => ConstantSize(acts[i].type) > 0
<1> DEFINE sizes == Sizes(acts, ConstantSize)
<1>0. Len(acts) \in Nat /\ DOMAIN acts = 1 .. Len(acts)
  BY SequenceFacts DEF Listed
<1>1. sizes \in [1 .. Len(acts) -> Nat]
  <2>1. \A i \in 1 .. Len(acts) : acts[i].do = "field" => ConstantSize(acts[i].type) \in Nat
    BY SizesOfTypes DEF Listed
  <2> QED BY <1>0, <2>1 DEF Sizes
<1> HIDE DEF sizes
<1>2. sizes \in Seq(Nat) /\ Len(sizes) = Len(acts)
  BY <1>0, <1>1
<1>3. Total(sizes) = Sums(sizes)[Len(acts)] /\ Total(sizes) \in Nat
  BY <1>0, <1>2, SumsByNumber DEF Total
<1>4. StructSize(acts) \in Nat
  BY <1>3 DEF StructSize, sizes
<1>5. ASSUME StructSize(acts) # 0
      PROVE  /\ StructSize(acts) = Sums(sizes)[Len(acts)]
             /\ \A i \in 1 .. Len(acts) : acts[i].do = "field" => ConstantSize(acts[i].type) > 0
  <2>1. ~ \E i \in DOMAIN acts : acts[i].do = "field" /\ ConstantSize(acts[i].type) <= 0
    BY <1>5 DEF StructSize
  <2>2. StructSize(acts) = Total(sizes)
    BY <2>1 DEF StructSize, sizes
  <2>3. ASSUME NEW i \in 1 .. Len(acts), acts[i].do = "field" PROVE ConstantSize(acts[i].type) > 0
    <3>1. ConstantSize(acts[i].type) \in Nat
      BY <2>3, SizesOfTypes DEF Listed
    <3>2. ~(ConstantSize(acts[i].type) <= 0)
      BY <1>0, <2>1, <2>3
    <3> QED BY <3>1, <3>2
  <2> QED BY <1>3, <2>2, <2>3
<1> QED BY <1>2, <1>4, <1>5 DEF sizes
-----------------------------------------------------------------------------
(* How types are made.                                                     *)

LEMMA AtomsAreMade ==
    ASSUME NEW t, Atom(t)
    PROVE  WellMade(t)
<1>1. t \in {t} /\ Closed({t})
  BY DEF Closed
<1> QED BY <1>1 DEF WellMade

LEMMA CompoundsAreMade ==
    ASSUME NEW t, Compound(t), \A i \in 1 .. Len(t.actions) : WellMade(t.actions[i].type)
    PROVE  WellMade(t)
<1> DEFINE n == Len(t.actions)
           Around(i) == CHOOSE S : t.actions[i].type \in S /\ Closed(S)
           All == {t} \cup UNION {Around(i) : i \in 1 .. n}
<1>1. ASSUME NEW i \in 1 .. n PROVE t.actions[i].type \in Around(i) /\ Closed(Around(i))
  <2>1. \E S : t.actions[i].type \in S /\ Closed(S)
    BY <1>1 DEF WellMade
  <2> QED BY <2>1
<1> HIDE DEF Around
<1>2. \A i \in 1 .. n : t.actions[i].type \in All /\ Around(i) \subseteq All
  BY <1>1
<1>3. t \in All
  OBVIOUS
<1>4. ASSUME NEW u \in All
      PROVE  \/ Atom(u)
             \/ Compound(u) /\ \A i \in 1 .. Len(u.actions) : u.actions[i].type \in All
  <2>1. CASE u = t
    <3> HIDE DEF All
    <3> QED BY <1>2, <2>1
  <2>2. CASE u # t
    <3>1. PICK i \in 1 .. n : u \in Around(i)
      BY <2>2
    <3>2. Around(i) \subseteq All
      BY <1>2
    <3> HIDE DEF All
    <3> QED BY <1>1, <3>1, <3>2 DEF Closed
  <2> QED BY <2>1, <2>2
<1> HIDE DEF All
<1> QED BY <1>3, <1>4 DEF Closed, WellMade

\* Every place where something is printed begins with a field.
LEMMA PlacesTyped ==
    ASSUME NEW acts, Listed(acts)
    PROVE  /\ PlacesIn(acts) \subseteq Seq(Nat \ {0})
           /\ \A place \in PlacesIn(acts) :
                 Len(place) >= 1 /\ place[1] \in 1 .. Len(acts) /\ acts[place[1]].do = "field"
<1> DEFINE P == Nat \ {0}
<1>0. Len(acts) \in Nat /\ DOMAIN acts = 1 .. Len(acts)
  BY SequenceFacts DEF Listed
<1>1. ASSUME NEW i \in 1 .. Len(acts), acts[i].do = "field"
      PROVE  Leaves(acts[i].type) \subseteq Seq(P)
  <2>1. WellMade(acts[i].type)
    BY <1>1 DEF Listed
  <2>2. CASE IsStruct(acts[i].type)
    <3>1. Compound(acts[i].type)
      BY <2>1, <2>2, WellMadeParts DEF Atom, Sized
    <3> QED BY <2>2, <3>1 DEF Compound, Leaves
  <2>3. CASE ~IsStruct(acts[i].type)
    <3>1. <<>> \in Seq(P)
      OBVIOUS
    <3> QED BY <2>3, <3>1 DEF Leaves
  <2> QED BY <2>2, <2>3
<1>2. ASSUME NEW place \in PlacesIn(acts)
      PROVE  /\ place \in Seq(P) /\ Len(place) >= 1 /\ place[1] \in 1 .. Len(acts)
             /\ acts[place[1]].do = "field"
  <2>1. PICK i \in {j \in DOMAIN acts : acts[j].do = "field"} :
           place \in {<<i>> \o leaf : leaf \in Leaves(acts[i].type)}
    BY DEF PlacesIn
  <2>2. PICK leaf \in Leaves(acts[i].type) : place = <<i>> \o leaf
    BY <2>1
  <2>3. i \in P /\ i \in 1 .. Len(acts) /\ acts[i].do = "field" /\ leaf \in Seq(P)
    BY <1>0, <1>1, <2>1, <2>2
  <2> DEFINE one == <<i>>
  <2>4. one \in Seq(P) /\ Len(one) = 1 /\ one[1] = i
    BY <2>3
  <2> HIDE DEF one, P
  <2>5. one \o leaf \in Seq(P) /\ Len(one \o leaf) = Len(one) + Len(leaf)
    BY <2>3, <2>4, ConcatProperties, Zenon
  <2>6. Len(leaf) \in Nat
    BY <2>3, LenProperties
  <2>7. place = one \o leaf
    BY <2>2 DEF one
  <2>8. place[1] = one[1]
    <3>1. \A k \in 1 .. Len(one) + Len(leaf) :
            (one \o leaf)[k] = IF k <= Len(one) THEN one[k] ELSE leaf[k - Len(one)]
      BY <2>3, <2>4, ConcatProperties, Zenon
    <3>2. 1 \in 1 .. Len(one) + Len(leaf) /\ 1 <= Len(one)
      BY <2>4, <2>6
    <3> QED BY <2>7, <3>1, <3>2
  <2> QED BY <2>3, <2>4, <2>5, <2>6, <2>7, <2>8
<1> QED BY <1>2

\* What a type is described by.
Attributes ==
    {"kind", "name", "width", "count", "min", "fixed", "enumeration", "annotation", "display",
     "decimal", "actions", "size", "places"}

LEMMA BuiltinsAre ==
    ASSUME NEW kind, NEW name, NEW width
    PROVE  LET b == Builtin(kind, name, width) IN
           /\ DOMAIN b = Attributes /\ b.kind = kind /\ b.name = name /\ b.width = width
           /\ b.count = 1 /\ b.min = 1 /\ b.fixed = {}
BY DEF Builtin, Attributes

\* What a structure of well made fields is.
LEMMA StructsAreMade ==
    ASSUME NEW acts, Listed(acts), OnlyFields(acts), NEW name
    PROVE  /\ Struct(name, acts).name = name
           /\ Compound(Struct(name, acts)) /\ WellMade(Struct(name, acts))
<1> DEFINE width == FullWidth(acts)
           size == StructSize(acts)
           places == PlacesIn(acts)
           t == Struct(name, acts)
<1>0. Len(acts) \in Nat /\ DOMAIN acts = 1 .. Len(acts) /\ IsSequence(acts)
  BY SequenceFacts DEF Listed
<1>1. \A i \in 1 .. Len(acts) : acts[i].do = "field" /\ WellMade(acts[i].type)
  BY DEF Listed, OnlyFields
<1>2. width \in Nat
  <2>1. Sizes(acts, FullSize) \in [1 .. Len(acts) -> Nat]
    BY <1>0, <1>1, SizesOfTypes DEF Sizes
  <2>2. Sizes(acts, FullSize) \in Seq(Nat) /\ Len(Sizes(acts, FullSize)) = Len(acts)
    BY <1>0, <2>1
  <2> QED BY <1>0, <2>2, SumsByNumber DEF FullWidth, Total
<1>3. size \in Nat
  BY SizesOfActions
<1>4. size # 0 => size = width
  <2>1. SUFFICES ASSUME size # 0 PROVE size = width
    OBVIOUS
  <2>2. ~ \E i \in DOMAIN acts : acts[i].do = "field" /\ ConstantSize(acts[i].type) <= 0
    BY <2>1 DEF StructSize
  <2>3. ASSUME NEW i \in 1 .. Len(acts) PROVE ConstantSize(acts[i].type) = FullSize(acts[i].type)
    <3>1. ~(ConstantSize(acts[i].type) <= 0)
      BY <1>0, <1>1, <2>2
    <3> QED BY <1>1, <3>1, SizesOfTypes
  <2>4. Sizes(acts, ConstantSize) = Sizes(acts, FullSize)
    BY <2>3 DEF Sizes
  <2> QED BY <2>2, <2>4 DEF StructSize, FullWidth
<1>5. /\ t.kind = "struct" /\ t.name = name /\ t.width = width /\ t.count = 1 /\ t.min = 1
      /\ t.fixed = {} /\ t.actions = acts /\ t.size = size /\ t.places = places
  <2> DEFINE b == Builtin("struct", name, width)
  <2>1. t = [b EXCEPT !.actions = acts, !.size = size, !.places = places]
    BY DEF Struct
  <2>2. /\ DOMAIN b = Attributes /\ b.kind = "struct" /\ b.name = name /\ b.width = width
        /\ b.count = 1 /\ b.min = 1 /\ b.fixed = {}
    BY BuiltinsAre
  <2> HIDE DEF width, size, places, b, t
  <2> QED BY <2>1, <2>2 DEF Attributes
<1>6. size = StructSize(acts)
  OBVIOUS
<1>7. places \subseteq Seq(Nat \ {0})
  BY PlacesTyped
<1> HIDE DEF width, size, places, t
<1>8. Compound(t)
  BY <1>0, <1>2, <1>3, <1>4, <1>5, <1>6, <1>7 DEF Compound, IsStruct
<1>9. WellMade(t)
  BY <1>1, <1>5, <1>8, CompoundsAreMade
<1> QED BY <1>5, <1>8, <1>9 DEF t

\* The children that are kept are a sequence.
LEMMA KeptIsSequence ==
    ASSUME NEW version, NEW children, IsSequence(children),
           \A i \in DOMAIN children : children[i].tag = "filter" => IsSequence(children[i].children)
    PROVE  IsSequence(Kept(version, children))
<1> DEFINE n == Len(children)
           In(i) == {children[i].children[j] : j \in DOMAIN children[i].children}
           U == {children[i] : i \in 1 .. n} \cup UNION {In(i) : i \in 1 .. n}
           S == Seq(U)
           Next(s, i) == s \o Filtered(version, children[i])
           F == [p \in S \X (1 .. n) |-> Next(p[1], p[2])]
           Equation(f) == f = [i \in 0 .. n |-> IF i = 0 THEN <<>> ELSE Next(f[i - 1], i)]
           t == CHOOSE f : Equation(f)
<1>0. n \in Nat /\ DOMAIN children = 1 .. n
  BY SequenceFacts
<1>1. Kept(version, children) = t[n]
  BY DEF Kept
<1>2. ASSUME NEW i \in 1 .. n PROVE Filtered(version, children[i]) \in S
  <2>1. CASE Filtered(version, children[i]) = <<children[i]>>
    <3>1. children[i] \in U
      OBVIOUS
    <3> HIDE DEF U
    <3> QED BY <2>1, <3>1
  <2>2. CASE Filtered(version, children[i]) = <<>>
    BY <2>2
  <2>3. CASE children[i].tag = "filter" /\ Filtered(version, children[i]) = children[i].children
    <3>1. children[i].children \in Seq(In(i))
      BY <1>0, <2>3 DEF IsSequence
    <3>2. In(i) \subseteq U
      OBVIOUS
    <3> HIDE DEF In, U
    <3> QED BY <2>3, <3>1, <3>2, SequenceOfMore
  <2> QED BY <2>1, <2>2, <2>3 DEF Filtered
<1>3. <<>> \in S
  OBVIOUS
<1>4. ASSUME NEW s \in S, NEW i \in 1 .. n PROVE Next(s, i) \in S
  <2>1. Filtered(version, children[i]) \in S
    BY <1>2
  <2> HIDE DEF U
  <2> QED BY <2>1
<1> HIDE DEF S, U, In, Next
<1>5. F \in [S \X (1 .. n) -> S]
  BY <1>4
<1>6. PICK f : Recursion(S, n, F, <<>>, f)
  <2> HIDE DEF F, n
  <2> QED BY <1>0, <1>3, <1>5, RecursionExists
<1>7. Equation(f)
  <2>1. ASSUME NEW i \in 0 .. n, i # 0 PROVE f[i] = Next(f[i - 1], i)
    <3>1. i \in 1 .. n /\ f[i - 1] \in S
      BY <1>0, <1>6, <2>1 DEF Recursion
    <3> QED BY <1>6, <3>1 DEF Recursion
  <2> QED BY <1>6, <2>1 DEF Recursion
<1>8. Equation(t)
  BY <1>7
<1> HIDE DEF t
<1> HIDE DEF n
<1>9. t[0] = <<>> /\ \A i \in 1 .. n : t[i] = Next(t[i - 1], i)
  BY <1>0, <1>8
<1>10. \A i \in 0 .. n : t[i] \in S
  <2>1. ASSUME NEW i \in 1 .. n, t[i - 1] \in S PROVE t[i] = F[<<t[i - 1], i>>]
    BY <1>9, <2>1
  <2>2. t[0] \in S
    BY <1>3, <1>9
  <2> HIDE DEF F, n
  <2> QED BY <1>0, <1>5, <2>1, <2>2, RecursionTyped, Zenon
<1>11. t[n] \in S
  BY <1>0, <1>10
<1> QED BY <1>1, <1>11, SequenceOf DEF S
-----------------------------------------------------------------------------
(* The parsers of a well-formed file.                                      *)

\* A builtin type as its constructor makes it.
IsBuiltin(t) == t = Builtin(t.kind, t.name, t.width) /\ t.kind \in Kinds /\ t.width \in Nat \ {0}

\* Builtin types keep their names, whatever structures are called.
TypesMade(types) ==
    /\ \A name \in DOMAIN types :
          IsBuiltin(types[name]) \/ (Compound(types[name]) /\ WellMade(types[name]))
    /\ \A name \in DOMAIN BuiltinTypes : name \in DOMAIN types /\ IsBuiltin(types[name])

\* Definitions come from the file.
Defined(file, d) ==
    \A name \in DOMAIN d.definitions : \E j \in DOMAIN file :
        /\ file[j].tag = "define" /\ Attribute(file[j], "name") = {name} /\ Given(file[j], "value")
        /\ d.definitions[name] = file[j].value

DefMade(file, d) ==
    /\ DOMAIN d = {"version", "definitions", "enums", "types", "packets"}
    /\ d.version \in Versions /\ Defined(file, d) /\ TypesMade(d.types)

LEMMA ResolvesToMeaning ==
    ASSUME NEW file, NEW d, Defined(file, d), NEW value
    PROVE  Resolve(d, value) \subseteq Meanings(file, value)
<1> DEFINE Definers == {j \in DOMAIN file : /\ file[j].tag = "define" /\ Given(file[j], "value")
                                            /\ Attribute(file[j], "name") = Attribute(value, "word")}
<1>1. Meanings(file, value) = Attribute(value, "num") \cup UNION {Attribute(file[i].value, "num") : i \in Definers}
  BY DEF Meanings
<1>2. CASE Given(value, "word") /\ value.word \in DOMAIN d.definitions
  <2>1. PICK j \in DOMAIN file :
            /\ file[j].tag = "define" /\ Attribute(file[j], "name") = {value.word} /\ Given(file[j], "value")
            /\ d.definitions[value.word] = file[j].value
    BY <1>2 DEF Defined
  <2>2. Attribute(value, "word") = {value.word}
    BY <1>2 DEF Attribute
  <2>3. j \in Definers
    BY <2>1, <2>2
  <2>4. Resolve(d, value) = Attribute(file[j].value, "num")
    BY <1>2, <2>1 DEF Resolve
  <2> HIDE DEF Definers
  <2> QED BY <1>1, <2>3, <2>4
<1>3. CASE ~(Given(value, "word") /\ value.word \in DOMAIN d.definitions)
  <2>1. Resolve(d, value) = Attribute(value, "num")
    BY <1>3 DEF Resolve
  <2> HIDE DEF Definers
  <2> QED BY <1>1, <2>1
<1> QED BY <1>2, <1>3

LEMMA NumberMeant ==
    ASSUME NEW file, NEW d, Defined(file, d), NEW node, NEW attr, NEW default,
           Given(node, attr) => Resolve(d, node[attr]) # {}
    PROVE  /\ Given(node, attr) => NumberOr(d, node, attr, default) \in Meanings(file, node[attr])
           /\ ~Given(node, attr) => NumberOr(d, node, attr, default) = default
           /\ Given(node, attr) => Numbers(d, node, attr) \subseteq Meanings(file, node[attr])
           /\ ~Given(node, attr) => Numbers(d, node, attr) = {}
<1>1. CASE Given(node, attr)
  <2>1. Numbers(d, node, attr) # {} /\ Numbers(d, node, attr) \subseteq Meanings(file, node[attr])
    BY <1>1, ResolvesToMeaning DEF Numbers
  <2>2. NumberOr(d, node, attr, default) \in Numbers(d, node, attr)
    BY <2>1 DEF NumberOr
  <2> QED BY <1>1, <2>1, <2>2
<1>2. CASE ~Given(node, attr)
  BY <1>2 DEF Numbers, NumberOr
<1> QED BY <1>1, <1>2

\* What a well-formed field says of its sizes.
LEMMA FieldSizes ==
    ASSUME NEW file, NEW node, FieldFits(file, node)
    PROVE  /\ \A attr \in {"count", "min_count", "length", "min_length", "fixed_value"} :
                 Given(node, attr) => Meanings(file, node[attr]) \subseteq Nat
           /\ Given(node, "min_count") /\ Given(node, "count") =>
                 \A least \in Meanings(file, node["min_count"]), most \in Meanings(file, node["count"]) : least <= most
           /\ Given(node, "min_count") /\ ~Given(node, "count") =>
                 \A least \in Meanings(file, node["min_count"]) : least <= 1
           /\ Given(node, "min_length") /\ Given(node, "length") =>
                 \A least \in Meanings(file, node["min_length"]), most \in Meanings(file, node["length"]) : least <= most
           /\ Given(node, "fixed_value") => ~Given(node, "count") /\ ~Given(node, "min_count")
<1> DEFINE May(attr) == IF Given(node, attr) THEN Meanings(file, node[attr]) ELSE {}
           Counts == IF Given(node, "count") THEN May("count") ELSE {1}
<1>1. /\ \A attr \in {"count", "min_count", "length", "min_length", "fixed_value"} : May(attr) \subseteq Nat
      /\ \A least \in May("min_count"), most \in Counts : least <= most
      /\ \A least \in May("min_length"), most \in May("length") : least <= most
      /\ Given(node, "fixed_value") => ~Given(node, "count") /\ ~Given(node, "min_count")
  BY DEF FieldFits
<1>2. /\ \A attr : Given(node, attr) => May(attr) = Meanings(file, node[attr])
      /\ Given(node, "count") => Counts = May("count")
      /\ ~Given(node, "count") => Counts = {1}
  OBVIOUS
<1> HIDE DEF May, Counts
<1>3. ASSUME NEW attr \in {"count", "min_count", "length", "min_length", "fixed_value"}, Given(node, attr)
      PROVE  Meanings(file, node[attr]) \subseteq Nat
  BY <1>1, <1>2, <1>3
<1>4. ASSUME Given(node, "min_count"), Given(node, "count")
      PROVE  \A least \in Meanings(file, node["min_count"]), most \in Meanings(file, node["count"]) : least <= most
  BY <1>1, <1>2, <1>4
<1>5. ASSUME Given(node, "min_count"), ~Given(node, "count")
      PROVE  \A least \in Meanings(file, node["min_count"]) : least <= 1
  BY <1>1, <1>2, <1>5
<1>6. ASSUME Given(node, "min_length"), Given(node, "length")
      PROVE  \A least \in Meanings(file, node["min_length"]), most \in Meanings(file, node["length"]) : least <= most
  BY <1>1, <1>2, <1>6
<1> QED BY <1>1, <1>3, <1>4, <1>5, <1>6

LEMMA UnsignedMade ==
    ASSUME NEW file, NEW d, Defined(file, d), NEW node, FieldFits(file, node),
           NEW t, IsBuiltin(t), t.kind \in {"unsigned", "signed"}, NEW u \in ParseUnsigned(d, t, node)
    PROVE  Atom(u) /\ (~Given(node, "min_count") => u.min = u.count)
<1> DEFINE count == NumberOr(d, node, "count", 1)
           min == NumberOr(d, node, "min_count", count)
           fixed == Numbers(d, node, "fixed_value")
<1>1. /\ u = [t EXCEPT !.count = count, !.min = min, !.fixed = fixed,
                       !.display = Numbers(d, node, "display"), !.decimal = Given(node, "format"),
                       !.enumeration = Attribute(node, "enumeration"),
                       !.annotation = Attribute(node, "annotation")]
      /\ Resolves(d, node, {"fixed_value", "count", "min_count", "display"})
  BY DEF ParseUnsigned
<1>2. DOMAIN t = Attributes
  BY BuiltinsAre DEF IsBuiltin
<1> HIDE DEF count, min, fixed
<1>3. u.kind = t.kind /\ u.width = t.width /\ u.count = count /\ u.min = min /\ u.fixed = fixed
  BY <1>1, <1>2 DEF Attributes
<1>4. ASSUME NEW attr \in {"fixed_value", "count", "min_count"}, Given(node, attr)
      PROVE  Resolve(d, node[attr]) # {} /\ Meanings(file, node[attr]) \subseteq Nat
  <2>1. Resolve(d, node[attr]) # {}
    BY <1>1, <1>4 DEF Resolves, Given
  <2> QED BY <1>4, <2>1, FieldSizes
<1>5. count \in Nat /\ (Given(node, "count") => count \in Meanings(file, node["count"]))
      /\ (~Given(node, "count") => count = 1)
  BY <1>4, NumberMeant DEF count
<1>6. min \in Nat /\ min <= count /\ (~Given(node, "min_count") => min = count)
  <2>1. CASE Given(node, "min_count")
    <3>1. min \in Meanings(file, node["min_count"])
      BY <1>4, <2>1, NumberMeant DEF min
    <3>2. min \in Nat /\ min <= count
      BY <1>4, <1>5, <2>1, <3>1, FieldSizes
    <3> QED BY <2>1, <3>2
  <2>2. CASE ~Given(node, "min_count")
    <3>1. min = count
      BY <2>2, NumberMeant DEF min
    <3> QED BY <1>5, <3>1
  <2> QED BY <2>1, <2>2
<1>7. fixed \subseteq Nat /\ (fixed # {} => Given(node, "fixed_value"))
  BY <1>4, NumberMeant DEF fixed
<1>8. fixed # {} => count = 1 /\ min = 1
  <2>1. fixed # {} => ~Given(node, "count") /\ ~Given(node, "min_count")
    BY <1>7, FieldSizes
  <2> QED BY <1>5, <1>6, <2>1
<1>9. t.width \in Nat \ {0} /\ u.kind # "struct" /\ u.kind \in Kinds
  BY <1>3 DEF IsBuiltin, Kinds
<1> QED BY <1>3, <1>5, <1>6, <1>7, <1>8, <1>9 DEF Atom, Sized, IsStruct

LEMMA StringMade ==
    ASSUME NEW file, NEW d, Defined(file, d), NEW node, FieldFits(file, node),
           NEW t, IsBuiltin(t), t.kind = "string", NEW u \in ParseString(d, t, node)
    PROVE  Atom(u) /\ (~Given(node, "min_length") => u.min = u.count)
<1> DEFINE length == NumberOr(d, node, "length", 0)
           min == NumberOr(d, node, "min_length", length)
<1>1. /\ u = [t EXCEPT !.count = length, !.min = min]
      /\ Given(node, "length") /\ Resolves(d, node, {"length", "min_length"})
  BY DEF ParseString
<1>2. DOMAIN t = Attributes /\ t.fixed = {}
  BY BuiltinsAre DEF IsBuiltin
<1> HIDE DEF length, min
<1>3. u.kind = t.kind /\ u.width = t.width /\ u.count = length /\ u.min = min /\ u.fixed = {}
  BY <1>1, <1>2 DEF Attributes
<1>4. ASSUME NEW attr \in {"length", "min_length"}, Given(node, attr)
      PROVE  Resolve(d, node[attr]) # {} /\ Meanings(file, node[attr]) \subseteq Nat
  <2>1. Resolve(d, node[attr]) # {}
    BY <1>1, <1>4 DEF Resolves, Given
  <2> QED BY <1>4, <2>1, FieldSizes
<1>5. length \in Nat /\ length \in Meanings(file, node["length"])
  BY <1>1, <1>4, NumberMeant DEF length
<1>6. min \in Nat /\ min <= length /\ (~Given(node, "min_length") => min = length)
  <2>1. CASE Given(node, "min_length")
    <3>1. min \in Meanings(file, node["min_length"])
      BY <1>4, <2>1, NumberMeant DEF min
    <3>2. min \in Nat /\ min <= length
      BY <1>1, <1>4, <1>5, <2>1, <3>1, FieldSizes
    <3> QED BY <2>1, <3>2
  <2>2. CASE ~Given(node, "min_length")
    <3>1. min = length
      BY <2>2, NumberMeant DEF min
    <3> QED BY <1>5, <3>1
  <2> QED BY <2>1, <2>2
<1>7. t.width \in Nat \ {0} /\ u.kind # "struct" /\ u.kind \in Kinds
  BY <1>3 DEF IsBuiltin, Kinds
<1> QED BY <1>3, <1>5, <1>6, <1>7 DEF Atom, Sized, IsStruct

LEMMA FloatMade ==
    ASSUME NEW file, NEW d, Defined(file, d), NEW node, FieldFits(file, node),
           NEW t, IsBuiltin(t), t.kind \in {"float", "double"}, NEW u \in ParseFloat(d, t, node)
    PROVE  Atom(u) /\ u.min = u.count
<1> DEFINE count == NumberOr(d, node, "count", 1)
<1>1. /\ u = [t EXCEPT !.count = count, !.min = count, !.display = Numbers(d, node, "display")]
      /\ Resolves(d, node, {"count", "display"})
  BY DEF ParseFloat
<1>2. DOMAIN t = Attributes /\ t.fixed = {}
  BY BuiltinsAre DEF IsBuiltin
<1> HIDE DEF count
<1>3. u.kind = t.kind /\ u.width = t.width /\ u.count = count /\ u.min = count /\ u.fixed = {}
  BY <1>1, <1>2 DEF Attributes
<1>4. ASSUME Given(node, "count")
      PROVE  Resolve(d, node["count"]) # {} /\ Meanings(file, node["count"]) \subseteq Nat
  <2>1. Resolve(d, node["count"]) # {}
    BY <1>1, <1>4 DEF Resolves, Given
  <2> QED BY <1>4, <2>1, FieldSizes
<1>5. count \in Nat
  <2>1. /\ Given(node, "count") => count \in Meanings(file, node["count"])
        /\ ~Given(node, "count") => count = 1
    BY <1>4, NumberMeant DEF count
  <2> QED BY <1>4, <2>1
<1>6. t.width \in Nat \ {0} /\ u.kind # "struct" /\ u.kind \in Kinds
  BY <1>3 DEF IsBuiltin, Kinds
<1> QED BY <1>3, <1>5, <1>6 DEF Atom, Sized, IsStruct

LEMMA TypeParsed ==
    ASSUME NEW file, NEW d, Defined(file, d), NEW node, FieldFits(file, node),
           NEW t, IsBuiltin(t), NEW u \in ParseType(d, t, node)
    PROVE  /\ Atom(u)
           /\ ~Given(node, "min_count") /\ ~Given(node, "min_length") => u.min = u.count
<1>1. CASE t.kind \in {"unsigned", "signed"}
  <2>1. u \in ParseUnsigned(d, t, node)
    BY <1>1 DEF ParseType
  <2> QED BY <1>1, <2>1, UnsignedMade
<1>2. CASE t.kind = "string"
  <2>1. u \in ParseString(d, t, node)
    BY <1>2 DEF ParseType
  <2> QED BY <1>2, <2>1, StringMade
<1>3. CASE t.kind \in {"float", "double"}
  <2>1. u \in ParseFloat(d, t, node)
    BY <1>3 DEF ParseType
  <2> QED BY <1>3, <2>1, FloatMade
<1>4. CASE t.kind \notin {"unsigned", "signed", "string", "float", "double"}
  <2>1. u = t
    BY <1>4 DEF ParseType
  <2>2. t.count = 1 /\ t.min = 1 /\ t.fixed = {} /\ t.kind # "struct"
    BY BuiltinsAre DEF IsBuiltin, Kinds
  <2> QED BY <2>1, <2>2 DEF IsBuiltin, Atom, Sized, IsStruct
<1> QED BY <1>1, <1>2, <1>3, <1>4

\* What a child becomes.
ChildMade(node, a) ==
    /\ a.do = node.tag /\ a.do \in {"field", "transformation", "annotation"}
    /\ Attribute(node, "name") = {a.name}
    /\ a.do = "field" =>
          /\ WellMade(a.type)
          /\ (/\ Attribute(node, "type") \subseteq DOMAIN BuiltinTypes
              /\ ~Given(node, "min_count") /\ ~Given(node, "min_length"))
             => Atom(a.type) /\ a.type.min = a.type.count
    /\ a.do = "transformation" => a.name \in Transformations
    /\ a.do = "annotation" => a.name \in Annotations

LEMMA ChildParsed ==
    ASSUME NEW file, NEW d, Defined(file, d), TypesMade(d.types),
           NEW node, node.tag = "field" => FieldFits(file, node), NEW a \in ParseChildNode(d, node)
    PROVE  ChildMade(node, a)
<1>1. Given(node, "name") /\ Attribute(node, "name") = {node.name}
  BY DEF ParseChildNode, Attribute
<1>2. CASE node.tag = "field"
  <2>1. a \in {Field(node.name, t) :
                 t \in UNION {ParseType(d, d.types[name], node) :
                                 name \in Attribute(node, "type") \cap DOMAIN d.types}}
    BY <1>1, <1>2 DEF ParseChildNode
  <2>2. PICK t \in UNION {ParseType(d, d.types[name], node) :
                             name \in Attribute(node, "type") \cap DOMAIN d.types} : a = Field(node.name, t)
    BY <2>1
  <2>3. PICK name \in Attribute(node, "type") \cap DOMAIN d.types : t \in ParseType(d, d.types[name], node)
    BY <2>2
  <2>4. a.do = "field" /\ a.name = node.name /\ a.type = t
    BY <2>2 DEF Field
  <2>5. CASE IsBuiltin(d.types[name])
    <3>1. Atom(t) /\ (~Given(node, "min_count") /\ ~Given(node, "min_length") => t.min = t.count)
      BY <1>2, <2>3, <2>5, TypeParsed
    <3> QED BY <1>1, <1>2, <2>4, <3>1, AtomsAreMade DEF ChildMade
  <2>6. CASE ~IsBuiltin(d.types[name])
    <3>1. Compound(d.types[name]) /\ WellMade(d.types[name])
      BY <2>3, <2>6 DEF TypesMade
    <3>2. t = d.types[name]
      BY <2>3, <3>1 DEF ParseType, Compound, IsStruct
    <3>3. name \notin DOMAIN BuiltinTypes
      BY <2>6 DEF TypesMade
    <3> QED BY <1>1, <1>2, <2>3, <2>4, <3>1, <3>2, <3>3 DEF ChildMade
  <2> QED BY <2>5, <2>6
<1>3. CASE node.tag \in {"transformation", "annotation"}
  <2>1. a = Step(node.tag, node.name)
        /\ (node.tag = "transformation" => node.name \in Transformations)
        /\ (node.tag = "annotation" => node.name \in Annotations)
    BY <1>1, <1>3 DEF ParseChildNode
  <2>2. a.do = node.tag /\ a.name = node.name
    BY <2>1 DEF Step
  <2> QED BY <1>1, <1>3, <2>1, <2>2 DEF ChildMade
<1>4. CASE node.tag \notin {"field", "transformation", "annotation"}
  BY <1>1, <1>4 DEF ParseChildNode
<1> QED BY <1>2, <1>3, <1>4

\* What a structure's children become one by one.
LEMMA AllParsed ==
    ASSUME NEW kept, IsSequence(kept), NEW parsed, parsed = [i \in DOMAIN kept |-> parsed[i]]
    PROVE  /\ IsSequence(parsed) /\ Len(parsed) = Len(kept) /\ DOMAIN parsed = 1 .. Len(kept)
<1>1. Len(kept) \in Nat /\ DOMAIN kept = 1 .. Len(kept)
  BY SequenceFacts
<1>2. DOMAIN parsed = 1 .. Len(kept) /\ parsed = [i \in 1 .. Len(kept) |-> parsed[i]]
  BY <1>1
<1> QED BY <1>1, <1>2, SequenceMade

LEMMA PartsAreSequences ==
    ASSUME NEW file, NEW version, NEW node, PartsFit(file, version, node)
    PROVE  IsSequence(Parts(version, node))
BY KeptIsSequence DEF PartsFit, Parts

\* A parser that succeeds has made something of every part.
LEMMA SubpacketParsed ==
    ASSUME NEW file, NEW d, DefMade(file, d), NEW node, PartsFit(file, d.version, node),
           SubpacketMade(Parts(d.version, node)), NEW s \in ParseSubpacket(d, node)
    PROVE  s.do = "subpacket" /\ Listed(s.actions) /\ OneTransformation(s.actions) /\ Annotated(s.actions)
<1> DEFINE kept == Parts(d.version, node)
           n == Len(kept)
           acts == [i \in DOMAIN kept |-> CHOOSE a \in ParseChildNode(d, kept[i]) : TRUE]
<1>1. IsSequence(kept) /\ n \in Nat /\ DOMAIN kept = 1 .. n
  BY PartsAreSequences, SequenceFacts
<1>2. /\ ~ \E i \in DOMAIN kept : ParseChildNode(d, kept[i]) = {}
      /\ s = [do |-> "subpacket", name |-> node.name, actions |-> acts]
  BY DEF ParseSubpacket, ParseAll, Parts
<1>3. s.do = "subpacket" /\ s.actions = acts
  BY <1>2
<1>4. ASSUME NEW i \in 1 .. n PROVE ChildMade(kept[i], acts[i])
  <2>1. acts[i] \in ParseChildNode(d, kept[i])
    BY <1>1, <1>2
  <2>2. kept[i].tag = "field" => FieldFits(file, kept[i])
    BY <1>1 DEF PartsFit
  <2> HIDE DEF acts, kept
  <2> QED BY <2>1, <2>2, ChildParsed DEF DefMade
<1>5. IsSequence(acts) /\ Len(acts) = n
  <2>1. acts = [i \in DOMAIN kept |-> acts[i]]
    OBVIOUS
  <2> HIDE DEF acts, kept
  <2> QED BY <1>1, <2>1, AllParsed
<1>6. Listed(acts)
  <2> HIDE DEF acts, kept
  <2> QED BY <1>4, <1>5 DEF Listed, ChildMade
<1>7. OneTransformation(acts)
  <2> HIDE DEF acts
  <2>1. \A i \in 1 .. n : acts[i].do = kept[i].tag
    BY <1>4 DEF ChildMade
  <2>2. \A i, j \in 1 .. n : kept[i].tag = "transformation" /\ kept[j].tag = "transformation" => i = j
    BY <1>1 DEF SubpacketMade
  <2> HIDE DEF kept
  <2> QED BY <1>5, <2>1, <2>2 DEF OneTransformation
<1>8. Annotated(acts)
  <2> HIDE DEF acts
  <2>1. ASSUME NEW i \in 1 .. n, NEW j \in 1 .. n, acts[i].do = "annotation", acts[j].do = "field",
               acts[j].name \in LooksFor(acts[i].name)
        PROVE  j < i /\ Atom(acts[j].type) /\ acts[j].type.min = acts[j].type.count
    <3>1. /\ kept[i].tag = "annotation" /\ Attribute(kept[i], "name") = {acts[i].name}
          /\ kept[j].tag = "field" /\ Attribute(kept[j], "name") = {acts[j].name}
          /\ ChildMade(kept[j], acts[j])
      BY <1>4, <2>1 DEF ChildMade
    <3>2. \E a \in Attribute(kept[i], "name") : Attribute(kept[j], "name") \cap LooksFor(a) # {}
      BY <2>1, <3>1
    <3>3. /\ j < i /\ Attribute(kept[j], "type") \subseteq DOMAIN BuiltinTypes
          /\ ~Given(kept[j], "min_count") /\ ~Given(kept[j], "min_length")
      BY <1>1, <3>1, <3>2 DEF SubpacketMade
    <3> QED BY <2>1, <3>1, <3>3 DEF ChildMade
  <2> HIDE DEF kept
  <2> QED BY <1>5, <2>1 DEF Annotated
<1> QED BY <1>3, <1>6, <1>7, <1>8

LEMMA PacketParsed ==
    ASSUME NEW file, NEW d, DefMade(file, d), NEW node, PacketMade(file, d.version, node),
           NEW e \in ParsePacket(d, node)
    PROVE  \E p : PacketOK(p) /\ e = [d EXCEPT !.packets = Append(d.packets, p)]
<1> DEFINE kept == Parts(d.version, node)
           n == Len(kept)
           parts == [i \in DOMAIN kept |-> CHOOSE a \in ParsePacketChild(d, kept[i]) : TRUE]
           actions == Fields(parts)
           subs == Only("subpacket", parts)
           p == [name |-> node.name, source |-> node.source, actions |-> actions,
                 header |-> StructSize(actions), subpackets |-> subs]
<1>1. IsSequence(kept) /\ n \in Nat /\ DOMAIN kept = 1 .. n
  BY PartsAreSequences, SequenceFacts DEF PacketMade
<1>2. /\ ~ \E i \in DOMAIN kept : ParsePacketChild(d, kept[i]) = {}
      /\ e = [d EXCEPT !.packets = Append(d.packets, p)]
      /\ p.subpackets = <<>> \/ p.header # 0
  BY DEF ParsePacket, ParseAll, Parts
<1>3. ASSUME NEW i \in 1 .. n
      PROVE  \/ ChildMade(kept[i], parts[i]) /\ parts[i].do = "field"
             \/ /\ parts[i].do = "subpacket" /\ Listed(parts[i].actions)
                /\ OneTransformation(parts[i].actions) /\ Annotated(parts[i].actions)
  <2>1. parts[i] \in ParsePacketChild(d, kept[i])
    BY <1>1, <1>2
  <2>2. /\ kept[i].tag = "field" => FieldFits(file, kept[i])
        /\ kept[i].tag = "subpacket" =>
              PartsFit(file, d.version, kept[i]) /\ SubpacketMade(Parts(d.version, kept[i]))
    BY <1>1 DEF PacketMade, PartsFit
  <2> HIDE DEF parts, kept
  <2>3. CASE Given(kept[i], "name") /\ kept[i].tag = "subpacket"
    <3>1. parts[i] \in ParseSubpacket(d, kept[i])
      BY <2>1, <2>3 DEF ParsePacketChild
    <3> QED BY <2>2, <2>3, <3>1, SubpacketParsed
  <2>4. CASE kept[i].tag = "field"
    <3>1. parts[i] \in ParseChildNode(d, kept[i])
      BY <2>1, <2>4 DEF ParsePacketChild
    <3>2. ChildMade(kept[i], parts[i])
      BY <2>2, <3>1, ChildParsed DEF DefMade
    <3> QED BY <2>4, <3>2 DEF ChildMade
  <2> QED BY <2>1, <2>3, <2>4 DEF ParsePacketChild
<1>4. IsSequence(parts) /\ Len(parts) = n /\ DOMAIN parts = 1 .. n
  <2>1. parts = [i \in DOMAIN kept |-> parts[i]]
    OBVIOUS
  <2> HIDE DEF parts, kept
  <2> QED BY <1>1, <2>1, AllParsed
<1>5. p.actions = actions /\ p.header = StructSize(actions) /\ p.subpackets = subs
  OBVIOUS
<1> HIDE DEF parts, kept, p
<1> DEFINE T == {parts[i] : i \in DOMAIN parts}
<1>6. parts \in Seq(T)
  BY <1>4 DEF IsSequence
<1>7. \A x \in T : \E i \in 1 .. n : x = parts[i]
  BY <1>4
<1> HIDE DEF T
<1>8. actions \in Seq({x \in T : x.do = "field"}) /\ subs \in Seq({x \in T : x.do = "subpacket"})
  BY <1>6, OnlyTyped DEF Fields
<1>9. IsSequence(actions) /\ IsSequence(subs)
  BY <1>8, SequenceOf
<1>10. ASSUME NEW i \in 1 .. Len(actions) PROVE actions[i].do = "field" /\ WellMade(actions[i].type)
  <2>1. actions[i] \in T /\ actions[i].do = "field"
    <3>1. actions[i] \in {x \in T : x.do = "field"}
      BY <1>8, ElementOfSeq
    <3> QED BY <3>1
  <2>2. PICK j \in 1 .. n : actions[i] = parts[j]
    BY <1>7, <2>1
  <2> HIDE DEF actions
  <2> QED BY <1>3, <2>1, <2>2 DEF ChildMade
<1>11. Listed(actions) /\ OnlyFields(actions)
  BY <1>9, <1>10 DEF Listed, OnlyFields
<1>12. ASSUME NEW i \in 1 .. Len(subs)
       PROVE  /\ Listed(subs[i].actions) /\ OneTransformation(subs[i].actions)
              /\ Annotated(subs[i].actions)
  <2>1. subs[i] \in T /\ subs[i].do = "subpacket"
    <3>1. subs[i] \in {x \in T : x.do = "subpacket"}
      BY <1>8, ElementOfSeq
    <3> QED BY <3>1
  <2>2. PICK j \in 1 .. n : subs[i] = parts[j]
    BY <1>7, <2>1
  <2> HIDE DEF subs
  <2> QED BY <1>3, <2>1, <2>2
<1>13. PacketOK(p)
  BY <1>2, <1>5, <1>9, <1>11, <1>12 DEF PacketOK
<1> QED BY <1>2, <1>13

\* A structure is read with itself, as far as it has been read, among the types.
LEMMA TypeAdded ==
    ASSUME NEW file, NEW d, DefMade(file, d), NEW acts, Listed(acts), OnlyFields(acts), NEW name
    PROVE  /\ DefMade(file, AddType(d, Struct(name, acts)))
           /\ AddType(d, Struct(name, acts)).packets = d.packets
           /\ AddType(d, Struct(name, acts)).version = d.version
<1> DEFINE t == Struct(name, acts)
           types == Registered(d.types, name, t)
           e == AddType(d, t)
<1>1. t.name = name /\ Compound(t) /\ WellMade(t)
  BY StructsAreMade
<1> HIDE DEF t
<1>2. e = [d EXCEPT !.types = types]
  BY <1>1 DEF AddType
<1>3. /\ DOMAIN types = DOMAIN d.types \cup {name}
      /\ \A x \in DOMAIN types : types[x] = IF x \in DOMAIN d.types THEN d.types[x] ELSE t
  BY DEF Registered
<1> HIDE DEF types, e
<1>4. TypesMade(types)
  BY <1>1, <1>3 DEF DefMade, TypesMade
<1>5. /\ DOMAIN e = DOMAIN d /\ e.types = types /\ e.version = d.version /\ e.packets = d.packets
      /\ e.definitions = d.definitions
  BY <1>2 DEF DefMade
<1>6. DefMade(file, e)
  BY <1>4, <1>5 DEF DefMade, Defined
<1> QED BY <1>5, <1>6 DEF e, t

\* The reading of a structure goes through all its parts.
LEMMA StructParsed ==
    ASSUME NEW file, NEW d, DefMade(file, d), NEW node, PartsFit(file, d.version, node),
           StructMade(Parts(d.version, node)), NEW e \in ParseStruct(d, node)
    PROVE  \E acts : Listed(acts) /\ OnlyFields(acts) /\ e = AddType(d, Struct(node.name, acts))
<1> DEFINE kept == Parts(d.version, node)
           n == Len(kept)
           Self(acts) == AddType(d, Struct(node.name, acts))
           Next(s, i) == UNION {{Append(acts, a) : a \in ParseChildNode(Self(acts), kept[i])} : acts \in s}
           Equation(f) == f = [i \in 0 .. n |-> IF i = 0 THEN {<<>>} ELSE Next(f[i - 1], i)]
           IsUpTo(f, k) ==
               /\ f = [i \in 0 .. k |-> f[i]] /\ f[0] = {<<>>}
               /\ \A i \in 1 .. k : f[i] = Next(f[i - 1], i)
           Missing == {k \in 0 .. n : ~ \E f : IsUpTo(f, k)}
           t == CHOOSE f : Equation(f)
<1>0. IsSequence(kept) /\ n \in Nat /\ DOMAIN kept = 1 .. n
  BY PartsAreSequences, SequenceFacts
<1>1. PICK acts \in t[n] : e = Self(acts)
  BY DEF ParseStruct, Parts
<1>2. ASSUME NEW s, NEW i \in 1 .. n, NEW more \in Next(s, i)
      PROVE  \E less \in s : \E a \in ParseChildNode(Self(less), kept[i]) : more = Append(less, a)
  OBVIOUS
<1> HIDE DEF Next, kept
<1>3. Missing = {}
  <2>1. SUFFICES ASSUME Missing # {} PROVE FALSE
    OBVIOUS
  <2>2. PICK m \in Missing : \A h \in Missing : m <= h
    <3>1. Missing \subseteq Nat
      OBVIOUS
    <3> HIDE DEF Missing
    <3> QED BY <2>1, <3>1, LeastNumber
  <2>3. m \in 0 .. n /\ ~ \E f : IsUpTo(f, m)
    BY <2>2
  <2>4. CASE m = 0
    <3>1. IsUpTo([i \in 0 .. 0 |-> {<<>>}], 0)
      OBVIOUS
    <3> QED BY <2>3, <2>4, <3>1
  <2>5. CASE m # 0
    <3>1. m - 1 \in 0 .. n /\ m \in 1 .. n /\ m - 1 \notin Missing
      <4>1. m - 1 \in 0 .. n /\ m \in 1 .. n /\ ~(m <= m - 1)
        BY <1>0, <2>3, <2>5
      <4> HIDE DEF Missing
      <4> QED BY <2>2, <4>1
    <3>2. PICK f : IsUpTo(f, m - 1)
      BY <3>1
    <3> DEFINE v == Next(f[m - 1], m)
               g == [i \in 0 .. m |-> IF i = m THEN v ELSE f[i]]
    <3>3. g[0] = {<<>>} /\ g = [i \in 0 .. m |-> g[i]]
      BY <3>1, <3>2
    <3>4. ASSUME NEW i \in 1 .. m PROVE g[i] = Next(g[i - 1], i)
      <4>1. g[i - 1] = f[i - 1]
        BY <3>1
      <4>2. CASE i = m
        <5>1. g[i] = v /\ v = Next(f[i - 1], i)
          BY <4>2
        <5> QED BY <4>1, <5>1
      <4>3. CASE i # m
        <5>1. i \in 1 .. m - 1 /\ i \in 0 .. m
          BY <3>1, <4>3
        <5>2. g[i] = f[i] /\ f[i] = Next(f[i - 1], i)
          BY <3>2, <4>3, <5>1
        <5> QED BY <4>1, <5>2
      <4> QED BY <4>2, <4>3
    <3>5. IsUpTo(g, m)
      <4> HIDE DEF g
      <4> QED BY <3>3, <3>4
    <3> QED BY <2>3, <3>5
  <2> QED BY <2>4, <2>5
<1>4. PICK f : IsUpTo(f, n)
  <2>1. n \in 0 .. n
    BY <1>0
  <2>2. n \notin Missing
    BY <1>3
  <2> HIDE DEF IsUpTo, n
  <2> QED BY <2>1, <2>2
<1>5. Equation(f)
  <2> HIDE DEF n
  <2>1. ASSUME NEW i \in 0 .. n, i # 0 PROVE f[i] = Next(f[i - 1], i)
    <3>1. i \in 1 .. n
      BY <1>0, <2>1
    <3> QED BY <1>4, <3>1
  <2> QED BY <1>4, <2>1
<1>6. Equation(t)
  BY <1>5
<1> HIDE DEF t, Self
<1>7. t[0] = {<<>>} /\ \A i \in 1 .. n : t[i] = Next(t[i - 1], i)
  <2>1. t[0] = {<<>>}
    BY <1>0, <1>6
  <2>2. ASSUME NEW i \in 1 .. n PROVE t[i] = Next(t[i - 1], i)
    <3>1. i \in 0 .. n /\ i # 0
      BY <1>0
    <3> HIDE DEF n
    <3> QED BY <1>6, <3>1
  <2> QED BY <2>1, <2>2
<1> DEFINE Good(i) == \A some \in t[i] : Listed(some) /\ OnlyFields(some) /\ Len(some) = i
           Bad == {i \in 0 .. n : ~Good(i)}
<1>8. Good(n)
  <2>1. SUFFICES ASSUME Bad # {} PROVE FALSE
    BY <1>0
  <2>2. PICK m \in Bad : \A h \in Bad : m <= h
    <3>1. Bad \subseteq Nat
      OBVIOUS
    <3> HIDE DEF Bad
    <3> QED BY <2>1, <3>1, LeastNumber
  <2>3. m \in 0 .. n /\ ~Good(m)
    BY <2>2
  <2>4. CASE m = 0
    <3>1. ASSUME NEW some \in t[0] PROVE Listed(some) /\ OnlyFields(some) /\ Len(some) = 0
      <4>1. some = <<>>
        BY <1>7, <3>1
      <4>2. IsSequence(<<>>) /\ Len(<<>>) = 0
        BY DEF IsSequence
      <4> QED BY <4>1, <4>2 DEF Listed, OnlyFields
    <3> QED BY <2>3, <2>4, <3>1
  <2>5. CASE m # 0
    <3>1. m - 1 \in 0 .. n /\ m \in 1 .. n /\ m - 1 \notin Bad
      <4>1. m - 1 \in 0 .. n /\ m \in 1 .. n /\ ~(m <= m - 1)
        BY <1>0, <2>3, <2>5
      <4> HIDE DEF Bad
      <4> QED BY <2>2, <4>1
    <3>2. Good(m - 1)
      BY <3>1
    <3>3. ASSUME NEW some \in t[m] PROVE Listed(some) /\ OnlyFields(some) /\ Len(some) = m
      <4>1. some \in Next(t[m - 1], m)
        BY <1>7, <3>1
      <4>2. PICK less \in t[m - 1] : \E a \in ParseChildNode(Self(less), kept[m]) : some = Append(less, a)
        BY <1>2, <3>1, <4>1
      <4>3. PICK a \in ParseChildNode(Self(less), kept[m]) : some = Append(less, a)
        BY <4>2
      <4>4. Listed(less) /\ OnlyFields(less) /\ Len(less) = m - 1
        BY <3>2, <4>2
      <4>5. DefMade(file, Self(less))
        BY <4>4, TypeAdded DEF Self
      <4>6. kept[m].tag = "field" => FieldFits(file, kept[m])
        BY <1>0, <3>1 DEF PartsFit, kept
      <4>7. ChildMade(kept[m], a)
        BY <4>3, <4>5, <4>6, ChildParsed DEF DefMade
      <4>8. a.do = "field"
        <5>1. /\ kept[m].tag = "transformation" => Attribute(kept[m], "name") \cap Transformations = {}
              /\ kept[m].tag = "annotation" => Attribute(kept[m], "name") \cap Annotations = {}
          BY <1>0, <3>1 DEF StructMade, kept
        <5> QED BY <4>7, <5>1 DEF ChildMade
      <4>9. WellMade(a.type)
        BY <4>7, <4>8 DEF ChildMade
      <4>10. /\ IsSequence(some) /\ Len(some) = m /\ some[m] = a
             /\ \A i \in 1 .. m - 1 : some[i] = less[i]
        BY <3>1, <4>3, <4>4, SequenceAppend DEF Listed
      <4>11. ASSUME NEW i \in 1 .. m PROVE some[i].do = "field" /\ WellMade(some[i].type)
        <5>1. CASE i = m
          BY <4>8, <4>9, <4>10, <5>1
        <5>2. CASE i # m
          <6>1. i \in 1 .. m - 1
            BY <3>1, <5>2
          <6> QED BY <4>4, <4>10, <6>1 DEF Listed, OnlyFields
        <5> QED BY <5>1, <5>2
      <4> QED BY <4>10, <4>11 DEF Listed, OnlyFields
    <3> QED BY <2>3, <3>3
  <2> QED BY <2>4, <2>5
<1> QED BY <1>1, <1>8 DEF Self

\* The builtin types are what their constructors make.
LEMMA BuiltinsMade == TypesMade(BuiltinTypes)
<1> DEFINE All == {Builtin("unsigned", "u8", 1), Builtin("unsigned", "u16", 2),
                   Builtin("unsigned", "u32", Word), Builtin("signed", "s8", 1),
                   Builtin("signed", "s16", 2), Builtin("signed", "s32", Word),
                   Builtin("string", "string", 1), Builtin("float", "float", Word),
                   Builtin("double", "double", 2 * Word), Builtin("length", "length", Word),
                   Builtin("unixtime", "unixtime", Word)}
<1>1. ASSUME NEW kind \in Kinds, NEW name, NEW width \in Nat \ {0}
      PROVE  IsBuiltin(Builtin(kind, name, width))
  BY BuiltinsAre DEF IsBuiltin
<1>2. /\ IsBuiltin(Builtin("unsigned", "u8", 1)) /\ IsBuiltin(Builtin("unsigned", "u16", 2))
      /\ IsBuiltin(Builtin("unsigned", "u32", Word)) /\ IsBuiltin(Builtin("signed", "s8", 1))
      /\ IsBuiltin(Builtin("signed", "s16", 2)) /\ IsBuiltin(Builtin("signed", "s32", Word))
      /\ IsBuiltin(Builtin("string", "string", 1)) /\ IsBuiltin(Builtin("float", "float", Word))
      /\ IsBuiltin(Builtin("double", "double", 2 * Word))
      /\ IsBuiltin(Builtin("length", "length", Word))
      /\ IsBuiltin(Builtin("unixtime", "unixtime", Word))
  <2>1. {1, 2, Word, 2 * Word} \subseteq Nat \ {0}
    BY WordAssumption
  <2>2. {"unsigned", "signed", "string", "float", "double", "length", "unixtime"} \subseteq Kinds
    BY DEF Kinds
  <2> QED BY <1>1, <2>1, <2>2
<1>3. \A t \in All : IsBuiltin(t)
  BY <1>2
<1>4. BuiltinTypes = [name \in {t.name : t \in All} |-> CHOOSE t \in All : t.name = name]
  BY DEF BuiltinTypes
<1> HIDE DEF All
<1>5. ASSUME NEW name \in DOMAIN BuiltinTypes PROVE BuiltinTypes[name] \in All
  BY <1>4
<1> QED BY <1>3, <1>5 DEF TypesMade

\* What is left of the file is of the file, and what was read of it is made as
\* the file says.
LoaderMade ==
    \E file \in Files :
        /\ IsSequence(nodes)
        /\ \A i \in 1 .. Len(nodes) : \E j \in DOMAIN file : nodes[i] = file[j]
        /\ DefMade(file, def)

LEMMA LoaderStart ==
    ASSUME LoaderInit PROVE LoaderMade /\ PacketsOK
<1>1. nodes \in Files
  BY DEF LoaderInit
<1>2. PICK version \in Versions : def = Fresh(version)
  BY DEF LoaderInit
<1>3. IsSequence(nodes) /\ DOMAIN nodes = 1 .. Len(nodes)
  BY <1>1, <1>2, FilesAssumption, SequenceFacts DEF WellFormed
<1>4. /\ DOMAIN def = {"version", "definitions", "enums", "types", "packets"}
      /\ def.version = version /\ def.definitions = <<>> /\ def.types = BuiltinTypes
      /\ def.packets = <<>>
  BY <1>2 DEF Fresh
<1>5. DefMade(nodes, def)
  BY <1>4, BuiltinsMade DEF DefMade, Defined
<1>6. PacketsOK
  BY <1>4 DEF PacketsOK, IsSequence
<1> QED BY <1>1, <1>3, <1>5, <1>6 DEF LoaderMade

\* A definition is one of the file's, and the first of its name.
LEMMA DefinitionParsed ==
    ASSUME NEW file, NEW d, DefMade(file, d), NEW j \in DOMAIN file, file[j].tag = "define",
           NEW e \in ParseDefinition(d, file[j])
    PROVE  DefMade(file, e) /\ e.packets = d.packets
<1> DEFINE node == file[j]
           definitions == Registered(d.definitions, node.name, node.value)
<1>1. Given(node, "name") /\ Given(node, "value") /\ e = [d EXCEPT !.definitions = definitions]
  BY DEF ParseDefinition
<1>2. /\ DOMAIN definitions = DOMAIN d.definitions \cup {node.name}
      /\ \A x \in DOMAIN definitions :
            definitions[x] = IF x \in DOMAIN d.definitions THEN d.definitions[x] ELSE node.value
  BY DEF Registered
<1>3. Attribute(node, "name") = {node.name}
  BY <1>1 DEF Attribute, Given
<1> HIDE DEF definitions
<1>4. /\ DOMAIN e = DOMAIN d /\ e.types = d.types /\ e.version = d.version /\ e.packets = d.packets
      /\ e.definitions = definitions
  BY <1>1 DEF DefMade
<1>5. Defined(file, e)
  <2>1. ASSUME NEW name \in DOMAIN definitions
        PROVE  \E i \in DOMAIN file :
                  /\ file[i].tag = "define" /\ Attribute(file[i], "name") = {name}
                  /\ Given(file[i], "value") /\ definitions[name] = file[i].value
    <3>1. CASE name \in DOMAIN d.definitions
      BY <1>2, <3>1 DEF DefMade, Defined
    <3>2. CASE name \notin DOMAIN d.definitions
      BY <1>1, <1>2, <1>3, <3>2
    <3> QED BY <3>1, <3>2
  <2> QED BY <1>4, <2>1 DEF Defined
<1> QED BY <1>4, <1>5 DEF DefMade

LEMMA SameMade ==
    ASSUME NEW file, NEW d, DefMade(file, d), NEW e, DOMAIN e = DOMAIN d, e.types = d.types,
           e.version = d.version, e.definitions = d.definitions
    PROVE  DefMade(file, e)
BY DEF DefMade, Defined

LEMMA EnumParsed ==
    ASSUME NEW file, NEW d, DefMade(file, d), NEW node, NEW e \in ParseEnum(d, node)
    PROVE  DefMade(file, e) /\ e.packets = d.packets
<1>1. PICK map : e = [d EXCEPT !.enums = map]
  BY DEF ParseEnum
<1>2. /\ DOMAIN e = DOMAIN d /\ e.types = d.types /\ e.version = d.version /\ e.packets = d.packets
      /\ e.definitions = d.definitions
  BY <1>1 DEF DefMade
<1> QED BY <1>2, SameMade

\* Every element that is read adds to the definition what keeps to it.
LEMMA ElementParsed ==
    ASSUME NEW file \in Files, DefMade(file, def), PacketsOK, NEW j \in DOMAIN file,
           def' \in ParseElement(def, file[j])
    PROVE  DefMade(file, def') /\ PacketsOK'
<1> DEFINE node == file[j]
<1>1. def.version \in Versions
  BY DEF DefMade
<1>2. WellFormed(file, def.version)
  BY <1>1, FilesAssumption
<1>3. CASE node.tag = "enum"
  <2>1. def' \in ParseEnum(def, node)
    BY <1>3 DEF ParseElement
  <2>2. DefMade(file, def') /\ def'.packets = def.packets
    BY <2>1, EnumParsed
  <2> QED BY <2>2 DEF PacketsOK
<1>4. CASE node.tag = "define"
  <2>1. def' \in ParseDefinition(def, node)
    BY <1>4 DEF ParseElement
  <2>2. DefMade(file, def') /\ def'.packets = def.packets
    BY <1>4, <2>1, DefinitionParsed
  <2> QED BY <2>2 DEF PacketsOK
<1>5. CASE node.tag = "struct"
  <2>1. def' \in ParseStruct(def, node)
    BY <1>5 DEF ParseElement
  <2>2. PartsFit(file, def.version, node) /\ StructMade(Parts(def.version, node))
    BY <1>2, <1>5 DEF WellFormed
  <2>3. PICK acts : Listed(acts) /\ OnlyFields(acts) /\ def' = AddType(def, Struct(node.name, acts))
    BY <2>1, <2>2, StructParsed
  <2>4. DefMade(file, def') /\ def'.packets = def.packets
    BY <2>3, TypeAdded
  <2> QED BY <2>4 DEF PacketsOK
<1>6. CASE node.tag = "packet"
  <2>1. def' \in ParsePacket(def, node)
    BY <1>6 DEF ParseElement
  <2>2. PacketMade(file, def.version, node)
    BY <1>2, <1>6 DEF WellFormed
  <2>3. PICK p : PacketOK(p) /\ def' = [def EXCEPT !.packets = Append(def.packets, p)]
    BY <2>1, <2>2, PacketParsed
  <2>4. /\ DOMAIN def' = DOMAIN def /\ def'.types = def.types /\ def'.version = def.version
        /\ def'.packets = Append(def.packets, p) /\ def'.definitions = def.definitions
    BY <2>3 DEF DefMade
  <2>5. DefMade(file, def')
    BY <2>4, SameMade
  <2>6. /\ IsSequence(def'.packets) /\ Len(def'.packets) = Len(def.packets) + 1
        /\ def'.packets[Len(def.packets) + 1] = p
        /\ \A i \in 1 .. Len(def.packets) : def'.packets[i] = def.packets[i]
    BY <2>4, SequenceAppend DEF PacketsOK
  <2>7. Len(def.packets) \in Nat
    BY SequenceFacts DEF PacketsOK
  <2>8. ASSUME NEW k \in 1 .. Len(def'.packets) PROVE PacketOK(def'.packets[k])
    <3>1. CASE k = Len(def.packets) + 1
      BY <2>3, <2>6, <3>1
    <3>2. CASE k # Len(def.packets) + 1
      <4>1. k \in 1 .. Len(def.packets)
        BY <2>6, <2>7, <3>2
      <4> QED BY <2>6, <4>1 DEF PacketsOK
    <3> QED BY <3>1, <3>2
  <2> QED BY <2>5, <2>6, <2>8 DEF PacketsOK
<1>7. CASE node.tag \notin {"enum", "struct", "packet", "define"}
  BY <1>7 DEF ParseElement
<1> QED BY <1>3, <1>4, <1>5, <1>6, <1>7

LEMMA LoaderStep ==
    ASSUME LoaderMade, PacketsOK, Load \/ UNCHANGED loaderVars
    PROVE  LoaderMade' /\ PacketsOK'
<1>1. PICK file \in Files :
          /\ IsSequence(nodes)
          /\ \A i \in 1 .. Len(nodes) : \E j \in DOMAIN file : nodes[i] = file[j]
          /\ DefMade(file, def)
  BY DEF LoaderMade
<1>2. CASE nodes' = nodes /\ def' = def
  BY <1>2 DEF LoaderMade, PacketsOK
<1>3. CASE LoadElement
  <2>1. nodes # <<>> /\ def' \in ParseElement(def, Head(nodes)) /\ nodes' = Tail(nodes)
    BY <1>3 DEF LoadElement
  <2>2. /\ Len(nodes) \in Nat \ {0} /\ Head(nodes) = nodes[1] /\ IsSequence(nodes')
        /\ Len(nodes') = Len(nodes) - 1
        /\ \A i \in 1 .. Len(nodes') : nodes'[i] = nodes[i + 1]
    BY <1>1, <2>1, SequenceFacts, SequenceTail
  <2>3. PICK j \in DOMAIN file : nodes[1] = file[j]
    BY <1>1, <2>2
  <2>4. DefMade(file, def') /\ PacketsOK'
    BY <1>1, <2>1, <2>2, <2>3, ElementParsed
  <2>5. \A i \in 1 .. Len(nodes') : \E k \in DOMAIN file : nodes'[i] = file[k]
    <3>1. \A i \in 1 .. Len(nodes') : i + 1 \in 1 .. Len(nodes)
      BY <2>2
    <3> QED BY <1>1, <2>2, <3>1
  <2> QED BY <2>2, <2>4, <2>5 DEF LoaderMade
<1> QED BY <1>2, <1>3 DEF Load, Refuse, Loaded, loaderVars
=============================================================================
