------------------------ MODULE ProtocolDecodeProofs ------------------------
(***************************************************************************)
(* What decoding a payload does, for every definition that a well-formed   *)
(* file describes, every payload and every history of earlier payloads.    *)
(***************************************************************************)
EXTENDS ProtocolDecode, ProtocolTypesProofs

-----------------------------------------------------------------------------
(* What a generated Send writes.                                           *)

\* The bytes of a number.
LEMMA BytesTyped ==
    ASSUME NEW n \in Int, NEW w \in Nat
    PROVE  Bytes(n, w) \in Seq(Nat) /\ Len(Bytes(n, w)) = w
<1>1. ASSUME NEW k \in 1 .. w PROVE ((n \div Capacity(k - 1)) % ByteBase) \in Nat
  <2>1. Capacity(k - 1) \in Nat \ {0}
    BY CapacityPositive
  <2>2. \A c \in Nat \ {0} : n \div c \in Int
    OBVIOUS
  <2>3. \A q \in Int : q % ByteBase \in Nat
    BY WordAssumption
  <2> QED BY <2>1, <2>2, <2>3
<1>2. Bytes(n, w) \in [1 .. w -> Nat]
  BY <1>1 DEF Bytes
<1> QED BY <1>2, LenProperties

LEMMA CopiesTyped ==
    ASSUME NEW n \in Nat, NEW x \in Nat
    PROVE  Copies(n, x) \in Seq(Nat) /\ Len(Copies(n, x)) = n
BY DEF Copies

\* A field is written at its full size.
LEMMA FieldImageTyped ==
    ASSUME NEW t, WellMade(t), NEW length \in Int, NEW x \in Nat
    PROVE  /\ FieldImage(t, length, x) \in Seq(Nat)
           /\ Len(FieldImage(t, length, x)) = FullSize(t)
<1>1. FullSize(t) \in Nat
  BY SizesOfTypes
<1>2. CASE t.fixed # {}
  <2>1. Atom(t) /\ t.count = 1 /\ t.width \in Nat
    BY <1>2, WellMadeParts DEF Compound, Atom, Sized
  <2>2. (CHOOSE f \in t.fixed : TRUE) \in Int
    BY <1>2, <2>1 DEF Atom
  <2>3. FullSize(t) = t.width
    BY <2>1 DEF FullSize
  <2> QED BY <1>2, <2>1, <2>2, <2>3, BytesTyped DEF FieldImage
<1>3. CASE t.fixed = {} /\ t.kind = "length"
  <2>1. Atom(t) /\ t.count = 1 /\ t.width \in Nat
    BY <1>3, WellMadeParts DEF Compound, Atom, Sized, IsStruct
  <2>2. FullSize(t) = t.width
    BY <2>1 DEF FullSize
  <2> QED BY <1>3, <2>1, <2>2, BytesTyped DEF FieldImage
<1>4. CASE t.fixed = {} /\ t.kind # "length"
  BY <1>1, <1>4, CopiesTyped DEF FieldImage
<1> QED BY <1>2, <1>3, <1>4

LEMMA SizesTyped ==
    ASSUME NEW acts, Listed(acts)
    PROVE  /\ Sizes(acts, FullSize) \in Seq(Nat) /\ Len(Sizes(acts, FullSize)) = Len(acts)
           /\ Sizes(acts, ConstantSize) \in Seq(Nat) /\ Len(Sizes(acts, ConstantSize)) = Len(acts)
           /\ Total(Sizes(acts, FullSize)) \in Nat /\ ConstantLength(acts) \in Nat
<1>0. Len(acts) \in Nat
  BY SequenceFacts DEF Listed
<1> DEFINE full == Sizes(acts, FullSize)
           constant == Sizes(acts, ConstantSize)
<1>1. \A i \in 1 .. Len(acts) :
        acts[i].do = "field" => FullSize(acts[i].type) \in Nat /\ ConstantSize(acts[i].type) \in Nat
  BY SizesOfTypes DEF Listed
<1>2. full \in [1 .. Len(acts) -> Nat] /\ constant \in [1 .. Len(acts) -> Nat]
  BY <1>0, <1>1 DEF Sizes
<1> HIDE DEF full, constant
<1>3. full \in Seq(Nat) /\ Len(full) = Len(acts) /\ constant \in Seq(Nat) /\ Len(constant) = Len(acts)
  BY <1>0, <1>2
<1>4. Total(full) \in Nat /\ Total(constant) \in Nat
  BY <1>0, <1>3, SumsByNumber DEF Total
<1> QED BY <1>3, <1>4 DEF full, constant, ConstantLength

\* Reset fills the structure: every field at its full size.
LEMMA ImageTyped ==
    ASSUME NEW acts, Listed(acts), NEW length \in Int, NEW x \in Nat
    PROVE  /\ Image(acts, length, x) \in Seq(Nat)
           /\ Len(Image(acts, length, x)) = Total(Sizes(acts, FullSize))
<1> DEFINE n == Len(acts)
           S == Seq(Nat)
           sizes == Sizes(acts, FullSize)
           Extend(s, i) == IF acts[i].do = "field" THEN s \o FieldImage(acts[i].type, length, x) ELSE s
           F == [p \in S \X (1 .. n) |-> Extend(p[1], p[2])]
           Equation(f) == f = [i \in 0 .. n |-> IF i = 0 THEN <<>> ELSE Extend(f[i - 1], i)]
           t == CHOOSE f : Equation(f)
<1>0. n \in Nat
  BY SequenceFacts DEF Listed
<1>1. Image(acts, length, x) = t[n]
  <2>1. Image(acts, length, x) =
          (CHOOSE f : f = [i \in 0 .. n |->
               IF i = 0 THEN <<>>
               ELSE IF acts[i].do = "field" THEN f[i - 1] \o FieldImage(acts[i].type, length, x)
               ELSE f[i - 1]])[n]
    BY DEF Image
  <2> QED BY <2>1
<1>2. ASSUME NEW s \in S, NEW i \in 1 .. n
      PROVE  Extend(s, i) \in S /\ Len(Extend(s, i)) = Len(s) + sizes[i]
  <2>1. CASE acts[i].do = "field"
    <3>1. WellMade(acts[i].type)
      BY <2>1 DEF Listed
    <3>2. FieldImage(acts[i].type, length, x) \in Seq(Nat)
          /\ Len(FieldImage(acts[i].type, length, x)) = FullSize(acts[i].type)
      BY <3>1, FieldImageTyped
    <3>3. sizes[i] = FullSize(acts[i].type)
      BY <1>0, <2>1 DEF Sizes
    <3>4. Extend(s, i) = s \o FieldImage(acts[i].type, length, x)
      BY <2>1
    <3> DEFINE w == FieldImage(acts[i].type, length, x)
    <3>5. s \in Seq(Nat) /\ w \in Seq(Nat) /\ Len(w) = sizes[i] /\ Extend(s, i) = s \o w
      BY <3>2, <3>3, <3>4
    <3> HIDE DEF Extend, sizes, w
    <3>6. s \o w \in Seq(Nat) /\ Len(s \o w) = Len(s) + Len(w)
      <4> HIDE DEF S
      <4> QED BY <3>5, ConcatProperties, Zenon
    <3> QED BY <3>5, <3>6
  <2>2. CASE acts[i].do # "field"
    <3>1. sizes[i] = 0 /\ Extend(s, i) = s /\ Len(s) \in Nat
      BY <1>0, <2>2, LenProperties DEF Sizes
    <3> HIDE DEF Extend, sizes
    <3> QED BY <3>1
  <2> QED BY <2>1, <2>2
<1>3. <<>> \in S /\ Len(<<>>) = 0
  OBVIOUS
<1> HIDE DEF Extend, S, sizes
<1>4. F \in [S \X (1 .. n) -> S]
  BY <1>2
<1>5. PICK f : Recursion(S, n, F, <<>>, f)
  <2> HIDE DEF F, n
  <2> QED BY <1>0, <1>3, <1>4, RecursionExists
<1>6. Equation(f)
  <2>1. ASSUME NEW i \in 0 .. n, i # 0 PROVE f[i] = Extend(f[i - 1], i)
    <3>1. i \in 1 .. n /\ f[i - 1] \in S
      BY <1>0, <1>5, <2>1 DEF Recursion
    <3> QED BY <1>5, <3>1 DEF Recursion
  <2> QED BY <1>5, <2>1 DEF Recursion
<1>7. Equation(t)
  BY <1>6
<1> HIDE DEF t
<1> HIDE DEF n
<1>8. t[0] = <<>> /\ \A i \in 1 .. n : t[i] = Extend(t[i - 1], i)
  BY <1>0, <1>7
<1>9. \A i \in 0 .. n : t[i] \in S
  <2>1. ASSUME NEW i \in 1 .. n, t[i - 1] \in S PROVE t[i] = F[<<t[i - 1], i>>]
    BY <1>8, <2>1
  <2>2. t[0] \in S
    BY <1>3, <1>8
  <2> HIDE DEF F
  <2> QED BY <1>0, <1>4, <2>1, <2>2, RecursionTyped, Zenon
<1>10. sizes \in Seq(Nat) /\ Len(sizes) = n
  BY SizesTyped DEF sizes, n
<1>11. Sums(sizes)[0] = 0 /\ \A i \in 1 .. n : Sums(sizes)[i] = Sums(sizes)[i - 1] + sizes[i]
  BY <1>10, SumsByNumber
<1> DEFINE T == {i \in 0 .. n : Len(t[i]) = Sums(sizes)[i]}
<1>12. \A i \in 0 .. n : i \in T
  <2>1. 0 \in T
    BY <1>0, <1>3, <1>8, <1>11
  <2>2. ASSUME NEW i \in 1 .. n, i - 1 \in T PROVE i \in T
    <3>1. i - 1 \in 0 .. n /\ i \in 0 .. n
      BY <1>0
    <3>2. Len(t[i]) = Len(t[i - 1]) + sizes[i]
      BY <1>2, <1>8, <1>9, <3>1
    <3> QED BY <1>11, <2>2, <3>1, <3>2
  <2> HIDE DEF T
  <2> QED BY <1>0, <2>1, <2>2, UpTo
<1>13. t[n] \in S /\ Len(t[n]) = Sums(sizes)[n]
  BY <1>0, <1>9, <1>12
<1> QED BY <1>1, <1>10, <1>13 DEF Total, sizes, S

\* The length that is sent lies within the structure, and so does what a
\* program may add for a last field that varies.
LEMMA LengthWithin ==
    ASSUME NEW acts, Listed(acts), NEW delta, delta = 0 \/ delta \in Deltas(acts)
    PROVE  delta \in Nat /\ ConstantLength(acts) + delta <= Total(Sizes(acts, FullSize))
<1> DEFINE a == Sizes(acts, ConstantSize)
           b == Sizes(acts, FullSize)
<1>0. /\ Len(acts) \in Nat /\ DOMAIN acts = 1 .. Len(acts) /\ IsSequence(acts)
      /\ a \in Seq(Nat) /\ b \in Seq(Nat) /\ Len(a) = Len(acts) /\ Len(b) = Len(acts)
  BY SequenceFacts, SizesTyped DEF Listed
<1>1. ASSUME NEW i \in 1 .. Len(acts) PROVE a[i] <= b[i]
  <2>1. CASE acts[i].do = "field"
    <3>1. a[i] = ConstantSize(acts[i].type) /\ b[i] = FullSize(acts[i].type)
      BY <2>1 DEF Sizes
    <3>2. WellMade(acts[i].type)
      BY <2>1 DEF Listed
    <3> HIDE DEF a, b
    <3> QED BY <3>1, <3>2, SizesOfTypes
  <2>2. CASE acts[i].do # "field"
    <3>1. a[i] = 0 /\ b[i] = 0
      BY <2>2 DEF Sizes
    <3> QED BY <3>1
  <2> QED BY <2>1, <2>2
<1>2. \E j \in 0 .. Len(acts) : delta \in Nat /\ (j = 0 => delta = 0) /\ (j > 0 => a[j] + delta <= b[j])
  <2>1. CASE delta = 0
    BY <1>0, <2>1
  <2>2. CASE delta # 0
    <3> DEFINE fs == Fields(acts)
               n == Len(fs)
               t == fs[n].type
    <3>1. fs # <<>> /\ ~IsStruct(t) /\ delta \in {t.width * k : k \in t.min .. t.count} /\ t.count # t.min
      BY <2>2 DEF Deltas
    <3>2. fs \in Seq({p \in {acts[i] : i \in DOMAIN acts} : p.do = "field"})
      <4>1. acts \in Seq({acts[i] : i \in DOMAIN acts})
        BY <1>0 DEF IsSequence
      <4> DEFINE T == {acts[i] : i \in DOMAIN acts}
      <4> HIDE DEF T
      <4> QED BY <4>1, OnlyTyped DEF Fields
    <3>3. fs[n] \in {p \in {acts[i] : i \in DOMAIN acts} : p.do = "field"}
      <4> DEFINE T == {p \in {acts[i] : i \in DOMAIN acts} : p.do = "field"}
      <4> HIDE DEF T, fs
      <4>1. n \in Nat /\ n # 0
        BY <3>1, <3>2, EmptySeq, LenProperties
      <4> QED BY <3>2, <4>1, ElementOfSeq DEF n
    <3>4. PICK j \in 1 .. Len(acts) : acts[j].do = "field" /\ t = acts[j].type
      <4> HIDE DEF fs
      <4> QED BY <1>0, <3>3
    <3> HIDE DEF t
    <3>5. Atom(t)
      BY <3>1, <3>4, WellMadeParts DEF Listed, Compound
    <3>6. a[j] = 0 /\ b[j] = t.count * t.width
      BY <3>1, <3>4 DEF Sizes, ConstantSize, FullSize
    <3>7. PICK k \in t.min .. t.count : delta = t.width * k
      BY <3>1
    <3>8. t.width \in Nat /\ t.min \in Nat /\ t.count \in Nat /\ k \in Nat /\ k <= t.count
      BY <3>5, <3>7 DEF Atom, Sized
    <3>9. t.width * k <= t.width * t.count /\ t.width * t.count = t.count * t.width /\ t.width * k \in Nat
      <4> DEFINE w == t.width  c == t.count
      <4>1. w \in Nat /\ c \in Nat /\ k \in Nat /\ k <= c
        BY <3>8
      <4> HIDE DEF w, c
      <4>2. w * k <= w * c
        BY <4>1, ProductGrows
      <4>3. w * c = c * w /\ w * k \in Nat
        BY <4>1
      <4> QED BY <4>2, <4>3 DEF w, c
    <3> QED BY <3>6, <3>7, <3>9
  <2> QED BY <2>1, <2>2
<1>3. PICK j \in 0 .. Len(acts) : delta \in Nat /\ (j = 0 => delta = 0) /\ (j > 0 => a[j] + delta <= b[j])
  BY <1>2
<1> HIDE DEF a, b
<1>4. Total(a) + delta <= Total(b)
  BY <1>0, <1>1, <1>3, SumsBelow
<1> QED BY <1>3, <1>4 DEF a, b, ConstantLength

LEMMA SumsAppend ==
    ASSUME NEW ns \in Seq(Nat), NEW v \in Nat
    PROVE  Total(Append(ns, v)) = Total(ns) + v
<1> DEFINE n == Len(ns)
           more == Append(ns, v)
           A == Sums(ns)
           B == Sums(more)
           T == {i \in 0 .. n : B[i] = A[i]}
<1>1. n \in Nat /\ more \in Seq(Nat) /\ Len(more) = n + 1 /\ more[n + 1] = v /\ \A i \in 1 .. n : more[i] = ns[i]
  BY LenProperties, AppendProperties
<1>2. A[0] = 0 /\ A \in [0 .. n -> Nat] /\ \A i \in 1 .. n : A[i] = A[i - 1] + ns[i]
  BY SumsByNumber
<1>3. B[0] = 0 /\ \A i \in 1 .. Len(more) : B[i] = B[i - 1] + more[i]
  <2> HIDE DEF more
  <2> QED BY <1>1, SumsByNumber
<1> HIDE DEF A, B, more
<1>4. B[0] = 0 /\ B[n + 1] = B[n] + v /\ \A i \in 1 .. n : B[i] = B[i - 1] + ns[i]
  <2> HIDE DEF n
  <2>1. n + 1 \in 1 .. Len(more) /\ n + 1 - 1 = n /\ \A i \in 1 .. n : i \in 1 .. Len(more)
    BY <1>1
  <2>2. B[n + 1] = B[n] + v
    BY <1>1, <1>3, <2>1
  <2> QED BY <1>1, <1>3, <2>1, <2>2
<1>5. \A i \in 0 .. n : i \in T
  <2>1. 0 \in T
    BY <1>1, <1>2, <1>4
  <2>2. ASSUME NEW i \in 1 .. n, i - 1 \in T PROVE i \in T
    <3>1. i \in 0 .. n /\ B[i - 1] = A[i - 1]
      BY <1>1, <2>2
    <3> QED BY <1>2, <1>4, <3>1
  <2> HIDE DEF T, n
  <2> QED BY <1>1, <2>1, <2>2, UpTo
<1>6. B[n] = A[n] /\ Total(Append(ns, v)) = B[n + 1] /\ Total(ns) = A[n]
  BY <1>1, <1>5 DEF Total, A, B, more
<1> QED BY <1>4, <1>6

\* Leaving out what is not a field leaves out no bytes.
LEMMA FieldsTotal ==
    ASSUME NEW acts, Listed(acts)
    PROVE  /\ Sizes(Fields(acts), FullSize) \in Seq(Nat)
           /\ Len(Sizes(Fields(acts), FullSize)) = Len(Fields(acts))
           /\ Total(Sizes(Fields(acts), FullSize)) = Total(Sizes(acts, FullSize))
           /\ IsSequence(Fields(acts))
           /\ \A i \in 1 .. Len(Fields(acts)) :
                 Fields(acts)[i].do = "field" /\ WellMade(Fields(acts)[i].type)
<1> DEFINE n == Len(acts)
           T == {p \in {acts[i] : i \in DOMAIN acts} : p.do = "field"}
           S == Seq(T)
           sizes == Sizes(acts, FullSize)
           Extend(s, i) == IF acts[i].do = "field" THEN Append(s, acts[i]) ELSE s
           F == [p \in S \X (1 .. n) |-> Extend(p[1], p[2])]
           Equation(f) == f = [i \in 0 .. n |-> IF i = 0 THEN <<>> ELSE Extend(f[i - 1], i)]
           t == CHOOSE f : Equation(f)
           Came(s) == Total(Sizes(s, FullSize))
<1>0. n \in Nat /\ DOMAIN acts = 1 .. n
  BY SequenceFacts DEF Listed
<1>1. Fields(acts) = t[n]
  BY DEF Fields, Only
<1>2. \A p \in T : p.do = "field" /\ WellMade(p.type) /\ FullSize(p.type) \in Nat
  <2>1. \A i \in 1 .. n : acts[i].do = "field" => WellMade(acts[i].type)
    BY DEF Listed
  <2> QED BY <1>0, <2>1, SizesOfTypes
<1>3. ASSUME NEW s \in S
      PROVE  Sizes(s, FullSize) \in Seq(Nat) /\ Len(Sizes(s, FullSize)) = Len(s)
  <2>1. Len(s) \in Nat /\ \A i \in 1 .. Len(s) : s[i] \in T
    <3> HIDE DEF T
    <3> QED BY LenProperties, ElementOfSeq
  <2>2. Sizes(s, FullSize) \in [1 .. Len(s) -> Nat]
    <3> HIDE DEF T
    <3> QED BY <1>2, <2>1 DEF Sizes
  <2> DEFINE z == Sizes(s, FullSize)
  <2> HIDE DEF z
  <2>3. z \in Seq(Nat) /\ Len(z) = Len(s)
    BY <2>1, <2>2 DEF z
  <2> QED BY <2>3 DEF z
<1>4. ASSUME NEW s \in S, NEW i \in 1 .. n
      PROVE  Extend(s, i) \in S /\ Came(Extend(s, i)) = Came(s) + sizes[i] /\ Came(s) \in Nat
  <2>0. Came(s) \in Nat
    BY <1>3, LenProperties, SumsByNumber DEF Total
  <2>1. CASE acts[i].do = "field"
    <3> DEFINE p == acts[i]
               v == FullSize(p.type)
               more == Append(s, p)
    <3>1. p \in T /\ v \in Nat /\ Extend(s, i) = more /\ sizes[i] = v
      <4>1. p \in T
        BY <1>0, <2>1
      <4>2. v \in Nat
        BY <1>2, <4>1
      <4>3. sizes[i] = v
        BY <2>1 DEF Sizes
      <4> QED BY <2>1, <4>1, <4>2, <4>3
    <3> HIDE DEF T
    <3>2. more \in S /\ Len(more) = Len(s) + 1 /\ more[Len(s) + 1] = p /\ \A k \in 1 .. Len(s) : more[k] = s[k]
      BY <3>1, AppendProperties
    <3>3. Sizes(more, FullSize) = Append(Sizes(s, FullSize), v)
      <4> DEFINE a == Sizes(more, FullSize)
                 b == Sizes(s, FullSize)
                 m == Len(s)
      <4>1. a \in Seq(Nat) /\ Len(a) = m + 1 /\ b \in Seq(Nat) /\ Len(b) = m /\ m \in Nat
        BY <1>3, <3>2, LenProperties
      <4>2. a[m + 1] = v
        <5>1. m + 1 \in 1 .. Len(more)
          BY <3>2, <4>1
        <5>2. more[m + 1].do = "field"
          BY <2>1, <3>2
        <5> QED BY <3>2, <5>1, <5>2 DEF Sizes
      <4>3. \A k \in 1 .. m : a[k] = b[k]
        <5>1. \A k \in 1 .. m : k \in 1 .. Len(more) /\ more[k] = s[k]
          BY <3>2, <4>1
        <5> QED BY <5>1 DEF Sizes
      <4> HIDE DEF a, b, m, v
      <4>4. Append(b, v) \in Seq(Nat) /\ Len(Append(b, v)) = m + 1 /\ Append(b, v)[m + 1] = v
            /\ \A k \in 1 .. m : Append(b, v)[k] = b[k]
        BY <3>1, <4>1, AppendProperties
      <4> DEFINE c == Append(b, v)
      <4> HIDE DEF c
      <4>5. \A k \in 1 .. m + 1 : a[k] = c[k]
        BY <4>1, <4>2, <4>3, <4>4 DEF c
      <4>6. a = c
        BY <4>1, <4>4, <4>5, SeqEqual DEF c
      <4> QED BY <4>6 DEF a, b, c
    <3>4. Came(more) = Came(s) + v
      BY <1>3, <3>1, <3>3, SumsAppend
    <3> QED BY <2>0, <3>1, <3>2, <3>4
  <2>2. CASE acts[i].do # "field"
    <3>1. sizes[i] = 0 /\ Extend(s, i) = s
      BY <2>2 DEF Sizes
    <3> HIDE DEF Extend, sizes, Came
    <3> QED BY <2>0, <3>1
  <2> QED BY <2>1, <2>2
<1>5. <<>> \in S /\ Came(<<>>) = 0
  <2>1. <<>> \in S
    OBVIOUS
  <2>2. Sizes(<<>>, FullSize) \in Seq(Nat) /\ Len(Sizes(<<>>, FullSize)) = 0
    BY <1>3, <2>1
  <2> QED BY <2>1, <2>2, SumsByNumber DEF Total
<1> HIDE DEF Extend, S, sizes, Came
<1>6. F \in [S \X (1 .. n) -> S]
  BY <1>4
<1>7. PICK f : Recursion(S, n, F, <<>>, f)
  <2> HIDE DEF F, n
  <2> QED BY <1>0, <1>5, <1>6, RecursionExists
<1>8. Equation(f)
  <2>1. ASSUME NEW i \in 0 .. n, i # 0 PROVE f[i] = Extend(f[i - 1], i)
    <3>1. i \in 1 .. n /\ f[i - 1] \in S
      BY <1>0, <1>7, <2>1 DEF Recursion
    <3> QED BY <1>7, <3>1 DEF Recursion
  <2> QED BY <1>7, <2>1 DEF Recursion
<1>9. Equation(t)
  BY <1>8
<1> HIDE DEF t
<1> HIDE DEF n
<1>10. t[0] = <<>> /\ \A i \in 1 .. n : t[i] = Extend(t[i - 1], i)
  BY <1>0, <1>9
<1>11. \A i \in 0 .. n : t[i] \in S
  <2>1. ASSUME NEW i \in 1 .. n, t[i - 1] \in S PROVE t[i] = F[<<t[i - 1], i>>]
    BY <1>10, <2>1
  <2>2. t[0] \in S
    BY <1>5, <1>10
  <2> HIDE DEF F
  <2> QED BY <1>0, <1>6, <2>1, <2>2, RecursionTyped, Zenon
<1>12. sizes \in Seq(Nat) /\ Len(sizes) = n
  BY SizesTyped DEF sizes, n
<1>13. Sums(sizes)[0] = 0 /\ \A i \in 1 .. n : Sums(sizes)[i] = Sums(sizes)[i - 1] + sizes[i]
  BY <1>12, SumsByNumber
<1> DEFINE Q == {i \in 0 .. n : Came(t[i]) = Sums(sizes)[i]}
<1>14. \A i \in 0 .. n : i \in Q
  <2>1. 0 \in Q
    BY <1>0, <1>5, <1>10, <1>13
  <2>2. ASSUME NEW i \in 1 .. n, i - 1 \in Q PROVE i \in Q
    <3>1. i - 1 \in 0 .. n /\ i \in 0 .. n
      BY <1>0
    <3>2. Came(t[i]) = Came(t[i - 1]) + sizes[i]
      BY <1>4, <1>10, <1>11, <3>1
    <3> QED BY <1>13, <2>2, <3>1, <3>2
  <2> HIDE DEF Q
  <2> QED BY <1>0, <2>1, <2>2, UpTo
<1>15. t[n] \in S /\ Came(t[n]) = Sums(sizes)[n]
  BY <1>0, <1>11, <1>14
<1>16. Came(Fields(acts)) = Total(sizes) /\ Fields(acts) \in S
  BY <1>1, <1>12, <1>15 DEF Total
<1>17. IsSequence(Fields(acts))
       /\ \A i \in 1 .. Len(Fields(acts)) : Fields(acts)[i].do = "field" /\ WellMade(Fields(acts)[i].type)
  <2>1. Fields(acts) \in Seq(T)
    BY <1>16 DEF S
  <2> HIDE DEF T
  <2>2. \A i \in 1 .. Len(Fields(acts)) : Fields(acts)[i] \in T
    BY <2>1, LenProperties, ElementOfSeq
  <2> QED BY <1>2, <2>1, <2>2, SequenceOf
<1> QED BY <1>3, <1>16, <1>17 DEF sizes, Came

\* What stands before the transformation, and what behind it.
LEMMA TransformSplits ==
    ASSUME NEW acts, Listed(acts)
    PROVE  /\ TransformAt(acts) \in 0 .. Len(acts)
           /\ TransformAt(acts) # 0 =>
                 /\ Listed(Before(acts)) /\ Listed(After(acts))
                 /\ Total(Sizes(acts, FullSize))
                      = Total(Sizes(Before(acts), FullSize)) + Total(Sizes(After(acts), FullSize))
<1> DEFINE n == Len(acts)
           T == {acts[i] : i \in DOMAIN acts}
           Found == {i \in 1 .. n : acts[i].do = "transformation"}
           at == TransformAt(acts)
<1>0. n \in Nat /\ DOMAIN acts = 1 .. n /\ acts \in Seq(T)
  BY SequenceFacts DEF Listed, IsSequence
<1>1. at = IF Found # {} THEN Min(Found) ELSE 0
  BY DEF TransformAt, SelectInSeq
<1>2. CASE Found = {}
  <2>1. at = 0
    BY <1>1, <1>2
  <2> HIDE DEF at
  <2> QED BY <1>0, <2>1 DEF at
<1>3. CASE Found # {}
  <2>1. PICK m \in Found : \A h \in Found : m <= h
    <3>1. Found \subseteq Nat
      OBVIOUS
    <3> HIDE DEF Found
    <3> QED BY <1>3, <3>1, LeastNumber
  <2>2. at \in Found
    <3>1. at = CHOOSE h \in Found : \A y \in Found : h <= y
      BY <1>1, <1>3 DEF Min
    <3> HIDE DEF at, Found
    <3> QED BY <2>1, <3>1
  <2>3. at \in 1 .. n /\ acts[at].do = "transformation"
    BY <2>2
  <2> DEFINE b == Before(acts)
             a == After(acts)
  <2> HIDE DEF Found, at, n
  <2>4. b \in Seq(T) /\ Len(b) = at - 1 /\ \A k \in 1 .. at - 1 : b[k] = acts[k]
    <3>1. \A k \in 1 .. at - 1 : acts[k] \in T
      BY <1>0, <2>3
    <3>2. at - 1 \in Int /\ (IF 1 <= at - 1 THEN at - 1 - 1 + 1 ELSE 0) = at - 1
          /\ \A k \in 1 .. at - 1 : k \in 1 .. (at - 1 - 1 + 1) /\ 1 + k - 1 = k
      BY <1>0, <2>3
    <3>3. b = SubSeq(acts, 1, at - 1)
      BY DEF Before, at
    <3> HIDE DEF b, T
    <3> QED BY <3>1, <3>2, <3>3, SubSeqProperties
  <2>5. a \in Seq(T) /\ Len(a) = n - at /\ \A k \in 1 .. n - at : a[k] = acts[at + k]
    <3>1. \A k \in at + 1 .. n : acts[k] \in T
      BY <1>0, <2>3
    <3>2. at + 1 \in Int /\ (IF at + 1 <= n THEN n - (at + 1) + 1 ELSE 0) = n - at
          /\ \A k \in 1 .. n - at : k \in 1 .. (n - (at + 1) + 1) /\ at + 1 + k - 1 = at + k
      BY <1>0, <2>3
    <3>3. a = SubSeq(acts, at + 1, n)
      BY DEF After, at, n
    <3> HIDE DEF a, T
    <3> QED BY <1>0, <3>1, <3>2, <3>3, SubSeqProperties
  <2> HIDE DEF a, b
  <2>6. Listed(b)
    <3>1. \A k \in 1 .. Len(b) : b[k] = acts[k] /\ k \in 1 .. Len(acts)
      BY <1>0, <2>3, <2>4 DEF n
    <3> HIDE DEF T
    <3> QED BY <2>4, <3>1, SequenceOf DEF Listed
  <2>7. Listed(a)
    <3>1. \A k \in 1 .. Len(a) : a[k] = acts[at + k] /\ at + k \in 1 .. Len(acts)
      BY <1>0, <2>3, <2>5 DEF n
    <3> HIDE DEF T
    <3> QED BY <2>5, <3>1, SequenceOf DEF Listed
  <2> DEFINE all == Sizes(acts, FullSize)
             lower == Sizes(b, FullSize)
             upper == Sizes(a, FullSize)
  <2>8. /\ all \in Seq(Nat) /\ Len(all) = n /\ lower \in Seq(Nat) /\ Len(lower) = at - 1
        /\ upper \in Seq(Nat) /\ Len(upper) = n - at
    <3> HIDE DEF all, lower, upper
    <3>1. all \in Seq(Nat) /\ Len(all) = n /\ lower \in Seq(Nat) /\ Len(lower) = Len(b)
          /\ upper \in Seq(Nat) /\ Len(upper) = Len(a)
      BY <2>6, <2>7, SizesTyped DEF all, lower, upper, n
    <3> QED BY <2>4, <2>5, <3>1
  <2>9. all[at] = 0
    BY <2>3 DEF Sizes, n
  <2>10. \A k \in 1 .. at - 1 : lower[k] = all[k]
    <3> DEFINE l == at - 1
    <3>0. \A k \in 1 .. l : k \in 1 .. n
      BY <1>0, <2>3
    <3> HIDE DEF l
    <3>1. \A k \in 1 .. l : b[k] = acts[k] /\ k \in 1 .. n /\ k \in 1 .. Len(b)
      BY <2>4, <3>0 DEF l
    <3> QED BY <3>1 DEF Sizes, n, l
  <2>11. \A k \in 1 .. n - at : upper[k] = all[at + k]
    <3>1. \A k \in 1 .. n - at : a[k] = acts[at + k] /\ at + k \in 1 .. n /\ k \in 1 .. Len(a)
      BY <1>0, <2>3, <2>5
    <3> QED BY <3>1 DEF Sizes, n
  <2> HIDE DEF all, lower, upper
  <2>12. Total(all) = Total(lower) + Total(upper)
    <3>1. at \in 1 .. Len(all) /\ Len(upper) = Len(all) - at /\ \A k \in 1 .. Len(all) - at : upper[k] = all[at + k]
      BY <2>3, <2>8, <2>11
    <3> QED BY <2>8, <2>9, <2>10, <3>1, SumsAround, ZenonT(30)
  <2> QED BY <1>0, <2>3, <2>6, <2>7, <2>12 DEF all, lower, upper, a, b, at, n
<1> QED BY <1>2, <1>3

\* Writing over bytes, or behind them, leaves bytes, and no fewer.
LEMMA OverlayTyped ==
    ASSUME NEW image \in Seq(Nat), NEW bytes \in Seq(Nat), NEW at \in 0 .. Len(image)
    PROVE  Overlay(image, at, bytes) \in Seq(Nat) /\ Len(Overlay(image, at, bytes)) >= Len(image)
<1> DEFINE l == Len(image)
           b == Len(bytes)
           m == IF at + b > l THEN at + b ELSE l
           o == Overlay(image, at, bytes)
<1>1. l \in Nat /\ b \in Nat /\ at \in Nat /\ at <= l
  BY LenProperties
<1> HIDE DEF l, b
<1>2. m \in Nat /\ m >= l
  BY <1>1
<1>3. ASSUME NEW k \in 1 .. m
      PROVE  (IF k \in (at + 1) .. (at + b) THEN bytes[k - at] ELSE image[k]) \in Nat
  <2>1. CASE k \in (at + 1) .. (at + b)
    <3>1. k - at \in 1 .. b
      BY <1>1, <2>1
    <3>2. bytes[k - at] \in Nat
      BY <3>1, ElementOfSeq DEF b
    <3> QED BY <2>1, <3>2
  <2>2. CASE k \notin (at + 1) .. (at + b)
    <3>1. k \in 1 .. l
      BY <1>1, <2>2
    <3>2. image[k] \in Nat
      BY <3>1, ElementOfSeq DEF l
    <3> QED BY <2>2, <3>2
  <2> QED BY <2>1, <2>2
<1>4. o = [k \in 1 .. m |-> IF k \in (at + 1) .. (at + b) THEN bytes[k - at] ELSE image[k]]
  BY DEF Overlay, l, b
<1> HIDE DEF m, o
<1>5. o \in [1 .. m -> Nat]
  BY <1>3, <1>4
<1>6. o \in Seq(Nat) /\ Len(o) = m
  BY <1>2, <1>5
<1> QED BY <1>2, <1>6 DEF o, l

\* The packed fields are written over and behind what is there: none of them
\* begins beyond the structure.
LEMMA LaidTyped ==
    ASSUME NEW acts, Listed(After(acts)), NEW packs \in Seq(Seq(Nat)),
           Len(packs) = Len(Fields(After(acts))), NEW at \in Nat, NEW first \in Seq(Nat),
           at + Total(Sizes(After(acts), FullSize)) <= Len(first)
    PROVE  Laid(acts, packs, at, first) \in Seq(Nat) /\ Len(Laid(acts, packs, at, first)) >= Len(first)
<1> DEFINE n == Len(packs)
           S == {s \in Seq(Nat) : Len(s) >= Len(first)}
           Extend(s, i) == Overlay(s, at + FieldOffset(After(acts), i), packs[i])
           F == [p \in S \X (1 .. n) |-> Extend(p[1], p[2])]
           Equation(f) == f = [i \in 0 .. n |-> IF i = 0 THEN first ELSE Extend(f[i - 1], i)]
           t == CHOOSE f : Equation(f)
<1>0. n \in Nat /\ first \in S
  <2>1. n \in Nat /\ Len(first) \in Nat
    BY LenProperties
  <2> QED BY <2>1
<1>1. Laid(acts, packs, at, first) = t[n]
  BY DEF Laid
<1>2. ASSUME NEW s \in S, NEW i \in 1 .. n PROVE Extend(s, i) \in S
  <2> DEFINE sizes == Sizes(Fields(After(acts)), FullSize)
             o == FieldOffset(After(acts), i)
             total == Total(Sizes(After(acts), FullSize))
             l == Len(s)
             d == Len(first)
  <2>1. sizes \in Seq(Nat) /\ Len(sizes) = n /\ Total(sizes) = total
    BY FieldsTotal
  <2>2. i - 1 \in 0 .. n /\ n \in 0 .. n /\ i - 1 <= n
    BY <1>0
  <2>3. o = Sums(sizes)[i - 1] /\ total = Sums(sizes)[n]
    BY <2>1 DEF FieldOffset, Total
  <2>4. o \in Nat /\ total \in Nat /\ o <= total
    <3> HIDE DEF sizes, o, total, n
    <3> DEFINE q == i - 1
    <3>1. sizes \in Seq(Nat) /\ q \in 0 .. Len(sizes) /\ n \in 0 .. Len(sizes) /\ q <= n
      BY <2>1, <2>2
    <3> HIDE DEF q
    <3>2. Sums(sizes)[q] \in Nat /\ Sums(sizes)[n] \in Nat /\ Sums(sizes)[q] <= Sums(sizes)[n]
      BY <3>1, SumsByNumber, SumsGrow
    <3> QED BY <2>3, <3>2 DEF q
  <2>5. l \in Nat /\ d \in Nat /\ l >= d /\ at + total <= d
    BY LenProperties
  <2>6. at + o \in 0 .. l
    <3> HIDE DEF o, total, l, d
    <3> QED BY <2>4, <2>5
  <2>7. packs[i] \in Seq(Nat)
    BY ElementOfSeq
  <2>8. Extend(s, i) \in Seq(Nat) /\ Len(Extend(s, i)) >= l
    <3>1. s \in Seq(Nat)
      OBVIOUS
    <3> DEFINE p == packs[i]
               where == at + o
    <3> HIDE DEF p, where
    <3>2. Overlay(s, where, p) \in Seq(Nat) /\ Len(Overlay(s, where, p)) >= Len(s)
      BY <2>6, <2>7, <3>1, OverlayTyped DEF p, where
    <3> QED BY <3>2 DEF p, where
  <2>9. Len(Extend(s, i)) \in Nat
    BY <2>8, LenProperties
  <2> HIDE DEF Extend, l, d
  <2>10. Len(Extend(s, i)) >= d
    BY <2>5, <2>8, <2>9
  <2> QED BY <2>8, <2>10 DEF d
<1> HIDE DEF Extend, S
<1>3. F \in [S \X (1 .. n) -> S]
  BY <1>2
<1>4. PICK f : Recursion(S, n, F, first, f)
  <2> HIDE DEF F, n
  <2> QED BY <1>0, <1>3, RecursionExists
<1>5. Equation(f)
  <2>1. ASSUME NEW i \in 0 .. n, i # 0 PROVE f[i] = Extend(f[i - 1], i)
    <3>1. i \in 1 .. n /\ i - 1 \in 0 .. n
      <4> HIDE DEF n
      <4> QED BY <1>0, <2>1
    <3> QED BY <1>4, <3>1 DEF Recursion
  <2> QED BY <1>4, <2>1 DEF Recursion
<1>6. Equation(t)
  BY <1>5
<1> HIDE DEF t
<1> HIDE DEF n
<1>7. t[0] = first /\ \A i \in 1 .. n : t[i] = Extend(t[i - 1], i)
  BY <1>0, <1>6
<1>8. \A i \in 0 .. n : t[i] \in S
  <2>1. ASSUME NEW i \in 1 .. n, t[i - 1] \in S PROVE t[i] = F[<<t[i - 1], i>>]
    BY <1>7, <2>1
  <2>2. t[0] \in S
    BY <1>0, <1>7
  <2> HIDE DEF F
  <2> QED BY <1>0, <1>3, <2>1, <2>2, RecursionTyped, Zenon
<1>9. t[n] \in S
  BY <1>0, <1>8
<1> QED BY <1>1, <1>9 DEF S

LEMMA PrefixTyped ==
    ASSUME NEW b \in Seq(Nat), NEW m \in Int, m <= Len(b)
    PROVE  SubSeq(b, 1, m) \in Seq(Nat) /\ Len(SubSeq(b, 1, m)) = IF 1 <= m THEN m ELSE 0
<1>1. \A i \in 1 .. m : b[i] \in Nat
  <2>1. \A i \in 1 .. m : i \in 1 .. Len(b)
    BY LenProperties
  <2> QED BY <2>1, ElementOfSeq
<1>2. 1 <= m => m - 1 + 1 = m
  OBVIOUS
<1> QED BY <1>1, <1>2, SubSeqProperties

LEMMA PackTyped ==
    ASSUME NEW data \in Seq(Nat)
    PROVE  Pack(data) \in Seq(Nat)
<1> DEFINE len == Len(data) - Implied
           b == ByteBase - 1
           zeroes == IF len > b THEN (len - 1) \div b ELSE 0
           low == (len - zeroes * b) % ByteBase
<1>0. ByteBase \in Nat /\ b \in Nat \ {0} /\ len \in Int /\ EndMarker \in Seq(Nat)
  <2>1. EndMarker \in Seq(0 .. (ByteBase - 1)) /\ ByteBase \in Nat /\ ByteBase > 1 /\ Implied \in Nat
    BY PackAssumption, WordAssumption
  <2>2. 0 .. (ByteBase - 1) \subseteq Nat
    OBVIOUS
  <2>3. Len(data) \in Nat
    BY LenProperties
  <2> QED BY <2>1, <2>2, <2>3, SequenceOfMore
<1> HIDE DEF b, len
<1>1. zeroes \in Nat
  <2>1. CASE len > b
    <3>1. len - 1 \in Nat
      BY <1>0, <2>1
    <3>2. ((len - 1) \div b) \in Nat
      BY <1>0, <3>1, QuotientFits
    <3> QED BY <2>1, <3>2
  <2> QED BY <2>1
<1> HIDE DEF zeroes
<1>2. low \in Nat
  <2>1. zeroes * b \in Int
    BY <1>0, <1>1
  <2> DEFINE c == zeroes * b
  <2> HIDE DEF c
  <2> DEFINE e == len - c
  <2>2. e \in Int
    BY <1>0, <2>1 DEF c
  <2> HIDE DEF e
  <2>3. ByteBase \in Nat \ {0}
    BY WordAssumption
  <2> DEFINE g == ByteBase
  <2> HIDE DEF g
  <2>4. e % g \in Nat
    BY <2>2, <2>3 DEF g
  <2> QED BY <2>4 DEF c, e, g
<1>3. PackCount(Len(data)) = Append(Copies(zeroes, 0), low)
  BY DEF PackCount, zeroes, b, len
<1> HIDE DEF low
<1>4. PackCount(Len(data)) \in Seq(Nat)
  <2>1. Copies(zeroes, 0) \in Seq(Nat)
    BY <1>1, CopiesTyped
  <2> QED BY <1>2, <1>3, <2>1, AppendProperties
<1> DEFINE one == <<0>>
           count == PackCount(Len(data))
<1>5. one \in Seq(Nat)
  OBVIOUS
<1>6. Pack(data) = one \o count \o data \o EndMarker
  BY DEF Pack
<1> HIDE DEF one, count
<1>7. one \o count \in Seq(Nat)
  BY <1>4, <1>5, ConcatProperties, Zenon DEF count
<1>8. one \o count \o data \in Seq(Nat)
  BY <1>7, ConcatProperties, Zenon
<1> QED BY <1>0, <1>6, <1>8, ConcatProperties, Zenon

\* The arguments of a transformed Send, packed one by one.
LEMMA ArgumentsPacked ==
    ASSUME NEW acts, Listed(After(acts)), NEW x \in Nat
    PROVE  LET args == Arguments(acts, x)
               packs == [i \in DOMAIN args |-> Pack(args[i])]
           IN /\ packs \in Seq(Seq(Nat)) /\ Len(packs) = Len(Fields(After(acts)))
              /\ Len(packs) \in Nat /\ DOMAIN args = 1 .. Len(packs)
              /\ PackedLength(acts, x) \in Nat /\ ArgumentsLength(acts) \in Nat
<1> DEFINE args == Arguments(acts, x)
           fs == Fields(After(acts))
           packs == [i \in DOMAIN args |-> Pack(args[i])]
           sizes == [i \in DOMAIN args |-> Len(Pack(args[i]))]
           S == Seq(Nat)
<1>1. Len(fs) \in Nat /\ DOMAIN fs = 1 .. Len(fs) /\ DOMAIN args = 1 .. Len(fs)
  <2>1. IsSequence(fs)
    BY FieldsTotal
  <2>2. DOMAIN args = DOMAIN fs
    BY DEF Arguments
  <2> HIDE DEF fs, args
  <2> QED BY <2>1, <2>2, SequenceFacts
<1>2. ASSUME NEW i \in 1 .. Len(fs) PROVE Pack(args[i]) \in S /\ Len(Pack(args[i])) \in Nat
  <2>1. WellMade(fs[i].type)
    BY FieldsTotal
  <2>2. fs[i].type.width \in Nat
    BY <2>1, WellMadeParts DEF Atom, Sized, Compound
  <2>3. args[i] = Copies(fs[i].type.width, x)
    BY <1>1 DEF Arguments, ArgumentSize
  <2> HIDE DEF args, fs
  <2>4. args[i] \in Seq(Nat)
    BY <2>2, <2>3, CopiesTyped
  <2> QED BY <2>4, PackTyped, LenProperties
<1>3. packs \in Seq(S) /\ Len(packs) = Len(fs)
  <2> DEFINE l == Len(fs)
  <2> HIDE DEF args, fs, S, l
  <2>1. l \in Nat /\ packs \in [1 .. l -> S]
    BY <1>1, <1>2 DEF l
  <2> HIDE DEF packs
  <2>2. packs \in Seq(S) /\ Len(packs) = l
    BY <2>1
  <2> QED BY <2>2 DEF l
<1>4. PackedLength(acts, x) \in Nat
  <2>1. PackedLength(acts, x) = Total(sizes)
    BY DEF PackedLength
  <2> HIDE DEF args, fs
  <2>2. sizes \in [1 .. Len(fs) -> Nat] /\ Len(fs) \in Nat
    BY <1>1, <1>2
  <2> HIDE DEF sizes
  <2>3. sizes \in Seq(Nat)
    BY <2>2
  <2> QED BY <2>1, <2>3, LenProperties, SumsByNumber DEF Total
<1>5. ArgumentsLength(acts) \in Nat
  <2> DEFINE z == Sizes(After(acts), ArgumentSize)
  <2>1. Len(After(acts)) \in Nat
    BY SequenceFacts DEF Listed
  <2>2. \A i \in 1 .. Len(After(acts)) : After(acts)[i].do = "field" => After(acts)[i].type.width \in Nat
    <3>1. \A i \in 1 .. Len(After(acts)) : After(acts)[i].do = "field" => WellMade(After(acts)[i].type)
      BY DEF Listed
    <3> QED BY <3>1, WellMadeParts DEF Atom, Sized, Compound
  <2>3. z \in [1 .. Len(After(acts)) -> Nat]
    BY <2>2 DEF Sizes, ArgumentSize
  <2> HIDE DEF z
  <2>4. z \in Seq(Nat)
    BY <2>1, <2>3
  <2>5. Total(z) \in Nat
    BY <2>4, LenProperties, SumsByNumber DEF Total
  <2> QED BY <2>5 DEF z, ArgumentsLength
<1> QED BY <1>1, <1>3, <1>4, <1>5 DEF S

\* What is written for a subpacket with a transformation, and how much is sent.
LEMMA TransformedIsBytes ==
    ASSUME NEW p, Listed(p.actions), NEW s, Listed(s.actions), NEW x \in Nat, NEW junk \in Nat,
           TransformAt(s.actions) # 0
    PROVE  /\ SendTransformed(p, s, x, junk) \in Seq(Nat)
           /\ PackedLength(s.actions, x) <= ArgumentsLength(s.actions) + PadSize =>
                 Len(SendTransformed(p, s, x, junk)) <= StructureSize(p, s)
<1> DEFINE acts == s.actions
           args == Arguments(acts, x)
           packs == [i \in DOMAIN args |-> Pack(args[i])]
           written == PackedLength(acts, x)
           previous == ArgumentsLength(acts)
           rest == ConstantLength(acts) - previous + written
           full == Total(Sizes(After(acts), FullSize))
           front == Image(p.actions, rest, x)
           middle == Image(Before(acts), written, x)
           head == front \o middle
           fields == Copies(full + PadSize, 0)
           behind == Copies(written, junk)
           memory0 == head \o fields \o behind
           laid == Laid(acts, packs, Len(head), memory0)
           m == ConstantLength(p.actions) + rest
           size == StructureSize(p, s)
<1>0. PadSize \in Nat
  BY PackAssumption
<1>1. Listed(Before(acts)) /\ Listed(After(acts)) /\ TransformAt(acts) > 0
      /\ Total(Sizes(acts, FullSize)) = Total(Sizes(Before(acts), FullSize)) + full
  <2>1. TransformAt(acts) \in 0 .. Len(acts) /\ Len(acts) \in Nat
    BY TransformSplits, SequenceFacts DEF Listed
  <2> QED BY <2>1, TransformSplits
<1>4. /\ packs \in Seq(Seq(Nat)) /\ Len(packs) = Len(Fields(After(acts)))
      /\ written \in Nat /\ previous \in Nat
  BY <1>1, ArgumentsPacked
<1>7. /\ ConstantLength(acts) \in Nat /\ ConstantLength(acts) <= Total(Sizes(acts, FullSize))
      /\ ConstantLength(p.actions) \in Nat /\ ConstantLength(p.actions) <= Total(Sizes(p.actions, FullSize))
      /\ Total(Sizes(acts, FullSize)) \in Nat /\ Total(Sizes(p.actions, FullSize)) \in Nat
      /\ full \in Nat /\ Total(Sizes(Before(acts), FullSize)) \in Nat
  <2>1. ConstantLength(acts) + 0 <= Total(Sizes(acts, FullSize))
        /\ ConstantLength(p.actions) + 0 <= Total(Sizes(p.actions, FullSize))
    BY LengthWithin
  <2>2. /\ ConstantLength(acts) \in Nat /\ ConstantLength(p.actions) \in Nat
        /\ Total(Sizes(acts, FullSize)) \in Nat /\ Total(Sizes(p.actions, FullSize)) \in Nat
        /\ full \in Nat /\ Total(Sizes(Before(acts), FullSize)) \in Nat
    BY <1>1, SizesTyped
  <2> QED BY <2>1, <2>2
<1> DEFINE c1 == ConstantLength(p.actions)
           c2 == ConstantLength(acts)
           f1 == Total(Sizes(p.actions, FullSize))
           f2 == Total(Sizes(Before(acts), FullSize))
<1>16. size = f1 + (f2 + full) + PadSize
  BY <1>1 DEF StructureSize
<1> HIDE DEF written, previous, full, size
<1>8. rest \in Int /\ m \in Int /\ m <= f1 + f2 + (full + PadSize) + written /\ full + PadSize \in Nat
      /\ (written <= previous + PadSize => m <= size) /\ size \in Nat
  <2>1. /\ c1 \in Nat /\ c2 \in Nat /\ f1 \in Nat /\ f2 \in Nat /\ full \in Nat /\ written \in Nat
        /\ previous \in Nat /\ c1 <= f1 /\ c2 <= f2 + full /\ rest = c2 - previous + written /\ m = c1 + rest
    BY <1>1, <1>4, <1>7
  <2> HIDE DEF c1, c2, f1, f2, rest, m
  <2> QED BY <1>0, <1>16, <2>1
<1> HIDE DEF rest
<1>9. front \in Seq(Nat) /\ Len(front) = f1 /\ middle \in Seq(Nat) /\ Len(middle) = f2
      /\ fields \in Seq(Nat) /\ Len(fields) = full + PadSize
      /\ behind \in Seq(Nat) /\ Len(behind) = written
  <2> HIDE DEF m
  <2>1. front \in Seq(Nat) /\ Len(front) = f1
    BY <1>8, ImageTyped
  <2>2. middle \in Seq(Nat) /\ Len(middle) = f2
    <3>1. written \in Int
      BY <1>4
    <3> QED BY <1>1, <3>1, ImageTyped
  <2>3. fields \in Seq(Nat) /\ Len(fields) = full + PadSize
    <3> DEFINE c == full + PadSize
    <3>1. c \in Nat
      BY <1>8
    <3> HIDE DEF c
    <3> QED BY <3>1, CopiesTyped DEF c
  <2>4. behind \in Seq(Nat) /\ Len(behind) = written
    BY <1>4, CopiesTyped
  <2> QED BY <2>1, <2>2, <2>3, <2>4
<1> HIDE DEF front, middle, fields, behind, f1, f2, packs
<1>10. head \in Seq(Nat) /\ Len(head) = f1 + f2
  <2>1. front \o middle \in Seq(Nat) /\ Len(front \o middle) = Len(front) + Len(middle)
    BY <1>9, ConcatProperties, Zenon
  <2> QED BY <1>9, <2>1
<1> HIDE DEF head
<1>11. memory0 \in Seq(Nat) /\ Len(memory0) = Len(head) + (full + PadSize) + written
  <2>1. head \o fields \in Seq(Nat) /\ Len(head \o fields) = Len(head) + Len(fields)
    BY <1>9, <1>10, ConcatProperties, Zenon
  <2> DEFINE hf == head \o fields
  <2> HIDE DEF hf
  <2>2. hf \o behind \in Seq(Nat) /\ Len(hf \o behind) = Len(hf) + Len(behind)
    BY <1>9, <2>1, ConcatProperties, Zenon DEF hf
  <2> QED BY <1>9, <2>1, <2>2 DEF hf
<1>12. laid \in Seq(Nat) /\ Len(laid) >= Len(memory0)
  <2> HIDE DEF memory0
  <2>1. Len(head) \in Nat /\ Len(head) + full <= Len(memory0)
    <3>1. Len(head) \in Nat
      BY <1>10, LenProperties
    <3> QED BY <1>0, <1>4, <1>7, <1>11, <3>1
  <2> QED BY <1>1, <1>4, <1>11, <2>1, LaidTyped DEF full
<1>13. m <= Len(laid)
  <2>1. Len(laid) \in Nat
    BY <1>12, LenProperties
  <2> HIDE DEF m, laid, memory0
  <2> QED BY <1>8, <1>10, <1>11, <1>12, <2>1
<1>14. SubSeq(laid, 1, m) \in Seq(Nat) /\ Len(SubSeq(laid, 1, m)) = IF 1 <= m THEN m ELSE 0
  <2> HIDE DEF m, laid
  <2> QED BY <1>8, <1>12, <1>13, PrefixTyped
<1>15. SendTransformed(p, s, x, junk) = SubSeq(laid, 1, m)
  BY DEF SendTransformed, packs, written, previous, full, rest, front, middle, head, fields, behind
<1>17. written <= previous + PadSize => Len(SubSeq(laid, 1, m)) <= size
  <2> HIDE DEF m, laid
  <2> QED BY <1>8, <1>14
<1> QED BY <1>14, <1>15, <1>17 DEF written, previous, size

\* What a generated Send writes are bytes; without a transformation they are
\* bytes of its structure.
LEMMA SentIsBytes ==
    ASSUME PacketsOK, NEW k \in DOMAIN def.packets, NEW s \in 0 .. Len(Packet(k).subpackets),
           NEW delta \in Deltas(ActionsOf(k, s)), NEW x \in Fills, NEW junk \in HeapJunk
    PROVE  LET p == Packet(k)
               sent0 == SendAny(p, s, delta, x, junk)
           IN /\ sent0 \in Seq(Nat)
              /\ s = 0 => Len(sent0) <= Total(Sizes(p.actions, FullSize))
              /\ s # 0 =>
                    /\ Listed(p.actions) /\ Listed(p.subpackets[s].actions)
                    /\ TransformAt(ActionsOf(k, s)) = 0
                       \/ PackedLength(ActionsOf(k, s), x) <= ArgumentsLength(ActionsOf(k, s)) + PadSize
                       => Len(sent0) <= StructureSize(p, p.subpackets[s])
<1> DEFINE p == Packet(k)
           pa == p.actions
<1>1. PacketOK(p)
  <2>1. k \in 1 .. Len(def.packets)
    BY SequenceFacts DEF PacketsOK
  <2> QED BY <2>1 DEF PacketsOK, Packet
<1>2. Listed(pa) /\ IsSequence(p.subpackets) /\ \A h \in 1 .. Len(p.subpackets) : Listed(p.subpackets[h].actions)
  BY <1>1 DEF PacketOK
<1>3. x \in Nat /\ junk \in Nat
  BY DataAssumption, WordAssumption DEF Byte
<1>4. CASE s = 0
  <2> DEFINE image == Image(pa, delta, x)
             m == ConstantLength(pa) + delta
  <2>1. delta \in Nat /\ m <= Total(Sizes(pa, FullSize)) /\ ConstantLength(pa) \in Nat
    <3>1. delta \in Deltas(pa)
      BY <1>4 DEF ActionsOf
    <3> QED BY <1>2, <3>1, LengthWithin, SizesTyped
  <2>2. image \in Seq(Nat) /\ Len(image) = Total(Sizes(pa, FullSize))
    <3>1. delta \in Int
      BY <2>1
    <3> QED BY <1>2, <1>3, <3>1, ImageTyped
  <2>3. SubSeq(image, 1, m) \in Seq(Nat) /\ Len(SubSeq(image, 1, m)) = m
    <3>1. m \in Nat /\ m \in Int /\ m <= Len(image)
      BY <2>1, <2>2
    <3>2. (IF 1 <= m THEN m ELSE 0) = m
      <4> HIDE DEF m
      <4> QED BY <3>1
    <3> HIDE DEF m, image
    <3> QED BY <2>2, <3>1, <3>2, PrefixTyped
  <2>4. SendAny(Packet(k), s, delta, x, junk) = SubSeq(image, 1, m)
    BY <1>4 DEF SendAny, SendPacket
  <2> HIDE DEF m, image
  <2> QED BY <1>4, <2>1, <2>3, <2>4 DEF m
<1>5. CASE s # 0
  <2> DEFINE q == p.subpackets[s]
             qa == q.actions
  <2>1. Listed(qa) /\ ActionsOf(k, s) = qa
    <3>1. s \in 1 .. Len(p.subpackets)
      BY <1>2, <1>5, SequenceFacts
    <3> QED BY <1>2, <1>5, <3>1 DEF ActionsOf, Subpacket
  <2>2. CASE TransformAt(qa) = 0
    <3> DEFINE rest == ConstantLength(qa) + delta
               front == Image(pa, rest, x)
               behind == Image(qa, 0, x)
               m == ConstantLength(pa) + rest
               all == front \o behind
               f1 == Total(Sizes(pa, FullSize))
               f2 == Total(Sizes(qa, FullSize))
               c1 == ConstantLength(pa)
    <3>1. delta \in Nat /\ rest <= f2 /\ ConstantLength(qa) \in Nat /\ f2 \in Nat
      <4>1. delta \in Deltas(qa)
        BY <2>1
      <4> QED BY <2>1, <4>1, LengthWithin, SizesTyped
    <3>2. c1 \in Nat /\ c1 + 0 <= f1 /\ f1 \in Nat
      BY <1>2, LengthWithin, SizesTyped
    <3>3. rest \in Nat
      BY <3>1
    <3>4. front \in Seq(Nat) /\ Len(front) = f1 /\ behind \in Seq(Nat) /\ Len(behind) = f2
      <4> HIDE DEF rest
      <4>1. rest \in Int /\ 0 \in Int
        BY <3>3
      <4> QED BY <1>2, <1>3, <2>1, <4>1, ImageTyped
    <3>5. all \in Seq(Nat) /\ Len(all) = f1 + f2
      <4> HIDE DEF front, behind, f1, f2
      <4>1. all \in Seq(Nat) /\ Len(all) = Len(front) + Len(behind)
        BY <3>4, ConcatProperties, Zenon
      <4> QED BY <3>4, <4>1
    <3>6. m \in Int /\ m <= Len(all) /\ m <= f1 + f2 /\ f1 + f2 \in Nat
      <4> HIDE DEF rest, all, f1, f2, c1
      <4>1. m = c1 + rest
        BY DEF c1
      <4> QED BY <3>1, <3>2, <3>3, <3>5, <4>1
    <3>7. SubSeq(all, 1, m) \in Seq(Nat) /\ Len(SubSeq(all, 1, m)) <= f1 + f2
      <4> HIDE DEF m, all, f1, f2
      <4>1. SubSeq(all, 1, m) \in Seq(Nat) /\ Len(SubSeq(all, 1, m)) = IF 1 <= m THEN m ELSE 0
        BY <3>5, <3>6, PrefixTyped
      <4> QED BY <3>6, <4>1
    <3>8. SendAny(Packet(k), s, delta, x, junk) = SubSeq(all, 1, m)
      BY <1>5, <2>2 DEF SendAny, SendSubpacket
    <3>9. StructureSize(p, q) = f1 + f2
      BY <2>2, <3>6 DEF StructureSize
    <3> QED BY <1>2, <1>5, <2>1, <3>7, <3>8, <3>9
  <2>3. CASE TransformAt(qa) # 0
    <3> DEFINE sent0 == SendTransformed(p, q, x, junk)
    <3>1. /\ sent0 \in Seq(Nat)
          /\ PackedLength(qa, x) <= ArgumentsLength(qa) + PadSize => Len(sent0) <= StructureSize(p, q)
      BY <1>2, <1>3, <2>1, <2>3, TransformedIsBytes
    <3>2. SendAny(Packet(k), s, delta, x, junk) = sent0
      BY <1>5, <2>3 DEF SendAny
    <3> HIDE DEF sent0
    <3> QED BY <1>2, <1>5, <2>1, <2>3, <3>1, <3>2
  <2> QED BY <2>2, <2>3
<1> QED BY <1>4, <1>5

\* Nothing is written or sent beyond the structure by a Send that packs nothing:
\* the fields, all but the last of one size, and what a program may add to the
\* length lie in it.  A Send that packs stays in it as long as packing adds no
\* more than the pad to the arguments, and writes beyond it for no field whose
\* packed bytes exceed the field by no more than the pad.
THEOREM SendStaysInStructure ==
    ASSUME PacketsOK, NEW k \in DOMAIN def.packets, NEW s \in 0 .. Len(Packet(k).subpackets),
           NEW delta \in Deltas(ActionsOf(k, s)), NEW x \in Fills, NEW junk \in HeapJunk
    PROVE  LET p == Packet(k)
               q == p.subpackets[s]
               acts == ActionsOf(k, s)
               length == Len(SendAny(p, s, delta, x, junk))
               header == Total(Sizes(p.actions, FullSize))
               head == header + Total(Sizes(Before(acts), FullSize))
               pack(i) == Pack(Arguments(acts, x)[i])
           IN /\ s = 0 => length <= header
              /\ s # 0 /\ TransformAt(acts) = 0 => length <= StructureSize(p, q)
              /\ s # 0 /\ TransformAt(acts) # 0 =>
                    /\ PackedLength(acts, x) <= ArgumentsLength(acts) + PadSize => length <= StructureSize(p, q)
                    /\ \A i \in DOMAIN Arguments(acts, x) :
                          Len(pack(i)) <= FullSize(Fields(After(acts))[i].type) + PadSize =>
                             head + FieldOffset(After(acts), i) + Len(pack(i)) <= StructureSize(p, q)
<1> DEFINE p == Packet(k)
           q == p.subpackets[s]
           acts == ActionsOf(k, s)
           head == Total(Sizes(p.actions, FullSize)) + Total(Sizes(Before(acts), FullSize))
           pack(i) == Pack(Arguments(acts, x)[i])
<1>1. LET length == Len(SendAny(p, s, delta, x, junk))
      IN /\ s = 0 => length <= Total(Sizes(p.actions, FullSize))
         /\ s # 0 =>
               /\ Listed(p.actions) /\ Listed(q.actions)
               /\ TransformAt(acts) = 0
                  \/ PackedLength(acts, x) <= ArgumentsLength(acts) + PadSize
                  => length <= StructureSize(p, q)
  BY SentIsBytes
<1>2. ASSUME s # 0, TransformAt(acts) # 0, NEW i \in DOMAIN Arguments(acts, x),
             Len(pack(i)) <= FullSize(Fields(After(acts))[i].type) + PadSize
      PROVE  head + FieldOffset(After(acts), i) + Len(pack(i)) <= StructureSize(p, q)
  <2> DEFINE fs == Fields(After(acts))
             sizes == Sizes(fs, FullSize)
             n == Len(fs)
             full == Total(Sizes(After(acts), FullSize))
             f1 == Total(Sizes(p.actions, FullSize))
             f2 == Total(Sizes(Before(acts), FullSize))
             w == FullSize(fs[i].type)
             o == FieldOffset(After(acts), i)
             l == Len(pack(i))
  <2>1. Listed(p.actions) /\ Listed(acts) /\ acts = q.actions
    BY <1>1, <1>2 DEF ActionsOf, Subpacket
  <2>2. Listed(Before(acts)) /\ Listed(After(acts)) /\ Total(Sizes(acts, FullSize)) = f2 + full
    BY <1>2, <2>1, TransformSplits
  <2>3. sizes \in Seq(Nat) /\ Len(sizes) = n /\ Total(sizes) = full /\ IsSequence(fs)
        /\ \A j \in 1 .. n : fs[j].do = "field"
    BY <2>2, FieldsTotal
  <2>4. n \in Nat /\ i \in 1 .. n
    BY <1>2, <2>3, SequenceFacts DEF Arguments
  <2>5. sizes[i] = w
    BY <2>3, <2>4 DEF Sizes
  <2>6. o = Sums(sizes)[i - 1] /\ full = Sums(sizes)[n]
    BY <2>3 DEF FieldOffset, Total
  <2> HIDE DEF fs, sizes, n, full, w, o
  <2>7. o \in Nat /\ w \in Nat /\ full \in Nat /\ o + w <= full
    <3>0. /\ Sums(sizes) \in [0 .. Len(sizes) -> Nat]
          /\ \A j \in 1 .. Len(sizes) : Sums(sizes)[j] = Sums(sizes)[j - 1] + sizes[j]
      BY <2>3, SumsByNumber
    <3>1. /\ Sums(sizes) \in [0 .. n -> Nat] /\ Sums(sizes)[i] = Sums(sizes)[i - 1] + sizes[i]
      BY <2>3, <2>4, <3>0
    <3>2. i - 1 \in 0 .. n /\ i \in 0 .. n /\ n \in 0 .. n /\ i <= n
      BY <2>4
    <3>3. Sums(sizes)[i] <= Sums(sizes)[n]
      BY <2>3, <3>2, SumsGrow
    <3>4. sizes[i] \in Nat
      BY <2>3, <2>4, ElementOfSeq
    <3> QED BY <2>5, <2>6, <3>1, <3>2, <3>3, <3>4
  <2>8. l \in Nat
    <3>1. x \in Nat
      BY DataAssumption, WordAssumption DEF Byte
    <3>2. [j \in DOMAIN Arguments(acts, x) |-> pack(j)] \in Seq(Seq(Nat))
          /\ Len([j \in DOMAIN Arguments(acts, x) |-> pack(j)]) = n
      BY <2>2, <3>1, ArgumentsPacked DEF fs, n
    <3>3. [j \in DOMAIN Arguments(acts, x) |-> pack(j)][i] \in Seq(Nat)
      BY <2>4, <3>2, ElementOfSeq
    <3>4. pack(i) \in Seq(Nat)
      BY <1>2, <3>3
    <3> QED BY <3>4, LenProperties
  <2>9. f1 \in Nat /\ f2 \in Nat /\ PadSize \in Nat
    BY <2>1, <2>2, SizesTyped, PackAssumption
  <2>10. StructureSize(p, q) = f1 + (f2 + full) + PadSize
    BY <1>2, <2>1, <2>2 DEF StructureSize
  <2>11. l <= w + PadSize /\ head = f1 + f2
    BY <1>2 DEF w, fs
  <2> HIDE DEF f1, f2, l, head
  <2>12. head + o + l <= f1 + (f2 + full) + PadSize
    BY <2>7, <2>8, <2>9, <2>11
  <2> QED BY <2>10, <2>12 DEF o, l
<1> HIDE DEF p, acts, q
<1> QED BY <1>1, <1>2 DEF p, acts, q
-----------------------------------------------------------------------------
(* Where the decoder is.                                                   *)

Control ==
    /\ pc \in {"idle", "packets", "struct", "subpackets", "verdict"}
    /\ load # "loaded" => pc = "idle" /\ pkt = 0 /\ result = 0 /\ last = <<>> /\ memory = <<>>
    /\ payload \in Seq(Nat) /\ start = [buf |-> 0, pos |-> 0, left |-> Len(payload)]
    /\ sub \in Nat /\ pkt \in 0 .. Len(def.packets) /\ result \in 0 .. Len(def.packets)
    /\ pc # "idle" => result = 0
    /\ pc \in {"struct", "subpackets", "verdict"} =>
          pkt \in 1 .. Len(def.packets) /\ pkt \in DOMAIN last /\ sub <= Len(Packet(pkt).subpackets)
    /\ pc \in {"struct", "subpackets"} => last[pkt] = 0
    /\ \A k \in DOMAIN last :
          k \in 1 .. Len(def.packets) /\ last[k] \in 0 .. Len(Packet(k).subpackets)
    /\ result # 0 => result \in DOMAIN last

LEMMA ControlStart ==
    ASSUME Init, PacketsOK
    PROVE  Control
BY DEF Init, Control, LoaderInit, PacketsOK

LEMMA ControlStep ==
    ASSUME PacketsOK, Control, [Next]_vars, PacketsOK'
    PROVE  Control'
<1>0. \A k \in 1 .. Len(def.packets) : Len(Packet(k).subpackets) \in Nat
  BY SequenceFacts DEF PacketsOK, PacketOK, Packet
<1>01. Len(def.packets) \in Nat /\ Len(def.packets)' \in Nat
  BY SequenceFacts DEF PacketsOK
<1>1. CASE Loading
  BY <1>0, <1>01, <1>1 DEF Loading, Load, LoadElement, Refuse, Loaded, decodeVars, tryVars, Control
<1>2. ASSUME NEW bytes \in Seq(Nat), NEW from, Process(bytes, from) PROVE Control'
  BY <1>0, <1>01, <1>2 DEF Process, Control, loaderVars, Packet
<1>3. CASE Receive
  <2>1. PICK bytes \in Payloads : Process(bytes, <<0, 0>>)
    BY <1>3 DEF Receive
  <2>2. Byte \subseteq Nat
    BY WordAssumption DEF Byte
  <2>3. bytes \in Seq(Nat)
    <3>1. bytes \in Seq(Byte)
      BY DataAssumption
    <3> QED BY <2>2, <3>1, SequenceOfMore
  <2> QED BY <1>2, <2>1, <2>3
<1>4. CASE Send
  <2>1. PICK k \in DOMAIN def.packets : \E s \in 0 .. Len(Packet(k).subpackets) :
          \E delta \in Deltas(ActionsOf(k, s)), x \in Fills, junk \in HeapJunk :
              Process(SendAny(Packet(k), s, delta, x, junk), <<k, s>>)
    BY <1>4 DEF Send
  <2>2. PICK s \in 0 .. Len(Packet(k).subpackets) :
          \E delta \in Deltas(ActionsOf(k, s)), x \in Fills, junk \in HeapJunk :
              Process(SendAny(Packet(k), s, delta, x, junk), <<k, s>>)
    BY <2>1
  <2>3. PICK delta \in Deltas(ActionsOf(k, s)), x \in Fills, junk \in HeapJunk :
              Process(SendAny(Packet(k), s, delta, x, junk), <<k, s>>)
    BY <2>2
  <2>4. SendAny(Packet(k), s, delta, x, junk) \in Seq(Nat)
    BY <2>3, SentIsBytes
  <2> QED BY <1>2, <2>3, <2>4
<1>5. CASE TryPacket
  BY <1>0, <1>01, <1>5, SMTT(30) DEF TryPacket, Control, Put, loaderVars, Packet
<1>6. CASE NoPacket \/ NoSub
  BY <1>0, <1>01, <1>6 DEF NoPacket, NoSub, Control, loaderVars, tryVars, Packet
<1>7. CASE HeaderDone
  BY <1>0, <1>01, <1>7 DEF HeaderDone, Filled, Control, loaderVars, Packet
<1>8. CASE TrySub
  BY <1>0, <1>01, <1>8 DEF TrySub, Control, loaderVars, Packet
<1>9. CASE SubDone
  BY <1>0, <1>01, <1>9 DEF SubDone, Filled, Control, Put, loaderVars, Packet
<1>10. CASE Verdict
  BY <1>0, <1>01, <1>10 DEF Verdict, Control, loaderVars, Packet
<1>11. CASE FillField \/ EnterStruct \/ LeaveStruct \/ Transform \/ Annotate
  <2>1. /\ UNCHANGED <<loaderVars, payload, pc, pkt, sub, start, last, result>>
        /\ load = "loaded"
    BY <1>11 DEF FillField, EnterStruct, LeaveStruct, Transform, Annotate, Running
  <2> QED BY <2>1 DEF Control, loaderVars, Packet
<1>12. CASE UNCHANGED vars
  BY <1>12 DEF Control, vars, decodeVars, tryVars, loaderVars, Packet
<1> QED BY <1>1, <1>3, <1>4, <1>5, <1>6, <1>7, <1>8, <1>9, <1>10, <1>11, <1>12 DEF Next, Decode
-----------------------------------------------------------------------------
(* The Fill functions under way.                                           *)

States == [buf : {0, 1}, pos : Nat, left : Nat]

IsFrame(f) ==
    /\ f = [path |-> f.path, acts |-> f.acts, i |-> f.i, state |-> f.state, left0 |-> f.left0]
    /\ f.path \in Seq(Nat) /\ Listed(f.acts) /\ f.i \in 1 .. Len(f.acts) + 1
    /\ f.state \in States /\ f.left0 \in Nat

\* As many bytes follow as the state says are left.
Inside(st) == st.pos + st.left = Len(Data(st.buf))

\* The outermost one is that of a packet or a subpacket; its data is the text
\* once a transformation is behind it.
Outermost ==
    LET f == stack[1] IN
    /\ f.path = <<pkt, sub>> /\ f.acts = ActionsOf(pkt, sub)
    /\ f.left0 = Len(payload) - (IF sub = 0 THEN 0 ELSE Packet(pkt).header)
    /\ f.state.buf = 0 => text = <<>> /\ f.state.left <= f.left0
    /\ f.state.buf = 1 => \E a \in 1 .. f.i - 1 : f.acts[a].do = "transformation"

\* The others are those of structures, at the fields the ones around have come to.
Nested(k) ==
    LET f == stack[k]
        g == stack[k - 1]
    IN /\ g.i \in 1 .. Len(g.acts) /\ g.acts[g.i].do = "field" /\ IsStruct(g.acts[g.i].type)
       /\ f.path = Append(g.path, g.i) /\ f.acts = g.acts[g.i].type.actions
       /\ f.left0 = g.state.left /\ f.state.left <= f.left0 /\ f.state.buf = g.state.buf

Frames ==
    /\ IsSequence(stack) /\ text \in Seq(Nat)
    /\ pc = "struct" <=> Len(stack) > 0
    /\ \A k \in 1 .. Len(stack) : IsFrame(stack[k]) /\ Inside(stack[k].state)
    /\ pc = "struct" => Outermost
    /\ \A k \in 2 .. Len(stack) : Nested(k)
    /\ pc = "struct" /\ sub > 0 => processed = Packet(pkt).header /\ processed <= Len(payload)
    /\ pc = "subpackets" =>
          /\ text = <<>> /\ processed \in 0 .. Len(payload)
          /\ Packet(pkt).subpackets # <<>> => processed = Packet(pkt).header

-----------------------------------------------------------------------------
(* What the steps within a structure do, in so many words.                 *)

Forward(f, st) == [path |-> f.path, acts |-> f.acts, i |-> f.i + 1, state |-> st, left0 |-> f.left0]
Stopped(f) ==
    [path |-> f.path, acts |-> f.acts, i |-> Len(f.acts) + 1, state |-> f.state, left0 |-> f.left0]
Further(st, r) == [buf |-> st.buf, pos |-> st.pos + r, left |-> st.left - r]

\* All frames but the last stay, and the last one is now f.
Turned(depth, f) ==
    /\ IsSequence(stack') /\ Len(stack') = depth /\ stack'[depth] = f
    /\ \A k \in 1 .. depth - 1 : stack'[k] = stack[k]

Still ==
    /\ load = "loaded" /\ pc = "struct"
    /\ UNCHANGED <<loaderVars, payload, sent, pc, pkt, sub, start, last, processed, result>>

AtAction(do) == Top.i \in 1 .. Len(Top.acts) /\ Action.do = do

Got == Entries(Action.type, State.left)
Reading == Read(Action.type, Data(State.buf), State.pos, Got, Old(Path, Action.type))

Takes ==
    /\ AtAction("field") /\ Atom(Action.type) /\ Got # 0
    /\ Acceptable(Action.type, Reading, State.left)
    /\ Action.type.width * Got \in 1 .. State.left
    /\ Turned(Len(stack), Forward(Top, Further(State, Action.type.width * Got)))
    /\ spans' = Append(spans, Span(Action.type.width * Got))
    /\ memory' = Put(memory, Path, Reading)
    /\ UNCHANGED <<text, storeVars>>

Fails ==
    /\ Top.i \in 1 .. Len(Top.acts) /\ Turned(Len(stack), Stopped(Top))
    /\ \/ memory' = memory
       \/ /\ AtAction("field") /\ Atom(Action.type) /\ Got # 0
          /\ memory' = Put(memory, Path, Reading)
    /\ UNCHANGED <<spans, text, storeVars>>

Unpacks ==
    /\ AtAction("transformation")
    /\ text' \in Seq(Nat)
    /\ Turned(Len(stack), Forward(Top, [buf |-> 1, pos |-> 0, left |-> Len(text')]))
    /\ spans' = Append(spans, Span(State.left))
    /\ UNCHANGED <<memory, storeVars>>

Notes ==
    /\ AtAction("annotation") /\ Turned(Len(stack), Forward(Top, State))
    /\ UNCHANGED <<spans, text, memory>>

Enters ==
    /\ AtAction("field") /\ Compound(Action.type) /\ Listed(Action.type.actions)
    /\ Turned(Len(stack) + 1, [path |-> Path, acts |-> Action.type.actions, i |-> 1,
                               state |-> State, left0 |-> State.left])
    /\ UNCHANGED <<spans, text, memory, storeVars>>

Outer == stack[Len(stack) - 1]
Returned == Top.left0 - State.left

Exits ==
    /\ Len(stack) > 1 /\ Top.i = Len(Top.acts) + 1
    /\ Turned(Len(stack) - 1, IF Returned > 0 THEN Forward(Outer, Further(Outer.state, Returned))
                              ELSE Stopped(Outer))
    /\ UNCHANGED <<spans, text, memory, storeVars>>

LEMMA TopFacts ==
    ASSUME Frames, pc = "struct"
    PROVE  /\ Len(stack) \in Nat /\ Len(stack) > 0 /\ Top = stack[Len(stack)]
           /\ IsFrame(Top) /\ Inside(State) /\ Len(Top.acts) \in Nat
           /\ State.buf \in {0, 1} /\ State.pos \in Nat /\ State.left \in Nat
           /\ ~Ended => Top.i \in 1 .. Len(Top.acts)
           /\ Ended => Top.i = Len(Top.acts) + 1
<1>1. Len(stack) \in Nat /\ Len(stack) > 0 /\ Top = stack[Len(stack)]
  BY SequenceFacts DEF Frames, Top
<1>2. IsFrame(Top) /\ Inside(State)
  BY <1>1 DEF Frames, State
<1>3. Len(Top.acts) \in Nat
  BY <1>2, SequenceFacts DEF IsFrame, Listed
<1>4. State.buf \in {0, 1} /\ State.pos \in Nat /\ State.left \in Nat
  BY <1>2 DEF IsFrame, States, State
<1>5. Top.i \in 1 .. Len(Top.acts) + 1
  BY <1>2 DEF IsFrame
<1> QED BY <1>1, <1>2, <1>3, <1>4, <1>5 DEF Ended

LEMMA FramesMove ==
    ASSUME NEW f, IsFrame(f)
    PROVE  /\ \A st : Onward(f, st) = Forward(f, st)
           /\ Broken(f) = Stopped(f)
<1>1. f = [path |-> f.path, acts |-> f.acts, i |-> f.i, state |-> f.state, left0 |-> f.left0]
  BY DEF IsFrame
<1> DEFINE p == f.path  a == f.acts  j == f.i  s == f.state  l == f.left0
<1>2. f = [path |-> p, acts |-> a, i |-> j, state |-> s, left0 |-> l]
  BY <1>1
<1> HIDE DEF p, a, j, s, l
<1>3. ASSUME NEW st
      PROVE  Onward(f, st) = [path |-> p, acts |-> a, i |-> j + 1, state |-> st, left0 |-> l]
  <2>1. Onward(f, st) = [[f EXCEPT !.i = f.i + 1] EXCEPT !.state = st]
    BY DEF Onward
  <2>2. f.i = j
    BY <1>2
  <2>3. [f EXCEPT !.i = j + 1] = [path |-> p, acts |-> a, i |-> j + 1, state |-> s, left0 |-> l]
    BY <1>2
  <2> QED BY <2>1, <2>2, <2>3
<1>4. Broken(f) = [path |-> p, acts |-> a, i |-> Len(a) + 1, state |-> s, left0 |-> l]
  BY <1>2 DEF Broken
<1> QED BY <1>3, <1>4 DEF Forward, Stopped, p, a, j, s, l

LEMMA StatesMove ==
    ASSUME NEW st \in States, NEW r
    PROVE  Moved(st, r) = Further(st, r)
<1>1. Moved(st, r) = [[st EXCEPT !.pos = st.pos + r] EXCEPT !.left = st.left - r]
  BY DEF Moved
<1>2. st = [buf |-> st.buf, pos |-> st.pos, left |-> st.left]
  BY DEF States
<1>3. [st EXCEPT !.pos = st.pos + r] = [buf |-> st.buf, pos |-> st.pos + r, left |-> st.left]
  BY <1>2
<1> QED BY <1>1, <1>3 DEF Further

LEMMA TurnedByReplace ==
    ASSUME Frames, pc = "struct", NEW f, Replace(f)
    PROVE  Turned(Len(stack), f)
<1> DEFINE n == Len(stack)  s == [stack EXCEPT ![n] = f]
<1>1. IsSequence(stack) /\ n \in Nat /\ n \in 1 .. n
  BY TopFacts DEF Frames
<1>2. stack' = s
  BY DEF Replace
<1>3. IsSequence(s) /\ Len(s) = n /\ s[n] = f /\ \A k \in 1 .. n : k # n => s[k] = stack[k]
  BY <1>1, SequenceReplace
<1> HIDE DEF s
<1> QED BY <1>1, <1>2, <1>3 DEF Turned

LEMMA TakesOrFails ==
    ASSUME Frames, FillField
    PROVE  Still /\ (Takes \/ Fails)
<1> DEFINE t == Action.type
<1>1. pc = "struct" /\ ~Ended /\ Action.do = "field" /\ ~IsStruct(t)
  BY DEF FillField, Running
<1>2. AtAction("field") /\ WellMade(t) /\ State.left \in Nat
  BY <1>1, TopFacts DEF AtAction, IsFrame, Listed, Action
<1>3. Atom(t)
  BY <1>1, <1>2, WellMadeParts DEF Compound
<1>4. Still
  BY DEF Still, FillField, Running
<1>5. t.width \in Nat /\ Got \in Nat /\ t.width * Got \in 0 .. State.left
  <2>1. Sized(t)
    BY <1>3 DEF Atom
  <2>2. t.width \in Nat /\ Got \in Nat /\ t.width * Got <= State.left
    BY <1>2, <2>1, EntriesFit DEF Got, Sized
  <2> QED BY <1>2, <2>2
<1>6. IsFrame(Top)
  BY <1>1, TopFacts
<1> DEFINE r == IF Got = 0 THEN 0 ELSE Taken(t, Reading, State.left)
<1>7. /\ memory' = IF Got = 0 THEN memory ELSE Put(memory, Path, Reading)
      /\ IF r > 0
         THEN Replace(Onward(Top, Moved(State, r))) /\ spans' = Append(spans, Span(r))
         ELSE Replace(Broken(Top)) /\ UNCHANGED spans
      /\ UNCHANGED <<text, storeVars>>
  BY DEF FillField, Got, Reading, Cell
<1>8. CASE r > 0
  <2>1. Got # 0 /\ Acceptable(t, Reading, State.left) /\ r = t.width * Got
    BY <1>5, <1>8 DEF Taken, Got
  <2>2. Onward(Top, Moved(State, r)) = Forward(Top, Further(State, r))
    <3>1. State \in States
      BY <1>6 DEF IsFrame, State
    <3> HIDE DEF r
    <3> QED BY <1>6, <3>1, FramesMove, StatesMove
  <2>3. Turned(Len(stack), Forward(Top, Further(State, r)))
    BY <1>1, <1>7, <1>8, <2>2, TurnedByReplace
  <2>4. r \in 1 .. State.left
    BY <1>2, <1>5, <1>8, <2>1
  <2> HIDE DEF r
  <2> QED BY <1>2, <1>3, <1>4, <1>7, <1>8, <2>1, <2>3, <2>4 DEF Takes
<1>9. CASE ~(r > 0)
  <2>1. Broken(Top) = Stopped(Top)
    BY <1>6, FramesMove
  <2>2. Turned(Len(stack), Stopped(Top))
    BY <1>1, <1>7, <1>9, <2>1, TurnedByReplace
  <2> HIDE DEF r
  <2> QED BY <1>2, <1>3, <1>4, <1>7, <1>9, <2>2 DEF Fails, AtAction
<1> QED BY <1>8, <1>9

LEMMA UnpackedIsBytes ==
    ASSUME NEW bytes, NEW t \in Unpacked(bytes)
    PROVE  t \in Seq(Nat)
<1>0. Byte \subseteq Nat
  BY WordAssumption DEF Byte
<1>1. CASE bytes = <<>>
  <2>1. PICK x \in HeapJunk : t = Copies(BufferSize, x)
    BY <1>1 DEF Unpacked
  <2>2. x \in Nat /\ BufferSize \in Nat
    BY <1>0, DataAssumption
  <2> QED BY <2>1, <2>2 DEF Copies
<1>2. CASE bytes # <<>>
  <2>1. bytes \in DOMAIN Texts /\ t = Texts[bytes]
    BY <1>2 DEF Unpacked
  <2>2. t \in Seq(Byte)
    BY <2>1, DataAssumption
  <2> QED BY <1>0, <2>2, SequenceOfMore
<1> QED BY <1>1, <1>2

LEMMA UnpacksOrFails ==
    ASSUME Frames, Transform
    PROVE  Still /\ (Unpacks \/ Fails)
<1>1. pc = "struct" /\ ~Ended /\ Action.do = "transformation"
  BY DEF Transform, Running
<1>2. AtAction("transformation") /\ IsFrame(Top)
  BY <1>1, TopFacts DEF AtAction
<1>3. Still /\ UNCHANGED <<memory, storeVars>>
  BY DEF Still, Transform, Running
<1>4. CASE Unpacked(Packing) = {}
  <2>1. Replace(Broken(Top)) /\ UNCHANGED <<text, spans>>
    BY <1>4 DEF Transform
  <2>2. Turned(Len(stack), Stopped(Top))
    BY <1>1, <1>2, <2>1, FramesMove, TurnedByReplace
  <2> QED BY <1>2, <1>3, <2>1, <2>2 DEF Fails, AtAction
<1>5. CASE Unpacked(Packing) # {}
  <2> DEFINE st == [buf |-> 1, pos |-> 0, left |-> Len(text')]
  <2>1. text' \in Unpacked(Packing) /\ Replace(Onward(Top, st)) /\ spans' = Append(spans, Span(State.left))
    BY <1>5 DEF Transform
  <2> HIDE DEF st
  <2>2. Turned(Len(stack), Forward(Top, st))
    BY <1>1, <1>2, <2>1, FramesMove, TurnedByReplace
  <2>3. text' \in Seq(Nat)
    BY <2>1, UnpackedIsBytes
  <2> QED BY <1>2, <1>3, <2>1, <2>2, <2>3 DEF Unpacks, st
<1> QED BY <1>4, <1>5

LEMMA AnnotateNotes ==
    ASSUME Frames, Annotate
    PROVE  Still /\ Notes
<1>1. pc = "struct" /\ ~Ended /\ Action.do = "annotation" /\ Replace(Onward(Top, State))
  BY DEF Annotate, Running
<1>2. AtAction("annotation") /\ IsFrame(Top)
  BY <1>1, TopFacts DEF AtAction
<1>3. Still /\ UNCHANGED <<spans, text, memory>>
  BY DEF Still, Annotate, Running
<1>4. Turned(Len(stack), Forward(Top, State))
  BY <1>1, <1>2, FramesMove, TurnedByReplace
<1> QED BY <1>2, <1>3, <1>4 DEF Notes

LEMMA EnterStructEnters ==
    ASSUME Frames, EnterStruct
    PROVE  Still /\ Enters
<1> DEFINE f == [path |-> Path, acts |-> Action.type.actions, i |-> 1, state |-> State,
                 left0 |-> State.left]
<1>1. /\ pc = "struct" /\ ~Ended /\ Action.do = "field" /\ IsStruct(Action.type)
      /\ stack' = Append(stack, f)
  BY DEF EnterStruct, Running, Frame
<1> HIDE DEF f
<1>2. AtAction("field") /\ WellMade(Action.type)
  BY <1>1, TopFacts DEF AtAction, IsFrame, Listed, Action
<1>3. Compound(Action.type) /\ Listed(Action.type.actions)
  BY <1>1, <1>2, WellMadeParts DEF Atom, Sized
<1>4. Still /\ UNCHANGED <<spans, text, memory, storeVars>>
  BY DEF Still, EnterStruct, Running
<1>5. Turned(Len(stack) + 1, f)
  <2>1. IsSequence(stack) /\ Len(stack) \in Nat
    BY <1>1, TopFacts DEF Frames
  <2> QED BY <1>1, <2>1, SequenceAppend DEF Turned
<1> QED BY <1>2, <1>3, <1>4, <1>5 DEF Enters, f

LEMMA LeaveStructExits ==
    ASSUME Frames, LeaveStruct
    PROVE  Still /\ Exits
<1> DEFINE depth == Len(stack) - 1
           f == IF Returned > 0 THEN Onward(Outer, Moved(Outer.state, Returned)) ELSE Broken(Outer)
           s == [k \in 1 .. depth |-> IF k < depth THEN stack[k] ELSE f]
<1>1. pc = "struct" /\ Ended /\ Len(stack) > 1 /\ stack' = s
  BY DEF LeaveStruct, Outer, Returned
<1>2. Len(stack) \in Nat /\ Top.i = Len(Top.acts) + 1 /\ depth \in Nat /\ depth \in 1 .. depth
      /\ depth \in 1 .. Len(stack)
  BY <1>1, TopFacts
<1>3. Still /\ UNCHANGED <<spans, text, memory, storeVars>>
  BY DEF Still, LeaveStruct
<1>4. IsFrame(Outer)
  BY <1>2 DEF Outer, Frames
<1>5. f = IF Returned > 0 THEN Forward(Outer, Further(Outer.state, Returned)) ELSE Stopped(Outer)
  <2>1. Outer.state \in States
    BY <1>4 DEF IsFrame
  <2> QED BY <1>4, <2>1, FramesMove, StatesMove
<1> HIDE DEF f
<1>6. IsSequence(s) /\ Len(s) = depth /\ s[depth] = f /\ \A k \in 1 .. depth - 1 : s[k] = stack[k]
  <2>1. DOMAIN s = 1 .. depth /\ s = [k \in 1 .. depth |-> s[k]]
    OBVIOUS
  <2>2. s[depth] = f /\ \A k \in 1 .. depth - 1 : s[k] = stack[k]
    BY <1>2
  <2> HIDE DEF s, depth
  <2>3. IsSequence(s) /\ Len(s) = depth
    BY <1>2, <2>1, SequenceMade
  <2> QED BY <2>2, <2>3
<1>7. Turned(depth, f)
  <2> HIDE DEF s, depth
  <2> QED BY <1>1, <1>6 DEF Turned
<1> QED BY <1>1, <1>2, <1>3, <1>5, <1>7 DEF Exits

InStruct == FillField \/ EnterStruct \/ LeaveStruct \/ Transform \/ Annotate

LEMMA StepsInStruct ==
    ASSUME Frames, InStruct
    PROVE  Still /\ (Takes \/ Fails \/ Unpacks \/ Notes \/ Enters \/ Exits)
BY TakesOrFails, UnpacksOrFails, AnnotateNotes, EnterStructEnters, LeaveStructExits, SMTT(30) DEF InStruct

\* Only the outermost frame has actions other than fields.
LEMMA NestedOnlyFields ==
    ASSUME Frames, NEW k \in 2 .. Len(stack)
    PROVE  /\ OnlyFields(stack[k].acts)
           /\ Compound(stack[k - 1].acts[stack[k - 1].i].type)
<1> DEFINE g == stack[k - 1]
           t == g.acts[g.i].type
<1>0. Len(stack) \in Nat /\ k - 1 \in 1 .. Len(stack)
  BY SequenceFacts DEF Frames
<1>1. IsFrame(g) /\ g.i \in 1 .. Len(g.acts) /\ g.acts[g.i].do = "field" /\ IsStruct(t)
      /\ stack[k].acts = t.actions
  BY <1>0 DEF Frames, Nested
<1>2. WellMade(t)
  BY <1>1 DEF IsFrame, Listed
<1>3. Compound(t)
  BY <1>1, <1>2, WellMadeParts DEF Atom, Sized
<1> QED BY <1>1, <1>3 DEF Compound

\* A frame goes on, from where those behind it, if any, have come to.
LEMMA FramesGoOn ==
    ASSUME PacketsOK, Control, Frames, Still, text' = text,
           NEW d \in 1 .. Len(stack), NEW f, Turned(d, f), IsFrame(f), Inside(f.state),
           f.path = stack[d].path, f.acts = stack[d].acts, f.left0 = stack[d].left0,
           f.i >= stack[d].i, f.state.buf = stack[d].state.buf, f.state.left <= stack[d].state.left
    PROVE  Frames'
<1>0. Len(stack) \in Nat /\ Len(stack') = d
  BY SequenceFacts DEF Frames, Turned
<1>1. \A buf : Data(buf)' = Data(buf)
  BY DEF Still, Data
<1>2. ASSUME NEW k \in 1 .. d PROVE (IsFrame(stack[k]) /\ Inside(stack[k].state))'
  <2>1. stack'[k] = IF k = d THEN f ELSE stack[k]
    BY <1>0 DEF Turned
  <2>2. IsFrame(stack'[k]) /\ Inside(stack'[k].state)
    BY <1>0, <2>1 DEF Frames
  <2> QED BY <1>1, <2>2 DEF Inside
<1>3. IsFrame(stack[d])
  BY <1>0 DEF Frames
<1>4. f.i \in Nat /\ stack[d].i \in Nat /\ f.state.left \in Nat /\ stack[d].state.left \in Nat
      /\ stack[d].left0 \in Nat
  <2>1. IsFrame(f)
    OBVIOUS
  <2>2. Len(f.acts) \in Nat /\ Len(stack[d].acts) \in Nat
    BY <1>3, <2>1, SequenceFacts DEF IsFrame, Listed
  <2> QED BY <1>3, <2>1, <2>2 DEF IsFrame, States
<1>5. Outermost'
  <2>1. pc = "struct" /\ Outermost
    BY DEF Frames, Still
  <2>2. ActionsOf(pkt, sub)' = ActionsOf(pkt, sub) /\ Packet(pkt)' = Packet(pkt)
    BY DEF Still, ActionsOf, Subpacket, Packet, loaderVars
  <2>3. CASE d = 1
    <3>1. stack'[1] = f
      BY <2>3 DEF Turned
    <3>2. f.state.buf = 1 => \E a \in 1 .. f.i - 1 : f.acts[a].do = "transformation"
      <4>1. SUFFICES ASSUME f.state.buf = 1
                     PROVE \E a \in 1 .. f.i - 1 : f.acts[a].do = "transformation"
        OBVIOUS
      <4>2. PICK a \in 1 .. stack[1].i - 1 : stack[1].acts[a].do = "transformation"
        BY <2>1, <2>3, <4>1 DEF Outermost
      <4>3. a \in 1 .. f.i - 1
        BY <1>4, <2>3
      <4> QED BY <2>3, <4>2, <4>3
    <3>3. f.state.buf = 0 => f.state.left <= f.left0
      BY <1>4, <2>1, <2>3 DEF Outermost
    <3> QED BY <2>1, <2>2, <2>3, <3>1, <3>2, <3>3 DEF Outermost, Still
  <2>4. CASE d # 1
    <3>1. stack'[1] = stack[1]
      BY <1>0, <2>4 DEF Turned
    <3> QED BY <2>1, <2>2, <3>1 DEF Outermost, Still
  <2> QED BY <2>3, <2>4
<1>6. ASSUME NEW k \in 2 .. d PROVE Nested(k)'
  <2>1. Nested(k)
    BY <1>0 DEF Frames
  <2>2. stack'[k - 1] = stack[k - 1]
    BY <1>0 DEF Turned
  <2>3. CASE k = d
    <3> DEFINE g == stack[d - 1]
    <3>1. stack'[k] = f /\ stack'[k - 1] = g
      BY <2>2, <2>3 DEF Turned
    <3>2. /\ g.i \in 1 .. Len(g.acts) /\ g.acts[g.i].do = "field" /\ IsStruct(g.acts[g.i].type)
          /\ f.path = Append(g.path, g.i) /\ f.acts = g.acts[g.i].type.actions
          /\ f.left0 = g.state.left /\ stack[d].state.left <= f.left0 /\ f.state.buf = g.state.buf
      BY <2>1, <2>3 DEF Nested
    <3> HIDE DEF g
    <3>3. f.state.left <= f.left0
      <4>1. stack[d].state.left <= f.left0
        BY <3>2
      <4>2. \A x, y, z \in Nat : x <= y /\ y <= z => x <= z
        BY SMTT(30)
      <4> QED BY ONLY <1>4, <4>1, <4>2, f.left0 = stack[d].left0,
                      f.state.left <= stack[d].state.left
    <3> QED BY <3>1, <3>2, <3>3, SMTT(30) DEF Nested
  <2>4. CASE k # d
    <3>1. stack'[k] = stack[k]
      BY <1>0, <2>4 DEF Turned
    <3> QED BY <2>1, <2>2, <3>1 DEF Nested
  <2> QED BY <2>3, <2>4
<1>7. Packet(pkt)' = Packet(pkt) /\ IsSequence(stack') /\ pc = "struct" /\ pc' = "struct"
  BY DEF Still, Packet, loaderVars, Turned
<1> QED BY <1>0, <1>2, <1>5, <1>6, <1>7 DEF Frames, Still

LEMMA MovedFrames ==
    ASSUME NEW g, IsFrame(g), g.i \in 1 .. Len(g.acts), NEW st \in States
    PROVE  /\ IsFrame(Forward(g, st)) /\ IsFrame(Stopped(g))
           /\ Stopped(g).i >= g.i /\ Forward(g, st).i >= g.i
<1>1. Len(g.acts) \in Nat /\ g.i \in 1 .. Len(g.acts) /\ Len(g.acts) + 1 >= g.i /\ g.i + 1 >= g.i
  BY SequenceFacts DEF IsFrame, Listed
<1> QED BY <1>1 DEF IsFrame, Forward, Stopped

LEMMA FurtherInside ==
    ASSUME NEW st \in States, Inside(st), NEW r \in 0 .. st.left
    PROVE  /\ Further(st, r) \in States /\ Inside(Further(st, r))
           /\ Further(st, r).left <= st.left /\ Further(st, r).buf = st.buf
BY DEF States, Inside, Further

LEMMA FramesInStruct ==
    ASSUME PacketsOK, Control, Frames, Still, Takes \/ Fails \/ Notes \/ Exits
    PROVE  Frames'
<1>0. pc = "struct" /\ Len(stack) \in Nat /\ Len(stack) \in 1 .. Len(stack)
  BY TopFacts DEF Still
<1>1. /\ IsFrame(Top) /\ Inside(State) /\ State \in States
      /\ State.buf \in {0, 1} /\ State.pos \in Nat /\ State.left \in Nat /\ Top = stack[Len(stack)]
  BY <1>0, TopFacts DEF IsFrame, State
<1>2. CASE Takes
  <2> DEFINE r == Action.type.width * Got
             st == Further(State, r)
  <2>1. r \in 1 .. State.left /\ Top.i \in 1 .. Len(Top.acts) /\ text' = text
        /\ Turned(Len(stack), Forward(Top, st))
    BY <1>2 DEF Takes, AtAction
  <2> HIDE DEF r
  <2>2. st \in States /\ Inside(st) /\ st.left <= State.left /\ st.buf = State.buf
    BY <1>1, <2>1 DEF States, Inside, Further
  <2> HIDE DEF st
  <2>3. IsFrame(Forward(Top, st)) /\ Forward(Top, st).i >= Top.i
    BY <1>1, <2>1, <2>2, MovedFrames
  <2> QED BY <1>0, <1>1, <2>1, <2>2, <2>3, FramesGoOn DEF Forward, State
<1>3. CASE Fails
  <2>1. Top.i \in 1 .. Len(Top.acts) /\ text' = text /\ Turned(Len(stack), Stopped(Top))
    BY <1>3 DEF Fails
  <2>2. IsFrame(Stopped(Top)) /\ Stopped(Top).i >= Top.i
    BY <1>1, <2>1, MovedFrames
  <2> QED BY <1>0, <1>1, <2>1, <2>2, FramesGoOn DEF Stopped, State
<1>4. CASE Notes
  <2>1. Top.i \in 1 .. Len(Top.acts) /\ text' = text /\ Turned(Len(stack), Forward(Top, State))
    BY <1>4 DEF Notes, AtAction
  <2>2. IsFrame(Forward(Top, State)) /\ Forward(Top, State).i >= Top.i
    BY <1>1, <2>1, MovedFrames
  <2> QED BY <1>0, <1>1, <2>1, <2>2, FramesGoOn DEF Forward, State
<1>5. CASE Exits
  <2> DEFINE d == Len(stack) - 1
             st == Further(Outer.state, Returned)
  <2>1. Len(stack) > 1 /\ text' = text
        /\ Turned(d, IF Returned > 0 THEN Forward(Outer, st) ELSE Stopped(Outer))
    BY <1>5 DEF Exits
  <2>2. d \in 1 .. Len(stack) /\ Outer = stack[d] /\ d + 1 = Len(stack) /\ Len(stack) \in 2 .. Len(stack)
    BY <1>0, <2>1 DEF Outer
  <2>3. IsFrame(Outer) /\ Inside(Outer.state) /\ Nested(Len(stack))
    BY <2>2, SMTT(30) DEF Frames
  <2>4. Outer.i \in 1 .. Len(Outer.acts) /\ Top.left0 = Outer.state.left
        /\ Outer.state \in States /\ State.left <= Outer.state.left
    BY <1>1, <2>2, <2>3 DEF Nested, IsFrame, State, Outer
  <2>5. CASE Returned > 0
    <3>1. st \in States /\ Inside(st) /\ st.left <= Outer.state.left /\ st.buf = Outer.state.buf
      <4>1. Outer.state.left \in Nat /\ Returned \in 0 .. Outer.state.left
        BY <1>1, <2>4, <2>5 DEF Returned, States
      <4> QED BY <2>3, <2>4, <4>1, FurtherInside
    <3> HIDE DEF st
    <3>2. IsFrame(Forward(Outer, st)) /\ Forward(Outer, st).i >= Outer.i
      BY <2>3, <2>4, <3>1, MovedFrames
    <3>3. Turned(d, Forward(Outer, st))
      BY <2>1, <2>5
    <3> HIDE DEF d
    <3> QED BY <2>1, <2>2, <3>1, <3>2, <3>3, FramesGoOn DEF Forward
  <2>6. CASE ~(Returned > 0)
    <3>1. IsFrame(Stopped(Outer)) /\ Stopped(Outer).i >= Outer.i
      BY <2>3, <2>4, MovedFrames
    <3>2. Turned(d, Stopped(Outer)) /\ Outer.state.left <= Outer.state.left
      BY <2>1, <2>4, <2>6 DEF States
    <3> HIDE DEF d
    <3> QED BY <2>1, <2>2, <2>3, <3>1, <3>2, FramesGoOn DEF Stopped
  <2> QED BY <2>5, <2>6
<1> QED BY <1>2, <1>3, <1>4, <1>5

LEMMA FramesEntered ==
    ASSUME PacketsOK, Control, Frames, Still, Enters
    PROVE  Frames'
<1> DEFINE n == Len(stack)
           f == [path |-> Path, acts |-> Action.type.actions, i |-> 1, state |-> State,
                 left0 |-> State.left]
<1>0. pc = "struct" /\ n \in Nat /\ n >= 1 /\ Top = stack[n]
  BY TopFacts DEF Still
<1>1. /\ IsFrame(Top) /\ Inside(State) /\ State \in States /\ State.left \in Nat
  BY <1>0, TopFacts DEF IsFrame, State
<1>2. Turned(n + 1, f) /\ text' = text /\ Listed(Action.type.actions) /\ AtAction("field")
      /\ Compound(Action.type)
  BY DEF Enters
<1>3. IsFrame(f)
  <2>1. Path \in Seq(Nat)
    BY <1>1, <1>2, AppendProperties DEF IsFrame, Path, AtAction
  <2>2. 1 \in 1 .. Len(Action.type.actions) + 1
    BY <1>2, SequenceFacts DEF Listed
  <2> QED BY <1>1, <1>2, <2>1, <2>2 DEF IsFrame
<1>4. IsSequence(stack') /\ Len(stack') = n + 1 /\ stack'[n + 1] = f /\ \A k \in 1 .. n : stack'[k] = stack[k]
  BY <1>0, <1>2 DEF Turned
<1>5. \A buf : Data(buf)' = Data(buf)
  BY <1>2 DEF Still, Data
<1>6. f.state = State /\ f.path = Path /\ f.acts = Action.type.actions /\ f.left0 = State.left
  OBVIOUS
<1> HIDE DEF f, n
<1>7. ASSUME NEW k \in 1 .. n + 1 PROVE (IsFrame(stack[k]) /\ Inside(stack[k].state))'
  <2>1. IsFrame(stack'[k]) /\ Inside(stack'[k].state)
    <3>1. CASE k = n + 1
      BY <1>1, <1>3, <1>4, <1>6, <3>1
    <3>2. CASE k # n + 1
      <4>1. k \in 1 .. n
        BY <1>0, <3>2
      <4> QED BY <1>4, <4>1 DEF Frames, n
    <3> QED BY <3>1, <3>2
  <2> QED BY <1>5, <2>1 DEF Inside
<1>8. Outermost'
  <2>1. Outermost /\ stack'[1] = stack[1]
    BY <1>0, <1>4 DEF Frames
  <2>2. ActionsOf(pkt, sub)' = ActionsOf(pkt, sub) /\ Packet(pkt)' = Packet(pkt)
    BY DEF Still, ActionsOf, Subpacket, Packet, loaderVars
  <2> QED BY <1>2, <2>1, <2>2 DEF Outermost, Still
<1>9. ASSUME NEW k \in 2 .. n + 1 PROVE Nested(k)'
  <2>1. CASE k = n + 1
    <3>1. stack'[k] = f /\ stack'[k - 1] = Top
      BY <1>0, <1>4, <2>1, SMTT(30)
    <3>2. Top.i \in 1 .. Len(Top.acts) /\ Top.acts[Top.i].do = "field" /\ IsStruct(Top.acts[Top.i].type)
          /\ f.path = Append(Top.path, Top.i) /\ f.acts = Top.acts[Top.i].type.actions
          /\ f.left0 = Top.state.left /\ f.state.left <= f.left0 /\ f.state.buf = Top.state.buf
      BY <1>1, <1>2, <1>6, SMTT(30) DEF AtAction, Action, Compound, Path, State
    <3> QED BY <3>1, <3>2 DEF Nested
  <2>2. CASE k # n + 1
    <3>1. Nested(k) /\ stack'[k] = stack[k] /\ stack'[k - 1] = stack[k - 1]
      BY <1>0, <1>4, <2>2 DEF Frames, n
    <3> QED BY <3>1 DEF Nested
  <2> QED BY <2>1, <2>2
<1>10. Packet(pkt)' = Packet(pkt) /\ pc = "struct" /\ pc' = "struct"
  BY DEF Still, Packet, loaderVars
<1> QED BY <1>0, <1>2, <1>4, <1>7, <1>8, <1>9, <1>10 DEF Frames, Still

LEMMA FramesUnpacked ==
    ASSUME PacketsOK, Control, Frames, Still, Unpacks
    PROVE  Frames' /\ Len(stack) = 1
<1> DEFINE f == Forward(Top, [buf |-> 1, pos |-> 0, left |-> Len(text')])
<1>0. pc = "struct" /\ Len(stack) \in Nat /\ Len(stack) >= 1 /\ Top = stack[Len(stack)] /\ IsFrame(Top)
  BY TopFacts DEF Still
<1>1. AtAction("transformation") /\ text' \in Seq(Nat) /\ Turned(Len(stack), f)
  BY DEF Unpacks
<1>2. Len(stack) = 1
  <2>1. SUFFICES ASSUME Len(stack) # 1 PROVE FALSE
    OBVIOUS
  <2>2. OnlyFields(Top.acts)
    BY <1>0, <2>1, NestedOnlyFields
  <2> QED BY <1>1, <2>2 DEF OnlyFields, AtAction, Action
<1>3. IsFrame(f)
  <2>1. [buf |-> 1, pos |-> 0, left |-> Len(text')] \in States
    BY <1>1 DEF States
  <2> QED BY <1>0, <1>1, <2>1, MovedFrames DEF AtAction
<1>4. f.state = [buf |-> 1, pos |-> 0, left |-> Len(text')] /\ Len(text') \in Nat
  BY <1>1 DEF Forward
<1>5. IsSequence(stack') /\ Len(stack') = 1 /\ stack'[1] = f
  BY <1>1, <1>2 DEF Turned
<1>6. f.path = Top.path /\ f.acts = Top.acts /\ f.left0 = Top.left0 /\ f.i = Top.i + 1 /\ f.state.buf = 1
  BY DEF Forward
<1> HIDE DEF f
<1>7. Inside(stack[1].state)'
  BY <1>4, <1>5 DEF Inside, Data
<1>8. Outermost'
  <2>1. Outermost /\ stack[1] = Top
    BY <1>0, <1>2 DEF Frames
  <2>2. ActionsOf(pkt, sub)' = ActionsOf(pkt, sub) /\ Packet(pkt)' = Packet(pkt)
    BY DEF Still, ActionsOf, Subpacket, Packet, loaderVars
  <2>3. Top.i \in 1 .. f.i - 1 /\ f.acts[Top.i].do = "transformation"
    BY <1>0, <1>1, <1>6 DEF AtAction, Action, IsFrame
  <2> QED BY <1>5, <1>6, <2>1, <2>2, <2>3 DEF Outermost, Still
<1>9. Packet(pkt)' = Packet(pkt) /\ pc = "struct" /\ pc' = "struct"
  BY DEF Still, Packet, loaderVars
<1> QED BY <1>1, <1>2, <1>3, <1>5, <1>7, <1>8, <1>9 DEF Frames, Still

\* A packet or a subpacket begins with one frame of its own.
LEMMA FramesBegin ==
    ASSUME NEW p \in Nat, NEW s \in Nat, NEW acts, Listed(acts), NEW st \in States
    PROVE  LET f == Frame(<<p, s>>, acts, st) IN
           /\ IsFrame(f) /\ f.path = <<p, s>> /\ f.acts = acts /\ f.i = 1 /\ f.state = st
           /\ f.left0 = st.left
           /\ IsSequence(<<f>>) /\ Len(<<f>>) = 1 /\ <<f>>[1] = f
<1> DEFINE f == Frame(<<p, s>>, acts, st)
<1>1. f = [path |-> <<p, s>>, acts |-> acts, i |-> 1, state |-> st, left0 |-> st.left]
  BY DEF Frame
<1>2. 1 \in 1 .. Len(acts) + 1 /\ <<p, s>> \in Seq(Nat) /\ st.left \in Nat
  BY SequenceFacts DEF Listed, States
<1>3. IsFrame(f)
  <2>1. f.path = <<p, s>> /\ f.acts = acts /\ f.i = 1 /\ f.state = st /\ f.left0 = st.left
    BY <1>1
  <2> HIDE DEF f
  <2>2. f = [path |-> f.path, acts |-> f.acts, i |-> f.i, state |-> f.state, left0 |-> f.left0]
    BY <1>1, <2>1
  <2> QED BY <1>2, <2>1, <2>2 DEF IsFrame
<1> HIDE DEF f
<1>4. <<f>> \in Seq({f}) /\ Len(<<f>>) = 1 /\ <<f>>[1] = f
  OBVIOUS
<1>5. IsSequence(<<f>>)
  BY <1>4, SequenceOf
<1> QED BY <1>1, <1>3, <1>4, <1>5 DEF f

LEMMA FramesStart ==
    ASSUME Init
    PROVE  Frames
BY DEF Init, Frames, IsSequence

LEMMA ActionsListed ==
    ASSUME PacketsOK, NEW k \in 1 .. Len(def.packets), NEW s \in 0 .. Len(Packet(k).subpackets)
    PROVE  /\ Listed(ActionsOf(k, s))
           /\ s = 0 => ActionsOf(k, s) = Packet(k).actions /\ OnlyFields(ActionsOf(k, s))
           /\ s > 0 => /\ ActionsOf(k, s) = Subpacket(k, s).actions
                       /\ Packet(k).subpackets # <<>> /\ Packet(k).header # 0
                       /\ OneTransformation(ActionsOf(k, s)) /\ Annotated(ActionsOf(k, s))
           /\ Packet(k).header \in Nat /\ Packet(k).header = StructSize(Packet(k).actions)
<1>1. PacketOK(Packet(k)) /\ Len(Packet(k).subpackets) \in Nat
  BY SequenceFacts DEF PacketsOK, PacketOK, Packet
<1>2. Listed(Packet(k).actions) /\ Packet(k).header = StructSize(Packet(k).actions)
  BY <1>1 DEF PacketOK
<1>3. Packet(k).header \in Nat
  BY <1>2, SizesOfActions
<1>4. CASE s = 0
  BY <1>1, <1>2, <1>3, <1>4 DEF PacketOK, ActionsOf
<1>5. CASE s # 0
  <2>1. s \in 1 .. Len(Packet(k).subpackets) /\ Packet(k).subpackets # <<>>
    BY <1>1, <1>5, SequenceFacts
  <2> QED BY <1>1, <1>2, <1>3, <1>5, <2>1 DEF PacketOK, ActionsOf, Subpacket
<1> QED BY <1>4, <1>5

LEMMA FramesTryPacket ==
    ASSUME PacketsOK, Control, Frames, TryPacket
    PROVE  Frames'
<1> DEFINE f == Frame(<<pkt', 0>>, Packet(pkt').actions, start)
<1>1. /\ pkt' \in 1 .. Len(def.packets) /\ sub' = 0 /\ stack' = <<f>> /\ pc' = "struct"
      /\ text' = <<>> /\ def' = def /\ payload' = payload /\ pkt' \in Nat
  BY SequenceFacts DEF TryPacket, loaderVars, Control, PacketsOK
<1>2. PacketOK(Packet(pkt'))
  BY <1>1 DEF PacketsOK, Packet
<1>3. Listed(Packet(pkt').actions) /\ start \in States /\ start.buf = 0 /\ start.pos = 0
      /\ start.left = Len(payload) /\ Len(payload) \in Nat
  BY <1>2 DEF PacketOK, Control, States
<1>4. /\ IsFrame(f) /\ f.path = <<pkt', 0>> /\ f.acts = Packet(pkt').actions /\ f.i = 1 /\ f.state = start
      /\ f.left0 = start.left
      /\ IsSequence(<<f>>) /\ Len(<<f>>) = 1 /\ <<f>>[1] = f
  BY <1>1, <1>3, FramesBegin
<1> HIDE DEF f
<1>5. IsSequence(stack') /\ Len(stack') = 1 /\ stack'[1] = f
  BY <1>1, <1>4
<1>6. Inside(stack[1].state)'
  BY <1>1, <1>3, <1>4, <1>5 DEF Inside, Data
<1>7. Outermost'
  <2>1. ActionsOf(pkt, sub)' = Packet(pkt').actions
    BY <1>1 DEF ActionsOf, Packet
  <2> QED BY <1>1, <1>3, <1>4, <1>5, <2>1 DEF Outermost
<1> QED BY <1>1, <1>4, <1>5, <1>6, <1>7 DEF Frames

LEMMA FramesTrySub ==
    ASSUME PacketsOK, Control, Frames, TrySub
    PROVE  /\ Frames'
           /\ Len(stack') = 1 /\ stack'[1].i = 1 /\ stack'[1].path = <<pkt, sub'>>
           /\ stack'[1].state = [buf |-> 0, pos |-> Packet(pkt).header,
                                 left |-> Len(payload) - Packet(pkt).header]
           /\ processed = Packet(pkt).header /\ stack'[1].left0 = stack'[1].state.left
<1> DEFINE st == Behind(Packet(pkt).header)
           f == Frame(<<pkt, sub'>>, Subpacket(pkt, sub').actions, st)
<1>1. /\ sub' = sub + 1 /\ stack' = <<f>> /\ pc' = "struct" /\ pc = "subpackets" /\ pkt' = pkt
      /\ text' = text /\ def' = def /\ payload' = payload /\ processed' = processed
      /\ sub < Len(Packet(pkt).subpackets)
  BY DEF TrySub, loaderVars
<1>2. pkt \in 1 .. Len(def.packets) /\ sub \in Nat /\ pkt \in Nat
  BY <1>1, SequenceFacts DEF Control, PacketsOK
<1>3. Len(Packet(pkt).subpackets) \in Nat
  BY <1>2, SequenceFacts DEF PacketsOK, PacketOK, Packet
<1>4. sub' \in 1 .. Len(Packet(pkt).subpackets) /\ sub' \in Nat /\ sub' > 0
  BY <1>1, <1>2, <1>3
<1>5. /\ Listed(ActionsOf(pkt, sub')) /\ ActionsOf(pkt, sub') = Subpacket(pkt, sub').actions
      /\ Packet(pkt).subpackets # <<>> /\ Packet(pkt).header \in Nat
  BY <1>2, <1>4, ActionsListed
<1>6. text = <<>> /\ processed = Packet(pkt).header /\ processed \in 0 .. Len(payload) /\ Len(payload) \in Nat
  BY <1>1, <1>5 DEF Frames, Control
<1>7. /\ start \in States /\ st = Further(start, Packet(pkt).header)
      /\ start = [buf |-> 0, pos |-> 0, left |-> Len(payload)]
  <2>1. start \in States /\ start = [buf |-> 0, pos |-> 0, left |-> Len(payload)]
    BY <1>6 DEF Control, States
  <2> QED BY <2>1, StatesMove DEF Behind
<1>8. st = [buf |-> 0, pos |-> Packet(pkt).header, left |-> Len(payload) - Packet(pkt).header]
  BY <1>5, <1>6, <1>7 DEF Further
<1>9. st \in States
  BY <1>5, <1>6, <1>8 DEF States
<1> HIDE DEF st
<1>10. /\ IsFrame(f) /\ f.path = <<pkt, sub'>> /\ f.acts = Subpacket(pkt, sub').actions /\ f.i = 1
       /\ f.state = st /\ f.left0 = st.left
       /\ IsSequence(<<f>>) /\ Len(<<f>>) = 1 /\ <<f>>[1] = f
  BY <1>2, <1>4, <1>5, <1>9, FramesBegin
<1> HIDE DEF f
<1>11. IsSequence(stack') /\ Len(stack') = 1 /\ stack'[1] = f
  BY <1>1, <1>10
<1>12. Inside(stack[1].state)'
  BY <1>1, <1>5, <1>6, <1>8, <1>10, <1>11 DEF Inside, Data
<1>13. Outermost'
  <2>1. ActionsOf(pkt, sub)' = ActionsOf(pkt, sub') /\ Packet(pkt)' = Packet(pkt)
    BY <1>1 DEF ActionsOf, Packet, Subpacket
  <2>2. (stack[1].state.buf = 0 => text = <<>> /\ stack[1].state.left <= stack[1].left0)'
    BY <1>1, <1>5, <1>6, <1>8, <1>10, <1>11
  <2>3. (stack[1].left0 = Len(payload) - (IF sub = 0 THEN 0 ELSE Packet(pkt).header))'
    BY <1>1, <1>4, <1>8, <1>10, <1>11, <2>1
  <2>4. stack'[1].state.buf = 0
    BY <1>8, <1>10, <1>11
  <2> QED BY <1>1, <1>5, <1>10, <1>11, <2>1, <2>2, <2>3, <2>4 DEF Outermost
<1>14. (Packet(pkt).header = processed /\ processed <= Len(payload))'
  BY <1>1, <1>6 DEF Packet
<1>15. Frames'
  BY <1>1, <1>6, <1>10, <1>11, <1>12, <1>13, <1>14 DEF Frames
<1> QED BY <1>6, <1>8, <1>10, <1>11, <1>15

LEMMA FramesHeaderDone ==
    ASSUME PacketsOK, Control, Frames, HeaderDone
    PROVE  /\ Frames' /\ Len(stack) = 1 /\ State.buf = 0 /\ text = <<>>
           /\ Taking = State.pos /\ Taking \in 0 .. Len(payload)
<1>1. /\ pc = "struct" /\ Len(stack) = 1 /\ sub = 0 /\ stack' = <<>> /\ pc' \in {"verdict", "subpackets"}
      /\ UNCHANGED <<text, pkt, def, payload, sub>>
  BY DEF HeaderDone, Filled, loaderVars
<1>2. pkt \in 1 .. Len(def.packets) /\ 0 \in 0 .. Len(Packet(pkt).subpackets)
  BY <1>1, SequenceFacts DEF Control, PacketsOK, PacketOK, Packet
<1>3. Outermost /\ Top = stack[1] /\ OnlyFields(Top.acts) /\ IsFrame(Top) /\ Inside(State)
  BY <1>1, <1>2, ActionsListed, TopFacts, ZenonT(30) DEF Frames, Outermost, OnlyFields
<1>4. State.buf = 0
  <2>1. SUFFICES ASSUME State.buf = 1 PROVE FALSE
    BY <1>1, TopFacts
  <2>2. PICK a \in 1 .. Top.i - 1 : Top.acts[a].do = "transformation"
    BY <1>3, <2>1 DEF Outermost, State
  <2>3. a \in 1 .. Len(Top.acts)
    BY <1>1, <1>3, TopFacts DEF IsFrame
  <2> QED BY <1>3, <2>2, <2>3 DEF OnlyFields
<1>5. text = <<>> /\ Top.left0 = Len(payload) /\ State.left <= Top.left0
  BY <1>1, <1>3, <1>4 DEF Outermost, State
<1>6. Taking = State.pos /\ Taking \in 0 .. Len(payload)
  <2>1. Len(payload) \in Nat /\ State.pos \in Nat /\ State.left \in Nat /\ State.pos + State.left = Len(payload)
    BY <1>1, <1>3, <1>4, TopFacts DEF Control, Inside, Data
  <2> QED BY <1>5, <2>1 DEF Taking
<1>7. pc' = "subpackets" => processed' = Taking
                            /\ (Packet(pkt).subpackets # <<>> => Taking = Packet(pkt).header)
  BY DEF HeaderDone
<1>8. Packet(pkt)' = Packet(pkt) /\ IsSequence(<<>>) /\ Len(<<>>) = 0
  BY <1>1 DEF Packet, IsSequence
<1>9. Frames'
  BY <1>1, <1>5, <1>6, <1>7, <1>8 DEF Frames
<1> QED BY <1>1, <1>4, <1>5, <1>6, <1>9

LEMMA FramesSubDone ==
    ASSUME PacketsOK, Control, Frames, SubDone
    PROVE  Frames'
<1>1. /\ pc = "struct" /\ sub > 0 /\ stack' = <<>> /\ pc' \in {"verdict", "subpackets"}
      /\ UNCHANGED <<pkt, def, payload, sub>> /\ text' \in {text, <<>>}
      /\ pc' = "subpackets" => text' = <<>> /\ processed' = processed
  BY DEF SubDone, Filled, loaderVars
<1>2. processed = Packet(pkt).header /\ processed <= Len(payload)
  BY <1>1 DEF Frames
<1>3. pkt \in 1 .. Len(def.packets) /\ 0 \in 0 .. Len(Packet(pkt).subpackets)
  BY <1>1, SequenceFacts DEF Control, PacketsOK, PacketOK, Packet
<1>4. processed \in 0 .. Len(payload)
  BY <1>2, <1>3, ActionsListed DEF Control
<1>5. Packet(pkt)' = Packet(pkt) /\ IsSequence(<<>>) /\ Len(<<>>) = 0 /\ text' \in Seq(Nat)
  <2>1. text' \in Seq(Nat)
    <3>1. text \in Seq(Nat) /\ <<>> \in Seq(Nat)
      BY DEF Frames
    <3> QED BY <1>1, <3>1
  <2> QED BY <1>1, <2>1 DEF Packet, IsSequence
<1> QED BY <1>1, <1>2, <1>4, <1>5 DEF Frames

\* Between the Fill functions nothing is under way.
Resting ==
    \/ Loading \/ Receive \/ Send \/ NoPacket \/ NoSub \/ Verdict \/ UNCHANGED vars

LEMMA FramesResting ==
    ASSUME PacketsOK, Control, Frames, Resting
    PROVE  Frames'
<1>1. CASE UNCHANGED vars
  BY <1>1 DEF vars, decodeVars, tryVars, loaderVars, Frames, Inside, Data, Outermost, Nested, ActionsOf,
              Subpacket, Packet
<1>2. CASE ~ UNCHANGED vars
  <2>1. pc # "struct" /\ pc' \notin {"struct", "subpackets"} /\ UNCHANGED <<stack, text>>
    <3>1. CASE Loading
      BY <3>1 DEF Loading, Load, LoadElement, Refuse, Loaded, decodeVars, tryVars, Control
    <3>2. CASE Receive \/ Send
      BY <3>2 DEF Receive, Send, Process
    <3>3. CASE NoPacket \/ NoSub \/ Verdict
      BY <3>3 DEF NoPacket, NoSub, Verdict, tryVars
    <3> QED BY <1>2, <3>1, <3>2, <3>3 DEF Resting
  <2>2. IsSequence(stack) /\ Len(stack) = 0
    BY <2>1, SequenceFacts DEF Frames
  <2> QED BY <2>1, <2>2 DEF Frames
<1> QED BY <1>1, <1>2

LEMMA FramesStep ==
    ASSUME PacketsOK, Control, Frames, [Next]_vars
    PROVE  Frames'
<1>1. CASE InStruct
  BY <1>1, StepsInStruct, FramesInStruct, FramesEntered, FramesUnpacked
<1>2. CASE Resting
  BY <1>2, FramesResting
<1>3. CASE TryPacket \/ TrySub \/ HeaderDone \/ SubDone
  BY <1>3, FramesTryPacket, FramesTrySub, FramesHeaderDone, FramesSubDone
<1> QED BY <1>1, <1>2, <1>3 DEF Next, Decode, InStruct, Resting
-----------------------------------------------------------------------------
(* Where spans end.                                                        *)

SpanSet ==
    [path : Seq(Nat), buf : {0, 1}, from : Nat, len : Nat, cell : Seq(Nat), kind : Kinds \cup {""},
     width : Nat]

LEMMA SpanParts ==
    ASSUME NEW s \in SpanSet
    PROVE  /\ s.path \in Seq(Nat) /\ s.buf \in {0, 1} /\ s.from \in Nat /\ s.len \in Nat
           /\ s.width \in Nat
BY DEF SpanSet

LEMMA MaxOf ==
    ASSUME NEW n \in Nat, NEW T, T \subseteq 0 .. n, T # {}
    PROVE  Max(T) \in T /\ \A h \in T : h <= Max(T)
<1>1. PICK m \in T : \A h \in T : h <= m
  BY GreatestNumber
<1>2. \A h \in T : m >= h
  BY <1>1
<1>3. Max(T) \in T /\ \A h \in T : Max(T) >= h
  BY <1>2 DEF Max
<1> QED BY <1>3

\* EndBefore and Tiled, of any sequence of spans.
EndIn(sp, buf, i) ==
    LET mine == {j \in 1 .. i : sp[j].buf = buf} IN
    IF mine = {} THEN 0 ELSE End(sp[Max(mine)])
Tiling(sp, buf, size) ==
    /\ \A i \in 1 .. Len(sp) : sp[i].buf = buf => sp[i].from = EndIn(sp, buf, i - 1)
    /\ size = EndIn(sp, buf, Len(sp))

LEMMA EndInKept ==
    ASSUME NEW i \in Nat, NEW buf, NEW sp, NEW sp2, \A j \in 1 .. i : sp2[j] = sp[j]
    PROVE  EndIn(sp2, buf, i) = EndIn(sp, buf, i)
<1> DEFINE mine == {j \in 1 .. i : sp[j].buf = buf}
<1>1. {j \in 1 .. i : sp2[j].buf = buf} = mine
  OBVIOUS
<1>2. CASE mine = {}
  BY <1>1, <1>2 DEF EndIn
<1>3. CASE mine # {}
  <2>1. Max(mine) \in mine
    <3>1. mine \subseteq 0 .. i
      OBVIOUS
    <3> HIDE DEF mine
    <3> QED BY <1>3, <3>1, MaxOf
  <2>2. sp2[Max(mine)] = sp[Max(mine)]
    BY <2>1
  <2>3. EndIn(sp, buf, i) = End(sp[Max(mine)])
    BY <1>3 DEF EndIn
  <2>4. EndIn(sp2, buf, i) = End(sp2[Max(mine)])
    <3>1. EndIn(sp2, buf, i) = End(sp2[Max({j \in 1 .. i : sp2[j].buf = buf})])
      BY <1>1, <1>3 DEF EndIn
    <3> QED BY <1>1, <3>1
  <2> QED BY <2>2, <2>3, <2>4
<1> QED BY <1>2, <1>3

LEMMA EndInLast ==
    ASSUME NEW i \in Nat, i >= 1, NEW buf, NEW sp
    PROVE  EndIn(sp, buf, i) = IF sp[i].buf = buf THEN End(sp[i]) ELSE EndIn(sp, buf, i - 1)
<1> DEFINE Mine(k) == {j \in 1 .. k : sp[j].buf = buf}
<1>1. CASE sp[i].buf = buf
  <2>1. i \in Mine(i) /\ Mine(i) \subseteq 0 .. i /\ \A j \in Mine(i) : j <= i
    BY <1>1
  <2>2. Max(Mine(i)) = i
    <3>1. Mine(i) # {}
      BY <2>1
    <3> HIDE DEF Mine
    <3>2. Max(Mine(i)) \in Mine(i) /\ i <= Max(Mine(i))
      BY <2>1, <3>1, MaxOf
    <3>3. Max(Mine(i)) \in Nat /\ Max(Mine(i)) <= i
      BY <2>1, <3>2
    <3> QED BY <3>2, <3>3
  <2>3. EndIn(sp, buf, i) = End(sp[Max(Mine(i))])
    BY <2>1 DEF EndIn
  <2> QED BY <1>1, <2>2, <2>3
<1>2. CASE sp[i].buf # buf
  <2>1. Mine(i) = Mine(i - 1)
    BY <1>2
  <2>2. EndIn(sp, buf, i) = IF Mine(i) = {} THEN 0 ELSE End(sp[Max(Mine(i))])
    BY DEF EndIn
  <2>3. EndIn(sp, buf, i - 1) = IF Mine(i - 1) = {} THEN 0 ELSE End(sp[Max(Mine(i - 1))])
    BY DEF EndIn
  <2> HIDE DEF Mine
  <2> QED BY <1>2, <2>1, <2>2, <2>3
<1> QED BY <1>1, <1>2

LEMMA EndInNone ==
    ASSUME NEW i, NEW buf, NEW sp, \A j \in 1 .. i : sp[j].buf # buf
    PROVE  EndIn(sp, buf, i) = 0
BY DEF EndIn

LEMMA TilingNone ==
    ASSUME NEW sp, NEW buf, \A i \in 1 .. Len(sp) : sp[i].buf # buf
    PROVE  Tiling(sp, buf, 0)
BY EndInNone DEF Tiling

LEMMA TiledIsTiling ==
    ASSUME spans \in Seq(SpanSet), NEW buf, NEW size
    PROVE  Tiled(buf, size) <=> Tiling(spans, buf, size)
<1>1. DOMAIN spans = 1 .. Len(spans)
  BY LenProperties
<1>2. \A i : EndBefore(buf, i) = EndIn(spans, buf, i)
  BY DEF EndBefore, EndIn
<1> QED BY <1>1, <1>2 DEF Tiled, Tiling

\* A span begins where the last one in its buffer ended.
LEMMA TilingAppend ==
    ASSUME NEW sp \in Seq(SpanSet), NEW s \in SpanSet, NEW buf, NEW size, Tiling(sp, buf, size)
    PROVE  /\ s.buf = buf /\ s.from = size => Tiling(Append(sp, s), buf, size + s.len)
           /\ s.buf # buf => Tiling(Append(sp, s), buf, size)
<1> DEFINE n == Len(sp)
           sp2 == Append(sp, s)
<1>1. n \in Nat /\ Len(sp2) = n + 1 /\ sp2[n + 1] = s /\ \A i \in 1 .. n : sp2[i] = sp[i]
  BY LenProperties, AppendProperties
<1> HIDE DEF n, sp2
<1>2. ASSUME NEW i \in 0 .. n PROVE EndIn(sp2, buf, i) = EndIn(sp, buf, i)
  <2>1. i \in Nat /\ \A j \in 1 .. i : sp2[j] = sp[j]
    BY <1>1
  <2> QED BY <2>1, EndInKept
<1>3. EndIn(sp2, buf, n + 1) = IF s.buf = buf THEN End(s) ELSE EndIn(sp, buf, n)
  <2>1. n + 1 \in Nat /\ n + 1 >= 1 /\ (n + 1) - 1 = n /\ n \in 0 .. n
    BY <1>1
  <2>2. EndIn(sp2, buf, n + 1) = IF sp2[n + 1].buf = buf THEN End(sp2[n + 1]) ELSE EndIn(sp2, buf, (n + 1) - 1)
    BY <2>1, EndInLast
  <2> QED BY <1>1, <1>2, <2>1, <2>2
<1>4. size = EndIn(sp, buf, n)
  BY DEF Tiling, n
<1>5. ASSUME NEW i \in 1 .. n + 1, sp2[i].buf = buf, s.buf = buf => s.from = size
      PROVE  sp2[i].from = EndIn(sp2, buf, i - 1)
  <2>1. i - 1 \in 0 .. n
    BY <1>1
  <2>2. CASE i = n + 1
    <3>1. i - 1 = n
      BY <1>1, <2>2
    <3> QED BY <1>1, <1>2, <1>4, <1>5, <2>1, <2>2, <3>1
  <2>3. CASE i # n + 1
    <3>1. i \in 1 .. n /\ sp2[i] = sp[i]
      BY <1>1, <2>3
    <3> QED BY <1>2, <1>5, <2>1, <3>1 DEF Tiling, n
  <2> QED BY <2>2, <2>3
<1>6. ASSUME s.buf = buf, s.from = size PROVE Tiling(sp2, buf, size + s.len)
  BY <1>1, <1>3, <1>5, <1>6 DEF Tiling, End
<1>7. ASSUME s.buf # buf PROVE Tiling(sp2, buf, size)
  BY <1>1, <1>3, <1>4, <1>5, <1>7 DEF Tiling
<1> QED BY <1>6, <1>7 DEF sp2

\* What comes before a place is tiled as well.
LEMMA TilingPrefix ==
    ASSUME NEW sp \in Seq(SpanSet), NEW h \in 0 .. Len(sp), NEW buf, NEW size, Tiling(sp, buf, size)
    PROVE  Tiling(SubSeq(sp, 1, h), buf, EndIn(sp, buf, h))
<1> DEFINE sp2 == SubSeq(sp, 1, h)
<1>1. Len(sp) \in Nat /\ h \in Nat /\ Len(sp2) = h /\ \A i \in 1 .. h : sp2[i] = sp[i]
  <2>1. Len(sp) \in Nat /\ \A i \in 1 .. h : sp[i] \in SpanSet
    BY LenProperties, ElementOfSeq
  <2> QED BY <2>1, SubSeqProperties
<1> HIDE DEF sp2
<1>2. ASSUME NEW i \in 0 .. h PROVE EndIn(sp2, buf, i) = EndIn(sp, buf, i)
  <2>1. i \in Nat /\ \A j \in 1 .. i : sp2[j] = sp[j]
    BY <1>1
  <2> QED BY <2>1, EndInKept
<1>3. ASSUME NEW i \in 1 .. h, sp2[i].buf = buf PROVE sp2[i].from = EndIn(sp2, buf, i - 1)
  <2>1. i - 1 \in 0 .. h /\ i \in 1 .. Len(sp) /\ sp2[i] = sp[i]
    BY <1>1
  <2> QED BY <1>2, <1>3, <2>1 DEF Tiling
<1>4. EndIn(sp2, buf, h) = EndIn(sp, buf, h)
  BY <1>1, <1>2
<1> QED BY <1>1, <1>3, <1>4 DEF Tiling, sp2
-----------------------------------------------------------------------------
(* The bytes of the payload and of the text are accounted for.             *)

\* A path is made of the packet, the subpacket and where the frames are.
PathOf(k) ==
    LET p == stack[k].path IN
    /\ p \in Seq(Nat) /\ Len(p) = k + 1 /\ p[1] = pkt /\ p[2] = sub
    /\ \A j \in 1 .. k - 1 : p[j + 2] = stack[j].i

LEMMA PathsOfFrames ==
    ASSUME Frames, pc = "struct"
    PROVE  /\ \A k \in 1 .. Len(stack) : PathOf(k)
           /\ Top.i \in 1 .. Len(Top.acts) =>
                 /\ Path \in Seq(Nat) /\ Len(Path) = Len(stack) + 2 /\ Path[1] = pkt /\ Path[2] = sub
                 /\ \A j \in 1 .. Len(stack) : Path[j + 2] = stack[j].i
<1> DEFINE n == Len(stack)
           Astray == {k \in 1 .. n : ~PathOf(k)}
<1>0. n \in Nat /\ n >= 1 /\ Top = stack[n] /\ Outermost
  BY TopFacts DEF Frames
<1>1. \A k \in 1 .. n : PathOf(k)
  <2>1. SUFFICES ASSUME Astray # {} PROVE FALSE
    OBVIOUS
  <2>2. PICK m \in Astray : \A h \in Astray : m <= h
    <3>1. Astray \subseteq Nat
      OBVIOUS
    <3> HIDE DEF Astray
    <3> QED BY <2>1, <3>1, LeastNumber
  <2>3. m \in 1 .. n /\ ~PathOf(m) /\ IsFrame(stack[m])
    BY <2>2 DEF Frames
  <2>4. CASE m = 1
    <3>1. stack[1].path = <<pkt, sub>> /\ stack[1].path \in Seq(Nat)
      BY <1>0, <2>3, <2>4 DEF Outermost, IsFrame
    <3>2. Len(<<pkt, sub>>) = 2 /\ <<pkt, sub>>[1] = pkt /\ <<pkt, sub>>[2] = sub
      OBVIOUS
    <3> QED BY <2>3, <2>4, <3>1, <3>2 DEF PathOf
  <2>5. CASE m # 1
    <3>1. m \in 2 .. n /\ m - 1 \in 1 .. n /\ ~(m <= m - 1)
      BY <1>0, <2>3, <2>5
    <3>2. m - 1 \notin Astray
      <4> HIDE DEF Astray
      <4> QED BY <2>2, <3>1
    <3>3. PathOf(m - 1) /\ Nested(m) /\ IsFrame(stack[m - 1])
      BY <3>1, <3>2 DEF Frames
    <3> DEFINE p == stack[m - 1].path
               i == stack[m - 1].i
    <3>4. p \in Seq(Nat) /\ Len(p) = m /\ p[1] = pkt /\ p[2] = sub /\ i \in Nat
          /\ \A j \in 1 .. m - 2 : p[j + 2] = stack[j].i
      BY <2>3, <3>1, <3>3, SequenceFacts DEF PathOf, IsFrame, Listed
    <3>5. stack[m].path = Append(p, i)
      BY <3>3 DEF Nested
    <3> HIDE DEF p
    <3>6. Append(p, i) \in Seq(Nat) /\ Len(Append(p, i)) = m + 1 /\ Append(p, i)[m + 1] = i
          /\ \A j \in 1 .. m : Append(p, i)[j] = p[j]
      BY <3>4, AppendProperties
    <3>7. ASSUME NEW j \in 1 .. m - 1 PROVE Append(p, i)[j + 2] = stack[j].i
      <4>1. CASE j = m - 1
        BY <3>1, <3>6, <4>1
      <4>2. CASE j # m - 1
        <5>1. j \in 1 .. m - 2 /\ j + 2 \in 1 .. m
          BY <3>1, <4>2
        <5> QED BY <3>4, <3>6, <5>1
      <4> QED BY <4>1, <4>2
    <3>8. 1 \in 1 .. m /\ 2 \in 1 .. m
      BY <3>1
    <3>9. PathOf(m)
      BY <3>4, <3>5, <3>6, <3>7, <3>8 DEF PathOf
    <3> QED BY <2>3, <3>9
  <2> QED BY <2>4, <2>5
<1>2. ASSUME Top.i \in 1 .. Len(Top.acts)
      PROVE  /\ Path \in Seq(Nat) /\ Len(Path) = n + 2 /\ Path[1] = pkt /\ Path[2] = sub
             /\ \A j \in 1 .. n : Path[j + 2] = stack[j].i
  <2> DEFINE p == Top.path
             i == Top.i
  <2>1. PathOf(n) /\ i \in Nat
    BY <1>0, <1>1, <1>2
  <2>2. p \in Seq(Nat) /\ Len(p) = n + 1 /\ p[1] = pkt /\ p[2] = sub
        /\ \A j \in 1 .. n - 1 : p[j + 2] = stack[j].i
    BY <1>0, <2>1 DEF PathOf
  <2>3. Path = Append(p, i)
    BY DEF Path
  <2> HIDE DEF p
  <2>4. Append(p, i) \in Seq(Nat) /\ Len(Append(p, i)) = n + 2 /\ Append(p, i)[n + 2] = i
        /\ \A j \in 1 .. n + 1 : Append(p, i)[j] = p[j]
    BY <1>0, <2>1, <2>2, AppendProperties
  <2>5. ASSUME NEW j \in 1 .. n PROVE Append(p, i)[j + 2] = stack[j].i
    <3>1. CASE j = n
      BY <1>0, <2>4, <3>1
    <3>2. CASE j # n
      <4>1. j \in 1 .. n - 1 /\ j + 2 \in 1 .. n + 1
        BY <1>0, <3>2
      <4> QED BY <2>2, <2>4, <4>1
    <3> QED BY <3>1, <3>2
  <2>6. 1 \in 1 .. n + 1 /\ 2 \in 1 .. n + 1
    BY <1>0
  <2> QED BY <2>2, <2>3, <2>4, <2>5, <2>6
<1> QED BY <1>1, <1>2

LEMMA SpanTyped ==
    ASSUME Frames, pc = "struct", Top.i \in 1 .. Len(Top.acts),
           Action.do = "field" => Atom(Action.type), NEW len \in Nat
    PROVE  /\ Span(len) \in SpanSet
           /\ Span(len).path = Path /\ Span(len).buf = State.buf /\ Span(len).from = State.pos
           /\ Span(len).len = len
           /\ Action.do = "field" =>
                 /\ Span(len).cell = Path /\ Span(len).kind = Action.type.kind
                 /\ Span(len).width = Action.type.width
           /\ Action.do # "field" => Span(len).width = 0
<1> DEFINE path == Path
           buf == State.buf
           from == State.pos
           cell == IF Action.do = "field" THEN Path ELSE <<>>
           kind == IF Action.do = "field" THEN Action.type.kind ELSE ""
           width == IF Action.do = "field" THEN Action.type.width ELSE 0
           s == Span(len)
<1>1. path \in Seq(Nat) /\ buf \in {0, 1} /\ from \in Nat /\ cell \in Seq(Nat)
  BY PathsOfFrames, TopFacts
<1>2. kind \in Kinds \cup {""} /\ width \in Nat
  BY DEF Atom, Sized
<1>3. s = [path |-> path, buf |-> buf, from |-> from, len |-> len, cell |-> cell, kind |-> kind,
           width |-> width]
  BY DEF Span, Cell
<1>4. /\ Action.do = "field" => cell = Path /\ kind = Action.type.kind /\ width = Action.type.width
      /\ Action.do # "field" => width = 0
  OBVIOUS
<1> HIDE DEF path, buf, from, cell, kind, width, s
<1>5. /\ s.path = path /\ s.buf = buf /\ s.from = from /\ s.len = len
      /\ s.cell = cell /\ s.kind = kind /\ s.width = width
  BY <1>3
<1>6. s \in SpanSet
  BY <1>1, <1>2, <1>3 DEF SpanSet
<1> QED BY <1>4, <1>5, <1>6 DEF path, buf, from, s

\* Steps that take nothing leave the state of the last frame where it was.
LEMMA StateKept ==
    ASSUME Frames, Still, Fails \/ Notes \/ Enters \/ Exits
    PROVE  State'.buf = State.buf /\ State'.pos = State.pos /\ State'.left = State.left
<1>0. pc = "struct" /\ Len(stack) \in Nat /\ Len(stack) >= 1 /\ Top = stack[Len(stack)]
      /\ State.left \in Nat /\ State.pos \in Nat /\ Inside(State)
  BY TopFacts DEF Still
<1>1. State' = stack'[Len(stack')].state
  BY DEF State, Top
<1>2. CASE Fails \/ Notes
  <2>1. Turned(Len(stack), Stopped(Top)) \/ Turned(Len(stack), Forward(Top, State))
    BY <1>2 DEF Fails, Notes
  <2>2. Stopped(Top).state = State /\ Forward(Top, State).state = State
    BY DEF Stopped, Forward, State
  <2>3. State' = State
    BY <1>1, <2>1, <2>2 DEF Turned
  <2> QED BY <2>3
<1>3. CASE Enters
  BY <1>1, <1>3 DEF Enters, Turned
<1>4. CASE Exits
  <2> DEFINE d == Len(stack) - 1
             f == IF Returned > 0 THEN Forward(Outer, Further(Outer.state, Returned)) ELSE Stopped(Outer)
  <2>1. Len(stack) > 1 /\ Turned(d, f)
    BY <1>4 DEF Exits
  <2>2. d + 1 = Len(stack) /\ d \in 1 .. Len(stack) /\ Outer = stack[d] /\ Len(stack) \in 2 .. Len(stack)
    BY <1>0, <2>1 DEF Outer
  <2>3. IsFrame(Outer) /\ Inside(Outer.state) /\ Nested(Len(stack))
    BY <2>2 DEF Frames
  <2>4. /\ Outer.state.buf = State.buf /\ Returned = Outer.state.left - State.left
        /\ State.left <= Outer.state.left /\ Outer.state.left \in Nat /\ Outer.state.pos \in Nat
    BY <1>0, <2>2, <2>3 DEF Nested, State, Returned, IsFrame, States, Outer
  <2>5. Outer.state.pos + Outer.state.left = State.pos + State.left
    BY <1>0, <2>3, <2>4 DEF Inside
  <2>6. State' = f.state
    BY <1>1, <2>1 DEF Turned
  <2>7. CASE Returned > 0
    <3>1. f.state = Further(Outer.state, Returned)
      BY <2>7 DEF Forward
    <3> HIDE DEF f
    <3>2. State'.buf = Outer.state.buf /\ State'.pos = Outer.state.pos + Returned
          /\ State'.left = Outer.state.left - Returned
      BY <2>6, <3>1 DEF Further
    <3>3. \A x, y \in Nat : x - (x - y) = y
      BY SMTT(30)
    <3>4. Outer.state.left - Returned = State.left
      BY ONLY <1>0, <2>4, <3>3
    <3>5. \A x, y, z, w \in Nat : x + y = z + w => x + (y - w) = z
      BY SMTT(30)
    <3>6. Outer.state.pos + Returned = State.pos
      BY ONLY <1>0, <2>4, <2>5, <3>5
    <3> QED BY ONLY <2>4, <3>2, <3>4, <3>6
  <2>8. CASE ~(Returned > 0)
    <3>1. f.state = Outer.state
      BY <2>8 DEF Stopped
    <3>2. Outer.state.left = State.left
      BY <1>0, <2>4, <2>8
    <3>3. Outer.state.pos = State.pos
      BY <1>0, <2>4, <2>5, <3>2
    <3> QED BY <2>4, <2>6, <3>1, <3>2, <3>3
  <2> QED BY <2>7, <2>8
<1> QED BY <1>2, <1>3, <1>4

NoText == \A n \in 1 .. Len(spans) : spans[n].buf = 0
OfHeader(n) == spans[n].path[2] = 0
AllTiled == \A buf \in {0, 1} : Tiling(spans, buf, Len(Data(buf)))

\* The first h spans are the header's, of its constant size; the others those
\* of the subpacket.
HeaderEnds(h) ==
    /\ \A n \in 1 .. h : OfHeader(n) /\ spans[n].buf = 0
    /\ \A n \in h + 1 .. Len(spans) : spans[n].path[2] = sub
    /\ EndIn(spans, 0, h) = Packet(pkt).header

TilesInStruct ==
    /\ State.buf = 0 => Tiling(spans, 0, State.pos) /\ NoText
    /\ State.buf = 1 => Tiling(spans, 0, Len(payload)) /\ Tiling(spans, 1, State.pos)
    /\ sub = 0 => \A n \in 1 .. Len(spans) : OfHeader(n)
    /\ sub > 0 => \E h \in 0 .. Len(spans) : HeaderEnds(h)

Tiles ==
    /\ spans \in Seq(SpanSet)
    /\ pc = "struct" => TilesInStruct
    /\ pc = "subpackets" =>
          Tiling(spans, 0, processed) /\ NoText /\ \A n \in 1 .. Len(spans) : OfHeader(n)
    /\ pc = "verdict" /\ processed = Len(payload) /\ payload # <<>> => AllTiled
    /\ Identified => AllTiled

LEMMA TilesStart ==
    ASSUME Init
    PROVE  Tiles
<1>1. <<>> \in Seq(SpanSet)
  OBVIOUS
<1> QED BY <1>1 DEF Init, Tiles, Identified

LEMMA TilesResting ==
    ASSUME PacketsOK, Control, Frames, Tiles, Resting
    PROVE  Tiles'
<1>1. CASE UNCHANGED vars
  <2>1. UNCHANGED <<spans, pc, State, payload, text, sub, pkt, def, processed, result>>
    BY <1>1 DEF vars, decodeVars, tryVars, loaderVars, State, Top
  <2>2. /\ TilesInStruct' <=> TilesInStruct
        /\ AllTiled' <=> AllTiled
    BY <2>1 DEF TilesInStruct, AllTiled, NoText, OfHeader, HeaderEnds, Data, Packet
  <2> QED BY <2>1, <2>2 DEF Tiles, NoText, OfHeader, Identified
<1>2. CASE Loading
  BY <1>2 DEF Loading, Load, LoadElement, Refuse, Loaded, decodeVars, tryVars, Control, Tiles, Identified
<1>3. CASE Receive \/ Send
  BY <1>3 DEF Receive, Send, Process, Tiles, Identified
<1>4. CASE NoPacket
  BY <1>4 DEF NoPacket, tryVars, Control, Tiles, Identified
<1>5. CASE NoSub
  <2>1. pc = "subpackets" /\ pc' = "verdict" /\ UNCHANGED <<spans, payload, text, processed>>
    BY <1>5 DEF NoSub, tryVars
  <2>2. Tiling(spans, 0, processed) /\ NoText /\ text = <<>>
    BY <2>1 DEF Tiles, Frames
  <2>3. Tiling(spans, 1, 0)
    BY <2>2, TilingNone DEF NoText
  <2>4. processed = Len(payload) => AllTiled'
    BY <2>1, <2>2, <2>3 DEF AllTiled, Data
  <2> QED BY <2>1, <2>4 DEF Tiles, Identified
<1>6. CASE Verdict
  <2>1. /\ pc = "verdict" /\ UNCHANGED <<spans, payload, text>> /\ pc' \in {"idle", "packets"}
        /\ result' # 0 => result = result' \/ processed = Len(payload)
        /\ result = 0
    BY <1>6 DEF Verdict, Control
  <2>2. AllTiled' <=> AllTiled
    BY <2>1 DEF AllTiled, Data
  <2> QED BY <2>1, <2>2 DEF Tiles, Identified
<1> QED BY <1>1, <1>2, <1>3, <1>4, <1>5, <1>6 DEF Resting

\* A span of what is being filled does not change what the header's are.
LEMMA HeaderAppend ==
    ASSUME Control, Tiles, Still, NEW s \in SpanSet, s.path[2] = sub, spans' = Append(spans, s)
    PROVE  /\ spans' \in Seq(SpanSet)
           /\ (sub = 0 => \A n \in 1 .. Len(spans) : OfHeader(n))'
           /\ (sub > 0 => \E h \in 0 .. Len(spans) : HeaderEnds(h))'
           /\ NoText /\ s.buf = 0 => NoText'
<1> DEFINE n == Len(spans)
<1>0. n \in Nat /\ spans' \in Seq(SpanSet) /\ Len(spans') = n + 1 /\ spans'[n + 1] = s
      /\ \A i \in 1 .. n : spans'[i] = spans[i]
  BY LenProperties, AppendProperties DEF Tiles
<1>1. UNCHANGED <<sub, pkt>> /\ Packet(pkt)' = Packet(pkt) /\ TilesInStruct
  BY DEF Still, Packet, loaderVars, Tiles
<1>2. ASSUME sub = 0 PROVE (\A i \in 1 .. Len(spans) : OfHeader(i))'
  BY <1>0, <1>1, <1>2 DEF OfHeader, TilesInStruct
<1>3. ASSUME sub > 0 PROVE (\E h \in 0 .. Len(spans) : HeaderEnds(h))'
  <2>1. PICK h \in 0 .. n : HeaderEnds(h)
    BY <1>1, <1>3 DEF TilesInStruct
  <2>2. EndIn(spans', 0, h) = EndIn(spans, 0, h)
    <3>1. h \in Nat /\ \A j \in 1 .. h : spans'[j] = spans[j]
      BY <1>0
    <3> QED BY <3>1, EndInKept
  <2>3. HeaderEnds(h)'
    BY <1>0, <1>1, <2>1, <2>2 DEF HeaderEnds, OfHeader
  <2>4. h \in 0 .. Len(spans')
    BY <1>0
  <2> QED BY <2>3, <2>4
<1>4. ASSUME NoText, s.buf = 0 PROVE NoText'
  BY <1>0, <1>4 DEF NoText
<1> QED BY <1>0, <1>1, <1>2, <1>3, <1>4

LEMMA TilesTakes ==
    ASSUME PacketsOK, Control, Frames, Tiles, Still, Takes
    PROVE  Tiles'
<1> DEFINE r == Action.type.width * Got
           s == Span(r)
<1>0. /\ pc = "struct" /\ Top.i \in 1 .. Len(Top.acts) /\ Action.do = "field" /\ Atom(Action.type)
      /\ r \in 1 .. State.left /\ spans' = Append(spans, s)
      /\ Turned(Len(stack), Forward(Top, Further(State, r)))
  BY DEF Still, Takes, AtAction
<1>1. State.left \in Nat /\ r \in Nat /\ Len(stack) \in Nat /\ State.buf \in {0, 1}
  BY <1>0, TopFacts
<1>2. s \in SpanSet /\ s.path = Path /\ s.buf = State.buf /\ s.from = State.pos /\ s.len = r
  BY <1>0, <1>1, SpanTyped
<1>3. s.path[2] = sub
  BY <1>0, <1>2, PathsOfFrames
<1>4. State' = Further(State, r)
  BY <1>0, <1>1 DEF State, Top, Turned, Forward
<1> HIDE DEF r, s
<1>5. State'.buf = State.buf /\ State'.pos = State.pos + r
  BY <1>4 DEF Further
<1>6. TilesInStruct /\ spans \in Seq(SpanSet)
  BY <1>0 DEF Tiles
<1>7. /\ spans' \in Seq(SpanSet)
      /\ (sub = 0 => \A n \in 1 .. Len(spans) : OfHeader(n))'
      /\ (sub > 0 => \E h \in 0 .. Len(spans) : HeaderEnds(h))'
      /\ NoText /\ s.buf = 0 => NoText'
  BY <1>0, <1>2, <1>3, HeaderAppend
<1>8. CASE State.buf = 0
  <2>1. Tiling(spans, 0, State.pos) /\ NoText
    BY <1>6, <1>8 DEF TilesInStruct
  <2>2. Tiling(spans', 0, State.pos + r)
    BY <1>0, <1>2, <1>6, <1>8, <2>1, TilingAppend
  <2>3. TilesInStruct'
    BY <1>2, <1>5, <1>7, <1>8, <2>1, <2>2 DEF TilesInStruct
  <2> QED BY <1>0, <1>7, <2>3 DEF Tiles, Still, Identified
<1>9. CASE State.buf = 1
  <2>1. Tiling(spans, 0, Len(payload)) /\ Tiling(spans, 1, State.pos)
    BY <1>6, <1>9 DEF TilesInStruct
  <2>2. Tiling(spans', 0, Len(payload)) /\ Tiling(spans', 1, State.pos + r)
    BY <1>0, <1>2, <1>6, <1>9, <2>1, TilingAppend
  <2>3. TilesInStruct'
    BY <1>5, <1>7, <1>9, <2>2 DEF TilesInStruct, Still
  <2> QED BY <1>0, <1>7, <2>3 DEF Tiles, Still, Identified
<1> QED BY <1>1, <1>8, <1>9

LEMMA TilesUnpacks ==
    ASSUME PacketsOK, Control, Frames, Tiles, Still, Unpacks
    PROVE  Tiles' /\ State.buf = 0 /\ sub > 0
<1> DEFINE r == State.left
           s == Span(r)
<1>0. /\ pc = "struct" /\ Top.i \in 1 .. Len(Top.acts) /\ Action.do = "transformation"
      /\ spans' = Append(spans, s)
      /\ Turned(Len(stack), Forward(Top, [buf |-> 1, pos |-> 0, left |-> Len(text')]))
  BY DEF Still, Unpacks, AtAction
<1>1. r \in Nat /\ Len(stack) = 1 /\ State.buf \in {0, 1} /\ Inside(State) /\ Top = stack[1]
      /\ Outermost /\ IsFrame(Top)
  BY <1>0, TopFacts, FramesUnpacked DEF Frames
<1>2. s \in SpanSet /\ s.path = Path /\ s.buf = State.buf /\ s.from = State.pos /\ s.len = r
  BY <1>0, <1>1, SpanTyped
<1>3. s.path[2] = sub
  BY <1>0, <1>2, PathsOfFrames
<1>4. State' = [buf |-> 1, pos |-> 0, left |-> Len(text')]
  BY <1>0, <1>1 DEF State, Top, Turned, Forward
<1>5. /\ pkt \in 1 .. Len(def.packets) /\ sub \in 0 .. Len(Packet(pkt).subpackets)
      /\ Top.acts = ActionsOf(pkt, sub)
  <2>1. pkt \in 1 .. Len(def.packets) /\ sub \in Nat /\ sub <= Len(Packet(pkt).subpackets)
    BY <1>0 DEF Control
  <2>2. Len(Packet(pkt).subpackets) \in Nat
    BY <2>1, SequenceFacts DEF PacketsOK, PacketOK, Packet
  <2> QED BY <1>1, <2>1, <2>2 DEF Outermost
<1>6. sub > 0
  <2>1. SUFFICES ASSUME sub = 0 PROVE FALSE
    BY <1>5 DEF Control
  <2>2. OnlyFields(Top.acts)
    BY <1>5, <2>1, ActionsListed
  <2> QED BY <1>0, <2>2 DEF OnlyFields, Action
<1>7. State.buf = 0
  <2>1. SUFFICES ASSUME State.buf = 1 PROVE FALSE
    BY <1>1
  <2>2. PICK a \in 1 .. Top.i - 1 : Top.acts[a].do = "transformation"
    BY <1>1, <2>1 DEF Outermost, State
  <2>3. OneTransformation(Top.acts)
    BY <1>5, <1>6, ActionsListed
  <2>4. a \in 1 .. Len(Top.acts) /\ a # Top.i
    BY <1>0, TopFacts
  <2> QED BY <1>0, <2>2, <2>3, <2>4 DEF OneTransformation, Action
<1> HIDE DEF s
<1>8. TilesInStruct /\ spans \in Seq(SpanSet)
  BY <1>0 DEF Tiles
<1>9. /\ spans' \in Seq(SpanSet)
      /\ (sub = 0 => \A n \in 1 .. Len(spans) : OfHeader(n))'
      /\ (sub > 0 => \E h \in 0 .. Len(spans) : HeaderEnds(h))'
      /\ NoText'
  BY <1>0, <1>2, <1>3, <1>7, <1>8, HeaderAppend DEF TilesInStruct
<1>10. Tiling(spans', 0, State.pos + r) /\ State.pos + r = Len(payload)
  <2>1. Tiling(spans, 0, State.pos)
    BY <1>7, <1>8 DEF TilesInStruct
  <2> QED BY <1>0, <1>1, <1>2, <1>7, <1>8, <2>1, TilingAppend DEF Inside, Data
<1>11. Tiling(spans', 1, 0)
  BY <1>9, TilingNone DEF NoText
<1>12. State'.buf = 1 /\ State'.pos = 0
  BY <1>4
<1>13. TilesInStruct'
  BY <1>9, <1>10, <1>11, <1>12 DEF TilesInStruct, Still
<1> QED BY <1>0, <1>6, <1>7, <1>9, <1>13 DEF Tiles, Still, Identified

LEMMA TilesInStructStep ==
    ASSUME PacketsOK, Control, Frames, Tiles, InStruct
    PROVE  Tiles'
<1>1. Still /\ (Takes \/ Fails \/ Unpacks \/ Notes \/ Enters \/ Exits)
  BY StepsInStruct
<1>2. CASE Takes
  BY <1>1, <1>2, TilesTakes
<1>3. CASE Unpacks
  BY <1>1, <1>3, TilesUnpacks
<1>4. CASE Fails \/ Notes \/ Enters \/ Exits
  <2>1. spans' = spans /\ pc = "struct"
    BY <1>1, <1>4 DEF Still, Fails, Notes, Enters, Exits
  <2>2. State'.buf = State.buf /\ State'.pos = State.pos
    BY <1>1, <1>4, StateKept
  <2>3. TilesInStruct /\ UNCHANGED <<sub, pkt, payload>> /\ Packet(pkt)' = Packet(pkt)
    BY <1>1, <2>1 DEF Tiles, Still, Packet, loaderVars
  <2>4. TilesInStruct'
    BY <2>1, <2>2, <2>3 DEF TilesInStruct, HeaderEnds, OfHeader, NoText
  <2> QED BY <1>1, <2>1, <2>4 DEF Tiles, Still, Identified
<1> QED BY <1>1, <1>2, <1>3, <1>4

LEMMA TilesTryPacket ==
    ASSUME PacketsOK, Control, Frames, TryPacket
    PROVE  Tiles'
<1> DEFINE f == Frame(<<pkt', 0>>, Packet(pkt').actions, start)
<1>1. stack' = <<f>> /\ pc' = "struct" /\ sub' = 0 /\ spans' = <<>>
  BY DEF TryPacket
<1>2. f.state = start
  BY DEF Frame
<1> HIDE DEF f
<1>3. State' = start
  BY <1>1, <1>2 DEF State, Top
<1>4. start.buf = 0 /\ start.pos = 0
  BY DEF Control
<1>5. spans' \in Seq(SpanSet) /\ Len(spans') = 0
  BY <1>1
<1>6. Tiling(spans', 0, 0)
  BY <1>5, TilingNone
<1>7. TilesInStruct'
  BY <1>1, <1>3, <1>4, <1>5, <1>6 DEF TilesInStruct, NoText
<1> QED BY <1>1, <1>5, <1>7 DEF Tiles, Identified

LEMMA TilesTrySub ==
    ASSUME PacketsOK, Control, Frames, Tiles, TrySub
    PROVE  Tiles'
<1>1. /\ pc = "subpackets" /\ pc' = "struct" /\ sub' = sub + 1 /\ UNCHANGED <<spans, pkt, def, payload>>
  BY DEF TrySub, loaderVars
<1>2. Len(stack') = 1 /\ processed = Packet(pkt).header
      /\ stack'[1].state = [buf |-> 0, pos |-> Packet(pkt).header,
                            left |-> Len(payload) - Packet(pkt).header]
  BY FramesTrySub
<1>3. State'.buf = 0 /\ State'.pos = Packet(pkt).header
  BY <1>2 DEF State, Top
<1>4. Tiling(spans, 0, Packet(pkt).header) /\ NoText /\ \A n \in 1 .. Len(spans) : OfHeader(n)
  BY <1>1, <1>2 DEF Tiles
<1>5. spans \in Seq(SpanSet) /\ Len(spans) \in Nat /\ sub \in Nat /\ Packet(pkt)' = Packet(pkt)
  BY <1>1, LenProperties DEF Tiles, Control, Packet
<1>6. HeaderEnds(Len(spans))'
  BY <1>1, <1>4, <1>5 DEF HeaderEnds, OfHeader, NoText, Tiling
<1>7. Len(spans') \in 0 .. Len(spans') /\ Len(spans') = Len(spans)
  BY <1>1, <1>5
<1>8. (\E h \in 0 .. Len(spans) : HeaderEnds(h))'
  BY <1>1, <1>6, <1>7
<1>9. TilesInStruct'
  BY <1>1, <1>3, <1>4, <1>5, <1>8 DEF TilesInStruct, NoText
<1> QED BY <1>1, <1>5, <1>9 DEF Tiles, Identified

LEMMA TilesHeaderDone ==
    ASSUME PacketsOK, Control, Frames, Tiles, HeaderDone
    PROVE  Tiles'
<1>1. /\ pc = "struct" /\ sub = 0 /\ UNCHANGED <<spans, pkt, def, payload>>
      /\ \/ pc' = "subpackets" /\ processed' = Taking
         \/ pc' = "verdict" /\ processed' = 0
  BY DEF HeaderDone, Filled, loaderVars
<1>2. State.buf = 0 /\ Taking = State.pos
  BY FramesHeaderDone
<1>3. Tiling(spans, 0, State.pos) /\ NoText /\ \A n \in 1 .. Len(spans) : OfHeader(n)
  BY <1>1, <1>2 DEF Tiles, TilesInStruct
<1>4. Len(payload) = 0 => payload = <<>>
  BY EmptySeq DEF Control
<1> QED BY <1>1, <1>2, <1>3, <1>4 DEF Tiles, NoText, OfHeader, Identified

LEMMA HeaderSpansAre ==
    ASSUME Control, Tiles, pc = "struct", sub > 0, NEW h \in 0 .. Len(spans), HeaderEnds(h)
    PROVE  HeaderSpans = h
<1> DEFINE T == {0} \cup {i \in DOMAIN spans : spans[i].path[2] = 0}
<1>1. Len(spans) \in Nat /\ DOMAIN spans = 1 .. Len(spans)
  BY LenProperties DEF Tiles
<1>2. sub \in Nat
  BY DEF Control
<1>3. T = 0 .. h
  <2>1. \A i \in 1 .. h : i \in DOMAIN spans /\ spans[i].path[2] = 0
    BY <1>1 DEF HeaderEnds, OfHeader
  <2>2. \A i \in DOMAIN spans : spans[i].path[2] = 0 => i \in 0 .. h
    BY <1>1, <1>2 DEF HeaderEnds
  <2> QED BY <2>1, <2>2
<1> HIDE DEF T
<1>4. h \in Nat /\ h \in 0 .. h
  BY <1>1
<1>5. Max(T) \in T /\ h <= Max(T)
  BY <1>3, <1>4, MaxOf
<1>6. Max(T) = h
  BY <1>3, <1>4, <1>5
<1> QED BY <1>6 DEF T, HeaderSpans

LEMMA TilesSubDone ==
    ASSUME PacketsOK, Control, Frames, Tiles, SubDone
    PROVE  Tiles'
<1>1. /\ pc = "struct" /\ sub > 0 /\ Len(stack) = 1 /\ Ended
      /\ UNCHANGED <<pkt, def, payload, sub>>
  BY DEF SubDone, Filled, loaderVars
<1>2. /\ TilesInStruct /\ spans \in Seq(SpanSet) /\ State.buf \in {0, 1} /\ Inside(State)
      /\ State.left \in Nat /\ State.pos \in Nat /\ Top.left0 \in Nat
      /\ Outermost /\ Top = stack[1]
  BY <1>1, TopFacts DEF Tiles, Frames, IsFrame
<1>3. CASE Taking = Top.left0
  <2>1. /\ pc' = "verdict" /\ UNCHANGED <<text, spans>>
    BY <1>3 DEF SubDone
  <2>2. State.left = 0 /\ State.pos = Len(Data(State.buf))
    <3>1. Top.left0 - State.left = Top.left0 /\ State.pos + State.left = Len(Data(State.buf))
      BY <1>2, <1>3 DEF Taking, Inside
    <3>2. State.left = 0
      BY <1>2, <3>1
    <3> QED BY <1>2, <3>1, <3>2
  <2>3. AllTiled
    <3>1. CASE State.buf = 0
      <4>1. Tiling(spans, 0, Len(payload)) /\ NoText /\ text = <<>>
        BY <1>2, <2>2, <3>1 DEF TilesInStruct, Data, Outermost, State
      <4>2. Tiling(spans, 1, 0)
        BY <4>1, TilingNone DEF NoText
      <4> QED BY <4>1, <4>2 DEF AllTiled, Data
    <3>2. CASE State.buf = 1
      <4>1. Tiling(spans, 0, Len(payload)) /\ Tiling(spans, 1, Len(text))
        BY <1>2, <2>2, <3>2 DEF TilesInStruct, Data
      <4> QED BY <4>1 DEF AllTiled, Data
    <3> QED BY <1>2, <3>1, <3>2
  <2>4. AllTiled'
    BY <1>1, <2>1, <2>3 DEF AllTiled, Data
  <2> QED BY <1>2, <2>1, <2>4 DEF Tiles, Identified
<1>4. CASE Taking # Top.left0
  <2>1. /\ spans' = SubSeq(spans, 1, HeaderSpans) /\ pc' = "subpackets" /\ processed' = processed
    BY <1>4 DEF SubDone
  <2>2. PICK h \in 0 .. Len(spans) : HeaderEnds(h)
    BY <1>1, <1>2 DEF TilesInStruct
  <2>3. spans' = SubSeq(spans, 1, h)
    BY <1>1, <2>1, <2>2, HeaderSpansAre
  <2>4. processed = Packet(pkt).header /\ EndIn(spans, 0, h) = processed
    BY <1>1, <2>2 DEF Frames, HeaderEnds
  <2>5. \E size : Tiling(spans, 0, size)
    BY <1>2 DEF TilesInStruct
  <2>6. Tiling(spans', 0, processed)
    BY <1>2, <2>2, <2>3, <2>4, <2>5, TilingPrefix
  <2>7. spans' \in Seq(SpanSet) /\ Len(spans') = h /\ \A i \in 1 .. h : spans'[i] = spans[i]
    <3>1. Len(spans) \in Nat /\ \A i \in 1 .. h : spans[i] \in SpanSet
      BY <1>2, LenProperties, ElementOfSeq
    <3> QED BY <2>3, <3>1, SubSeqProperties
  <2>8. (NoText /\ \A n \in 1 .. Len(spans) : OfHeader(n))'
    BY <2>2, <2>7 DEF NoText, OfHeader, HeaderEnds
  <2> QED BY <2>1, <2>6, <2>7, <2>8 DEF Tiles, Identified
<1> QED BY <1>3, <1>4

LEMMA TilesStep ==
    ASSUME PacketsOK, Control, Frames, Tiles, [Next]_vars
    PROVE  Tiles'
<1>1. CASE InStruct
  BY <1>1, TilesInStructStep
<1>2. CASE Resting
  BY <1>2, TilesResting
<1>3. CASE TryPacket \/ TrySub \/ HeaderDone \/ SubDone
  BY <1>3, TilesTryPacket, TilesTrySub, TilesHeaderDone, TilesSubDone
<1> QED BY <1>1, <1>2, <1>3 DEF Next, Decode, InStruct, Resting

LEMMA TilesAreTiled ==
    ASSUME Tiles
    PROVE  WellTiled
BY TiledIsTiling DEF Tiles, AllTiled, WellTiled
-----------------------------------------------------------------------------
(* Values stay as they were read until the verdict, and as long as the     *)
(* packet is the result: no field is read twice in a trial.                *)

\* A path that the k-th frame has left behind.
BehindIn(st, p, k) ==
    /\ Len(p) >= k + 2 /\ p[k + 2] < st[k].i
    /\ \A j \in 1 .. k - 1 : p[j + 2] = st[j].i
PassedBy(p) == \E k \in 1 .. Len(stack) : BehindIn(stack, p, k)

\* A span whose numbers are in the memory, with the payload and the text it came from.
Decoded(mem, bytes, unpacked, s) ==
    s.width > 0 =>
        /\ s.cell = s.path /\ s.cell \in DOMAIN mem
        /\ \A m \in 1 .. (s.len \div s.width) :
              mem[s.cell][m] = Stored(s.kind, Number(IF s.buf = 0 THEN bytes ELSE unpacked,
                                                     s.from + (m - 1) * s.width, s.width))

Trial == pc \in {"struct", "subpackets", "verdict"} \/ Identified

Values ==
    /\ pc = "struct" => \A n \in 1 .. Len(spans) : (sub > 0 /\ OfHeader(n)) \/ PassedBy(spans[n].path)
    /\ Trial => \A n \in 1 .. Len(spans) : Decoded(memory, payload, text, spans[n])

LEMMA FrameFacts ==
    ASSUME NEW f, IsFrame(f)
    PROVE  f.i \in Nat /\ f.i >= 1 /\ Len(f.acts) \in Nat /\ f.i <= Len(f.acts) + 1
<1>1. Len(f.acts) \in Nat
  BY SequenceFacts DEF IsFrame, Listed
<1>2. f.i \in 1 .. Len(f.acts) + 1
  BY DEF IsFrame
<1> QED BY <1>1, <1>2

\* What comes next in a frame was not passed yet.
LEMMA PathIsNew ==
    ASSUME Frames, Values, pc = "struct", Top.i \in 1 .. Len(Top.acts), NEW n \in 1 .. Len(spans)
    PROVE  spans[n].path # Path
<1>1. /\ Len(Path) = Len(stack) + 2 /\ Path[2] = sub
      /\ \A j \in 1 .. Len(stack) : Path[j + 2] = stack[j].i
  BY PathsOfFrames
<1>2. CASE sub > 0 /\ OfHeader(n)
  BY <1>1, <1>2 DEF OfHeader
<1>3. CASE PassedBy(spans[n].path)
  <2>1. PICK k \in 1 .. Len(stack) : BehindIn(stack, spans[n].path, k)
    BY <1>3 DEF PassedBy
  <2>2. Path[k + 2] = stack[k].i /\ spans[n].path[k + 2] < stack[k].i
    BY <1>1, <2>1 DEF BehindIn
  <2>3. stack[k].i \in Nat
    BY <2>1, FrameFacts DEF Frames
  <2> QED BY <2>2, <2>3
<1> QED BY <1>2, <1>3 DEF Values

LEMMA BehindMoves ==
    ASSUME NEW p \in Seq(Nat), NEW k \in Nat, k >= 1, NEW st, NEW st2, BehindIn(st, p, k),
           st[k].i \in Nat, st2[k].i \in Nat, st2[k].i >= st[k].i,
           \A j \in 1 .. k - 1 : st2[j].i = st[j].i
    PROVE  BehindIn(st2, p, k)
<1>1. Len(p) >= k + 2 /\ p[k + 2] < st[k].i
  BY DEF BehindIn
<1>2. Len(p) \in Nat
  BY LenProperties
<1>3. k + 2 \in 1 .. Len(p)
  BY <1>1, <1>2
<1>4. p[k + 2] \in Nat
  BY <1>3, ElementOfSeq
<1> DEFINE x == p[k + 2]
           i == st[k].i
           j == st2[k].i
<1>5. x \in Nat /\ i \in Nat /\ j \in Nat /\ x < i /\ j >= i
  BY <1>1, <1>4
<1> HIDE DEF x, i, j
<1>6. x < j
  BY <1>5
<1> USE DEF x, i, j
<1> QED BY <1>1, <1>6 DEF BehindIn

\* The steps of a structure leave paths behind and never come back to them.
LEMMA PassedStays ==
    ASSUME Frames, Still, Takes \/ Fails \/ Unpacks \/ Notes \/ Enters \/ Exits,
           NEW p \in Seq(Nat), PassedBy(p)
    PROVE  PassedBy(p)'
<1> DEFINE n == Len(stack)
<1>0. pc = "struct" /\ n \in Nat /\ n >= 1 /\ Top = stack[n] /\ IsFrame(Top)
  BY TopFacts DEF Still
<1>1. PICK k \in 1 .. n : BehindIn(stack, p, k)
  BY DEF PassedBy
<1>2. \A j \in 1 .. n : stack[j].i \in Nat /\ stack[j].i >= 1 /\ Len(stack[j].acts) \in Nat
                        /\ stack[j].i <= Len(stack[j].acts) + 1
  BY FrameFacts DEF Frames
<1>21. /\ Top.i \in Nat /\ Top.i >= 1 /\ Len(Top.acts) \in Nat /\ k \in Nat /\ k >= 1
       /\ stack[k].i \in Nat
  BY <1>0, <1>1, <1>2
<1> HIDE DEF n
<1>3. ASSUME NEW m \in 1 .. n, k <= m, NEW f, Turned(m, f), f.i \in Nat, f.i >= stack[m].i
      PROVE  PassedBy(p)'
  <2>1. Len(stack') = m /\ stack'[m] = f /\ \A j \in 1 .. m - 1 : stack'[j] = stack[j]
    BY <1>3 DEF Turned
  <2>2. m \in Nat /\ k \in 1 .. m /\ \A j \in 1 .. k - 1 : j \in 1 .. m - 1
    BY <1>0, <1>3, <1>21
  <2>3. \A j \in 1 .. k - 1 : stack'[j].i = stack[j].i
    BY <2>1, <2>2
  <2>4. stack'[k].i \in Nat /\ stack'[k].i >= stack[k].i
    <3>1. CASE k = m
      BY <1>3, <2>1, <3>1
    <3>2. CASE k # m
      <4>1. k \in 1 .. m - 1
        BY <2>2, <3>2
      <4>2. stack'[k] = stack[k]
        BY <2>1, <4>1
      <4> QED BY <1>21, <4>2
    <3> QED BY <3>1, <3>2
  <2>5. BehindIn(stack', p, k)
    BY <1>1, <1>21, <2>3, <2>4, BehindMoves
  <2> QED BY <2>1, <2>2, <2>5 DEF PassedBy
<1>4. CASE Takes \/ Unpacks \/ Notes
  <2>1. PICK st : Turned(n, Forward(Top, st))
    BY <1>4 DEF Takes, Unpacks, Notes, n
  <2>2. Forward(Top, st).i = Top.i + 1
    BY DEF Forward
  <2>3. n \in 1 .. n /\ k <= n
    BY <1>0, <1>1
  <2> HIDE DEF Forward
  <2> QED BY <1>0, <1>3, <1>21, <2>1, <2>2, <2>3, SMTT(30)
<1>5. CASE Fails
  <2>1. Turned(n, Stopped(Top)) /\ Top.i \in 1 .. Len(Top.acts)
    BY <1>5 DEF Fails, n
  <2>2. Stopped(Top).i = Len(Top.acts) + 1
    BY DEF Stopped
  <2>3. n \in 1 .. n /\ k <= n
    BY <1>0, <1>1
  <2> DEFINE f == Stopped(Top)
  <2>4. f.i \in Nat /\ f.i >= Top.i
    BY <1>21, <2>1, <2>2
  <2>5. Turned(n, f) /\ f.i >= stack[n].i
    BY <1>0, <2>1, <2>4
  <2> HIDE DEF f
  <2> QED BY <1>3, <2>3, <2>4, <2>5
<1>6. CASE Enters
  <2>1. Len(stack') = n + 1 /\ \A j \in 1 .. n : stack'[j] = stack[j]
    BY <1>0, <1>6 DEF Enters, Turned, n
  <2>2. k \in 1 .. n /\ k \in 1 .. n + 1 /\ \A j \in 1 .. k - 1 : j \in 1 .. n
    BY <1>0, <1>1
  <2>3. stack'[k] = stack[k] /\ \A j \in 1 .. k - 1 : stack'[j] = stack[j]
    BY <2>1, <2>2
  <2>4. stack'[k].i \in Nat /\ stack'[k].i >= stack[k].i /\ \A j \in 1 .. k - 1 : stack'[j].i = stack[j].i
    BY <1>21, <2>3
  <2>5. BehindIn(stack', p, k)
    BY <1>1, <1>21, <2>4, BehindMoves
  <2> QED BY <2>1, <2>2, <2>5 DEF PassedBy
<1>7. CASE Exits
  <2> DEFINE d == n - 1
             f == IF Returned > 0 THEN Forward(Outer, Further(Outer.state, Returned)) ELSE Stopped(Outer)
  <2>1. n > 1 /\ d \in 1 .. n /\ Turned(d, f) /\ Outer = stack[d] /\ n \in 2 .. n /\ d \in Nat
    BY <1>0, <1>7 DEF Exits, Outer, n
  <2>2. Outer.i \in 1 .. Len(Outer.acts) /\ Len(Outer.acts) \in Nat
    <3>1. Nested(n)
      BY <2>1 DEF Frames, n
    <3> QED BY <1>2, <2>1, <3>1 DEF Nested
  <2>3. f.i > Outer.i /\ f.i \in Nat
    <3>1. f.i = Outer.i + 1 \/ f.i = Len(Outer.acts) + 1
      BY DEF Forward, Stopped
    <3> DEFINE i == Outer.i
               l == Len(Outer.acts)
               j == f.i
    <3>2. i \in 1 .. l /\ l \in Nat /\ (j = i + 1 \/ j = l + 1)
      BY <2>2, <3>1
    <3> HIDE DEF i, l, j
    <3>3. j > i /\ j \in Nat
      BY <3>2
    <3> QED BY <3>3 DEF i, j
  <2> HIDE DEF f
  <2>4. Len(stack') = d /\ stack'[d] = f /\ \A j \in 1 .. d - 1 : stack'[j] = stack[j]
    BY <2>1 DEF Turned
  <2>5. CASE k = n
    <3>1. d + 1 = n /\ d \in 1 .. k - 1 /\ \A j \in 1 .. d - 1 : j \in 1 .. k - 1
      BY <1>0, <2>1, <2>5
    <3>2. p[d + 2] = Outer.i /\ Len(p) >= k + 2 /\ \A j \in 1 .. d - 1 : p[j + 2] = stack[j].i
      BY <1>1, <2>1, <3>1 DEF BehindIn
    <3>3. Len(p) >= d + 2 /\ p[d + 2] < f.i
      <4>1. Len(p) \in Nat
        BY LenProperties
      <4>2. Len(p) >= d + 2
        BY <2>1, <2>5, <3>1, <3>2, <4>1
      <4>3. p[d + 2] < f.i
        BY <2>2, <2>3, <3>2
      <4> QED BY <4>2, <4>3
    <3>4. \A j \in 1 .. d - 1 : p[j + 2] = stack'[j].i
      BY <2>4, <3>2
    <3>5. BehindIn(stack', p, d)
      BY <2>4, <3>3, <3>4 DEF BehindIn
    <3>6. d \in 1 .. Len(stack')
      BY <2>1, <2>4
    <3> QED BY <3>5, <3>6 DEF PassedBy
  <2>6. CASE k # n
    <3>1. k <= d
      BY <1>0, <1>1, <2>1, <2>6
    <3>2. f.i >= stack[d].i
      BY <2>1, <2>2, <2>3
    <3> HIDE DEF d
    <3> QED BY <1>3, <2>1, <2>3, <3>1, <3>2 DEF f
  <2> QED BY <2>5, <2>6
<1> QED BY <1>4, <1>5, <1>6, <1>7

\* Putting a value somewhere else keeps what was decoded.
LEMMA DecodedKept ==
    ASSUME NEW mem, NEW bytes, NEW unpacked, NEW s, Decoded(mem, bytes, unpacked, s),
           NEW mem2, NEW unpacked2, s.buf = 0 \/ unpacked2 = unpacked,
           mem2 = mem \/ \E x, v : x # s.path /\ mem2 = Put(mem, x, v)
    PROVE  Decoded(mem2, bytes, unpacked2, s)
<1>1. CASE s.width > 0
  <2>1. s.cell = s.path /\ s.cell \in DOMAIN mem
    BY <1>1 DEF Decoded
  <2>2. s.cell \in DOMAIN mem2 /\ mem2[s.cell] = mem[s.cell]
    BY <2>1 DEF Put
  <2>3. (IF s.buf = 0 THEN bytes ELSE unpacked2) = (IF s.buf = 0 THEN bytes ELSE unpacked)
    OBVIOUS
  <2> QED BY <1>1, <2>1, <2>2, <2>3 DEF Decoded
<1>2. CASE ~(s.width > 0)
  BY <1>2 DEF Decoded
<1> QED BY <1>1, <1>2

\* What a field has read is decoded.
LEMMA ReadingIsDecoded ==
    ASSUME Frames, Still, Takes
    PROVE  Decoded(memory', payload, text, Span(Action.type.width * Got))
<1> DEFINE t == Action.type
           w == t.width
           r == w * Got
           s == Span(r)
           data == Data(State.buf)
<1>1. /\ pc = "struct" /\ Top.i \in 1 .. Len(Top.acts) /\ Action.do = "field" /\ Atom(t)
      /\ r \in 1 .. State.left /\ memory' = Put(memory, Path, Reading)
  BY DEF Still, Takes, AtAction
<1>2. State.left \in Nat /\ r \in Nat
  BY <1>1, TopFacts
<1>3. w \in Nat \ {0} /\ t.count \in Nat /\ t.min \in Nat
  BY <1>1 DEF Atom, Sized
<1>4. Got \in Nat /\ Got <= t.count
  <2>1. Sized(t)
    BY <1>1 DEF Atom
  <2>2. Got \in 0 .. t.count
    BY <1>2, <2>1, EntriesFit DEF Got
  <2> QED BY <1>3, <2>2
<1>5. /\ s.path = Path /\ s.buf = State.buf /\ s.from = State.pos /\ s.len = r
      /\ s.cell = Path /\ s.kind = t.kind /\ s.width = w
  BY <1>1, <1>2, SpanTyped
<1>6. r \div w = Got
  <2> DEFINE n == Got
  <2>1. n \in Nat /\ w \in Nat \ {0}
    BY <1>3, <1>4
  <2> HIDE DEF n, w
  <2>2. (w * n) \div w = n
    BY <2>1
  <2> QED BY <2>2 DEF n
<1>7. ASSUME NEW m \in 1 .. Got
      PROVE  Reading[m] = Stored(t.kind, Number(data, State.pos + (m - 1) * w, w))
  <2>1. m \in 1 .. t.count /\ m <= Got
    BY <1>3, <1>4
  <2> QED BY <2>1 DEF Reading, Read
<1>8. Path \in DOMAIN memory' /\ memory'[Path] = Reading
  BY <1>1 DEF Put
<1>9. (IF s.buf = 0 THEN payload ELSE text) = data
  BY <1>5 DEF Data
<1> HIDE DEF s, data, r, w
<1> QED BY <1>5, <1>6, <1>7, <1>8, <1>9 DEF Decoded, s, r, w

LEMMA ValuesStart ==
    ASSUME Init
    PROVE  Values
BY DEF Init, Values, Trial, Identified

LEMMA ValuesInStruct ==
    ASSUME PacketsOK, Control, Frames, Tiles, Values, InStruct
    PROVE  Values'
<1> DEFINE n == Len(spans)
           d == Len(stack)
<1>0. /\ Still /\ (Takes \/ Fails \/ Unpacks \/ Notes \/ Enters \/ Exits)
      /\ pc = "struct" /\ pc' = "struct" /\ sub' = sub /\ payload' = payload
  BY StepsInStruct DEF Still
<1>1. d \in Nat /\ d >= 1 /\ Top = stack[d]
  BY <1>0, TopFacts
<1>2. /\ spans \in Seq(SpanSet) /\ n \in Nat /\ \A i \in 1 .. n : spans[i].path \in Seq(Nat)
  <2>1. spans \in Seq(SpanSet)
    BY DEF Tiles
  <2>2. \A i \in 1 .. n : spans[i] \in SpanSet
    BY <2>1, ElementOfSeq
  <2> QED BY <2>1, <2>2, SpanParts, LenProperties
<1>3. \A i \in 1 .. n : (sub > 0 /\ OfHeader(i)) \/ PassedBy(spans[i].path)
  BY <1>0 DEF Values
<1>4. \A i \in 1 .. n : Decoded(memory, payload, text, spans[i])
  BY <1>0 DEF Values, Trial
<1>5. ASSUME NEW i \in 1 .. n, ~(sub > 0 /\ OfHeader(i))
      PROVE  \E k \in 1 .. Len(stack') : BehindIn(stack', spans[i].path, k)
  <2>1. PassedBy(spans[i].path)
    BY <1>3, <1>5
  <2>2. ASSUME NEW p \in Seq(Nat), PassedBy(p) PROVE \E k \in 1 .. Len(stack') : BehindIn(stack', p, k)
    BY <1>0, <2>2, PassedStays DEF PassedBy
  <2> QED BY <1>2, <2>1, <2>2
<1>6. CASE Fails \/ Notes \/ Enters \/ Exits
  <2>1. /\ spans' = spans /\ text' = text
        /\ \/ memory' = memory
           \/ Top.i \in 1 .. Len(Top.acts) /\ memory' = Put(memory, Path, Reading)
    BY <1>6 DEF Fails, Notes, Enters, Exits
  <2>2. ASSUME NEW i \in 1 .. n PROVE Decoded(memory', payload, text, spans[i])
    <3>1. memory' = memory \/ \E x, v : x # spans[i].path /\ memory' = Put(memory, x, v)
      BY <1>0, <2>1, PathIsNew
    <3> QED BY <1>4, <3>1, DecodedKept
  <2> QED BY <1>0, <1>5, <2>1, <2>2 DEF Values, OfHeader, PassedBy
<1>7. CASE Takes \/ Unpacks
  <2>1. PICK st : Turned(d, Forward(Top, st))
    BY <1>7 DEF Takes, Unpacks
  <2>2. Top.i \in 1 .. Len(Top.acts)
    BY <1>7 DEF Takes, Unpacks, AtAction
  <2>3. PICK s \in SpanSet : /\ spans' = Append(spans, s) /\ s.path = Path
                             /\ Decoded(memory', payload, text', s)
    <3>1. CASE Takes
      <4> DEFINE r == Action.type.width * Got
      <4>1. r \in Nat /\ Atom(Action.type) /\ spans' = Append(spans, Span(r)) /\ text' = text
        <5>1. r \in 1 .. State.left /\ State.left \in Nat
          BY <1>0, <3>1, TopFacts DEF Takes
        <5> QED BY <3>1, <5>1 DEF Takes
      <4>2. Span(r) \in SpanSet /\ Span(r).path = Path
        BY <1>0, <2>2, <4>1, SpanTyped
      <4>3. Decoded(memory', payload, text, Span(r))
        BY <1>0, <3>1, ReadingIsDecoded
      <4> QED BY <4>1, <4>2, <4>3
    <3>2. CASE Unpacks
      <4> DEFINE r == State.left
      <4>1. r \in Nat /\ Action.do # "field" /\ spans' = Append(spans, Span(r))
        BY <1>0, <3>2, TopFacts DEF Unpacks, AtAction
      <4>2. Span(r) \in SpanSet /\ Span(r).path = Path /\ Span(r).width = 0
        BY <1>0, <2>2, <4>1, SpanTyped
      <4> QED BY <4>1, <4>2 DEF Decoded
    <3> QED BY <1>7, <3>1, <3>2
  <2>4. Len(spans') = n + 1 /\ spans'[n + 1] = s /\ \A i \in 1 .. n : spans'[i] = spans[i]
    BY <1>2, <2>3, AppendProperties
  <2>5. BehindIn(stack', Path, d) /\ d \in 1 .. Len(stack')
    <3>1. /\ Len(Path) = d + 2 /\ \A j \in 1 .. d : Path[j + 2] = stack[j].i
          /\ Path \in Seq(Nat)
      BY <1>0, <2>2, PathsOfFrames
    <3>2. Len(stack') = d /\ stack'[d].i = Top.i + 1 /\ \A j \in 1 .. d - 1 : stack'[j] = stack[j]
      BY <2>1 DEF Turned, Forward
    <3>3. Top.i \in Nat /\ Path[d + 2] = Top.i
      <4>1. d \in 1 .. d
        BY <1>1
      <4> HIDE DEF d
      <4> QED BY <1>1, <2>2, <3>1, <4>1
    <3>4. Path[d + 2] < stack'[d].i
      BY <3>2, <3>3
    <3>5. \A j \in 1 .. d - 1 : Path[j + 2] = stack'[j].i
      <4>1. \A j \in 1 .. d - 1 : j \in 1 .. d
        BY <1>1
      <4> HIDE DEF d
      <4> QED BY <3>1, <3>2, <4>1
    <3> QED BY <1>1, <3>1, <3>2, <3>4, <3>5 DEF BehindIn
  <2>6. ASSUME NEW i \in 1 .. n PROVE Decoded(memory', payload, text', spans[i])
    <3>1. spans[i].path # Path
      BY <1>0, <2>2, PathIsNew
    <3>2. memory' = memory \/ \E x, v : x # spans[i].path /\ memory' = Put(memory, x, v)
      BY <1>7, <3>1 DEF Takes, Unpacks
    <3>3. spans[i].buf = 0 \/ text' = text
      <4>1. CASE Takes
        BY <4>1 DEF Takes
      <4>2. CASE Unpacks
        <5>1. State.buf = 0
          BY <1>0, <4>2, TilesUnpacks
        <5>2. NoText
          BY <1>0, <5>1 DEF Tiles, TilesInStruct
        <5> QED BY <5>2 DEF NoText
      <4> QED BY <1>7, <4>1, <4>2
    <3> QED BY <1>4, <3>2, <3>3, DecodedKept
  <2>7. ASSUME NEW i \in 1 .. n + 1
        PROVE  /\ Decoded(memory', payload, text', spans'[i])
               /\ \/ sub > 0 /\ spans'[i].path[2] = 0
                  \/ \E k \in 1 .. Len(stack') : BehindIn(stack', spans'[i].path, k)
    <3>1. CASE i = n + 1
      BY <2>3, <2>4, <2>5, <3>1
    <3>2. CASE i # n + 1
      <4>1. i \in 1 .. n /\ spans'[i] = spans[i]
        BY <1>2, <2>4, <3>2
      <4> QED BY <1>5, <2>6, <4>1 DEF OfHeader
    <3> QED BY <3>1, <3>2
  <2> QED BY <1>0, <2>4, <2>7 DEF Values, OfHeader, PassedBy
<1> QED BY <1>0, <1>6, <1>7

LEMMA ValuesStep ==
    ASSUME PacketsOK, Control, Frames, Tiles, Values, [Next]_vars
    PROVE  Values'
<1>1. CASE InStruct
  BY <1>1, ValuesInStruct
<1>2. CASE UNCHANGED vars
  <2>1. UNCHANGED <<spans, pc, stack, payload, text, sub, memory, result>>
    BY <1>2 DEF vars, decodeVars, tryVars
  <2> QED BY <2>1 DEF Values, Trial, Identified, OfHeader, PassedBy
<1>3. CASE Loading
  BY <1>3 DEF Loading, Load, LoadElement, Refuse, Loaded, decodeVars, tryVars, Control, Values, Trial, Identified
<1>4. CASE Receive \/ Send
  BY <1>4 DEF Receive, Send, Process, Values, Trial, Identified
<1>5. CASE NoPacket
  BY <1>5 DEF NoPacket, tryVars, Control, Values, Trial, Identified
<1>6. CASE NoSub
  BY <1>6 DEF NoSub, tryVars, Values, Trial
<1>7. CASE Verdict
  BY <1>7 DEF Verdict, Control, Values, Trial, Identified
<1>8. CASE TryPacket
  <2>1. spans' = <<>>
    BY <1>8 DEF TryPacket
  <2> QED BY <2>1 DEF Values
<1>9. CASE HeaderDone
  BY <1>9 DEF HeaderDone, Filled, Values, Trial
<1>10. CASE TrySub
  <2>1. /\ pc = "subpackets" /\ pc' = "struct" /\ sub' = sub + 1
        /\ UNCHANGED <<spans, payload, text, memory>>
    BY <1>10 DEF TrySub
  <2>2. sub' > 0 /\ \A n \in 1 .. Len(spans) : OfHeader(n)
    BY <2>1 DEF Control, Tiles
  <2> QED BY <2>1, <2>2 DEF Values, Trial, OfHeader
<1>11. CASE SubDone
  <2>1. /\ pc = "struct" /\ sub > 0 /\ UNCHANGED <<payload, memory>> /\ pc' # "struct"
    BY <1>11 DEF SubDone, Filled
  <2>2. \A n \in 1 .. Len(spans) : Decoded(memory, payload, text, spans[n])
    BY <2>1 DEF Values, Trial
  <2>3. CASE UNCHANGED <<text, spans>>
    BY <2>1, <2>2, <2>3 DEF Values
  <2>4. CASE ~ UNCHANGED <<text, spans>>
    <3>1. spans' = SubSeq(spans, 1, HeaderSpans)
      BY <1>11, <2>4 DEF SubDone
    <3>2. PICK h \in 0 .. Len(spans) : HeaderEnds(h)
      BY <2>1 DEF Tiles, TilesInStruct
    <3>3. spans' = SubSeq(spans, 1, h)
      BY <2>1, <3>1, <3>2, HeaderSpansAre
    <3>4. Len(spans') = h /\ \A i \in 1 .. h : i \in 1 .. Len(spans) /\ spans'[i] = spans[i]
      <4>1. spans \in Seq(SpanSet) /\ Len(spans) \in Nat
        BY LenProperties DEF Tiles
      <4>2. \A i \in 1 .. h : i \in 1 .. Len(spans) /\ spans[i] \in SpanSet
        BY <4>1, ElementOfSeq
      <4> QED BY <3>3, <4>1, <4>2, SubSeqProperties
    <3>5. ASSUME NEW i \in 1 .. h PROVE Decoded(memory', payload, text', spans'[i])
      <4>1. spans[i].buf = 0 /\ Decoded(memory, payload, text, spans[i])
        BY <2>2, <3>2, <3>4 DEF HeaderEnds
      <4> QED BY <2>1, <3>4, <4>1, DecodedKept
    <3> QED BY <2>1, <3>4, <3>5 DEF Values
  <2> QED BY <2>3, <2>4
<1> QED BY <1>1, <1>2, <1>3, <1>4, <1>5, <1>6, <1>7, <1>8, <1>9, <1>10, <1>11
        DEF Next, Decode, InStruct

LEMMA ValuesAreDecoded ==
    ASSUME Tiles, Values
    PROVE  PrintedIsDecoded
<1>1. DOMAIN spans = 1 .. Len(spans)
  BY LenProperties DEF Tiles
<1> QED BY <1>1 DEF Values, Trial, Decoded, PrintedIsDecoded, Data
-----------------------------------------------------------------------------
(* The actions of a packet or a subpacket supply their spans in their      *)
(* order, each one before the next.                                        *)

\* A span of the i-th action of a subpacket, 0 for the packet's own.
OfAction(p, s, i) == p[2] = s /\ p[3] = i
Has(sp, s, i) == \E n \in 1 .. Len(sp) : OfAction(sp[n].path, s, i)

IsField(s, i) == ActionsOf(pkt, s)[i].do = "field"

Shape == \A n \in 1 .. Len(spans) : Len(spans[n].path) >= 3 /\ spans[n].path[1] = pkt

Ordered(s) ==
    \A i, j \in 1 .. Len(ActionsOf(pkt, s)) :
        i < j /\ IsField(s, i) /\ IsField(s, j) /\ Has(spans, s, j) => Has(spans, s, i)

\* A field that does not vary is one span.
InOneSpan(sp, path, t) ==
    Atom(t) /\ t.min = t.count => \E n \in 1 .. Len(sp) : sp[n].path = path /\ sp[n].len = FullSize(t)

\* As long as nothing failed, all the fields before have supplied something.
Progress ==
    LET f == stack[1] IN
    f.i <= Len(f.acts) =>
        \A a \in 1 .. f.i - 1 :
            f.acts[a].do = "field" =>
                Has(spans, sub, a) /\ InOneSpan(spans, Append(f.path, a), f.acts[a].type)

\* Within a structure, the last spans are those of its field.
Covered ==
    Len(stack) > 1 =>
        LET i == stack[1].i IN
        \/ ~Has(spans, sub, i) /\ State.pos = stack[1].state.pos
        \/ \E x \in 1 .. Len(spans) :
              /\ spans[x].from = stack[1].state.pos
              /\ \A n \in 1 .. Len(spans) : OfAction(spans[n].path, sub, i) <=> n >= x

Ranks ==
    /\ pc \in {"struct", "subpackets"} => Shape /\ Ordered(0)
    /\ pc = "struct" => Ordered(sub) /\ Progress /\ Covered

LEMMA RanksStart ==
    ASSUME Init
    PROVE  Ranks
BY DEF Init, Ranks

\* What the outermost frame has come to.
LEMMA Bottom ==
    ASSUME Control, Frames, pc = "struct"
    PROVE  /\ Len(stack) \in Nat /\ Len(stack) >= 1 /\ Top = stack[Len(stack)]
           /\ stack[1].i \in Nat /\ stack[1].i >= 1 /\ Len(stack[1].acts) \in Nat
           /\ stack[1].acts = ActionsOf(pkt, sub) /\ stack[1].path = <<pkt, sub>>
           /\ Len(stack) > 1 => /\ stack[1].i <= Len(stack[1].acts)
                                /\ stack[1].acts[stack[1].i].do = "field"
                                /\ IsStruct(stack[1].acts[stack[1].i].type)
<1>1. Len(stack) \in Nat /\ Len(stack) >= 1 /\ Top = stack[Len(stack)]
  BY TopFacts
<1>2. IsFrame(stack[1])
  BY <1>1 DEF Frames
<1>3. stack[1].i \in Nat /\ stack[1].i >= 1 /\ Len(stack[1].acts) \in Nat
  BY <1>2, FrameFacts
<1>4. ASSUME Len(stack) > 1
      PROVE  /\ stack[1].i <= Len(stack[1].acts)
             /\ stack[1].acts[stack[1].i].do = "field"
             /\ IsStruct(stack[1].acts[stack[1].i].type)
  <2>1. Nested(2) /\ 2 - 1 = 1
    BY <1>1, <1>4 DEF Frames
  <2> QED BY <1>3, <2>1 DEF Nested
<1> QED BY <1>1, <1>3, <1>4 DEF Frames, Outermost

\* What one more span makes of Has.
LEMMA HasAppended ==
    ASSUME NEW sp \in Seq(SpanSet), NEW s \in SpanSet, NEW k, NEW i
    PROVE  Has(Append(sp, s), k, i) <=> Has(sp, k, i) \/ OfAction(s.path, k, i)
<1> DEFINE n == Len(sp)
           sp2 == Append(sp, s)
<1>1. n \in Nat /\ Len(sp2) = n + 1 /\ sp2[n + 1] = s /\ \A j \in 1 .. n : sp2[j] = sp[j]
  BY LenProperties, AppendProperties
<1> HIDE DEF n, sp2
<1>2. ASSUME Has(sp2, k, i) PROVE Has(sp, k, i) \/ OfAction(s.path, k, i)
  <2>1. PICK j \in 1 .. n + 1 : OfAction(sp2[j].path, k, i)
    BY <1>1, <1>2 DEF Has
  <2>2. CASE j = n + 1
    BY <1>1, <2>1, <2>2
  <2>3. CASE j # n + 1
    <3>1. j \in 1 .. n /\ sp2[j] = sp[j]
      BY <1>1, <2>3
    <3> QED BY <2>1, <3>1 DEF Has, n
  <2> QED BY <2>2, <2>3
<1>3. ASSUME Has(sp, k, i) PROVE Has(sp2, k, i)
  <2>1. PICK j \in 1 .. n : OfAction(sp[j].path, k, i)
    BY <1>3 DEF Has, n
  <2>2. j \in 1 .. n + 1 /\ sp2[j] = sp[j]
    BY <1>1
  <2> QED BY <1>1, <2>1, <2>2 DEF Has
<1>4. ASSUME OfAction(s.path, k, i) PROVE Has(sp2, k, i)
  <2>1. n + 1 \in 1 .. n + 1
    BY <1>1
  <2> QED BY <1>1, <1>4, <2>1 DEF Has
<1> QED BY <1>2, <1>3, <1>4 DEF sp2

\* One more span leaves those there are where they are.
LEMMA RanksAppend ==
    ASSUME PacketsOK, Control, Frames, Tiles, Ranks, pc = "struct", Top.i \in 1 .. Len(Top.acts),
           NEW s \in SpanSet, s.path = Path, spans' = Append(spans, s), UNCHANGED <<def, pkt, sub>>
    PROVE  /\ Shape' /\ (Ordered(0))' /\ (Ordered(sub))' /\ OfAction(Path, sub, stack[1].i)
           /\ \A k, i : Has(spans', k, i) <=> Has(spans, k, i) \/ OfAction(Path, k, i)
           /\ Len(spans') = Len(spans) + 1 /\ spans'[Len(spans) + 1] = s
           /\ \A n \in 1 .. Len(spans) : spans'[n] = spans[n]
<1>0. spans \in Seq(SpanSet) /\ Len(spans) \in Nat
  BY LenProperties DEF Tiles
<1>1. /\ Len(spans') = Len(spans) + 1 /\ spans'[Len(spans) + 1] = s
      /\ \A n \in 1 .. Len(spans) : spans'[n] = spans[n]
  BY <1>0, AppendProperties
<1>2. /\ Len(stack) \in Nat /\ Len(stack) >= 1 /\ stack[1].i \in Nat
      /\ stack[1].acts = ActionsOf(pkt, sub) /\ Top = stack[Len(stack)]
      /\ Len(stack) > 1 => stack[1].i <= Len(stack[1].acts)
  BY Bottom
<1>3. Path \in Seq(Nat) /\ Len(Path) = Len(stack) + 2 /\ Path[1] = pkt /\ Path[2] = sub
      /\ Path[3] = stack[1].i
  <2>1. 1 \in 1 .. Len(stack) /\ 1 + 2 = 3
    BY <1>2
  <2> QED BY <2>1, PathsOfFrames
<1>4. OfAction(Path, sub, stack[1].i)
  BY <1>3 DEF OfAction
<1>5. \A k, i : Has(spans', k, i) <=> Has(spans, k, i) \/ OfAction(Path, k, i)
  BY <1>0, HasAppended
<1>6. Shape'
  <2>1. Len(Path) >= 3
    BY <1>2, <1>3
  <2>2. \A n \in 1 .. Len(spans) + 1 : n = Len(spans) + 1 \/ n \in 1 .. Len(spans)
    BY <1>0
  <2> QED BY <1>1, <1>3, <2>1, <2>2 DEF Ranks, Shape
<1>7. stack[1].i <= Len(stack[1].acts)
  <2>1. CASE Len(stack) > 1
    BY <1>2, <2>1
  <2>2. CASE ~(Len(stack) > 1)
    <3> DEFINE d == Len(stack)
    <3>1. d \in Nat /\ d >= 1 /\ ~(d > 1)
      BY <1>2, <2>2
    <3> HIDE DEF d
    <3>2. d = 1
      BY <3>1
    <3> QED BY <1>2, <3>2 DEF d
  <2> QED BY <2>1, <2>2
<1>8. ASSUME NEW k, k \in {0, sub} PROVE (Ordered(k))'
  <2>1. SUFFICES ASSUME NEW i \in 1 .. Len(ActionsOf(pkt, k)), NEW j \in 1 .. Len(ActionsOf(pkt, k)),
                        i < j, IsField(k, i), IsField(k, j), Has(spans', k, j)
                 PROVE  Has(spans', k, i)
    BY DEF Ordered, IsField, ActionsOf, Subpacket, Packet
  <2>2. CASE Has(spans, k, j)
    BY <1>5, <1>8, <2>1, <2>2 DEF Ranks, Ordered
  <2>3. CASE OfAction(Path, k, j)
    <3>1. k = sub /\ j = stack[1].i
      BY <1>3, <2>3 DEF OfAction
    <3>2. i \in 1 .. stack[1].i - 1 /\ stack[1].acts[i].do = "field"
      BY <1>2, <2>1, <3>1 DEF IsField
    <3>3. Has(spans, sub, i)
      BY <1>7, <3>2 DEF Ranks, Progress
    <3> QED BY <1>5, <3>1, <3>3
  <2> QED BY <1>5, <2>1, <2>2, <2>3, SMTT(30)
<1> QED BY <1>1, <1>4, <1>5, <1>6, <1>8

\* Progress, whatever the frame is.
ProgressOf(f, sp, s) ==
    f.i <= Len(f.acts) =>
        \A a \in 1 .. f.i - 1 :
            f.acts[a].do = "field" =>
                Has(sp, s, a) /\ InOneSpan(sp, Append(f.path, a), f.acts[a].type)

LEMMA ProgressStopped ==
    ASSUME NEW f, Len(f.acts) \in Nat, NEW sp, NEW s
    PROVE  ProgressOf(Stopped(f), sp, s)
<1>1. Stopped(f).i = Len(f.acts) + 1 /\ Stopped(f).acts = f.acts
  BY DEF Stopped
<1>2. ~(Stopped(f).i <= Len(Stopped(f).acts))
  <2> DEFINE n == Len(f.acts)
  <2>1. n \in Nat /\ ~(n + 1 <= n)
    OBVIOUS
  <2> QED BY <1>1, <2>1
<1> QED BY <1>2 DEF ProgressOf

\* One action further.
LEMMA ProgressForward ==
    ASSUME NEW f, f.i \in Nat, f.i >= 1, f.i <= Len(f.acts), Len(f.acts) \in Nat, NEW sp, NEW s,
           ProgressOf(f, sp, s),
           f.acts[f.i].do = "field" =>
               Has(sp, s, f.i) /\ InOneSpan(sp, Append(f.path, f.i), f.acts[f.i].type),
           NEW st
    PROVE  ProgressOf(Forward(f, st), sp, s)
<1> DEFINE g == Forward(f, st)
           i == f.i
<1>1. g.i = i + 1 /\ g.acts = f.acts /\ g.path = f.path
  BY DEF Forward
<1> HIDE DEF g
<1>2. ASSUME NEW a \in 1 .. g.i - 1, g.acts[a].do = "field"
      PROVE  Has(sp, s, a) /\ InOneSpan(sp, Append(g.path, a), g.acts[a].type)
  <2>1. CASE a = i
    BY <1>1, <1>2, <2>1
  <2>2. CASE a # i
    <3>1. a \in 1 .. i - 1
      BY <1>1, <2>2
    <3> QED BY <1>1, <1>2, <3>1 DEF ProgressOf
  <2> QED BY <2>1, <2>2
<1> QED BY <1>2 DEF ProgressOf, g

\* More spans do not undo it.
LEMMA ProgressMore ==
    ASSUME NEW f, NEW sp, NEW s, ProgressOf(f, sp, s), NEW sp2, NEW n \in Nat, Len(sp) = n, Len(sp2) = n + 1,
           \A j \in 1 .. n : sp2[j] = sp[j]
    PROVE  ProgressOf(f, sp2, s)
<1>1. \A j \in 1 .. n : j \in 1 .. n + 1
  OBVIOUS
<1>2. ASSUME NEW a, Has(sp, s, a) PROVE Has(sp2, s, a)
  BY <1>1, <1>2 DEF Has
<1>3. ASSUME NEW path, NEW t, InOneSpan(sp, path, t) PROVE InOneSpan(sp2, path, t)
  BY <1>1, <1>3 DEF InOneSpan
<1> QED BY <1>2, <1>3 DEF ProgressOf

LEMMA ProgressIs == Progress <=> ProgressOf(stack[1], spans, sub)
BY DEF Progress, ProgressOf

LEMMA ProgressNext == Progress' <=> ProgressOf(stack'[1], spans', sub')
BY DEF Progress, ProgressOf, Has, InOneSpan, OfAction

\* A step that takes nothing, and stays among the fields.
LEMMA RanksKept ==
    ASSUME PacketsOK, Control, Frames, Tiles, Values, Ranks, Still, Fails \/ Notes \/ Enters \/ Exits
    PROVE  Ranks'
<1> DEFINE d == Len(stack)
           f == stack[1]
           g == stack'[1]
<1>0. /\ pc = "struct" /\ pc' = "struct" /\ spans' = spans /\ UNCHANGED <<def, pkt, sub>>
      /\ Shape /\ Ordered(0) /\ Ordered(sub) /\ Progress /\ Covered
  BY SMTT(30) DEF Still, Fails, Notes, Enters, Exits, loaderVars, Ranks
<1>1. Shape' /\ (Ordered(0))' /\ (Ordered(sub))'
  BY <1>0, SMTT(30) DEF Shape, Ordered, IsField, ActionsOf, Subpacket, Packet, Has
<1>2. d \in Nat /\ d >= 1 /\ Top = stack[d] /\ f.i \in Nat /\ f.i >= 1 /\ Len(f.acts) \in Nat
  BY <1>0, Bottom
<1>21. d > 1 => f.i <= Len(f.acts) /\ f.acts[f.i].do = "field" /\ IsStruct(f.acts[f.i].type)
  BY <1>0, Bottom
<1>22. d = 1 \/ d > 1
  <2> HIDE DEF d
  <2> QED BY <1>2
<1>3. State'.buf = State.buf /\ State'.pos = State.pos /\ State'.left = State.left
  BY StateKept
<1>4. ProgressOf(f, spans, sub)
  BY <1>0, ProgressIs
<1>5. ASSUME ProgressOf(g, spans, sub), Len(stack') > 1 => g = f,
             Len(stack') > 1 => d > 1 \/ (~Has(spans, sub, f.i) /\ State.pos = f.state.pos)
      PROVE  Ranks'
  <2>1. Progress'
    BY <1>0, <1>5, ProgressNext
  <2>2. Covered'
    BY <1>0, <1>3, <1>5 DEF Covered, Has
  <2> QED BY <1>0, <1>1, <2>1, <2>2 DEF Ranks
<1>6. ASSUME NEW h, Turned(d, h), NEW st,
             \/ h = Stopped(Top)
             \/ Top.i \in 1 .. Len(Top.acts) /\ Action.do # "field" /\ h = Forward(Top, st)
      PROVE  Ranks'
  <2>1. Len(stack') = d /\ stack'[d] = h /\ \A j \in 1 .. d - 1 : stack'[j] = stack[j]
    BY <1>6 DEF Turned
  <2>2. CASE d = 1
    <3>1. ProgressOf(h, spans, sub)
      <4>1. CASE h = Stopped(Top)
        BY <1>2, <2>2, <4>1, ProgressStopped
      <4>2. CASE Top.i \in 1 .. Len(Top.acts) /\ Action.do # "field" /\ h = Forward(Top, st)
        <5>0. Top = f
          BY <1>2, <2>2
        <5>1. f.acts[f.i].do # "field" /\ f.i <= Len(f.acts)
          BY <1>2, <4>2, <5>0 DEF Action
        <5>2. ProgressOf(Forward(f, st), spans, sub)
          BY <1>2, <1>4, <5>1, ProgressForward
        <5> QED BY <1>2, <2>2, <4>2, <5>2
      <4> QED BY <1>6, <4>1, <4>2
    <3>2. g = h /\ ~(Len(stack') > 1)
      BY <2>1, <2>2
    <3> QED BY <1>5, <3>1, <3>2
  <2>3. CASE d > 1
    <3>1. 1 \in 1 .. d - 1
      BY <1>2, <2>3
    <3>2. g = f
      BY <2>1, <3>1
    <3> QED BY <1>4, <1>5, <2>3, <3>2
  <2> QED BY <1>22, <2>2, <2>3
<1>7. CASE Fails
  <2>1. Turned(d, Stopped(Top))
    BY <1>7 DEF Fails
  <2> HIDE DEF d
  <2> QED BY <1>6, <2>1
<1>8. CASE Notes
  <2>1. Turned(d, Forward(Top, State)) /\ Top.i \in 1 .. Len(Top.acts) /\ Action.do # "field"
    BY <1>8 DEF Notes, AtAction
  <2> QED BY <1>6, <2>1
<1>9. CASE Enters
  <2>1. Len(stack') = d + 1 /\ g = f
    BY <1>2, <1>9 DEF Enters, Turned
  <2>2. d > 1 \/ (~Has(spans, sub, f.i) /\ State.pos = f.state.pos)
    <3>1. CASE d = 1
      <4>1. ASSUME NEW n \in 1 .. Len(spans) PROVE ~OfAction(spans[n].path, sub, f.i)
        <5>1. CASE sub > 0 /\ OfHeader(n)
          BY <5>1 DEF OfHeader, OfAction
        <5>2. CASE PassedBy(spans[n].path)
          <6>1. PICK k \in 1 .. d : BehindIn(stack, spans[n].path, k)
            BY <5>2 DEF PassedBy
          <6>2. k = 1 /\ 1 + 2 = 3
            BY <3>1
          <6>3. spans[n].path[3] < f.i
            BY <6>1, <6>2 DEF BehindIn
          <6> DEFINE i == f.i
          <6>4. i \in Nat /\ ~(i < i)
            BY <1>2
          <6> QED BY <6>3, <6>4 DEF OfAction
        <5> QED BY <1>0, <5>1, <5>2 DEF Values
      <4> QED BY <1>2, <3>1, <4>1 DEF Has, State
    <3> QED BY <1>22, <3>1
  <2> QED BY <1>4, <1>5, <2>1, <2>2
<1>10. CASE Exits
  <2> DEFINE h == IF Returned > 0 THEN Forward(Outer, Further(Outer.state, Returned)) ELSE Stopped(Outer)
  <2>1. d > 1 /\ Turned(d - 1, h) /\ Outer = stack[d - 1]
    BY <1>10 DEF Exits, Outer
  <2>2. Len(stack') = d - 1 /\ stack'[d - 1] = h /\ \A j \in 1 .. d - 2 : stack'[j] = stack[j]
    <3>1. (d - 1) - 1 = d - 2
      BY <1>2
    <3> HIDE DEF h, d
    <3> QED BY <2>1, <3>1 DEF Turned
  <2>3. CASE d = 2
    <3>1. Outer = f /\ g = h /\ Len(stack') = 1
      BY <2>1, <2>2, <2>3
    <3>2. ProgressOf(h, spans, sub)
      <4>1. CASE Returned > 0
        <5>1. h = Forward(f, Further(Outer.state, Returned))
          BY <3>1, <4>1
        <5>2. Has(spans, sub, f.i)
          <6>1. Nested(2) /\ Inside(stack[2].state) /\ Inside(f.state) /\ IsFrame(stack[2]) /\ IsFrame(f)
            BY <1>2, <2>3 DEF Frames
          <6>2. Top = stack[2] /\ 2 - 1 = 1
            BY <1>2, <2>3
          <6>3. Top.left0 = f.state.left /\ State.buf = f.state.buf
            BY <6>1, <6>2 DEF Nested, State
          <6>4. State.left \in Nat /\ State.pos \in Nat /\ f.state.left \in Nat /\ f.state.pos \in Nat
            BY <6>1, <6>2 DEF IsFrame, States, State
          <6>5. State.pos + State.left = f.state.pos + f.state.left
            BY <6>1, <6>2, <6>3 DEF Inside, State
          <6>6. State.pos # f.state.pos
            BY <4>1, <6>3, <6>4, <6>5 DEF Returned
          <6>7. PICK x \in 1 .. Len(spans) :
                    \A n \in 1 .. Len(spans) : OfAction(spans[n].path, sub, f.i) <=> n >= x
            BY <1>0, <2>1, <6>6 DEF Covered
          <6>8. OfAction(spans[x].path, sub, f.i)
            BY <6>7, SMTT(30)
          <6> QED BY <6>8 DEF Has
        <5>3. ~Atom(f.acts[f.i].type)
          BY <1>21, <2>3 DEF Atom, Sized
        <5>4. ProgressOf(Forward(f, Further(Outer.state, Returned)), spans, sub)
          BY <1>2, <1>21, <1>4, <2>3, <5>2, <5>3, ProgressForward DEF InOneSpan
        <5> QED BY <5>1, <5>4
      <4>2. CASE ~(Returned > 0)
        BY <1>2, <3>1, <4>2, ProgressStopped
      <4> QED BY <4>1, <4>2
    <3> HIDE DEF h
    <3>3. ProgressOf(g, spans, sub) /\ ~(Len(stack') > 1)
      BY <3>1, <3>2
    <3> QED BY <1>5, <3>3
  <2>4. CASE d > 2
    <3>1. 1 \in 1 .. d - 2
      BY <1>2, <2>4
    <3>2. g = f
      BY <2>2, <3>1
    <3> QED BY <1>4, <1>5, <2>1, <3>2
  <2>5. d = 2 \/ d > 2
    <3> HIDE DEF d
    <3> QED BY <1>2, <2>1
  <2> QED BY <2>3, <2>4, <2>5
<1> QED BY <1>7, <1>8, <1>9, <1>10

\* A span of a field, or of the transformation, of the outermost frame.
LEMMA RanksOutermost ==
    ASSUME PacketsOK, Control, Frames, Tiles, Ranks, Still, Len(stack) = 1, Top.i \in 1 .. Len(Top.acts),
           NEW s \in SpanSet, s.path = Path, spans' = Append(spans, s),
           NEW st, Turned(1, Forward(Top, st)),
           Action.do = "field" => Atom(Action.type) /\ (Action.type.min = Action.type.count => s.len = FullSize(Action.type))
    PROVE  Ranks'
<1> DEFINE f == stack[1]
           g == Forward(f, st)
           n == Len(spans)
<1>0. pc = "struct" /\ pc' = "struct" /\ UNCHANGED <<def, pkt, sub>> /\ Progress
  BY DEF Still, loaderVars, Ranks
<1>1. /\ Shape' /\ (Ordered(0))' /\ (Ordered(sub))' /\ OfAction(Path, sub, f.i)
      /\ \A k, i : Has(spans', k, i) <=> Has(spans, k, i) \/ OfAction(Path, k, i)
      /\ Len(spans') = n + 1 /\ spans'[n + 1] = s
      /\ \A j \in 1 .. n : spans'[j] = spans[j]
  BY <1>0, RanksAppend
<1>2. Top = f /\ f.i \in Nat /\ f.i >= 1 /\ Len(f.acts) \in Nat
  BY <1>0, Bottom
<1>3. n \in Nat
  BY LenProperties DEF Tiles
<1>4. ProgressOf(f, spans', sub)
  <2>1. ProgressOf(f, spans, sub)
    BY <1>0, ProgressIs
  <2> HIDE DEF f
  <2> QED BY <1>1, <1>3, <2>1, ProgressMore
<1>5. f.i <= Len(f.acts) /\ Action = f.acts[f.i] /\ Path = Append(f.path, f.i)
  <2>1. Top.i <= Len(Top.acts)
    BY <1>2
  <2> QED BY <1>2, <2>1 DEF Action, Path
<1>6. ASSUME Action.do = "field"
      PROVE  Has(spans', sub, f.i) /\ InOneSpan(spans', Path, Action.type)
  <2>1. n + 1 \in 1 .. Len(spans')
    BY <1>1, <1>3
  <2> QED BY <1>1, <1>6, <2>1 DEF InOneSpan
<1>7. ProgressOf(g, spans', sub)
  <2> HIDE DEF f
  <2> QED BY <1>2, <1>4, <1>5, <1>6, ProgressForward DEF g
<1>8. stack'[1] = g /\ Len(stack') = 1
  BY <1>2 DEF Turned
<1>9. Progress'
  BY <1>0, <1>7, <1>8, ProgressNext
<1>10. Covered'
  BY <1>8 DEF Covered
<1> QED BY <1>0, <1>1, <1>9, <1>10 DEF Ranks

LEMMA RanksTakes ==
    ASSUME PacketsOK, Control, Frames, Tiles, Ranks, Still, Takes
    PROVE  Ranks'
<1> DEFINE t == Action.type
           r == t.width * Got
           s == Span(r)
           f == stack[1]
           n == Len(spans)
           d == Len(stack)
<1>0. /\ pc = "struct" /\ pc' = "struct" /\ UNCHANGED <<def, pkt, sub>>
      /\ Top.i \in 1 .. Len(Top.acts) /\ Action.do = "field" /\ Atom(t)
      /\ r \in 1 .. State.left /\ spans' = Append(spans, s)
      /\ Turned(d, Forward(Top, Further(State, r))) /\ Covered /\ Progress
  BY DEF Still, Takes, AtAction, loaderVars, Ranks
<1>1. State.left \in Nat /\ r \in Nat
  BY <1>0, TopFacts
<1>2. s \in SpanSet /\ s.path = Path /\ s.from = State.pos /\ s.len = r
  BY <1>0, <1>1, SpanTyped
<1>3. t.min = t.count => s.len = FullSize(t)
  <2>1. Sized(t) /\ Got # 0
    BY <1>0 DEF Atom, Takes
  <2>2. Got \in 0 .. t.count /\ t.min <= Got
    BY <1>1, <2>1, EntriesFit DEF Got
  <2>3. t.count \in Nat /\ t.width \in Nat
    BY <2>1 DEF Sized
  <2>4. ASSUME t.min = t.count PROVE Got = t.count
    <3> DEFINE g == Got
               c == t.count
    <3>1. g \in 0 .. c /\ c <= g /\ c \in Nat
      BY <2>2, <2>3, <2>4
    <3> HIDE DEF g, c
    <3>2. g = c
      BY <3>1
    <3> QED BY <3>2 DEF g, c
  <2>5. t.width * t.count = t.count * t.width
    BY <2>3
  <2> QED BY <1>2, <2>4, <2>5 DEF FullSize
<1>4. CASE d = 1
  <2> HIDE DEF s, r
  <2> QED BY <1>0, <1>2, <1>3, <1>4, RanksOutermost
<1>5. CASE d > 1
  <2>1. /\ Shape' /\ (Ordered(0))' /\ (Ordered(sub))' /\ OfAction(Path, sub, f.i)
        /\ \A k, i : Has(spans', k, i) <=> Has(spans, k, i) \/ OfAction(Path, k, i)
        /\ Len(spans') = n + 1 /\ spans'[n + 1] = s
        /\ \A j \in 1 .. n : spans'[j] = spans[j]
    <3> HIDE DEF s
    <3> QED BY <1>0, <1>2, RanksAppend
  <2>2. n \in Nat
    BY LenProperties DEF Tiles
  <2>3. d \in Nat
    BY <1>0, Bottom
  <2>4. stack'[1] = f /\ Len(stack') = d
    <3>1. 1 \in 1 .. d - 1
      BY <1>5, <2>3
    <3> HIDE DEF d
    <3> QED BY <1>0, <3>1 DEF Turned
  <2>5. Progress'
    <3>1. ProgressOf(f, spans, sub)
      BY <1>0, ProgressIs
    <3>2. ProgressOf(f, spans', sub)
      <4> HIDE DEF f
      <4> QED BY <2>1, <2>2, <3>1, ProgressMore
    <3> QED BY <1>0, <2>4, <3>2, ProgressNext
  <2>6. Covered'
    <3>1. \E x \in 1 .. n + 1 :
              /\ spans'[x].from = f.state.pos
              /\ \A j \in 1 .. n + 1 : OfAction(spans'[j].path, sub, f.i) <=> j >= x
      <4>1. CASE ~Has(spans, sub, f.i) /\ State.pos = f.state.pos
        <5>1. n + 1 \in 1 .. n + 1 /\ \A j \in 1 .. n + 1 : j >= n + 1 <=> j \notin 1 .. n
          BY <2>2
        <5>2. \A j \in 1 .. n : ~OfAction(spans'[j].path, sub, f.i)
          BY <2>1, <4>1 DEF Has
        <5>3. \A j \in 1 .. n + 1 : j \notin 1 .. n => j = n + 1
          BY <2>2
        <5>4. spans'[n + 1].from = f.state.pos /\ OfAction(spans'[n + 1].path, sub, f.i)
          BY <1>2, <2>1, <4>1
        <5> HIDE DEF n, s
        <5> QED BY <5>1, <5>2, <5>3, <5>4
      <4>2. CASE \E x \in 1 .. n :
                    /\ spans[x].from = f.state.pos
                    /\ \A j \in 1 .. n : OfAction(spans[j].path, sub, f.i) <=> j >= x
        <5>1. PICK x \in 1 .. n :
                    /\ spans[x].from = f.state.pos
                    /\ \A j \in 1 .. n : OfAction(spans[j].path, sub, f.i) <=> j >= x
          BY <4>2
        <5>2. x \in 1 .. n + 1 /\ n + 1 >= x /\ \A j \in 1 .. n + 1 : j \in 1 .. n \/ j = n + 1
          BY <2>2
        <5>3. spans'[n + 1].path = Path
          BY <1>2, <2>1
        <5> HIDE DEF n, s
        <5> QED BY <2>1, <5>1, <5>2, <5>3
      <4> QED BY <1>0, <1>5, <4>1, <4>2 DEF Covered
    <3> QED BY <1>0, <2>1, <2>4, <3>1 DEF Covered
  <2> QED BY <1>0, <2>1, <2>5, <2>6 DEF Ranks
<1>6. d = 1 \/ d > 1
  <2>1. d \in Nat /\ d >= 1
    BY <1>0, Bottom
  <2> HIDE DEF d
  <2> QED BY <2>1
<1> QED BY <1>4, <1>5, <1>6

LEMMA RanksUnpacks ==
    ASSUME PacketsOK, Control, Frames, Tiles, Ranks, Still, Unpacks
    PROVE  Ranks'
<1> DEFINE s == Span(State.left)
           st == [buf |-> 1, pos |-> 0, left |-> Len(text')]
<1>0. /\ pc = "struct" /\ Top.i \in 1 .. Len(Top.acts) /\ Action.do = "transformation"
      /\ spans' = Append(spans, s)
      /\ Turned(Len(stack), Forward(Top, st))
  BY DEF Still, Unpacks, AtAction
<1>1. State.left \in Nat /\ Len(stack) = 1
  BY <1>0, TopFacts, FramesUnpacked
<1>2. s \in SpanSet /\ s.path = Path
  BY <1>0, <1>1, SpanTyped
<1>3. Turned(1, Forward(Top, st))
  BY <1>0, <1>1
<1> HIDE DEF s, st
<1> QED BY <1>0, <1>1, <1>2, <1>3, RanksOutermost

\* The first frame of a trial has not come to anything yet.
LEMMA RanksFresh ==
    ASSUME NEW path, NEW acts, NEW st, stack' = <<Frame(path, acts, st)>>
    PROVE  Progress' /\ Covered'
<1>1. stack'[1].i = 1 /\ Len(stack') = 1
  BY DEF Frame
<1>2. \A a : a \notin 1 .. stack'[1].i - 1
  BY <1>1
<1> QED BY <1>1, <1>2 DEF Progress, Covered

LEMMA RanksSubDone ==
    ASSUME PacketsOK, Control, Frames, Tiles, Ranks, SubDone, pc' = "subpackets"
    PROVE  Ranks'
<1>1. /\ pc = "struct" /\ sub > 0 /\ UNCHANGED <<pkt, sub, def>> /\ spans' = SubSeq(spans, 1, HeaderSpans)
  BY DEF SubDone, Filled, loaderVars
<1>2. PICK h \in 0 .. Len(spans) : HeaderEnds(h)
  BY <1>1 DEF Tiles, TilesInStruct
<1>3. spans' = SubSeq(spans, 1, h)
  BY <1>1, <1>2, HeaderSpansAre
<1>4. Len(spans) \in Nat /\ Len(spans') = h /\ \A i \in 1 .. h : i \in 1 .. Len(spans) /\ spans'[i] = spans[i]
  <2>1. spans \in Seq(SpanSet) /\ Len(spans) \in Nat
    BY LenProperties DEF Tiles
  <2>2. \A i \in 1 .. h : i \in 1 .. Len(spans) /\ spans[i] \in SpanSet
    BY <2>1, ElementOfSeq
  <2> QED BY <1>3, <2>1, <2>2, SubSeqProperties
<1>5. ASSUME NEW i PROVE Has(spans', 0, i) <=> Has(spans, 0, i)
  <2>1. ASSUME NEW n \in 1 .. Len(spans), OfAction(spans[n].path, 0, i) PROVE n \in 1 .. h
    <3>1. n \notin h + 1 .. Len(spans)
      BY <1>1, <1>2, <2>1 DEF HeaderEnds, OfAction
    <3> QED BY <1>4, <3>1
  <2> QED BY <1>4, <2>1 DEF Has
<1>6. Shape /\ Ordered(0)
  BY <1>1 DEF Ranks
<1>7. Shape'
  BY <1>1, <1>4, <1>6 DEF Shape
<1>8. (Ordered(0))'
  BY <1>1, <1>5, <1>6 DEF Ordered, IsField, ActionsOf, Subpacket, Packet
<1> QED BY <1>7, <1>8 DEF Ranks

LEMMA RanksStep ==
    ASSUME PacketsOK, Control, Frames, Tiles, Values, Ranks, [Next]_vars
    PROVE  Ranks'
<1>1. CASE InStruct
  BY <1>1, StepsInStruct, RanksTakes, RanksUnpacks, RanksKept, SMTT(30)
<1>2. CASE UNCHANGED vars
  <2>1. UNCHANGED <<spans, pc, stack, State, sub, pkt, def>>
    BY <1>2 DEF vars, decodeVars, tryVars, loaderVars, State, Top
  <2> QED BY <2>1 DEF Ranks, Shape, Ordered, IsField, ActionsOf, Subpacket, Packet, Has, Progress,
                      InOneSpan, Covered
<1>3. CASE Loading
  BY <1>3 DEF Loading, Load, LoadElement, Refuse, Loaded, decodeVars, tryVars, Control, Ranks
<1>4. CASE Receive \/ Send
  BY <1>4 DEF Receive, Send, Process, Ranks
<1>5. CASE NoPacket \/ NoSub \/ Verdict
  BY <1>5 DEF NoPacket, NoSub, Verdict, Ranks
<1>6. CASE TryPacket
  <2>1. spans' = <<>> /\ sub' = 0
        /\ stack' = <<Frame(<<pkt', 0>>, Packet(pkt').actions, start)>>
    BY <1>6 DEF TryPacket
  <2>2. Progress' /\ Covered'
    BY <2>1, RanksFresh
  <2>3. Len(spans') = 0
    BY <2>1
  <2>4. Shape' /\ (Ordered(0))' /\ (Ordered(sub))'
    BY <2>3 DEF Shape, Ordered, Has
  <2> QED BY <2>2, <2>4 DEF Ranks
<1>7. CASE HeaderDone
  BY <1>7 DEF HeaderDone, Filled, loaderVars, Ranks, Shape, Ordered, IsField, ActionsOf, Subpacket,
              Packet, Has
<1>8. CASE TrySub
  <2>1. /\ pc = "subpackets" /\ pc' = "struct" /\ sub' = sub + 1 /\ UNCHANGED <<spans, def, pkt>>
        /\ stack' = <<Frame(<<pkt, sub'>>, Subpacket(pkt, sub').actions, Behind(Packet(pkt).header))>>
    BY <1>8 DEF TrySub, loaderVars
  <2>2. Progress' /\ Covered'
    BY <2>1, RanksFresh
  <2>3. sub' > 0 /\ \A n \in 1 .. Len(spans) : OfHeader(n)
    BY <2>1 DEF Control, Tiles
  <2>4. \A i : ~Has(spans', sub', i)
    BY <2>1, <2>3 DEF Has, OfAction, OfHeader
  <2>5. Shape' /\ (Ordered(0))'
    BY <2>1 DEF Ranks, Shape, Ordered, IsField, ActionsOf, Subpacket, Packet, Has
  <2>6. (Ordered(sub))'
    BY <2>4 DEF Ordered
  <2> QED BY <2>2, <2>5, <2>6 DEF Ranks
<1>9. CASE SubDone
  BY <1>9, RanksSubDone DEF SubDone, Ranks
<1> QED BY <1>1, <1>2, <1>3, <1>4, <1>5, <1>6, <1>7, <1>8, <1>9 DEF Next, Decode, InStruct
-----------------------------------------------------------------------------
(* What annotations store.                                                 *)

LEMMA FindFieldFinds ==
    ASSUME NEW acts, Len(acts) \in Nat, NEW name, FindField(acts, name) # 0
    PROVE  LET at == FindField(acts, name) IN
           at \in 1 .. Len(acts) /\ acts[at].do = "field" /\ acts[at].name = name
<1> DEFINE I == {i \in 1 .. Len(acts) : acts[i].do = "field" /\ acts[i].name = name}
<1>1. FindField(acts, name) = IF I # {} THEN Min(I) ELSE 0
  BY DEF FindField, SelectInSeq
<1>2. I # {} /\ FindField(acts, name) = Min(I)
  BY <1>1
<1>3. I \subseteq Nat
  OBVIOUS
<1> HIDE DEF I
<1>4. PICK m \in I : \A h \in I : m <= h
  BY <1>2, <1>3, LeastNumber
<1>5. Min(I) \in I
  BY <1>4 DEF Min
<1> QED BY <1>2, <1>5 DEF I

\* What an annotation looks up was taken in full from the data of this trial.
LEMMA WholeOf ==
    ASSUME PacketsOK, Control, Frames, Ranks, Tiles, pc = "struct", AtAction("annotation"),
           NEW name, name \in LooksFor(Action.name), FindField(Top.acts, name) # 0
    PROVE  Whole(name)
<1> DEFINE at == FindField(Top.acts, name)
<1>1. Len(stack) \in Nat /\ Len(stack) >= 1 /\ Top = stack[Len(stack)]
  BY TopFacts
<1>2. Len(stack) = 1
  <2>1. SUFFICES ASSUME Len(stack) # 1 PROVE FALSE
    OBVIOUS
  <2>2. OnlyFields(Top.acts)
    BY <1>1, <2>1, NestedOnlyFields
  <2> QED BY <2>2 DEF OnlyFields, AtAction, Action
<1>3. Top = stack[1] /\ Top.acts = ActionsOf(pkt, sub) /\ Len(Top.acts) \in Nat
  BY <1>1, <1>2, Bottom
<1>4. at \in 1 .. Len(Top.acts) /\ Top.acts[at].do = "field" /\ Top.acts[at].name = name
  BY <1>3, FindFieldFinds
<1> HIDE DEF at
<1>5. pkt \in 1 .. Len(def.packets) /\ sub \in 0 .. Len(Packet(pkt).subpackets)
  <2>1. pkt \in 1 .. Len(def.packets) /\ sub \in Nat /\ sub <= Len(Packet(pkt).subpackets)
    BY DEF Control
  <2>2. Len(Packet(pkt).subpackets) \in Nat
    BY <2>1, SequenceFacts DEF PacketsOK, PacketOK, Packet
  <2> QED BY <2>1, <2>2
<1>6. sub > 0
  <2>1. SUFFICES ASSUME sub = 0 PROVE FALSE
    BY <1>5
  <2>2. OnlyFields(Top.acts)
    BY <1>3, <1>5, <2>1, ActionsListed
  <2> QED BY <2>2 DEF OnlyFields, AtAction, Action
<1>7. Annotated(Top.acts)
  BY <1>3, <1>5, <1>6, ActionsListed
<1>8. Top.i \in 1 .. Len(Top.acts) /\ Top.acts[Top.i] = Action /\ Action.do = "annotation"
  BY DEF AtAction, Action
<1>9. at < Top.i /\ Atom(Top.acts[at].type) /\ Top.acts[at].type.min = Top.acts[at].type.count
  BY <1>4, <1>7, <1>8 DEF Annotated
<1>10. at \in 1 .. Top.i - 1 /\ Top.i <= Len(Top.acts)
  BY <1>3, <1>4, <1>8, <1>9
<1>11. InOneSpan(spans, Append(Top.path, at), Top.acts[at].type)
  BY <1>3, <1>4, <1>10 DEF Ranks, Progress
<1>12. \E n \in 1 .. Len(spans) : spans[n].path = Append(Top.path, at)
                                  /\ spans[n].len = FullSize(Top.acts[at].type)
  BY <1>9, <1>11 DEF InOneSpan
<1>13. DOMAIN spans = 1 .. Len(spans)
  BY LenProperties DEF Tiles
<1> QED BY <1>12, <1>13 DEF Whole, at

LEMMA StoredStep ==
    ASSUME PacketsOK, Control, Frames, Ranks, Tiles, [Next]_vars
    PROVE  /\ ids' # ids => Whole("objectid") /\ Whole("race") /\ Whole("name")
           /\ chars' # chars => Whole("charid") /\ Whole("objectid")
<1>1. CASE Annotate
  <2>1. pc = "struct" /\ AtAction("annotation")
    BY <1>1, TopFacts DEF Annotate, Running, AtAction
  <2>2. ASSUME ids' # ids PROVE Whole("objectid") /\ Whole("race") /\ Whole("name")
    <3>1. Action.name = "objectid" /\ NameObject
      BY <1>1, <2>2 DEF Annotate
    <3>2. /\ FindField(Top.acts, "objectid") # 0 /\ FindField(Top.acts, "race") # 0
          /\ FindField(Top.acts, "name") # 0
      BY <2>2, <3>1, Zenon DEF NameObject
    <3>3. LooksFor(Action.name) = {"objectid", "race", "name"}
      BY <3>1 DEF LooksFor
    <3> QED BY <2>1, <3>2, <3>3, WholeOf
  <2>3. ASSUME chars' # chars PROVE Whole("charid") /\ Whole("objectid")
    <3>1. Action.name = "charid" /\ NameCharacter
      BY <1>1, <2>3 DEF Annotate
    <3>2. FindField(Top.acts, "charid") # 0 /\ FindField(Top.acts, "objectid") # 0
      BY <2>3, <3>1, Zenon DEF NameCharacter
    <3>3. LooksFor(Action.name) = {"charid", "objectid"}
      BY <3>1 DEF LooksFor
    <3> QED BY <2>1, <3>2, <3>3, WholeOf
  <2> QED BY <2>2, <2>3
<1>2. CASE ~Annotate
  <2>1. UNCHANGED storeVars
    BY <1>2 DEF Next, Decode, Loading, decodeVars, Receive, Send, Process, FillField, EnterStruct,
                LeaveStruct, Transform, TryPacket, NoPacket, HeaderDone, TrySub, NoSub, SubDone,
                Verdict, vars
  <2> QED BY <2>1 DEF storeVars
<1> QED BY <1>1, <1>2
-----------------------------------------------------------------------------
(* HeaderIsWhole.  What a frame of the header has taken never exceeds the  *)
(* constant sizes of the actions it has passed, and comes to them only if  *)
(* each was taken in full.                                                 *)

Passed(f) == Sums(Sizes(f.acts, ConstantSize))[f.i - 1]
Fitting(f) == StructSize(f.acts) # 0 /\ f.left0 - f.state.left <= Passed(f)
Exact(f) == f.left0 - f.state.left = Passed(f)

LEMMA FrameForward ==
    ASSUME NEW f, IsFrame(f), OnlyFields(f.acts), Fitting(f), f.i <= Len(f.acts),
           NEW r \in Nat, r <= ConstantSize(f.acts[f.i].type)
    PROVE  LET g == Forward(f, Further(f.state, r)) IN
           /\ Fitting(g)
           /\ Exact(g) => Exact(f) /\ r = ConstantSize(f.acts[f.i].type)
<1> DEFINE sizes == Sizes(f.acts, ConstantSize)
           g == Forward(f, Further(f.state, r))
           i == f.i
           n == Len(f.acts)
           left == f.state.left
           size == ConstantSize(f.acts[f.i].type)
<1>1. i \in 1 .. n /\ n \in Nat /\ f.left0 \in Nat /\ left \in Nat
  BY FrameFacts DEF IsFrame, States
<1>2. sizes \in Seq(Nat) /\ Len(sizes) = n
  BY SizesOfActions DEF IsFrame
<1>3. sizes[i] = size
  BY <1>1 DEF Sizes, OnlyFields
<1>4. Sums(sizes)[i] = Sums(sizes)[i - 1] + size /\ Sums(sizes)[i - 1] \in Nat /\ size \in Nat
  <2>1. Sums(sizes) \in [0 .. n -> Nat] /\ Sums(sizes)[i] = Sums(sizes)[i - 1] + sizes[i]
    BY <1>1, <1>2, SumsByNumber
  <2>2. i - 1 \in 0 .. n
    BY <1>1
  <2>3. sizes[i] \in Nat
    BY <1>1, <1>2, ElementOfSeq
  <2> QED BY <1>3, <2>1, <2>2, <2>3
<1>5. g.acts = f.acts /\ g.i = i + 1 /\ g.left0 = f.left0 /\ g.state.left = left - r
  BY DEF Forward, Further
<1>6. Passed(g) = Sums(sizes)[i] /\ Passed(f) = Sums(sizes)[i - 1]
  <2>1. (i + 1) - 1 = i
    BY <1>1
  <2> QED BY <1>5, <2>1 DEF Passed
<1> DEFINE p == Sums(sizes)[i - 1]
           l0 == f.left0
<1>7. /\ l0 \in Nat /\ left \in Nat /\ p \in Nat /\ size \in Nat /\ r <= size
      /\ Passed(f) = p /\ Passed(g) = p + size
      /\ g.left0 - g.state.left = l0 - (left - r)
  BY <1>1, <1>4, <1>5, <1>6
<1>8. l0 - left <= p /\ StructSize(f.acts) # 0 /\ StructSize(g.acts) # 0
  BY <1>5, <1>6 DEF Fitting
<1> HIDE DEF g, sizes, i, left, size, n, p, l0
<1>9. /\ l0 - (left - r) <= p + size
      /\ l0 - (left - r) = p + size => l0 - left = p /\ r = size
  BY <1>7, <1>8
<1>10. Fitting(g)
  BY <1>7, <1>8, <1>9 DEF Fitting
<1>11. Exact(g) => Exact(f) /\ r = size
  BY <1>7, <1>9 DEF Exact, left, l0
<1> QED BY <1>10, <1>11 DEF g, size, i

LEMMA FrameStopped ==
    ASSUME NEW f, IsFrame(f), OnlyFields(f.acts), Fitting(f), f.i <= Len(f.acts)
    PROVE  Fitting(Stopped(f)) /\ ~Exact(Stopped(f))
<1> DEFINE sizes == Sizes(f.acts, ConstantSize)
           g == Stopped(f)
           i == f.i
           n == Len(f.acts)
           left == f.state.left
<1>1. i \in 1 .. n /\ n \in Nat /\ f.left0 \in Nat /\ left \in Nat
  BY FrameFacts DEF IsFrame, States
<1>2. sizes \in Seq(Nat) /\ Len(sizes) = n /\ \A k \in 1 .. n : f.acts[k].do = "field" => ConstantSize(f.acts[k].type) > 0
  BY SizesOfActions DEF IsFrame, Fitting
<1>3. \A k \in 1 .. n : sizes[k] > 0
  BY <1>2 DEF Sizes, OnlyFields
<1>4. i - 1 \in 0 .. n /\ n \in 0 .. n /\ i - 1 < n
  BY <1>1
<1>5. Sums(sizes)[i - 1] < Sums(sizes)[n] /\ Sums(sizes)[i - 1] \in Nat /\ Sums(sizes)[n] \in Nat
  <2> HIDE DEF sizes, i, n
  <2>1. Sums(sizes) \in [0 .. n -> Nat]
    BY <1>2, SumsByNumber
  <2>2. Sums(sizes)[i - 1] < Sums(sizes)[n]
    BY <1>2, <1>3, <1>4, SumsGrow
  <2> QED BY <1>4, <2>1, <2>2
<1>6. g.acts = f.acts /\ g.i = n + 1 /\ g.left0 = f.left0 /\ g.state = f.state
  BY DEF Stopped
<1>7. Passed(g) = Sums(sizes)[n] /\ Passed(f) = Sums(sizes)[i - 1]
  <2>1. (n + 1) - 1 = n
    BY <1>1
  <2> QED BY <1>6, <2>1 DEF Passed
<1> DEFINE taken == f.left0 - left
           p == Sums(sizes)[i - 1]
           q == Sums(sizes)[n]
<1>8. /\ taken \in Int /\ taken <= p /\ p < q /\ p \in Nat /\ q \in Nat
      /\ g.left0 - g.state.left = taken /\ Passed(g) = q /\ StructSize(g.acts) # 0
  BY <1>1, <1>5, <1>6, <1>7 DEF Fitting
<1> HIDE DEF g, taken, p, q
<1>9. Fitting(g) /\ ~Exact(g)
  <2>1. taken <= q /\ taken # q
    BY <1>8
  <2> QED BY <1>8, <2>1 DEF Fitting, Exact
<1> QED BY <1>9 DEF g

\* A frame that is just entered.
LEMMA FrameEntered ==
    ASSUME NEW f, IsFrame(f), f.i = 1, f.left0 = f.state.left, StructSize(f.acts) # 0
    PROVE  Fitting(f)
<1>1. Sizes(f.acts, ConstantSize) \in Seq(Nat)
  BY SizesOfActions DEF IsFrame
<1>2. Sums(Sizes(f.acts, ConstantSize))[0] = 0
  BY <1>1, SumsByNumber
<1>3. Passed(f) = 0
  BY <1>2 DEF Passed
<1>4. f.left0 \in Nat
  BY DEF IsFrame
<1> QED BY <1>3, <1>4 DEF Fitting

\* The spans of the header's i-th action are size bytes, one after the other.
InFull(sp, i, size) ==
    \E x, y \in 1 .. Len(sp) :
        /\ x <= y
        /\ \A n \in 1 .. Len(sp) : OfAction(sp[n].path, 0, i) <=> x <= n /\ n <= y
        /\ \A n \in x + 1 .. y : sp[n].from = End(sp[n - 1])
        /\ End(sp[y]) - sp[x].from = size

LEMMA InFullMore ==
    ASSUME NEW sp \in Seq(SpanSet), NEW s \in SpanSet, NEW i, NEW size, InFull(sp, i, size),
           ~OfAction(s.path, 0, i)
    PROVE  InFull(Append(sp, s), i, size)
<1> DEFINE all == Append(sp, s)
           m == Len(sp)
<1>1. m \in Nat /\ Len(all) = m + 1 /\ all[m + 1] = s /\ \A n \in 1 .. m : all[n] = sp[n]
  BY LenProperties, AppendProperties
<1> HIDE DEF all
<1>2. PICK x \in 1 .. m, y \in 1 .. m :
          /\ x <= y
          /\ \A n \in 1 .. m : OfAction(sp[n].path, 0, i) <=> x <= n /\ n <= y
          /\ \A n \in x + 1 .. y : sp[n].from = End(sp[n - 1])
          /\ End(sp[y]) - sp[x].from = size
  BY DEF InFull
<1> HIDE DEF m
<1>3. x \in 1 .. m + 1 /\ y \in 1 .. m + 1 /\ x \in 1 .. m /\ y \in 1 .. m
  BY <1>1
<1>4. ASSUME NEW n \in 1 .. m + 1
      PROVE  OfAction(all[n].path, 0, i) <=> x <= n /\ n <= y
  <2>1. CASE n = m + 1
    <3>1. ~(n <= y)
      BY <1>1, <1>3, <2>1
    <3> QED BY <1>1, <2>1, <3>1
  <2>2. CASE n # m + 1
    <3>1. n \in 1 .. m
      BY <1>1, <2>2
    <3> QED BY <1>1, <1>2, <3>1
  <2> QED BY <2>1, <2>2
<1>5. ASSUME NEW n \in x + 1 .. y PROVE all[n].from = End(all[n - 1])
  <2>1. n \in 1 .. m /\ n - 1 \in 1 .. m
    BY <1>1, <1>3
  <2> QED BY <1>1, <1>2, <2>1
<1> QED BY <1>1, <1>2, <1>3, <1>4, <1>5 DEF InFull, all

LEMMA InFullCut ==
    ASSUME NEW sp \in Seq(SpanSet), NEW h \in 0 .. Len(sp), NEW i, NEW size, InFull(sp, i, size),
           \A n \in h + 1 .. Len(sp) : sp[n].path[2] # 0
    PROVE  InFull(SubSeq(sp, 1, h), i, size)
<1> DEFINE all == SubSeq(sp, 1, h)
           m == Len(sp)
<1>1. m \in Nat /\ Len(all) = h /\ \A n \in 1 .. h : all[n] = sp[n]
  BY LenProperties, SubSeqProperties
<1> HIDE DEF all
<1>2. PICK x \in 1 .. m, y \in 1 .. m :
          /\ x <= y
          /\ \A n \in 1 .. m : OfAction(sp[n].path, 0, i) <=> x <= n /\ n <= y
          /\ \A n \in x + 1 .. y : sp[n].from = End(sp[n - 1])
          /\ End(sp[y]) - sp[x].from = size
  BY DEF InFull
<1> HIDE DEF m
<1>3. y <= h
  <2>1. OfAction(sp[y].path, 0, i)
    BY <1>2
  <2>2. ~(y \in h + 1 .. m)
    BY <2>1 DEF OfAction, m
  <2> QED BY <1>1, <2>2
<1>4. x \in 1 .. h /\ y \in 1 .. h /\ h \in 0 .. m
  BY <1>1, <1>2, <1>3 DEF m
<1>5. ASSUME NEW n \in 1 .. h
      PROVE  OfAction(all[n].path, 0, i) <=> x <= n /\ n <= y
  <2>1. n \in 1 .. m
    BY <1>1, <1>4
  <2> QED BY <1>1, <1>2, <2>1
<1>6. ASSUME NEW n \in x + 1 .. y PROVE all[n].from = End(all[n - 1])
  <2>1. n \in 1 .. h /\ n - 1 \in 1 .. h
    BY <1>1, <1>4
  <2> QED BY <1>1, <1>2, <2>1
<1> QED BY <1>1, <1>2, <1>4, <1>5, <1>6 DEF InFull, all

LEMMA InFullOne ==
    ASSUME NEW sp \in Seq(SpanSet), NEW s \in SpanSet, NEW i, OfAction(s.path, 0, i),
           \A n \in 1 .. Len(sp) : ~OfAction(sp[n].path, 0, i)
    PROVE  InFull(Append(sp, s), i, s.len)
<1> DEFINE all == Append(sp, s)
           m == Len(sp)
           x == m + 1
<1>1. m \in Nat /\ Len(all) = m + 1 /\ all[m + 1] = s /\ \A n \in 1 .. m : all[n] = sp[n]
  BY LenProperties, AppendProperties
<1>2. s.from \in Nat /\ s.len \in Nat
  BY SpanParts
<1> HIDE DEF all
<1>3. ASSUME NEW n \in 1 .. m + 1 PROVE OfAction(all[n].path, 0, i) <=> x <= n /\ n <= x
  <2>1. CASE n = m + 1
    BY <1>1, <2>1
  <2>2. CASE n # m + 1
    <3>1. n \in 1 .. m /\ ~(x <= n)
      BY <1>1, <2>2
    <3> QED BY <1>1, <3>1
  <2> QED BY <2>1, <2>2
<1>4. x \in 1 .. m + 1 /\ x <= x /\ x + 1 .. x = {}
  BY <1>1
<1>5. End(all[x]) - all[x].from = s.len
  BY <1>1, <1>2 DEF End
<1> QED BY <1>1, <1>3, <1>4, <1>5 DEF InFull, all

LEMMA Contiguous ==
    ASSUME NEW sp \in Seq(SpanSet), NEW size, Tiling(sp, 0, size), \A n \in 1 .. Len(sp) : sp[n].buf = 0
    PROVE  /\ \A n \in 2 .. Len(sp) : sp[n].from = End(sp[n - 1])
           /\ Len(sp) > 0 => size = End(sp[Len(sp)])
<1> DEFINE m == Len(sp)
<1>1. m \in Nat
  BY LenProperties
<1>2. ASSUME NEW n \in 2 .. m PROVE sp[n].from = End(sp[n - 1])
  <2>1. n \in 1 .. m /\ n - 1 \in 1 .. m /\ n - 1 \in Nat /\ n - 1 >= 1
    BY <1>1
  <2>2. sp[n].from = EndIn(sp, 0, n - 1)
    BY <2>1 DEF Tiling
  <2> QED BY <2>1, <2>2, EndInLast
<1>3. m > 0 => size = End(sp[m])
  <2> SUFFICES ASSUME m > 0 PROVE size = End(sp[m])
    OBVIOUS
  <2>1. m >= 1 /\ m \in 1 .. m
    BY <1>1
  <2>2. EndIn(sp, 0, m) = End(sp[m])
    <3> HIDE DEF m
    <3>1. sp[m].buf = 0
      BY <2>1 DEF m
    <3> QED BY <1>1, <2>1, <3>1, EndInLast
  <2> QED BY <2>2 DEF Tiling
<1> QED BY <1>2, <1>3

LEMMA InFullRest ==
    ASSUME NEW sp \in Seq(SpanSet), NEW size, Tiling(sp, 0, size), \A n \in 1 .. Len(sp) : sp[n].buf = 0,
           NEW x \in 1 .. Len(sp), NEW i,
           \A n \in 1 .. Len(sp) : OfAction(sp[n].path, 0, i) <=> n >= x
    PROVE  InFull(sp, i, size - sp[x].from)
<1> DEFINE m == Len(sp)
<1>1. m \in Nat /\ x \in 1 .. m /\ m \in 1 .. m /\ x <= m
  BY LenProperties
<1>2. \A n \in 2 .. m : sp[n].from = End(sp[n - 1])
  BY Contiguous
<1>3. size = End(sp[m])
  BY <1>1, Contiguous
<1>4. \A n \in x + 1 .. m : sp[n].from = End(sp[n - 1])
  BY <1>1, <1>2
<1>5. \A n \in 1 .. m : OfAction(sp[n].path, 0, i) <=> x <= n /\ n <= m
  BY <1>1
<1> QED BY <1>1, <1>3, <1>4, <1>5 DEF InFull

FullBefore(f, sp) ==
    Exact(f) => \A a \in 1 .. f.i - 1 : InFull(sp, a, FullSize(f.acts[a].type))

HeaderActions == Packet(pkt).actions

HeaderSizes ==
    pc = "struct" /\ sub = 0 /\ Packet(pkt).header # 0 =>
        /\ \A k \in 1 .. Len(stack) : Fitting(stack[k])
        /\ FullBefore(stack[1], spans)

HeaderInFull ==
    (pc = "struct" /\ sub > 0) \/ (pc = "subpackets" /\ Packet(pkt).subpackets # <<>>) =>
        \A a \in 1 .. Len(HeaderActions) : InFull(spans, a, FullSize(HeaderActions[a].type))

\* Where a fixed value was read it was found.
Found(mem, a) ==
    \A f \in HeaderActions[a].type.fixed : <<pkt, 0, a>> \in DOMAIN mem /\ mem[<<pkt, 0, a>>][1] = f

HeaderFixed ==
    pc \in {"struct", "subpackets"} =>
        \A a \in 1 .. Len(HeaderActions) : Has(spans, 0, a) => Found(memory, a)

Header == HeaderSizes /\ HeaderInFull /\ HeaderFixed

\* The action that the outermost frame has come to has no spans yet.
LEMMA NotYet ==
    ASSUME Control, Frames, Values, pc = "struct", Len(stack) = 1, NEW n \in 1 .. Len(spans)
    PROVE  ~OfAction(spans[n].path, sub, stack[1].i)
<1>1. CASE sub > 0 /\ OfHeader(n)
  BY <1>1 DEF OfHeader, OfAction
<1>2. CASE PassedBy(spans[n].path)
  <2>1. PICK k \in 1 .. Len(stack) : BehindIn(stack, spans[n].path, k)
    BY <1>2 DEF PassedBy
  <2>2. k = 1 /\ 1 + 2 = 3
    OBVIOUS
  <2>3. spans[n].path[3] < stack[1].i
    BY <2>1, <2>2 DEF BehindIn
  <2> DEFINE i == stack[1].i
  <2>4. i \in Nat /\ ~(i < i)
    BY Bottom
  <2> QED BY <2>3, <2>4 DEF OfAction
<1> QED BY <1>1, <1>2 DEF Values

\* The field that the innermost frame has come to.
LEMMA PathOfTop ==
    ASSUME Control, Frames, pc = "struct", Top.i \in 1 .. Len(Top.acts), NEW a
    PROVE  /\ Path = <<pkt, 0, a>> => Len(stack) = 1 /\ sub = 0 /\ stack[1].i = a
           /\ OfAction(Path, 0, a) /\ Path # <<pkt, 0, a>> => Len(stack) > 1 /\ sub = 0 /\ stack[1].i = a
<1> DEFINE d == Len(stack)
<1>1. d \in Nat /\ d >= 1
  BY Bottom
<1>2. /\ Path \in Seq(Nat) /\ Len(Path) = d + 2 /\ Path[1] = pkt /\ Path[2] = sub
      /\ \A j \in 1 .. d : Path[j + 2] = stack[j].i
  BY PathsOfFrames
<1>3. 1 \in 1 .. d /\ 1 + 2 = 3
  BY <1>1
<1>4. Path[3] = stack[1].i
  BY <1>2, <1>3
<1>5. Path = <<pkt, 0, a>> => d = 1 /\ sub = 0 /\ stack[1].i = a
  <2> SUFFICES ASSUME Path = <<pkt, 0, a>> PROVE d = 1 /\ sub = 0 /\ stack[1].i = a
    OBVIOUS
  <2>1. Len(Path) = 3 /\ Path[2] = 0 /\ Path[3] = a
    OBVIOUS
  <2> HIDE DEF d
  <2> QED BY <1>1, <1>2, <1>4, <2>1
<1>6. OfAction(Path, 0, a) /\ d = 1 => Path = <<pkt, 0, a>>
  <2> SUFFICES ASSUME OfAction(Path, 0, a), d = 1 PROVE Path = <<pkt, 0, a>>
    OBVIOUS
  <2>1. Path[1] = pkt /\ Path[2] = 0 /\ Path[3] = a /\ Len(Path) = 3 /\ Path \in Seq(Nat)
    BY <1>2 DEF OfAction
  <2> HIDE DEF d
  <2> DEFINE p == Path
  <2>2. p \in Seq(Nat) /\ Len(p) = 3 /\ p[1] = pkt /\ p[2] = 0 /\ p[3] = a
    BY <2>1
  <2> HIDE DEF p
  <2>3. p = <<pkt, 0, a>>
    BY <2>2
  <2> QED BY <2>3 DEF p
<1>7. OfAction(Path, 0, a) => sub = 0 /\ stack[1].i = a
  BY <1>2, <1>4 DEF OfAction
<1> HIDE DEF d
<1>8. d = 1 \/ d > 1
  BY <1>1
<1> QED BY <1>5, <1>6, <1>7, <1>8 DEF d

\* What the outermost frame of the header has come to.
LEMMA HeaderAction ==
    ASSUME PacketsOK, Control, Frames, pc = "struct", sub = 0
    PROVE  /\ stack[1].acts = HeaderActions /\ Listed(HeaderActions) /\ OnlyFields(HeaderActions)
           /\ Len(stack) > 1 => Compound(HeaderActions[stack[1].i].type)
           /\ State.buf = 0
<1>1. stack[1].acts = HeaderActions /\ Len(stack) \in Nat /\ Top = stack[Len(stack)]
  BY Bottom DEF ActionsOf, HeaderActions
<1>2. Listed(HeaderActions) /\ OnlyFields(HeaderActions)
  BY DEF PacketsOK, PacketOK, Control, HeaderActions, Packet
<1>3. Len(stack) > 1 => Compound(HeaderActions[stack[1].i].type)
  <2> SUFFICES ASSUME Len(stack) > 1 PROVE Compound(HeaderActions[stack[1].i].type)
    OBVIOUS
  <2>1. 2 \in 2 .. Len(stack) /\ 2 - 1 = 1
    BY <1>1
  <2> QED BY <1>1, <2>1, NestedOnlyFields
<1>4. stack[1].state.buf = 0
  <2>1. SUFFICES ASSUME stack[1].state.buf # 0 PROVE FALSE
    OBVIOUS
  <2>2. IsFrame(stack[1]) /\ 1 \in 1 .. Len(stack)
    BY Bottom DEF Frames
  <2>3. stack[1].state.buf = 1
    BY <2>1, <2>2 DEF IsFrame, States
  <2>4. PICK a \in 1 .. stack[1].i - 1 : stack[1].acts[a].do = "transformation"
    BY <2>3 DEF Frames, Outermost
  <2>5. a \in 1 .. Len(stack[1].acts)
    BY <2>2, FrameFacts
  <2> QED BY <1>1, <1>2, <2>4, <2>5 DEF OnlyFields
<1> DEFINE d == Len(stack)
           Off == {k \in 1 .. d : stack[k].state.buf # 0}
<1>5. Off = {}
  <2>1. SUFFICES ASSUME Off # {} PROVE FALSE
    OBVIOUS
  <2>2. PICK m \in Off : \A h \in Off : m <= h
    <3>1. Off \subseteq Nat
      OBVIOUS
    <3> HIDE DEF Off
    <3> QED BY <2>1, <3>1, LeastNumber
  <2>3. m \in 1 .. d /\ stack[m].state.buf # 0 /\ m # 1
    BY <1>4, <2>2
  <2>4. m \in 2 .. d /\ m - 1 \in 1 .. d /\ ~(m <= m - 1)
    BY <1>1, <2>3
  <2>5. m - 1 \notin Off
    <3> HIDE DEF Off
    <3> QED BY <2>2, <2>4
  <2>6. Nested(m)
    BY <2>4 DEF Frames
  <2> QED BY <2>3, <2>4, <2>5, <2>6 DEF Nested
<1>6. State.buf = 0
  <2>1. d \in 1 .. d
    BY <1>1, Bottom
  <2> QED BY <1>1, <1>5, <2>1 DEF State
<1> QED BY <1>1, <1>2, <1>3, <1>6

\* What a step among the fields adds to the spans.
LEMMA SpansInStruct ==
    ASSUME PacketsOK, Control, Frames, Tiles, Ranks, Still,
           Takes \/ Fails \/ Unpacks \/ Notes \/ Enters \/ Exits
    PROVE  \/ spans' = spans
           \/ \E s \in SpanSet :
                 /\ s.path = Path /\ spans' = Append(spans, s) /\ Top.i \in 1 .. Len(Top.acts)
                 /\ \A k, i : Has(spans', k, i) <=> Has(spans, k, i) \/ OfAction(Path, k, i)
<1>0. pc = "struct" /\ UNCHANGED <<def, pkt, sub>>
  BY DEF Still, loaderVars
<1>1. CASE Takes
  <2> DEFINE r == Action.type.width * Got
             s == Span(r)
  <2>1. r \in Nat /\ Top.i \in 1 .. Len(Top.acts) /\ Atom(Action.type) /\ spans' = Append(spans, s)
    BY <1>0, <1>1, TopFacts DEF Takes, AtAction
  <2>2. s \in SpanSet /\ s.path = Path
    BY <1>0, <2>1, SpanTyped
  <2> HIDE DEF s
  <2> QED BY <1>0, <2>1, <2>2, RanksAppend
<1>2. CASE Unpacks
  <2> DEFINE s == Span(State.left)
  <2>1. State.left \in Nat /\ Top.i \in 1 .. Len(Top.acts) /\ Action.do # "field" /\ spans' = Append(spans, s)
    BY <1>0, <1>2, TopFacts DEF Unpacks, AtAction
  <2>2. s \in SpanSet /\ s.path = Path
    BY <1>0, <2>1, SpanTyped
  <2> HIDE DEF s
  <2> QED BY <1>0, <2>1, <2>2, RanksAppend
<1> QED BY <1>1, <1>2 DEF Fails, Notes, Enters, Exits

LEMMA FixedInStruct ==
    ASSUME PacketsOK, Control, Frames, Tiles, Values, Ranks, Header, Still,
           Takes \/ Fails \/ Unpacks \/ Notes \/ Enters \/ Exits
    PROVE  HeaderFixed'
<1>0. /\ pc = "struct" /\ pc' = "struct" /\ UNCHANGED <<def, pkt, sub>>
      /\ HeaderActions' = HeaderActions /\ \A mem, a : Found(mem, a)' <=> Found(mem', a)
  BY DEF Still, loaderVars, HeaderActions, Packet, Found
<1>1. ASSUME NEW a \in 1 .. Len(HeaderActions), Has(spans', 0, a),
             NEW f \in HeaderActions[a].type.fixed
      PROVE  <<pkt, 0, a>> \in DOMAIN memory' /\ memory'[<<pkt, 0, a>>][1] = f
  <2> DEFINE home == <<pkt, 0, a>>
  <2>1. Has(spans, 0, a) => home \in DOMAIN memory /\ memory[home][1] = f
    BY <1>0, <1>1 DEF Header, HeaderFixed, Found
  <2>2. Has(spans, 0, a) \/ (OfAction(Path, 0, a) /\ Top.i \in 1 .. Len(Top.acts) /\ (Takes \/ Unpacks))
    <3>1. CASE spans' = spans
      BY <1>1, <3>1
    <3>2. CASE spans' # spans
      BY <1>1, <3>2, SpansInStruct DEF Fails, Notes, Enters, Exits
    <3> QED BY <3>1, <3>2
  <2>3. CASE memory' = memory
    <3>1. CASE Has(spans, 0, a)
      BY <2>1, <2>3, <3>1
    <3>2. CASE OfAction(Path, 0, a) /\ Takes
      <4>1. memory' = Put(memory, Path, Reading)
        BY <3>2 DEF Takes
      <4>2. Path = home => home \in DOMAIN memory /\ memory[home] = Reading
        BY <2>3, <4>1 DEF Put
      <4>3. Path = home
        <5>1. SUFFICES ASSUME Path # home PROVE FALSE
          OBVIOUS
        <5>2. Len(stack) > 1 /\ sub = 0 /\ stack[1].i = a
          BY <1>0, <3>2, <5>1, PathOfTop DEF Takes, AtAction
        <5>3. HeaderActions[a].type.fixed = {}
          BY <1>0, <5>2, HeaderAction DEF Compound
        <5> QED BY <1>1, <5>3
      <4>4. Action = HeaderActions[a]
        <5>1. Len(stack) = 1 /\ sub = 0 /\ stack[1].i = a
          BY <1>0, <3>2, <4>3, PathOfTop DEF Takes, AtAction
        <5> QED BY <1>0, <5>1, HeaderAction DEF Action, Top
      <4>5. Reading[1] = f
        BY <1>1, <3>2, <4>4 DEF Takes, Acceptable, Atom
      <4> QED BY <2>3, <4>2, <4>3, <4>5
    <3>3. CASE OfAction(Path, 0, a) /\ Unpacks
      <4>1. sub > 0
        BY <3>3, TilesUnpacks
      <4>2. sub = 0
        BY <1>0, <3>3, PathsOfFrames DEF OfAction, Unpacks, AtAction
      <4> QED BY <4>1, <4>2
    <3> QED BY <2>2, <3>1, <3>2, <3>3
  <2>4. CASE memory' # memory
    <3>1. Top.i \in 1 .. Len(Top.acts) /\ Atom(Action.type) /\ memory' = Put(memory, Path, Reading)
          /\ (Takes \/ Fails)
      BY <2>4 DEF Takes, Fails, AtAction, Unpacks, Notes, Enters, Exits
    <3>2. CASE Path = home
      <4>1. Len(stack) = 1 /\ sub = 0 /\ stack[1].i = a
        BY <1>0, <3>1, <3>2, PathOfTop
      <4>2. ~Has(spans, 0, a)
        BY <1>0, <4>1, NotYet DEF Has
      <4>3. Takes
        BY <2>2, <2>4, <4>2 DEF Unpacks
      <4>4. Action = HeaderActions[a]
        BY <1>0, <4>1, HeaderAction DEF Action, Top
      <4>5. Reading[1] = f
        BY <1>1, <4>3, <4>4 DEF Takes, Acceptable, Atom
      <4>6. home \in DOMAIN memory' /\ memory'[home] = Reading
        BY <3>1, <3>2 DEF Put
      <4> QED BY <4>5, <4>6
    <3>3. CASE Path # home
      <4>1. Has(spans, 0, a)
        <5>1. SUFFICES ASSUME ~Has(spans, 0, a) PROVE FALSE
          OBVIOUS
        <5>2. OfAction(Path, 0, a)
          BY <2>2, <5>1
        <5>3. Len(stack) > 1 /\ sub = 0 /\ stack[1].i = a
          BY <1>0, <3>1, <3>3, <5>2, PathOfTop
        <5>4. HeaderActions[a].type.fixed = {}
          BY <1>0, <5>3, HeaderAction DEF Compound
        <5> QED BY <1>1, <5>4
      <4>2. home \in DOMAIN memory /\ memory[home][1] = f
        BY <2>1, <4>1
      <4> HIDE DEF home
      <4> QED BY <3>1, <3>3, <4>2 DEF Put, home
    <3> QED BY <3>2, <3>3
  <2> QED BY <2>3, <2>4
<1> QED BY <1>0, <1>1 DEF HeaderFixed, Found, Has, HeaderActions, Packet

LEMMA InFullInStruct ==
    ASSUME PacketsOK, Control, Frames, Tiles, Values, Ranks, Header, Still,
           Takes \/ Fails \/ Unpacks \/ Notes \/ Enters \/ Exits
    PROVE  HeaderInFull'
<1>0. /\ pc = "struct" /\ pc' = "struct" /\ UNCHANGED <<def, pkt, sub>> /\ HeaderActions' = HeaderActions
  BY DEF Still, loaderVars, HeaderActions, Packet
<1>1. ASSUME sub > 0, NEW a \in 1 .. Len(HeaderActions)
      PROVE  InFull(spans', a, FullSize(HeaderActions[a].type))
  <2>1. InFull(spans, a, FullSize(HeaderActions[a].type))
    BY <1>0, <1>1 DEF Header, HeaderInFull
  <2>2. ASSUME NEW s \in SpanSet, s.path = Path, spans' = Append(spans, s), Top.i \in 1 .. Len(Top.acts)
        PROVE  InFull(spans', a, FullSize(HeaderActions[a].type))
    <3>1. ~OfAction(s.path, 0, a)
      BY <1>0, <1>1, <2>2, PathsOfFrames DEF OfAction
    <3>2. spans \in Seq(SpanSet)
      BY DEF Tiles
    <3> QED BY <2>1, <2>2, <3>1, <3>2, InFullMore
  <2> QED BY <2>1, <2>2, SpansInStruct
<1> QED BY <1>0, <1>1 DEF HeaderInFull, InFull, OfAction, HeaderActions, Packet

LEMMA FullForward ==
    ASSUME NEW f, IsFrame(f), f.i <= Len(f.acts), NEW sp, FullBefore(f, sp), NEW st,
           Exact(Forward(f, st)) => Exact(f) /\ InFull(sp, f.i, FullSize(f.acts[f.i].type))
    PROVE  FullBefore(Forward(f, st), sp)
<1> DEFINE g == Forward(f, st)
           i == f.i
<1>1. g.i = i + 1 /\ g.acts = f.acts /\ i \in Nat /\ i >= 1
  BY FrameFacts DEF Forward
<1> HIDE DEF g
<1>2. ASSUME Exact(g), NEW a \in 1 .. g.i - 1
      PROVE  InFull(sp, a, FullSize(g.acts[a].type))
  <2>1. Exact(f) /\ InFull(sp, i, FullSize(f.acts[i].type))
    BY <1>2 DEF g
  <2>2. CASE a = i
    BY <1>1, <2>1, <2>2
  <2>3. CASE a # i
    <3>1. a \in 1 .. i - 1
      BY <1>1, <2>3
    <3> QED BY <1>1, <2>1, <3>1 DEF FullBefore
  <2> QED BY <2>2, <2>3
<1> QED BY <1>2 DEF FullBefore, g

LEMMA FullMore ==
    ASSUME NEW f, NEW sp \in Seq(SpanSet), NEW s \in SpanSet, FullBefore(f, sp),
           \A a \in 1 .. f.i - 1 : ~OfAction(s.path, 0, a)
    PROVE  FullBefore(f, Append(sp, s))
BY InFullMore DEF FullBefore

\* A structure of the header whose end is reached.
LEMMA ReturnedFits ==
    ASSUME Control, Frames, pc = "struct", Len(stack) > 1, Top.i = Len(Top.acts) + 1, Fitting(Top)
    PROVE  /\ Returned \in Int /\ Returned <= ConstantSize(Outer.acts[Outer.i].type)
           /\ State.buf = Outer.state.buf /\ State.pos - Outer.state.pos = Returned
           /\ State.pos \in Nat /\ Outer.state.pos \in Nat
<1> DEFINE d == Len(stack)
           t == Outer.acts[Outer.i].type
           n == Len(Top.acts)
<1>1. d \in Nat /\ Top = stack[d] /\ Outer = stack[d - 1] /\ d \in 2 .. d /\ d \in 1 .. d /\ d - 1 \in 1 .. d
  BY Bottom DEF Outer
<1>2. Nested(d) /\ IsFrame(Top) /\ IsFrame(Outer) /\ Inside(State) /\ Inside(Outer.state) /\ Compound(t)
  BY <1>1, NestedOnlyFields, SMTT(30) DEF Frames, State
<1>3. Top.left0 = Outer.state.left /\ State.buf = Outer.state.buf /\ Top.acts = t.actions
  BY <1>1, <1>2 DEF Nested, State
<1>4. State.left \in Nat /\ State.pos \in Nat /\ Outer.state.left \in Nat /\ Outer.state.pos \in Nat
  BY <1>2 DEF IsFrame, States, State
<1>5. State.pos + State.left = Outer.state.pos + Outer.state.left
  BY <1>2, <1>3 DEF Inside, State, Data
<1>6. Passed(Top) = ConstantSize(t)
  <2>1. n \in Nat /\ (n + 1) - 1 = n
    BY <1>2, FrameFacts
  <2>2. Passed(Top) = Sums(Sizes(Top.acts, ConstantSize))[n]
    BY <2>1 DEF Passed
  <2>3. StructSize(Top.acts) = Sums(Sizes(Top.acts, ConstantSize))[n]
    BY <1>2, SizesOfActions DEF Fitting, IsFrame
  <2>4. StructSize(Top.acts) = ConstantSize(t)
    BY <1>2, <1>3 DEF Compound, ConstantSize
  <2> QED BY <2>2, <2>3, <2>4
<1>7. Returned <= ConstantSize(t)
  BY <1>6 DEF Returned, Fitting, State
<1>8. Returned \in Int /\ State.pos - Outer.state.pos = Returned
  <2> DEFINE a == State.pos
             b == State.left
             p == Outer.state.pos
             q == Outer.state.left
  <2>1. Returned = q - b
    BY <1>3 DEF Returned
  <2>2. a \in Nat /\ b \in Nat /\ p \in Nat /\ q \in Nat /\ a + b = p + q
    BY <1>4, <1>5
  <2> HIDE DEF a, b, p, q
  <2>3. q - b \in Int /\ a - p = q - b
    BY <2>2
  <2> QED BY <2>1, <2>3 DEF a, b, p, q
<1> QED BY <1>3, <1>4, <1>7, <1>8

\* The frames of the header, one of which moved on.
LEMMA SizesGoOn ==
    ASSUME PacketsOK, Control, Frames, Still, HeaderSizes, sub = 0, Packet(pkt).header # 0,
           NEW d \in 1 .. Len(stack), NEW g, Turned(d, g), Fitting(g),
           d = 1 => FullBefore(g, spans'),
           d > 1 => FullBefore(stack[1], spans')
    PROVE  HeaderSizes'
<1>1. pc = "struct" /\ Len(stack) \in Nat
  BY Bottom DEF Still
<1>2. Len(stack') = d /\ stack'[d] = g /\ \A k \in 1 .. d - 1 : stack'[k] = stack[k]
  BY DEF Turned
<1>3. ASSUME NEW k \in 1 .. d PROVE Fitting(stack'[k])
  <2>1. CASE k = d
    BY <1>2, <2>1
  <2>2. CASE k # d
    <3>1. k \in 1 .. d - 1 /\ k \in 1 .. Len(stack)
      BY <1>1, <2>2
    <3> QED BY <1>1, <1>2, <3>1 DEF HeaderSizes
  <2> QED BY <2>1, <2>2
<1>4. FullBefore(stack'[1], spans')
  <2>1. CASE d = 1
    BY <1>2, <2>1
  <2>2. CASE d # 1
    <3>1. d > 1 /\ 1 \in 1 .. d - 1
      BY <1>1, <2>2
    <3> QED BY <1>2, <3>1
  <2> QED BY <2>1, <2>2
<1> QED BY <1>2, <1>3, <1>4 DEF HeaderSizes, FullBefore, Exact, Passed, Fitting, InFull, OfAction

\* The innermost frame of a header.
LEMMA HeaderTop ==
    ASSUME PacketsOK, Control, Frames, HeaderSizes, pc = "struct", sub = 0, Packet(pkt).header # 0
    PROVE  /\ Fitting(Top) /\ OnlyFields(Top.acts) /\ IsFrame(Top) /\ Len(stack) \in 1 .. Len(stack)
           /\ Top.i \in 1 .. Len(Top.acts) => Action.do = "field" /\ ConstantSize(Action.type) > 0
<1>1. Len(stack) \in Nat /\ Len(stack) >= 1 /\ Top = stack[Len(stack)] /\ IsFrame(Top)
  BY Bottom, TopFacts
<1>2. Fitting(Top)
  BY <1>1 DEF HeaderSizes
<1>3. OnlyFields(Top.acts)
  <2>1. CASE Len(stack) = 1
    BY <1>1, <2>1, HeaderAction
  <2>2. CASE Len(stack) # 1
    <3> DEFINE d == Len(stack)
    <3>1. d \in Nat /\ d >= 1 /\ d # 1
      BY <1>1, <2>2
    <3> HIDE DEF d
    <3>2. d \in 2 .. d
      BY <3>1
    <3> QED BY <1>1, <3>2, NestedOnlyFields DEF d
  <2> QED BY <2>1, <2>2
<1>4. Top.i \in 1 .. Len(Top.acts) => Action.do = "field" /\ ConstantSize(Action.type) > 0
  BY <1>1, <1>2, <1>3, SizesOfActions DEF OnlyFields, Action, IsFrame, Fitting
<1> QED BY <1>1, <1>2, <1>3, <1>4

LEMMA SizesTakes ==
    ASSUME PacketsOK, Control, Frames, Tiles, Values, Ranks, HeaderSizes, Still, Takes,
           sub = 0, Packet(pkt).header # 0
    PROVE  HeaderSizes'
<1> DEFINE t == Action.type
           r == t.width * Got
           s == Span(r)
           g == Forward(Top, Further(State, r))
           d == Len(stack)
<1>0. /\ pc = "struct" /\ Top.i \in 1 .. Len(Top.acts) /\ Action.do = "field" /\ Atom(t)
      /\ r \in 1 .. State.left /\ spans' = Append(spans, s) /\ Turned(d, g) /\ spans \in Seq(SpanSet)
  BY DEF Still, Takes, AtAction, Tiles
<1>1. State.left \in Nat /\ r \in Nat /\ d \in Nat /\ d >= 1
  BY <1>0, TopFacts, Bottom
<1>2. s \in SpanSet /\ s.path = Path /\ s.len = r
  BY <1>0, <1>1, SpanTyped
<1>3. Fitting(Top) /\ OnlyFields(Top.acts) /\ IsFrame(Top) /\ ConstantSize(t) > 0 /\ Top.i <= Len(Top.acts)
      /\ Len(stack) \in 1 .. Len(stack)
  BY <1>0, HeaderTop
<1>4. r = ConstantSize(t) /\ r = FullSize(t)
  <2>1. Taken(t, Reading, State.left) = r
    BY <1>0 DEF Takes, Taken, Got
  <2>2. ConstantSize(t) # 0 /\ Sized(t)
    BY <1>0, <1>3 DEF Atom
  <2>3. r \in {0, ConstantSize(t)}
    BY <1>1, <2>1, <2>2, ConstantOrNothing
  <2>4. r # 0
    BY <1>0, <1>1
  <2>5. ConstantSize(t) = FullSize(t)
    BY <1>0, <2>2, AtomsAreMade, SizesOfTypes
  <2> QED BY <2>3, <2>4, <2>5
<1>5. Fitting(g)
  <2>1. r <= ConstantSize(Top.acts[Top.i].type)
    BY <1>1, <1>4 DEF Action
  <2> HIDE DEF r
  <2> QED BY <1>1, <1>3, <2>1, FrameForward DEF State
<1>6. ASSUME NEW a \in 1 .. stack[1].i - 1 PROVE ~OfAction(Path, 0, a)
  <2> DEFINE i == stack[1].i
  <2>1. i \in Nat /\ a # i
    BY <1>0, <1>6, Bottom
  <2>2. OfAction(Path, 0, a) => i = a
    BY <1>0, PathOfTop
  <2> QED BY <2>1, <2>2
<1>7. FullBefore(stack[1], spans')
  <2>1. FullBefore(stack[1], spans)
    BY <1>0 DEF HeaderSizes
  <2> HIDE DEF s
  <2> QED BY <1>0, <1>2, <1>6, <2>1, FullMore
<1>8. CASE d = 1
  <2>1. Top = stack[1] /\ OfAction(s.path, 0, Top.i) /\ Top.i \in Nat
    <3>1. Top = stack[1]
      BY <1>0, <1>8, Bottom
    <3>2. OfAction(Path, sub, stack[1].i)
      <4> HIDE DEF s
      <4> QED BY <1>0, <1>2, RanksAppend DEF Still, loaderVars
    <3> QED BY <1>0, <1>2, <3>1, <3>2, Bottom
  <2>2. InFull(spans', Top.i, r)
    <3>1. \A n \in 1 .. Len(spans) : ~OfAction(spans[n].path, 0, Top.i)
      BY <1>0, <1>8, <2>1, NotYet
    <3> HIDE DEF s
    <3> QED BY <1>0, <1>2, <2>1, <3>1, InFullOne
  <2>3. Exact(g) => Exact(Top)
    <3>1. r <= ConstantSize(Top.acts[Top.i].type)
      BY <1>1, <1>4 DEF Action
    <3> HIDE DEF r
    <3> QED BY <1>1, <1>3, <3>1, FrameForward DEF State
  <2>4. FullBefore(g, spans')
    <3>1. InFull(spans', Top.i, FullSize(Top.acts[Top.i].type))
      BY <1>4, <2>2 DEF Action
    <3> QED BY <1>3, <1>7, <2>1, <2>3, <3>1, FullForward
  <2>5. Turned(1, g) /\ 1 \in 1 .. Len(stack)
    BY <1>0, <1>1, <1>8
  <2> HIDE DEF g, d
  <2> QED BY <1>0, <1>5, <2>4, <2>5, SizesGoOn
<1>9. CASE d > 1
  <2> HIDE DEF g
  <2> QED BY <1>0, <1>3, <1>5, <1>7, <1>9, SizesGoOn
<1>10. d = 1 \/ d > 1
  <2> HIDE DEF d
  <2> QED BY <1>1
<1> QED BY <1>8, <1>9, <1>10

LEMMA SizesFails ==
    ASSUME PacketsOK, Control, Frames, HeaderSizes, Still, Fails, sub = 0, Packet(pkt).header # 0
    PROVE  HeaderSizes'
<1>0. /\ pc = "struct" /\ Top.i \in 1 .. Len(Top.acts) /\ Turned(Len(stack), Stopped(Top)) /\ spans' = spans
  BY DEF Still, Fails
<1>1. Fitting(Top) /\ OnlyFields(Top.acts) /\ IsFrame(Top) /\ Top.i <= Len(Top.acts)
      /\ Len(stack) \in 1 .. Len(stack)
  BY <1>0, HeaderTop
<1>2. Fitting(Stopped(Top)) /\ ~Exact(Stopped(Top))
  BY <1>1, FrameStopped
<1>3. FullBefore(Stopped(Top), spans') /\ FullBefore(stack[1], spans')
  BY <1>0, <1>2 DEF FullBefore, HeaderSizes
<1> QED BY <1>0, <1>1, <1>2, <1>3, SizesGoOn

LEMMA SizesEnters ==
    ASSUME PacketsOK, Control, Frames, HeaderSizes, Still, Enters, sub = 0, Packet(pkt).header # 0
    PROVE  HeaderSizes'
<1> DEFINE d == Len(stack)
           g == [path |-> Path, acts |-> Action.type.actions, i |-> 1, state |-> State, left0 |-> State.left]
<1>0. /\ pc = "struct" /\ pc' = "struct" /\ Top.i \in 1 .. Len(Top.acts) /\ Turned(d + 1, g) /\ spans' = spans
      /\ Compound(Action.type) /\ Listed(Action.type.actions) /\ UNCHANGED <<def, pkt, sub>>
  BY DEF Still, Enters, AtAction, loaderVars
<1>1. ConstantSize(Action.type) > 0 /\ d \in Nat /\ d >= 1
  BY <1>0, HeaderTop, Bottom
<1>2. Frames'
  BY FramesEntered
<1>3. Len(stack') = d + 1 /\ stack'[d + 1] = g /\ \A k \in 1 .. d : stack'[k] = stack[k]
  <2>1. (d + 1) - 1 = d
    BY <1>1
  <2> HIDE DEF g, d
  <2> QED BY <1>0, <2>1 DEF Turned
<1>4. IsFrame(g)
  <2>1. d + 1 \in 1 .. Len(stack')
    BY <1>1, <1>3
  <2> HIDE DEF g
  <2> QED BY <1>2, <1>3, <2>1 DEF Frames
<1>5. Fitting(g)
  <2>1. g.i = 1 /\ g.left0 = g.state.left /\ g.acts = Action.type.actions
    OBVIOUS
  <2>2. StructSize(g.acts) # 0
    BY <1>0, <1>1, <2>1 DEF Compound, ConstantSize
  <2> HIDE DEF g
  <2> QED BY <1>4, <2>1, <2>2, FrameEntered
<1>6. ASSUME NEW k \in 1 .. d + 1 PROVE Fitting(stack'[k])
  <2>1. CASE k = d + 1
    BY <1>3, <1>5, <2>1
  <2>2. CASE k # d + 1
    <3>1. k \in 1 .. d
      BY <1>1, <2>2
    <3> QED BY <1>0, <1>3, <3>1 DEF HeaderSizes
  <2> QED BY <2>1, <2>2
<1>7. FullBefore(stack'[1], spans')
  <2>1. 1 \in 1 .. d
    BY <1>1
  <2> QED BY <1>0, <1>3, <2>1 DEF HeaderSizes
<1> HIDE DEF g, d
<1> QED BY <1>3, <1>6, <1>7 DEF HeaderSizes, FullBefore, Exact, Passed, Fitting, InFull, OfAction

\* A structure of constant size has that size.
LEMMA CompoundInFull ==
    ASSUME NEW t, Compound(t), ConstantSize(t) # 0
    PROVE  FullSize(t) = ConstantSize(t)
<1>1. t.size # 0 /\ ConstantSize(t) = t.size
  BY DEF Compound, ConstantSize
<1>2. t.count = 1 /\ t.width \in Nat /\ t.size = t.width
  BY <1>1 DEF Compound
<1>3. t.count * t.width = t.width
  BY <1>2
<1> QED BY <1>1, <1>2, <1>3 DEF FullSize

LEMMA SizesExits ==
    ASSUME PacketsOK, Control, Frames, Tiles, Ranks, HeaderSizes, Still, Exits,
           sub = 0, Packet(pkt).header # 0
    PROVE  HeaderSizes'
<1> DEFINE d == Len(stack)
           o == d - 1
           t == Outer.acts[Outer.i].type
           moved == Forward(Outer, Further(Outer.state, Returned))
<1>0. /\ pc = "struct" /\ d > 1 /\ Top.i = Len(Top.acts) + 1 /\ spans' = spans
      /\ Turned(o, IF Returned > 0 THEN moved ELSE Stopped(Outer))
  BY DEF Still, Exits
<1>1. d \in Nat /\ Top = stack[d] /\ Outer = stack[o] /\ d \in 2 .. d /\ d \in 1 .. d /\ o \in 1 .. d
  BY <1>0, Bottom DEF Outer
<1>2. Fitting(Top) /\ Fitting(Outer) /\ FullBefore(stack[1], spans')
  BY <1>0, <1>1 DEF HeaderSizes
<1>3. /\ Returned \in Int /\ Returned <= ConstantSize(t)
      /\ State.pos - Outer.state.pos = Returned /\ State.pos \in Nat /\ Outer.state.pos \in Nat
  BY <1>0, <1>2, ReturnedFits
<1>4. IsFrame(Outer) /\ Outer.i <= Len(Outer.acts) /\ Outer.i \in Nat /\ Compound(t)
  <2>1. IsFrame(Outer) /\ Nested(d)
    BY <1>1 DEF Frames
  <2>2. Outer.i \in 1 .. Len(Outer.acts) /\ Len(Outer.acts) \in Nat /\ Outer.i \in Nat
    BY <1>1, <2>1, FrameFacts DEF Nested
  <2> QED BY <1>1, <2>1, <2>2, NestedOnlyFields
<1>5. OnlyFields(Outer.acts)
  <2>1. CASE o = 1
    BY <1>0, <1>1, <2>1, HeaderAction
  <2>2. CASE o # 1
    <3>1. o \in 1 .. d /\ o # 1 /\ d \in Nat
      BY <1>1, <2>2
    <3> HIDE DEF o, d
    <3>2. o \in 2 .. d
      BY <3>1
    <3> QED BY <1>1, <3>2, NestedOnlyFields DEF d
  <2> QED BY <2>1, <2>2
<1>6. CASE Returned > 0
  <2>1. Turned(o, moved) /\ Returned \in Nat
    BY <1>0, <1>3, <1>6
  <2>2. Fitting(moved) /\ (Exact(moved) => Exact(Outer) /\ Returned = ConstantSize(t))
    <3> HIDE DEF o
    <3> QED BY <1>2, <1>3, <1>4, <1>5, <2>1, FrameForward
  <2>3. ASSUME o = 1 PROVE FullBefore(moved, spans')
    <3>1. Outer = stack[1]
      BY <1>1, <2>3
    <3>2. Returned = ConstantSize(t) => InFull(spans', Outer.i, FullSize(t))
      <4> SUFFICES ASSUME Returned = ConstantSize(t) PROVE InFull(spans', Outer.i, FullSize(t))
        OBVIOUS
      <4>1. /\ State.buf = 0 /\ spans \in Seq(SpanSet)
            /\ Tiling(spans, 0, State.pos) /\ \A n \in 1 .. Len(spans) : spans[n].buf = 0
        BY <1>0, HeaderAction DEF Tiles, TilesInStruct, NoText
      <4>2. State.pos # Outer.state.pos
        <5> DEFINE p == State.pos
                   q == Outer.state.pos
        <5>1. p \in Nat /\ q \in Nat /\ p - q > 0
          BY <1>3, <1>6
        <5> HIDE DEF p, q
        <5>2. p # q
          BY <5>1
        <5> QED BY <5>2 DEF p, q
      <4>3. PICK x \in 1 .. Len(spans) :
                /\ spans[x].from = Outer.state.pos
                /\ \A n \in 1 .. Len(spans) : OfAction(spans[n].path, 0, Outer.i) <=> n >= x
        BY <1>0, <3>1, <4>2 DEF Ranks, Covered
      <4>4. InFull(spans, Outer.i, State.pos - spans[x].from)
        BY <4>1, <4>3, InFullRest
      <4>5. FullSize(t) = ConstantSize(t)
        <5>1. Compound(t) /\ ConstantSize(t) # 0
          BY <1>4, <1>6
        <5> HIDE DEF t, o, d, moved
        <5> QED BY <5>1, CompoundInFull
      <4> QED BY <1>0, <1>3, <4>3, <4>4, <4>5
    <3>3. FullBefore(Outer, spans')
      BY <1>2, <3>1
    <3>4. Exact(moved) => Exact(Outer) /\ InFull(spans', Outer.i, FullSize(Outer.acts[Outer.i].type))
      BY <2>2, <3>2
    <3> HIDE DEF t, o, d
    <3> QED BY <1>4, <3>3, <3>4, FullForward
  <2> HIDE DEF moved, o
  <2> QED BY <1>0, <1>1, <1>2, <2>1, <2>2, <2>3, SizesGoOn
<1>7. CASE ~(Returned > 0)
  <2>1. Turned(o, Stopped(Outer))
    BY <1>0, <1>7
  <2>2. Fitting(Stopped(Outer)) /\ ~Exact(Stopped(Outer))
    BY <1>2, <1>4, <1>5, FrameStopped
  <2>3. FullBefore(Stopped(Outer), spans')
    BY <2>2 DEF FullBefore
  <2> HIDE DEF moved, o
  <2> QED BY <1>0, <1>1, <1>2, <2>1, <2>2, <2>3, SizesGoOn
<1> QED BY <1>6, <1>7

LEMMA HeaderInStruct ==
    ASSUME PacketsOK, Control, Frames, Tiles, Values, Ranks, Header, InStruct
    PROVE  Header'
<1>1. Still /\ (Takes \/ Fails \/ Unpacks \/ Notes \/ Enters \/ Exits)
  BY StepsInStruct
<1>2. pc = "struct" /\ pc' = "struct" /\ UNCHANGED <<def, pkt, sub>> /\ Packet(pkt)' = Packet(pkt)
  BY <1>1 DEF Still, loaderVars, Packet
<1>3. HeaderFixed' /\ HeaderInFull'
  BY <1>1, FixedInStruct, InFullInStruct
<1>4. CASE sub = 0 /\ Packet(pkt).header # 0
  <2>1. Top.i \in 1 .. Len(Top.acts) => Action.do = "field"
    BY <1>2, <1>4, HeaderTop DEF Header
  <2>2. ~Unpacks /\ ~Notes
    BY <2>1 DEF Unpacks, Notes, AtAction
  <2> QED BY <1>1, <1>3, <1>4, <2>2, SizesTakes, SizesFails, SizesEnters, SizesExits DEF Header
<1>5. CASE ~(sub = 0 /\ Packet(pkt).header # 0)
  BY <1>2, <1>3, <1>5 DEF Header, HeaderSizes
<1> QED BY <1>4, <1>5

LEMMA HeaderStart ==
    ASSUME Init
    PROVE  Header
BY DEF Init, Header, HeaderSizes, HeaderInFull, HeaderFixed

LEMMA HeaderTryPacket ==
    ASSUME PacketsOK, Control, Frames, TryPacket
    PROVE  Header'
<1> DEFINE f == stack'[1]
<1>1. /\ pc' = "struct" /\ sub' = 0 /\ spans' = <<>> /\ UNCHANGED <<def, start>> /\ pkt' \in 1 .. Len(def.packets)
      /\ stack' = <<Frame(<<pkt', 0>>, Packet(pkt').actions, start)>>
  <2>1. pkt' = pkt + 1 /\ pkt < Len(def.packets) /\ pkt \in 0 .. Len(def.packets)
    BY DEF TryPacket, Control
  <2>2. Len(def.packets) \in Nat
    BY SequenceFacts DEF PacketsOK
  <2> QED BY <2>1, <2>2 DEF TryPacket, loaderVars
<1>2. Len(stack') = 1 /\ f = Frame(<<pkt', 0>>, Packet(pkt').actions, start) /\ Len(spans') = 0
  BY <1>1
<1>3. f.i = 1 /\ f.left0 = f.state.left /\ f.acts = Packet(pkt').actions
  BY <1>2 DEF Frame
<1>4. Frames'
  BY FramesTryPacket
<1>5. IsFrame(f)
  BY <1>2, <1>4 DEF Frames
<1>6. Packet(pkt').header # 0 => StructSize(f.acts) # 0
  BY <1>1, <1>3 DEF PacketsOK, PacketOK, Packet
<1> HIDE DEF f
<1>7. Packet(pkt').header # 0 => Fitting(f)
  BY <1>3, <1>5, <1>6, FrameEntered
<1>8. FullBefore(f, spans')
  <2>1. \A a : a \notin 1 .. f.i - 1
    BY <1>3
  <2> QED BY <2>1 DEF FullBefore
<1>9. (Packet(pkt)' = Packet(pkt'))
  BY <1>1 DEF Packet
<1>10. HeaderSizes'
  <2>1. Packet(pkt').header # 0 => \A k \in 1 .. Len(stack') : Fitting(stack'[k])
    BY <1>2, <1>7 DEF f
  <2> QED BY <1>1, <1>8, <1>9, <2>1 DEF HeaderSizes, FullBefore, Exact, Passed, Fitting, InFull, OfAction, f
<1>11. HeaderFixed'
  BY <1>2 DEF HeaderFixed, Has
<1>12. HeaderInFull'
  BY <1>1 DEF HeaderInFull
<1> QED BY <1>10, <1>11, <1>12 DEF Header

LEMMA InFullNext ==
    ASSUME NEW a, NEW size
    PROVE  InFull(spans', a, size) <=> InFull(spans, a, size)'
BY DEF InFull, OfAction

LEMMA HeaderHeaderDone ==
    ASSUME PacketsOK, Control, Frames, Header, HeaderDone
    PROVE  Header'
<1>1. /\ pc = "struct" /\ sub = 0 /\ Len(stack) = 1 /\ Ended /\ pc' # "struct"
      /\ UNCHANGED <<def, pkt, spans, memory>>
      /\ pc' = "subpackets" => (Packet(pkt).subpackets # <<>> => Taking = Packet(pkt).header)
      /\ HeaderActions' = HeaderActions /\ Packet(pkt)' = Packet(pkt)
  BY DEF HeaderDone, Filled, loaderVars, HeaderActions, Packet
<1>2. HeaderFixed'
  BY <1>1 DEF Header, HeaderFixed, Found, Has
<1>3. ASSUME pc' = "subpackets", Packet(pkt).subpackets # <<>>, NEW a \in 1 .. Len(HeaderActions)
      PROVE  InFull(spans, a, FullSize(HeaderActions[a].type))
  <2> DEFINE n == Len(HeaderActions)
  <2>1. Packet(pkt).header # 0 /\ Packet(pkt).header = StructSize(HeaderActions)
    BY <1>3 DEF PacketsOK, PacketOK, Control, HeaderActions, Packet, HeaderDone, Filled
  <2>2. Fitting(Top) /\ IsFrame(Top) /\ Top = stack[1] /\ Top.acts = HeaderActions
    BY <1>1, <2>1, HeaderTop, HeaderAction, Bottom DEF Header
  <2>3. Top.i = n + 1 /\ n \in Nat
    BY <1>1, <2>2, TopFacts
  <2>4. Passed(Top) = StructSize(HeaderActions)
    <3>1. (n + 1) - 1 = n
      BY <2>3
    <3>2. StructSize(Top.acts) = Sums(Sizes(Top.acts, ConstantSize))[Len(Top.acts)]
      BY <2>2, SizesOfActions DEF Fitting, IsFrame
    <3> QED BY <2>2, <2>3, <3>1, <3>2 DEF Passed
  <2>5. Exact(Top)
    BY <1>1, <1>3, <2>1, <2>4 DEF Exact, Taking, State
  <2>6. FullBefore(Top, spans)
    BY <1>1, <2>1, <2>2 DEF Header, HeaderSizes
  <2>7. a \in 1 .. Top.i - 1
    BY <2>3
  <2> QED BY <2>2, <2>5, <2>6, <2>7 DEF FullBefore
<1>4. HeaderInFull'
  BY <1>1, <1>3, InFullNext DEF HeaderInFull
<1> QED BY <1>1, <1>2, <1>4 DEF Header, HeaderSizes

LEMMA HeaderSubDone ==
    ASSUME PacketsOK, Control, Frames, Tiles, Ranks, Header, SubDone, pc' = "subpackets"
    PROVE  Header'
<1>1. /\ pc = "struct" /\ sub > 0 /\ UNCHANGED <<pkt, sub, def, memory>> /\ spans' = SubSeq(spans, 1, HeaderSpans)
      /\ HeaderActions' = HeaderActions
  BY DEF SubDone, Filled, loaderVars, HeaderActions, Packet
<1>2. PICK h \in 0 .. Len(spans) : HeaderEnds(h)
  BY <1>1 DEF Tiles, TilesInStruct
<1>3. spans' = SubSeq(spans, 1, h) /\ spans \in Seq(SpanSet)
  BY <1>1, <1>2, HeaderSpansAre DEF Tiles
<1>4. \A n \in h + 1 .. Len(spans) : spans[n].path[2] # 0
  BY <1>1, <1>2 DEF HeaderEnds
<1>5. \A a \in 1 .. Len(HeaderActions) : InFull(spans', a, FullSize(HeaderActions[a].type))
  BY <1>1, <1>3, <1>4, InFullCut DEF Header, HeaderInFull
<1>6. HeaderInFull'
  BY <1>1, <1>5, InFullNext DEF HeaderInFull
<1>7. \A a : Has(spans', 0, a) => Has(spans, 0, a)
  <2>1. \A n \in 1 .. h : n \in 1 .. Len(spans) /\ spans[n] \in SpanSet
    <3>1. Len(spans) \in Nat
      BY <1>3, LenProperties
    <3> QED BY <1>3, <3>1, ElementOfSeq
  <2>2. Len(spans') = h /\ \A n \in 1 .. h : spans'[n] = spans[n]
    BY <1>3, <2>1, SubSeqProperties
  <2> QED BY <2>1, <2>2 DEF Has
<1>8. HeaderFixed'
  BY <1>1, <1>7 DEF Header, HeaderFixed, Found, Has
<1> QED BY <1>6, <1>8 DEF Header, HeaderSizes

LEMMA HeaderStep ==
    ASSUME PacketsOK, Control, Frames, Tiles, Values, Ranks, Header, [Next]_vars
    PROVE  Header'
<1>1. CASE InStruct
  BY <1>1, HeaderInStruct
<1>2. CASE UNCHANGED vars
  <2>1. UNCHANGED <<spans, pc, stack, sub, pkt, def, memory>>
    BY <1>2 DEF vars, decodeVars, tryVars, loaderVars
  <2>2. HeaderActions' = HeaderActions /\ Packet(pkt)' = Packet(pkt)
    BY <2>1 DEF HeaderActions, Packet
  <2>3. HeaderSizes'
    BY <2>1, <2>2 DEF Header, HeaderSizes, FullBefore, Fitting, Exact, Passed, InFull, OfAction
  <2>4. HeaderInFull'
    BY <2>1, <2>2, InFullNext DEF Header, HeaderInFull
  <2>5. HeaderFixed'
    BY <2>1, <2>2 DEF Header, HeaderFixed, Found, Has
  <2> QED BY <2>3, <2>4, <2>5 DEF Header
<1>3. CASE Loading
  BY <1>3 DEF Loading, Load, LoadElement, Refuse, Loaded, decodeVars, tryVars, Control, Header, HeaderSizes,
              HeaderInFull, HeaderFixed
<1>4. CASE Receive \/ Send
  BY <1>4 DEF Receive, Send, Process, Header, HeaderSizes, HeaderInFull, HeaderFixed
<1>5. CASE NoPacket \/ NoSub \/ Verdict
  BY <1>5 DEF NoPacket, NoSub, Verdict, Header, HeaderSizes, HeaderInFull, HeaderFixed
<1>6. CASE TrySub
  <2>1. /\ pc = "subpackets" /\ pc' = "struct" /\ sub' = sub + 1 /\ UNCHANGED <<spans, def, pkt, memory>>
        /\ sub < Len(Packet(pkt).subpackets) /\ sub \in Nat
    BY <1>6 DEF TrySub, loaderVars, Control
  <2>2. Packet(pkt).subpackets # <<>> /\ sub' # 0
    BY <2>1
  <2>3. HeaderInFull'
    BY <2>1, <2>2 DEF Header, HeaderInFull, HeaderActions, Packet
  <2>4. HeaderFixed'
    BY <2>1 DEF Header, HeaderFixed, Found, Has, HeaderActions, Packet
  <2> QED BY <2>2, <2>3, <2>4 DEF Header, HeaderSizes
<1>7. CASE SubDone
  <2>1. pc' # "subpackets" => pc' = "verdict"
    BY <1>7 DEF SubDone
  <2> QED BY <1>7, <2>1, HeaderSubDone DEF Header, HeaderSizes, HeaderInFull, HeaderFixed
<1> QED BY <1>1, <1>2, <1>3, <1>4, <1>5, <1>6, <1>7, HeaderTryPacket, HeaderHeaderDone DEF Next, Decode, InStruct

\* The spans within a field of the header or of a subpacket.
LEMMA UnderAction ==
    ASSUME Shape, spans \in Seq(SpanSet), NEW s, NEW i
    PROVE  Under(<<pkt, s, i>>) = {n \in 1 .. Len(spans) : OfAction(spans[n].path, s, i)}
<1>1. ASSUME NEW n \in 1 .. Len(spans)
      PROVE  Within(<<pkt, s, i>>, spans[n].path) <=> OfAction(spans[n].path, s, i)
  <2> DEFINE p == spans[n].path
             q == SubSeq(p, 1, 3)
  <2>1. p \in Seq(Nat) /\ Len(p) \in Nat /\ Len(p) >= 3 /\ p[1] = pkt
    <3>1. spans[n] \in SpanSet
      BY ElementOfSeq
    <3> QED BY <3>1, SpanParts, LenProperties DEF Shape
  <2>2. 3 \in 0 .. Len(p) /\ \A m \in 1 .. 3 : p[m] \in Nat
    <3>1. \A m \in 1 .. 3 : m \in 1 .. Len(p)
      BY <2>1
    <3> QED BY <2>1, <3>1, ElementOfSeq, SMTT(30)
  <2> HIDE DEF p
  <2>3. q \in Seq(Nat) /\ Len(q) = 3 /\ q[1] = pkt /\ q[2] = p[2] /\ q[3] = p[3]
    BY <2>1, <2>2, SubSeqProperties
  <2> HIDE DEF q
  <2>4. q = <<pkt, s, i>> => p[2] = s /\ p[3] = i
    BY <2>3
  <2>5. p[2] = s /\ p[3] = i => q = <<pkt, s, i>>
    BY <2>3
  <2> QED BY <2>1, <2>4, <2>5 DEF Within, OfAction, p, q
<1>2. DOMAIN spans = 1 .. Len(spans)
  BY LenProperties
<1> QED BY <1>1, <1>2 DEF Under

LEMMA HeaderIsInFull ==
    ASSUME PacketsOK, Control, Tiles, Ranks, Header, Frames
    PROVE  HeaderIsWhole
<1> SUFFICES ASSUME pc = "struct", sub > 0, NEW i \in DOMAIN HeaderActions
             PROVE  LET t == HeaderActions[i].type
                        path == <<pkt, 0, i>>
                    IN SuppliedInFull(path, FullSize(t)) /\ \A f \in t.fixed : memory[path][1] = f
  BY DEF HeaderIsWhole, HeaderActions
<1>1. i \in 1 .. Len(HeaderActions)
  BY SequenceFacts DEF PacketsOK, PacketOK, Listed, Control, HeaderActions, Packet
<1>2. PICK x \in 1 .. Len(spans), y \in 1 .. Len(spans) :
          /\ x <= y
          /\ \A n \in 1 .. Len(spans) : OfAction(spans[n].path, 0, i) <=> x <= n /\ n <= y
          /\ \A n \in x + 1 .. y : spans[n].from = End(spans[n - 1])
          /\ End(spans[y]) - spans[x].from = FullSize(HeaderActions[i].type)
  BY <1>1 DEF Header, HeaderInFull, InFull
<1>3. DOMAIN spans = 1 .. Len(spans) /\ Len(spans) \in Nat
  BY LenProperties DEF Tiles
<1>4. Under(<<pkt, 0, i>>) = x .. y
  <2>1. Under(<<pkt, 0, i>>) = {n \in 1 .. Len(spans) : OfAction(spans[n].path, 0, i)}
    BY UnderAction DEF Ranks, Tiles
  <2>2. x .. y = {n \in 1 .. Len(spans) : x <= n /\ n <= y}
    BY <1>3
  <2> QED BY <1>2, <2>1, <2>2
<1>5. SuppliedInFull(<<pkt, 0, i>>, FullSize(HeaderActions[i].type))
  BY <1>2, <1>3, <1>4 DEF SuppliedInFull
<1>6. Has(spans, 0, i)
  BY <1>2 DEF Has
<1>7. Found(memory, i)
  BY <1>1, <1>6 DEF Header, HeaderFixed
<1> QED BY <1>5, <1>7 DEF Found
-----------------------------------------------------------------------------
(* The actions of a structure supply something one after the other: what   *)
(* lies before a span, in the structures it lies in, got something too.    *)

\* A span that lies where q lies, but at its d-th action in action a.
Below(sp, q, d, a) ==
    \E m \in 1 .. Len(sp) :
        /\ Len(sp[m].path) >= d /\ sp[m].path[d] = a
        /\ \A j \in 1 .. d - 1 : sp[m].path[j] = q[j]

\* As long as nothing failed, all the fields before have supplied something; a
\* structure that has taken something has a span.
PastOf(f, sp) ==
    f.i <= Len(f.acts) => \A a \in 1 .. f.i - 1 : Below(sp, f.path, Len(f.path) + 1, a)
InwardOf(f, sp) ==
    f.state.left < f.left0 => Below(sp, f.path, Len(f.path), f.path[Len(f.path)])

Layered(sp) ==
    \A n \in 1 .. Len(sp) : \A d \in 4 .. Len(sp[n].path) : \A a \in 1 .. sp[n].path[d] - 1 :
        Below(sp, sp[n].path, d, a)

Layers ==
    /\ Layered(spans)
    /\ pc = "struct" => \A k \in 2 .. Len(stack) : PastOf(stack[k], spans) /\ InwardOf(stack[k], spans)

LEMMA LayersStart ==
    ASSUME Init
    PROVE  Layers
BY DEF Init, Layers, Layered

\* Spans are only added within a trial.
LEMMA BelowStays ==
    ASSUME spans \in Seq(SpanSet), spans' = spans \/ \E s \in SpanSet : spans' = Append(spans, s)
    PROVE  /\ \A n \in 1 .. Len(spans) : n \in 1 .. Len(spans') /\ spans'[n] = spans[n]
           /\ \A q, d, a : Below(spans, q, d, a) => Below(spans', q, d, a)
<1>1. ASSUME NEW n \in 1 .. Len(spans) PROVE n \in 1 .. Len(spans') /\ spans'[n] = spans[n]
  <2>1. CASE spans' = spans
    BY <2>1
  <2>2. CASE \E s \in SpanSet : spans' = Append(spans, s)
    <3>1. PICK s \in SpanSet : spans' = Append(spans, s)
      BY <2>2
    <3>2. Len(spans) \in Nat /\ Len(spans') = Len(spans) + 1 /\ spans'[n] = spans[n]
      BY <3>1, AppendProperties, LenProperties
    <3> QED BY <3>2
  <2> QED BY <2>1, <2>2
<1> QED BY <1>1 DEF Below

\* The paths of the frames are those of one another, cut short.
LEMMA PathsAgree ==
    ASSUME Frames, pc = "struct", NEW k \in 1 .. Len(stack)
    PROVE  /\ Len(stack) \in Nat /\ IsFrame(stack[k]) /\ Len(stack[k].path) = k + 1
           /\ \A j \in 1 .. k - 1 : stack[k].path[j + 2] = stack[j].i
           /\ Top.i \in 1 .. Len(Top.acts) =>
                 \A j \in 1 .. k + 1 : Path[j] = stack[k].path[j]
           /\ \A m \in 1 .. Len(stack) :
                 m <= k => \A j \in 1 .. m + 1 : stack[k].path[j] = stack[m].path[j]
<1>1. Len(stack) \in Nat /\ \A m \in 1 .. Len(stack) : PathOf(m)
  BY TopFacts, PathsOfFrames
<1>2. IsFrame(stack[k]) /\ PathOf(k)
  BY <1>1 DEF Frames
<1>3. ASSUME NEW m \in 1 .. Len(stack), m <= k, NEW j \in 1 .. m + 1
      PROVE  stack[k].path[j] = stack[m].path[j]
  <2>1. PathOf(m)
    BY <1>1
  <2>2. CASE j \in {1, 2}
    BY <1>2, <2>1, <2>2 DEF PathOf
  <2>3. CASE j \notin {1, 2}
    <3> DEFINE h == j - 2
    <3>1. h \in 1 .. m - 1 /\ h \in 1 .. k - 1 /\ j = h + 2
      BY <1>1, <1>3, <2>3
    <3> HIDE DEF h
    <3> QED BY <1>2, <2>1, <3>1 DEF PathOf
  <2> QED BY <2>2, <2>3
<1>4. ASSUME Top.i \in 1 .. Len(Top.acts), NEW j \in 1 .. k + 1
      PROVE  Path[j] = stack[k].path[j]
  <2>1. /\ Path[1] = pkt /\ Path[2] = sub
        /\ \A h \in 1 .. Len(stack) : Path[h + 2] = stack[h].i
    BY <1>4, PathsOfFrames
  <2>2. CASE j \in {1, 2}
    BY <1>2, <2>1, <2>2 DEF PathOf
  <2>3. CASE j \notin {1, 2}
    <3> DEFINE h == j - 2
    <3>1. h \in 1 .. k - 1 /\ h \in 1 .. Len(stack) /\ j = h + 2
      BY <1>1, <2>3
    <3> HIDE DEF h
    <3> QED BY <1>2, <2>1, <3>1 DEF PathOf
  <2> QED BY <2>2, <2>3
<1> QED BY <1>1, <1>2, <1>3, <1>4 DEF PathOf

\* A new span, at the place the frames have come to.
LEMMA LayeredGrows ==
    ASSUME Control, Frames, Tiles, Layers, pc = "struct", Top.i \in 1 .. Len(Top.acts),
           NEW s \in SpanSet, s.path = Path, spans' = Append(spans, s)
    PROVE  Layered(spans')
<1> DEFINE n == Len(stack)
           l == Len(spans)
<1>1. n \in Nat /\ n >= 1 /\ Top = stack[n] /\ Len(Path) = n + 2
      /\ \A j \in 1 .. n : Path[j + 2] = stack[j].i
  BY TopFacts, PathsOfFrames
<1>2. /\ l \in Nat /\ Len(spans') = l + 1 /\ spans'[l + 1] = s
      /\ \A m \in 1 .. l : spans'[m] = spans[m]
  BY AppendProperties, LenProperties DEF Tiles
<1>3. \A q, d, a : Below(spans, q, d, a) => Below(spans', q, d, a)
  BY BelowStays DEF Tiles
<1>4. ASSUME NEW d \in 4 .. n + 2, NEW a \in 1 .. Path[d] - 1 PROVE Below(spans, Path, d, a)
  <2> DEFINE k == d - 2
  <2>1. k \in 2 .. n /\ k \in 1 .. n /\ d = k + 2
    <3> HIDE DEF n
    <3> QED BY <1>1
  <2> HIDE DEF k
  <2>2. Path[d] = stack[k].i /\ PastOf(stack[k], spans)
    BY <1>1, <2>1 DEF Layers
  <2>3. stack[k].i <= Len(stack[k].acts)
    <3>1. CASE k = n
      BY <1>1, <3>1
    <3>2. CASE k # n
      <4>1. k + 1 \in 2 .. n /\ (k + 1) - 1 = k
        BY <1>1, <2>1, <3>2
      <4>2. stack[k].i \in 1 .. Len(stack[k].acts)
        BY <4>1 DEF Frames, Nested
      <4> QED BY <4>2
    <3> QED BY <3>1, <3>2
  <2>4. Len(stack[k].path) = k + 1 /\ \A j \in 1 .. k + 1 : Path[j] = stack[k].path[j]
    BY <2>1, PathsAgree
  <2>5. Below(spans, stack[k].path, k + 2, a)
    <3>1. a \in 1 .. stack[k].i - 1
      BY <2>2
    <3>2. (k + 1) + 1 = k + 2
      BY <2>1
    <3> QED BY <2>2, <2>3, <2>4, <3>1, <3>2 DEF PastOf
  <2>6. (k + 2) - 1 = k + 1
    BY <2>1
  <2> QED BY <2>1, <2>4, <2>5, <2>6 DEF Below
<1>5. ASSUME NEW m \in 1 .. Len(spans'), NEW d \in 4 .. Len(spans'[m].path),
             NEW a \in 1 .. spans'[m].path[d] - 1
      PROVE  Below(spans', spans'[m].path, d, a)
  <2>1. CASE m \in 1 .. l
    <3>1. spans'[m] = spans[m]
      BY <1>2, <2>1
    <3>2. Below(spans, spans[m].path, d, a)
      BY <1>5, <2>1, <3>1 DEF Layers, Layered
    <3> QED BY <1>3, <3>1, <3>2
  <2>2. CASE m \notin 1 .. l
    <3>1. m = l + 1
      BY <1>2, <2>2
    <3>2. spans'[m].path = Path
      BY <1>2, <3>1
    <3>3. d \in 4 .. n + 2 /\ a \in 1 .. Path[d] - 1
      BY <1>1, <1>5, <3>2
    <3>4. Below(spans, Path, d, a)
      BY <1>4, <3>3
    <3> QED BY <1>3, <3>2, <3>4
  <2> QED BY <2>1, <2>2
<1> QED BY <1>5 DEF Layered

LEMMA LayersTakes ==
    ASSUME Control, Frames, Tiles, Layers, Still, Takes
    PROVE  Layers'
<1> DEFINE n == Len(stack)
           s == Span(Action.type.width * Got)
<1>1. n \in Nat /\ n >= 1 /\ Top = stack[n] /\ Top.i \in 1 .. Len(Top.acts) /\ pc = "struct" /\ pc' = "struct"
  BY TopFacts DEF Takes, AtAction, Still
<1>2. s \in SpanSet /\ s.path = Path /\ spans' = Append(spans, s)
  <2>1. Action.type.width * Got \in Nat
    BY DEF Takes
  <2> QED BY <1>1, <2>1, SpanTyped DEF Takes
<1> HIDE DEF s
<1>3. Layered(spans')
  BY <1>1, <1>2, LayeredGrows
<1>4. \A q, d, a : Below(spans, q, d, a) => Below(spans', q, d, a)
  BY <1>2, BelowStays DEF Tiles
<1>5. /\ Len(stack') = n /\ stack'[n] = Forward(Top, Further(State, Action.type.width * Got))
      /\ \A k \in 1 .. n - 1 : stack'[k] = stack[k]
  BY DEF Takes, Turned
<1>6. /\ Len(Path) = n + 2 /\ Len(Top.path) = n + 1 /\ \A j \in 1 .. n + 1 : Path[j] = Top.path[j]
      /\ Path[n + 2] = Top.i
  <2>1. n \in 1 .. n
    BY <1>1
  <2> QED BY <1>1, <2>1, PathsAgree, PathsOfFrames
<1>7. Len(spans') \in 1 .. Len(spans') /\ spans'[Len(spans')] = s
  BY <1>2, AppendProperties, LenProperties DEF Tiles
<1>8. ASSUME NEW k \in 2 .. n PROVE PastOf(stack'[k], spans') /\ InwardOf(stack'[k], spans')
  <2>1. PastOf(stack[k], spans) /\ InwardOf(stack[k], spans)
    BY <1>1 DEF Layers
  <2>2. CASE k # n
    <3>1. stack'[k] = stack[k]
      BY <1>1, <1>5, <2>2
    <3> QED BY <1>4, <2>1, <3>1 DEF PastOf, InwardOf
  <2>3. CASE k = n
    <3> DEFINE f == stack'[n]
               q == Top.path
    <3>1. f.path = q /\ f.i = Top.i + 1
      BY <1>5 DEF Forward
    <3>2. Below(spans', q, n + 2, Top.i)
      <4>1. s.path[n + 2] = Top.i /\ Len(s.path) >= n + 2 /\ \A j \in 1 .. (n + 2) - 1 : s.path[j] = q[j]
        BY <1>1, <1>2, <1>6
      <4> QED BY <1>7, <4>1 DEF Below
    <3>3. Below(spans', q, n + 1, q[n + 1])
      <4>1. s.path[n + 1] = q[n + 1] /\ Len(s.path) >= n + 1 /\ \A j \in 1 .. (n + 1) - 1 : s.path[j] = q[j]
        BY <1>1, <1>2, <1>6
      <4> QED BY <1>7, <4>1 DEF Below
    <3>4. ASSUME NEW a \in 1 .. f.i - 1 PROVE Below(spans', q, n + 2, a)
      <4>1. CASE a = Top.i
        BY <3>2, <4>1
      <4>2. CASE a # Top.i
        <5>1. a \in 1 .. Top.i - 1 /\ Top.i <= Len(Top.acts) /\ (n + 1) + 1 = n + 2
          BY <1>1, <3>1, <4>2
        <5>2. Below(spans, q, n + 2, a)
          BY <1>1, <1>6, <2>1, <2>3, <5>1 DEF PastOf
        <5> QED BY <1>4, <5>2
      <4> QED BY <4>1, <4>2
    <3>5. (n + 1) + 1 = n + 2
      BY <1>1
    <3> HIDE DEF f
    <3> QED BY <1>6, <2>3, <3>1, <3>3, <3>4, <3>5 DEF PastOf, InwardOf, f
  <2> QED BY <2>2, <2>3
<1> QED BY <1>3, <1>5, <1>8 DEF Layers

\* The other steps within a structure add no span, or at depth one.
LEMMA LayersUnpacks ==
    ASSUME Control, Frames, Tiles, Layers, Still, Unpacks
    PROVE  Layers'
<1> DEFINE n == Len(stack)
           s == Span(State.left)
<1>1. n \in Nat /\ n >= 1 /\ Top = stack[n] /\ Top.i \in 1 .. Len(Top.acts) /\ Action.do = "transformation"
      /\ pc = "struct" /\ State.left \in Nat
  BY TopFacts DEF Unpacks, AtAction, Still
<1>2. n = 1
  <2>1. SUFFICES ASSUME n # 1 PROVE FALSE
    OBVIOUS
  <2>2. n \in 2 .. n
    <3> HIDE DEF n
    <3> QED BY <1>1, <2>1
  <2>3. OnlyFields(Top.acts)
    BY <1>1, <2>2, NestedOnlyFields
  <2> QED BY <1>1, <2>3 DEF OnlyFields, Action
<1>3. s \in SpanSet /\ s.path = Path /\ spans' = Append(spans, s)
  BY <1>1, SpanTyped DEF Unpacks
<1>4. Layered(spans')
  BY <1>1, <1>3, LayeredGrows
<1>5. Len(stack') = 1
  BY <1>2 DEF Unpacks, Turned
<1> QED BY <1>4, <1>5 DEF Layers

LEMMA LayersTurned ==
    ASSUME Control, Frames, Tiles, Layers, Still, Fails \/ Notes
    PROVE  Layers'
<1> DEFINE n == Len(stack)
<1>1. n \in Nat /\ n >= 1 /\ Top = stack[n] /\ pc = "struct" /\ spans' = spans /\ IsFrame(Top)
      /\ Len(Top.acts) \in Nat
  BY TopFacts DEF Fails, Notes, Still
<1>2. Len(stack') = n /\ \A k \in 1 .. n - 1 : stack'[k] = stack[k]
  BY DEF Fails, Notes, Turned
<1>3. ASSUME NEW k \in 2 .. n PROVE PastOf(stack'[k], spans) /\ InwardOf(stack'[k], spans)
  <2>1. PastOf(stack[k], spans) /\ InwardOf(stack[k], spans)
    BY <1>1 DEF Layers
  <2>2. CASE k # n
    <3>1. stack'[k] = stack[k]
      BY <1>1, <1>2, <2>2
    <3> QED BY <2>1, <3>1
  <2>3. CASE k = n /\ Fails
    <3>1. stack'[n] = Stopped(Top)
      BY <2>3 DEF Fails, Turned
    <3>2. ~(Len(Top.acts) + 1 <= Len(Top.acts))
      BY <1>1
    <3> QED BY <1>1, <2>1, <2>3, <3>1, <3>2 DEF Stopped, PastOf, InwardOf
  <2>4. CASE k = n /\ Notes
    <3>1. OnlyFields(Top.acts) /\ Top.i \in 1 .. Len(Top.acts) /\ Action.do = "annotation"
      BY <1>1, <2>4, NestedOnlyFields DEF Notes, AtAction
    <3> QED BY <3>1 DEF OnlyFields, Action
  <2> QED BY <2>2, <2>3, <2>4
<1> QED BY <1>1, <1>2, <1>3 DEF Layers

LEMMA LayersEnters ==
    ASSUME Control, Frames, Tiles, Layers, Still, Enters
    PROVE  Layers'
<1> DEFINE n == Len(stack)
<1>1. n \in Nat /\ n >= 1 /\ pc = "struct" /\ spans' = spans /\ State.left \in Nat
  BY TopFacts DEF Enters, Still
<1>2. /\ Len(stack') = n + 1 /\ \A k \in 1 .. (n + 1) - 1 : stack'[k] = stack[k]
      /\ stack'[n + 1] = [path |-> Path, acts |-> Action.type.actions, i |-> 1,
                          state |-> State, left0 |-> State.left]
  BY DEF Enters, Turned
<1>3. ASSUME NEW k \in 2 .. n + 1 PROVE PastOf(stack'[k], spans) /\ InwardOf(stack'[k], spans)
  <2>1. CASE k # n + 1
    <3>1. stack'[k] = stack[k] /\ k \in 2 .. n
      BY <1>1, <1>2, <2>1
    <3> QED BY <1>1, <3>1 DEF Layers
  <2>2. CASE k = n + 1
    <3>1. stack'[k].i = 1 /\ stack'[k].state.left = State.left /\ stack'[k].left0 = State.left
      BY <1>2, <2>2 DEF State
    <3>2. ~(State.left < State.left) /\ 1 .. 1 - 1 = {}
      BY <1>1
    <3> QED BY <3>1, <3>2 DEF PastOf, InwardOf
  <2> QED BY <2>1, <2>2
<1> QED BY <1>1, <1>2, <1>3 DEF Layers

LEMMA LayersExits ==
    ASSUME Control, Frames, Tiles, Layers, Still, Exits
    PROVE  Layers'
<1> DEFINE n == Len(stack)
           m == n - 1
<1>1. n \in Nat /\ n > 1 /\ m \in 1 .. n /\ m < n /\ Top = stack[n] /\ Outer = stack[m] /\ pc = "struct"
      /\ spans' = spans /\ IsFrame(Top) /\ IsFrame(Outer)
  <2>1. n \in Nat /\ n > 1 /\ Top = stack[n] /\ Outer = stack[m] /\ pc = "struct" /\ spans' = spans
    BY TopFacts DEF Exits, Still, Outer
  <2> QED BY <2>1 DEF Frames
<1>2. /\ Len(stack') = m /\ \A k \in 1 .. m - 1 : stack'[k] = stack[k]
      /\ stack'[m] = IF Returned > 0 THEN Forward(Outer, Further(Outer.state, Returned)) ELSE Stopped(Outer)
  BY DEF Exits, Turned
<1>3. Outer.i \in 1 .. Len(Outer.acts) /\ Len(Outer.acts) \in Nat
  <2>1. n \in 2 .. n
    <3> HIDE DEF n
    <3> QED BY <1>1
  <2>2. Nested(n)
    BY <2>1 DEF Frames
  <2>3. Outer.i \in 1 .. Len(Outer.acts)
    BY <1>1, <2>2 DEF Nested
  <2>4. Len(Outer.acts) \in Nat
    BY <1>1, SequenceFacts DEF IsFrame, Listed
  <2> QED BY <2>3, <2>4
<1>4. /\ Len(Top.path) = n + 1 /\ Len(Outer.path) = n /\ Top.path[n + 1] = Outer.i
      /\ \A j \in 1 .. n : Top.path[j] = Outer.path[j]
  <2>1. n \in 1 .. n /\ m \in 1 .. n - 1 /\ m + 2 = n + 1 /\ m + 1 = n /\ m <= n
    <3> HIDE DEF n
    <3> QED BY <1>1
  <2> HIDE DEF m
  <2>2. Len(stack[m].path) = m + 1
    BY <1>1, PathsAgree
  <2>3. /\ Len(stack[n].path) = n + 1
        /\ \A j \in 1 .. n - 1 : stack[n].path[j + 2] = stack[j].i
        /\ \A h \in 1 .. n : h <= n => \A j \in 1 .. h + 1 : stack[n].path[j] = stack[h].path[j]
    BY <1>1, <2>1, PathsAgree
  <2>4. \A j \in 1 .. m + 1 : stack[n].path[j] = stack[m].path[j]
    BY <1>1, <2>1, <2>3
  <2>5. stack[n].path[m + 2] = stack[m].i
    BY <2>1, <2>3
  <2> HIDE DEF n
  <2> QED BY <1>1, <2>1, <2>2, <2>3, <2>4, <2>5
<1>5. ASSUME m \in 2 .. n PROVE PastOf(stack'[m], spans) /\ InwardOf(stack'[m], spans)
  <2>1. PastOf(Outer, spans) /\ InwardOf(Outer, spans) /\ InwardOf(Top, spans)
    <3>1. n \in 2 .. n
      BY <1>1
    <3> QED BY <1>1, <1>5, <3>1 DEF Layers
  <2>2. CASE Returned > 0
    <3> DEFINE f == stack'[m]
               q == Outer.path
    <3>1. f.path = q /\ f.i = Outer.i + 1
      BY <1>2, <2>2 DEF Forward
    <3>2. Below(spans, Top.path, n + 1, Outer.i)
      <4>1. Top.state.left < Top.left0
        <5>1. Top.left0 \in Nat /\ Top.state.left \in Nat /\ Returned = Top.left0 - Top.state.left
          BY <1>1 DEF IsFrame, States, Returned, State
        <5> QED BY <2>2, <5>1
      <4> QED BY <1>4, <2>1, <4>1 DEF InwardOf
    <3>3. Below(spans, q, n + 1, Outer.i)
      <4>1. (n + 1) - 1 = n
        BY <1>1
      <4> QED BY <1>4, <3>2, <4>1 DEF Below
    <3>4. Below(spans, q, n, q[n])
      <4>1. PICK h \in 1 .. Len(spans) :
                 /\ Len(spans[h].path) >= n + 1 /\ \A j \in 1 .. (n + 1) - 1 : spans[h].path[j] = q[j]
        BY <3>3 DEF Below
      <4>2. Len(spans[h].path) \in Nat
        <5>1. spans[h] \in SpanSet
          BY ElementOfSeq DEF Tiles
        <5> QED BY <5>1, SpanParts, LenProperties
      <4>3. Len(spans[h].path) >= n /\ n \in 1 .. (n + 1) - 1 /\ \A j \in 1 .. n - 1 : j \in 1 .. (n + 1) - 1
        <5> DEFINE w == Len(spans[h].path)
        <5>1. w >= n + 1 /\ w \in Nat
          BY <4>1, <4>2
        <5> HIDE DEF n, w
        <5>2. w >= n /\ n \in 1 .. (n + 1) - 1 /\ \A j \in 1 .. n - 1 : j \in 1 .. (n + 1) - 1
          BY <1>1, <5>1
        <5> QED BY <5>2 DEF w
      <4> QED BY <4>1, <4>3 DEF Below
    <3>5. ASSUME NEW a \in 1 .. f.i - 1 PROVE Below(spans, q, n + 1, a)
      <4>1. CASE a = Outer.i
        BY <3>3, <4>1
      <4>2. CASE a # Outer.i
        <5>1. a \in 1 .. Outer.i - 1 /\ Outer.i <= Len(Outer.acts)
          BY <1>3, <3>1, <4>2
        <5> QED BY <1>4, <2>1, <5>1 DEF PastOf
      <4> QED BY <4>1, <4>2
    <3> HIDE DEF f
    <3> QED BY <1>4, <3>1, <3>4, <3>5 DEF PastOf, InwardOf, f
  <2>3. CASE ~(Returned > 0)
    <3>1. stack'[m] = Stopped(Outer)
      BY <1>2, <2>3
    <3>2. ~(Len(Outer.acts) + 1 <= Len(Outer.acts))
      BY <1>3
    <3> QED BY <2>1, <3>1, <3>2 DEF Stopped, PastOf, InwardOf
  <2> QED BY <2>2, <2>3
<1>6. ASSUME NEW k \in 2 .. m PROVE PastOf(stack'[k], spans) /\ InwardOf(stack'[k], spans)
  <2>1. CASE k # m
    <3>1. stack'[k] = stack[k] /\ k \in 2 .. n
      BY <1>1, <1>2, <2>1
    <3> QED BY <1>1, <3>1 DEF Layers
  <2>2. CASE k = m
    <3>1. m \in 2 .. n
      BY <1>1, <2>2
    <3> QED BY <1>5, <2>2, <3>1
  <2> QED BY <2>1, <2>2
<1> QED BY <1>1, <1>2, <1>6 DEF Layers

\* The spans of a subpacket that was not taken go; the header's stay.
LEMMA LayeredCut ==
    ASSUME Control, Frames, Tiles, Layers, SubDone, spans' # spans
    PROVE  Layered(spans')
<1>1. pc = "struct" /\ sub > 0 /\ spans' = SubSeq(spans, 1, HeaderSpans)
  BY DEF SubDone, Filled
<1>2. PICK h \in 0 .. Len(spans) : HeaderEnds(h)
  BY <1>1 DEF Tiles, TilesInStruct
<1>3. spans' = SubSeq(spans, 1, h)
  BY <1>1, <1>2, HeaderSpansAre
<1>4. Len(spans) \in Nat /\ Len(spans') = h /\ \A i \in 1 .. h : i \in 1 .. Len(spans) /\ spans'[i] = spans[i]
  <2>1. spans \in Seq(SpanSet) /\ Len(spans) \in Nat
    BY LenProperties DEF Tiles
  <2>2. \A i \in 1 .. h : i \in 1 .. Len(spans) /\ spans[i] \in SpanSet
    BY <2>1, ElementOfSeq
  <2> QED BY <1>3, <2>1, <2>2, SubSeqProperties
<1>5. ASSUME NEW n \in 1 .. h, NEW d \in 4 .. Len(spans'[n].path), NEW a \in 1 .. spans'[n].path[d] - 1
      PROVE  Below(spans', spans'[n].path, d, a)
  <2> DEFINE q == spans[n].path
  <2>1. n \in 1 .. Len(spans) /\ spans'[n].path = q /\ q[2] = 0
    BY <1>2, <1>4 DEF HeaderEnds, OfHeader
  <2>2. Below(spans, q, d, a)
    BY <1>5, <2>1 DEF Layers, Layered
  <2>3. PICK m \in 1 .. Len(spans) :
            /\ Len(spans[m].path) >= d /\ spans[m].path[d] = a
            /\ \A j \in 1 .. d - 1 : spans[m].path[j] = q[j]
    BY <2>2 DEF Below
  <2>4. spans[m].path[2] = 0
    <3>1. 2 \in 1 .. d - 1
      OBVIOUS
    <3> QED BY <2>1, <2>3, <3>1
  <2>5. m \in 1 .. h
    <3>1. m \notin h + 1 .. Len(spans)
      BY <1>1, <1>2, <2>4 DEF HeaderEnds
    <3> QED BY <1>4, <3>1
  <2> QED BY <1>4, <2>1, <2>3, <2>5 DEF Below
<1> QED BY <1>4, <1>5 DEF Layered

LEMMA LayersStep ==
    ASSUME PacketsOK, Control, Frames, Tiles, Layers, [Next]_vars
    PROVE  Layers'
<1>1. CASE InStruct
  BY <1>1, StepsInStruct, LayersTakes, LayersUnpacks, LayersTurned, LayersEnters, LayersExits, SMTT(30)
<1>2. CASE UNCHANGED vars
  BY <1>2 DEF vars, decodeVars, tryVars, Layers
<1>3. CASE Loading
  BY <1>3 DEF Loading, Load, LoadElement, Refuse, Loaded, decodeVars, tryVars, Layers
<1>4. CASE Receive \/ Send \/ NoPacket \/ NoSub \/ Verdict \/ HeaderDone
  <2>1. spans' = spans /\ pc' # "struct"
    BY <1>4 DEF Receive, Send, Process, NoPacket, NoSub, Verdict, HeaderDone, tryVars
  <2> QED BY <2>1 DEF Layers
<1>5. CASE TryPacket
  <2>1. Len(spans') = 0 /\ Len(stack') = 1
    BY <1>5 DEF TryPacket
  <2> QED BY <2>1 DEF Layers, Layered
<1>6. CASE TrySub
  <2>1. spans' = spans /\ Len(stack') = 1
    BY <1>6 DEF TrySub
  <2> QED BY <2>1 DEF Layers
<1>7. CASE SubDone
  <2>1. pc' # "struct"
    BY <1>7 DEF SubDone
  <2>2. Layered(spans')
    BY <1>7, LayeredCut DEF Layers
  <2> QED BY <2>1, <2>2 DEF Layers
<1> QED BY <1>1, <1>2, <1>3, <1>4, <1>5, <1>6, <1>7 DEF Next, Decode, InStruct
-----------------------------------------------------------------------------
(* StaleIsLast.  The subpacket that was taken stands behind a header that  *)
(* was supplied in full.                                                   *)

Good ==
    /\ Shape /\ Ordered(0)
    /\ last[pkt] # 0 =>
          /\ Ordered(last[pkt])
          /\ \A a \in 1 .. Len(HeaderActions) : Has(spans, 0, a)

Results ==
    /\ pc = "verdict" /\ processed = Len(payload) /\ payload # <<>> => Good
    /\ Identified => result = pkt /\ Good

LEMMA ResultsStart ==
    ASSUME Init
    PROVE  Results
BY DEF Init, Results, Identified

LEMMA GoodStays ==
    ASSUME UNCHANGED <<spans, pkt, def, last>>, Good
    PROVE  Good'
<1>1. Shape' /\ HeaderActions' = HeaderActions
  BY SMTT(30) DEF Good, Shape, HeaderActions, Packet
<1>2. (Ordered(0))'
  BY SMTT(30) DEF Good, Ordered, IsField, ActionsOf, Subpacket, Packet, Has
<1>3. (last[pkt] # 0)' => (Ordered(last[pkt]))' /\ \A a \in 1 .. Len(HeaderActions') : Has(spans', 0, a)
  BY <1>1 DEF Good, Ordered, IsField, ActionsOf, Subpacket, Packet, Has
<1> QED BY <1>1, <1>2, <1>3 DEF Good, Has

LEMMA ResultsSubDone ==
    ASSUME PacketsOK, Control, Frames, Tiles, Ranks, Header, SubDone, pc' = "verdict"
    PROVE  Good'
<1>1. /\ pc = "struct" /\ sub > 0 /\ UNCHANGED <<spans, pkt, def>> /\ last' = Put(last, pkt, sub)
      /\ HeaderActions' = HeaderActions
  BY DEF SubDone, Filled, loaderVars, HeaderActions, Packet
<1>2. last'[pkt] = sub
  BY <1>1 DEF Put
<1>3. Shape' /\ (Ordered(0))'
  BY <1>1 DEF Ranks, Shape, Ordered, IsField, ActionsOf, Subpacket, Packet, Has
<1>4. (Ordered(last[pkt]))'
  BY <1>1, <1>2 DEF Ranks, Ordered, IsField, ActionsOf, Subpacket, Packet, Has
<1>5. \A a \in 1 .. Len(HeaderActions) : Has(spans, 0, a)
  <2>1. ASSUME NEW a \in 1 .. Len(HeaderActions) PROVE Has(spans, 0, a)
    <3>1. InFull(spans, a, FullSize(HeaderActions[a].type))
      BY <1>1 DEF Header, HeaderInFull
    <3>2. PICK x \in 1 .. Len(spans), y \in 1 .. Len(spans) :
              x <= y /\ \A n \in 1 .. Len(spans) : OfAction(spans[n].path, 0, a) <=> x <= n /\ n <= y
      BY <3>1 DEF InFull
    <3>3. x <= x
      OBVIOUS
    <3> QED BY <3>2, <3>3 DEF Has
  <2> QED BY <2>1
<1> QED BY <1>1, <1>3, <1>4, <1>5 DEF Good, Has

LEMMA ResultsStep ==
    ASSUME PacketsOK, Control, Frames, Tiles, Values, Ranks, Header, Results, [Next]_vars
    PROVE  Results'
<1>1. CASE InStruct
  BY <1>1, StepsInStruct DEF Still, Results, Identified
<1>2. CASE UNCHANGED vars
  <2>1. UNCHANGED <<spans, pc, pkt, def, last, processed, payload, result>>
    BY <1>2 DEF vars, decodeVars, tryVars, loaderVars
  <2>2. Good => Good'
    BY <2>1, GoodStays
  <2> QED BY <2>1, <2>2 DEF Results, Identified
<1>3. CASE Loading
  <2>1. load = "loading" /\ UNCHANGED <<pc, result>>
    BY <1>3 DEF Loading, Load, LoadElement, Refuse, Loaded, decodeVars, tryVars
  <2> QED BY <2>1 DEF Control, Results, Identified
<1>4. CASE Receive \/ Send \/ TryPacket \/ TrySub
  <2>1. pc' # "verdict" /\ pc' # "idle"
    BY <1>4 DEF Receive, Send, Process, TryPacket, TrySub
  <2> QED BY <2>1 DEF Results, Identified
<1>5. CASE NoPacket
  <2>1. pc' = "idle" /\ result' = 0
    BY <1>5 DEF NoPacket, tryVars, Control
  <2> QED BY <2>1 DEF Results, Identified
<1>6. CASE NoSub
  <2>1. pc = "subpackets" /\ pc' = "verdict" /\ UNCHANGED <<spans, pkt, def, last>> /\ last[pkt] = 0
    BY <1>6 DEF NoSub, tryVars, loaderVars, Control
  <2>2. Good
    BY <2>1 DEF Good, Ranks
  <2>3. Good'
    BY <2>1, <2>2, GoodStays
  <2> QED BY <2>1, <2>3 DEF Results, Identified
<1>7. CASE Verdict
  <2>1. pc = "verdict" /\ UNCHANGED <<spans, pkt, def, last, payload>>
        /\ \/ processed = Len(payload) /\ result' = pkt /\ pc' = "idle"
           \/ pc' = "packets"
    BY <1>7 DEF Verdict, loaderVars
  <2>2. Good => Good'
    BY <2>1, GoodStays
  <2> QED BY <2>1, <2>2 DEF Results, Identified
<1>8. CASE HeaderDone
  <2>1. pc' \in {"verdict", "subpackets"} /\ UNCHANGED payload /\ (pc' = "verdict" => processed' = 0)
    BY <1>8 DEF HeaderDone
  <2>2. payload # <<>> => Len(payload) # 0
    BY DEF Control
  <2> QED BY <2>1, <2>2 DEF Results, Identified
<1>9. CASE SubDone
  <2>1. pc' \in {"verdict", "subpackets"}
    BY <1>9 DEF SubDone
  <2> QED BY <1>9, <2>1, ResultsSubDone DEF Results, Identified
<1> QED BY <1>1, <1>2, <1>3, <1>4, <1>5, <1>6, <1>7, <1>8, <1>9 DEF Next, Decode, InStruct

\* What a place looks like.
LEMMA PlaceParts ==
    ASSUME NEW k \in Nat, NEW s \in Nat, Listed(ActionsOf(k, s)), NEW p \in PlacesOf(k, s)
    PROVE  /\ p \in Seq(Nat) /\ Len(p) \in Nat /\ Len(p) >= 3 /\ DOMAIN p = 1 .. Len(p)
           /\ p[1] = k /\ p[2] = s /\ p[3] \in 1 .. Len(ActionsOf(k, s))
           /\ ActionsOf(k, s)[p[3]].do = "field"
           /\ \A j \in 3 .. Len(p) : p[j] \in Nat /\ p[j] >= 1
<1> DEFINE acts == ActionsOf(k, s)
           two == <<k, s>>
<1>1. PICK place \in PlacesIn(acts) : p = two \o place
  BY DEF PlacesOf
<1>2. /\ place \in Seq(Nat \ {0}) /\ Len(place) >= 1 /\ place[1] \in 1 .. Len(acts)
      /\ acts[place[1]].do = "field"
  BY PlacesTyped
<1>3. Len(place) \in Nat /\ \A j \in 1 .. Len(place) : place[j] \in Nat /\ place[j] >= 1
  <2> DEFINE P == Nat \ {0}
  <2>1. place \in Seq(P) /\ \A v \in P : v \in Nat /\ v >= 1
    BY <1>2
  <2> HIDE DEF P
  <2>2. Len(place) \in Nat /\ \A j \in 1 .. Len(place) : place[j] \in P
    BY <2>1, LenProperties, ElementOfSeq
  <2> QED BY <2>1, <2>2
<1>4. place \in Seq(Nat)
  <2>1. Nat \ {0} \subseteq Nat
    OBVIOUS
  <2> QED BY <1>2, <2>1, SequenceOfMore
<1>5. two \in Seq(Nat) /\ Len(two) = 2 /\ two[1] = k /\ two[2] = s
  OBVIOUS
<1> HIDE DEF two
<1>6. /\ p \in Seq(Nat) /\ Len(p) = 2 + Len(place)
      /\ \A j \in 1 .. 2 + Len(place) : p[j] = IF j <= 2 THEN two[j] ELSE place[j - 2]
  <2>1. /\ two \o place \in Seq(Nat) /\ Len(two \o place) = Len(two) + Len(place)
        /\ \A j \in 1 .. Len(two) + Len(place) :
              (two \o place)[j] = IF j <= Len(two) THEN two[j] ELSE place[j - Len(two)]
    BY <1>4, <1>5, ConcatProperties, Zenon
  <2>2. Len(two) = 2 /\ p = two \o place
    BY <1>1, <1>5 DEF two
  <2> QED BY <2>1, <2>2
<1>7. p[1] = k /\ p[2] = s
  BY <1>3, <1>5, <1>6
<1>8. \A j \in 3 .. Len(p) : j - 2 \in 1 .. Len(place) /\ p[j] = place[j - 2]
  BY <1>3, <1>6
<1>9. p[3] = place[1]
  <2>1. 3 \in 3 .. Len(p) /\ 3 - 2 = 1
    BY <1>2, <1>3, <1>6
  <2> QED BY <1>8, <2>1
<1>10. DOMAIN p = 1 .. Len(p)
  BY <1>6, LenProperties
<1>11. Len(p) \in Nat /\ Len(p) >= 3
  BY <1>2, <1>3, <1>6
<1>12. p[3] \in 1 .. Len(acts) /\ acts[p[3]].do = "field"
  BY <1>2, <1>9
<1>13. \A j \in 3 .. Len(p) : p[j] \in Nat /\ p[j] >= 1
  BY <1>3, <1>8
<1> QED BY <1>6, <1>7, <1>10, <1>11, <1>12, <1>13

\* A path is supplied if a span lies there.
LEMMA SuppliedAt ==
    ASSUME spans \in Seq(SpanSet), NEW p \in Seq(Nat), NEW d \in 1 .. Len(p)
    PROVE  Supplied(SubSeq(p, 1, d)) <=>
              \E m \in 1 .. Len(spans) :
                  Len(spans[m].path) >= d /\ \A j \in 1 .. d : spans[m].path[j] = p[j]
<1> DEFINE c == SubSeq(p, 1, d)
<1>1. \A q \in Seq(Nat) : Len(q) >= d =>
        SubSeq(q, 1, d) \in Seq(Nat) /\ Len(SubSeq(q, 1, d)) = d /\ \A j \in 1 .. d : SubSeq(q, 1, d)[j] = q[j]
  <2>1. ASSUME NEW q \in Seq(Nat), Len(q) >= d
        PROVE  SubSeq(q, 1, d) \in Seq(Nat) /\ Len(SubSeq(q, 1, d)) = d
               /\ \A j \in 1 .. d : SubSeq(q, 1, d)[j] = q[j]
    <3>1. d \in 0 .. Len(q) /\ d \in Int /\ 1 \in Int /\ d >= 1
      BY <2>1, LenProperties
    <3>2. \A j \in 1 .. d : q[j] \in Nat
      <4>1. \A j \in 1 .. d : j \in 1 .. Len(q)
        BY <2>1, LenProperties
      <4> QED BY <4>1, ElementOfSeq
    <3> QED BY <3>1, <3>2, SubSeqProperties
  <2> QED BY <2>1
<1>2. c \in Seq(Nat) /\ Len(c) = d /\ \A j \in 1 .. d : c[j] = p[j]
  BY <1>1, LenProperties
<1>3. DOMAIN spans = 1 .. Len(spans) /\ \A m \in 1 .. Len(spans) : spans[m].path \in Seq(Nat)
  BY LenProperties, ElementOfSeq, SpanParts
<1> HIDE DEF c
<1>4. ASSUME NEW m \in 1 .. Len(spans)
      PROVE  Within(c, spans[m].path) <=>
                Len(spans[m].path) >= d /\ \A j \in 1 .. d : spans[m].path[j] = p[j]
  <2> DEFINE q == spans[m].path
             e == SubSeq(q, 1, d)
  <2>1. Within(c, q) <=> Len(q) >= d /\ e = c
    BY <1>2 DEF Within
  <2>2. q \in Seq(Nat)
    BY <1>3
  <2>3. ASSUME Len(q) >= d PROVE e = c <=> \A j \in 1 .. d : q[j] = p[j]
    <3>1. e \in Seq(Nat) /\ Len(e) = d /\ \A j \in 1 .. d : e[j] = q[j]
      BY <1>1, <2>2, <2>3
    <3> HIDE DEF e, q
    <3>2. (\A j \in 1 .. d : e[j] = c[j]) => e = c
      BY <1>2, <3>1, SeqEqual
    <3> QED BY <1>2, <3>1, <3>2
  <2> HIDE DEF q, e
  <2> QED BY <2>1, <2>3 DEF q
<1> QED BY <1>3, <1>4 DEF Supplied, Under, c

LEMMA ResultsAreOrdered ==
    ASSUME PacketsOK, Control, Tiles, Layers, Results
    PROVE  StaleIsLast
<1> SUFFICES ASSUME Identified,
                    NEW p \in Printed(result), NEW q \in Printed(result), Supplied(q), NEW d \in Parting(p, q)
             PROVE  Supplied(SubSeq(p, 1, d))
  BY DEF StaleIsLast
<1> DEFINE s == last[pkt]
           Number0 == {0, s}
<1>1. result = pkt /\ Good /\ spans \in Seq(SpanSet) /\ pkt \in 1 .. Len(def.packets)
      /\ s \in 0 .. Len(Packet(pkt).subpackets)
  <2>1. result = pkt /\ Good /\ result # 0
    BY DEF Results, Identified
  <2>2. pkt \in DOMAIN last
    BY <2>1 DEF Control
  <2> QED BY <2>1, <2>2 DEF Control, Tiles
<1>2. \A k \in Number0 : k \in Nat /\ Listed(ActionsOf(pkt, k))
  <2>1. \A k \in 0 .. Len(Packet(pkt).subpackets) : Listed(ActionsOf(pkt, k))
    BY <1>1, ActionsListed
  <2>2. s \in Nat /\ 0 \in 0 .. Len(Packet(pkt).subpackets)
    BY <1>1, SequenceFacts DEF PacketsOK, PacketOK, Packet
  <2> QED BY <1>1, <2>1, <2>2
<1>3. PICK k \in Number0 : p \in PlacesOf(pkt, k)
  BY <1>1 DEF Printed
<1>4. PICK l \in Number0 : q \in PlacesOf(pkt, l)
  BY <1>1 DEF Printed
<1>5. pkt \in Nat /\ k \in Nat /\ l \in Nat
  BY <1>1, <1>2
<1>6. /\ p \in Seq(Nat) /\ Len(p) \in Nat /\ Len(p) >= 3 /\ DOMAIN p = 1 .. Len(p)
      /\ p[1] = pkt /\ p[2] = k /\ p[3] \in 1 .. Len(ActionsOf(pkt, k)) /\ IsField(k, p[3])
      /\ \A j \in 3 .. Len(p) : p[j] \in Nat /\ p[j] >= 1
  <2>1. Listed(ActionsOf(pkt, k))
    BY <1>2
  <2> QED BY <1>3, <1>5, <2>1, PlaceParts DEF IsField
<1>7. /\ q \in Seq(Nat) /\ Len(q) \in Nat /\ Len(q) >= 3 /\ DOMAIN q = 1 .. Len(q)
      /\ q[1] = pkt /\ q[2] = l /\ q[3] \in 1 .. Len(ActionsOf(pkt, l)) /\ IsField(l, q[3])
      /\ \A j \in 3 .. Len(q) : q[j] \in Nat /\ q[j] >= 1
  <2>1. Listed(ActionsOf(pkt, l))
    BY <1>2
  <2> QED BY <1>4, <1>5, <2>1, PlaceParts DEF IsField
<1>8. d \in 1 .. Len(p) /\ d \in 1 .. Len(q) /\ d >= 3
      /\ \/ SubSeq(p, 1, d - 1) = SubSeq(q, 1, d - 1) /\ p[d] < q[d]
         \/ d = 3 /\ p[2] < q[2]
  <2>1. /\ d \in 1 .. Len(p) /\ d \in 1 .. Len(q)
        /\ \/ d > 2 /\ SubSeq(p, 1, d - 1) = SubSeq(q, 1, d - 1) /\ p[d] < q[d]
           \/ d = 3 /\ p[2] < q[2]
    BY <1>6, <1>7 DEF Parting
  <2> QED BY <2>1
\* The span of q.
<1>9. PICK n \in 1 .. Len(spans) :
          Len(spans[n].path) >= Len(q) /\ \A j \in 1 .. Len(q) : spans[n].path[j] = q[j]
  <2> DEFINE e == Len(q)
  <2>1. e \in 1 .. e /\ SubSeq(q, 1, e) = q
    BY <1>7
  <2>2. Supplied(SubSeq(q, 1, e))
    BY <2>1
  <2> HIDE DEF e
  <2>3. e \in 1 .. Len(q)
    BY <2>1 DEF e
  <2> QED BY <1>1, <1>7, <2>2, <2>3, SuppliedAt DEF e
<1>10. ASSUME SubSeq(p, 1, d - 1) = SubSeq(q, 1, d - 1), NEW j \in 1 .. d - 1 PROVE p[j] = q[j]
  <2> DEFINE c == d - 1
  <2>1. c \in Nat /\ c \in 1 .. Len(p) /\ c \in 1 .. Len(q)
    <3> DEFINE lp == Len(p)
               lq == Len(q)
    <3>1. lp \in Nat /\ lq \in Nat /\ d \in 1 .. lp /\ d \in 1 .. lq /\ d >= 3
      BY <1>6, <1>7, <1>8
    <3> HIDE DEF lp, lq
    <3> QED BY <3>1 DEF lp, lq
  <2>2. (\A h \in 1 .. c : p[h] \in Nat) /\ \A h \in 1 .. c : q[h] \in Nat
    <3>1. \A h \in 1 .. c : h \in 1 .. Len(p) /\ h \in 1 .. Len(q)
      <4> DEFINE lp == Len(p)
                 lq == Len(q)
      <4>1. lp \in Nat /\ lq \in Nat /\ c \in 1 .. lp /\ c \in 1 .. lq
        BY <1>6, <1>7, <2>1
      <4> HIDE DEF lp, lq, c
      <4> QED BY <4>1 DEF lp, lq
    <3> QED BY <1>6, <1>7, <3>1, ElementOfSeq
  <2>3. SubSeq(p, 1, c)[j] = p[j] /\ SubSeq(q, 1, c)[j] = q[j]
    <3>1. j \in 1 .. c - 1 + 1 /\ 1 + j - 1 = j
      BY <1>10, <2>1
    <3> HIDE DEF c
    <3> QED BY <2>1, <2>2, <3>1, SubSeqProperties
  <2> QED BY <1>10, <2>3
<1>11. CASE d = 3
  <2>1. Has(spans, l, q[3])
    <3>1. 2 \in 1 .. Len(q) /\ 3 \in 1 .. Len(q)
      BY <1>7
    <3> QED BY <1>7, <1>9, <3>1 DEF Has, OfAction
  <2>2. Has(spans, k, p[3])
    <3>1. CASE p[2] < q[2]
      <4>1. k = 0 /\ s # 0
        <5>1. s \in Nat /\ k < l
          BY <1>1, <1>6, <1>7, <3>1
        <5> HIDE DEF s
        <5> QED BY <5>1 DEF Number0
      <4>2. p[3] \in 1 .. Len(HeaderActions)
        BY <1>6, <4>1 DEF ActionsOf, HeaderActions
      <4> QED BY <1>1, <4>1, <4>2 DEF Good
    <3>2. CASE ~(p[2] < q[2])
      <4>1. p[2] = q[2] /\ p[3] < q[3]
        <5>1. 2 \in 1 .. d - 1
          BY <1>11
        <5> QED BY <1>8, <1>10, <1>11, <3>2, <5>1
      <4>2. k = l
        BY <1>6, <1>7, <4>1
      <4>3. Ordered(k)
        BY <1>1 DEF Good, Number0
      <4> QED BY <1>6, <1>7, <2>1, <4>1, <4>2, <4>3 DEF Ordered
    <3> QED BY <3>1, <3>2
  <2>3. PICK m \in 1 .. Len(spans) : OfAction(spans[m].path, k, p[3])
    BY <2>2 DEF Has
  <2>4. Len(spans[m].path) >= 3 /\ spans[m].path[1] = pkt
    BY <1>1 DEF Good, Shape
  <2>5. \A j \in 1 .. d : spans[m].path[j] = p[j]
    <3>1. 1 .. d = {1, 2, 3}
      BY <1>11
    <3> QED BY <1>6, <2>3, <2>4, <3>1 DEF OfAction
  <2> QED BY <1>1, <1>6, <1>8, <1>11, <2>4, <2>5, SuppliedAt
<1>12. CASE d # 3
  <2> DEFINE P == spans[n].path
  <2>1. Len(P) \in Nat
    BY <1>1, ElementOfSeq, SpanParts, LenProperties
  <2>2. d \in 4 .. Len(P) /\ d \in 3 .. Len(p) /\ P[d] = q[d]
    BY <1>6, <1>7, <1>8, <1>9, <1>12, <2>1
  <2>3. p[d] \in 1 .. P[d] - 1
    <3>1. p[d] \in Nat /\ p[d] >= 1 /\ p[d] < q[d] /\ q[d] \in Nat
      <4>1. d \in 3 .. Len(q)
        BY <1>7, <1>8
      <4> QED BY <1>6, <1>7, <1>8, <1>12, <2>2, <4>1
    <3> QED BY <2>2, <3>1
  <2>4. Below(spans, P, d, p[d])
    BY <2>2, <2>3 DEF Layers, Layered
  <2>5. PICK m \in 1 .. Len(spans) :
            /\ Len(spans[m].path) >= d /\ spans[m].path[d] = p[d]
            /\ \A j \in 1 .. d - 1 : spans[m].path[j] = P[j]
    BY <2>4 DEF Below
  <2>6. ASSUME NEW j \in 1 .. d PROVE spans[m].path[j] = p[j]
    <3>1. CASE j = d
      BY <2>5, <3>1
    <3>2. CASE j # d
      <4>1. j \in 1 .. d - 1 /\ j \in 1 .. Len(q)
        BY <1>7, <1>8, <3>2
      <4>2. p[j] = q[j]
        BY <1>8, <1>10, <1>12, <4>1
      <4> QED BY <1>9, <2>5, <4>1, <4>2
    <3> QED BY <3>1, <3>2
  <2> QED BY <1>1, <1>6, <1>8, <2>5, <2>6, SuppliedAt
<1> QED BY <1>11, <1>12
-----------------------------------------------------------------------------
(* What the fields hold.                                                   *)

\* Values are made of bytes that were read, or were never written.
Holds == \A c \in DOMAIN memory : \A k \in DOMAIN memory[c] : memory[c][k] \in Nat \cup {Junk}

\* What Fill reads lies in the data it has.
LEMMA ReadingHolds ==
    ASSUME Control, Frames, Holds, pc = "struct", AtAction("field"), Atom(Action.type), Got # 0,
           memory' = Put(memory, Path, Reading)
    PROVE  Holds'
<1> DEFINE t == Action.type
           w == t.width
           data == Data(State.buf)
           p == State.pos
           left == State.left
           value == Reading
           old == Old(Path, t)
<1>1. data \in Seq(Nat)
  BY DEF Data, Control, Frames
<1>2. p \in Nat /\ left \in Nat /\ p + left = Len(data)
  BY TopFacts DEF Inside
<1>3. w \in Nat /\ Got \in 1 .. t.count /\ w * Got <= left
  <2>1. Sized(t)
    BY DEF Atom
  <2>2. Got \in 0 .. t.count /\ w * Got <= left
    BY <1>2, <2>1, EntriesFit DEF Got
  <2> QED BY <2>1, <2>2 DEF Sized
<1>4. \A k \in 1 .. t.count : old[k] \in Nat \cup {Junk}
  BY DEF Old, Cell, Holds
<1>5. ASSUME NEW k \in 1 .. t.count, k <= Got
      PROVE  Stored(t.kind, Number(data, p + (k - 1) * w, w)) \in Nat
  <2> DEFINE before == (k - 1) * w
             g == Got
             whole == w * g
  <2>1. before \in Nat /\ before + w <= whole /\ whole \in Nat
    <3>1. g \in Nat /\ k \in Nat /\ k >= 1 /\ k <= g /\ w \in Nat
      BY <1>3, <1>5
    <3> HIDE DEF g, w
    <3>2. k - 1 \in Nat /\ (k - 1) * w \in Nat /\ (k - 1) * w + w = w * k
      <4>1. \A a \in Nat : a * w \in Nat /\ a * w + w = w * (a + 1)
        BY <3>1
      <4>2. k - 1 \in Nat /\ (k - 1) + 1 = k
        BY <3>1
      <4> HIDE DEF before, whole
      <4> QED BY <4>1, <4>2
    <3>3. w * k <= w * g
      BY <3>1, ProductGrows
    <3>4. w * g \in Nat
      BY <3>1
    <3> QED BY <3>2, <3>3, <3>4
  <2>2. p + before \in Nat /\ (p + before) + w <= Len(data)
    <3>1. whole <= left /\ w \in Nat
      BY <1>3
    <3> DEFINE n == Len(data)
    <3>2. n = p + left
      BY <1>2
    <3> HIDE DEF p, left, n, w, before, whole
    <3> QED BY <1>2, <2>1, <3>1, <3>2 DEF n
  <2> HIDE DEF p, data, w, before
  <2>3. Number(data, p + before, w) \in Nat
    BY <1>1, <1>3, <2>2, NumberTyped
  <2> QED BY <2>3, StoredTyped DEF before
<1>6. \A k \in DOMAIN value : value[k] \in Nat \cup {Junk}
  <2>1. value = [k \in 1 .. t.count |->
                   IF k <= Got THEN Stored(t.kind, Number(data, p + (k - 1) * w, w)) ELSE old[k]]
    BY DEF Reading, Read
  <2> HIDE DEF value, old, data, p, w
  <2> QED BY <1>4, <1>5, <2>1
<1> HIDE DEF value
<1>7. memory' = [y \in DOMAIN memory \cup {Path} |-> IF y = Path THEN value ELSE memory[y]]
  BY DEF Put, value
<1>8. ASSUME NEW c \in DOMAIN memory' PROVE \A k \in DOMAIN memory'[c] : memory'[c][k] \in Nat \cup {Junk}
  <2>1. CASE c = Path
    <3>1. memory'[c] = value
      BY <1>7, <2>1
    <3> QED BY <1>6, <3>1
  <2>2. CASE c # Path
    <3>1. c \in DOMAIN memory /\ memory'[c] = memory[c]
      BY <1>7, <2>2
    <3> QED BY <3>1 DEF Holds
  <2> QED BY <2>1, <2>2
<1> QED BY <1>8 DEF Holds

LEMMA HoldsStep ==
    ASSUME Control, Frames, Holds, [Next]_vars
    PROVE  Holds'
<1>1. CASE InStruct
  <2>1. pc = "struct" /\ (Takes \/ Fails \/ Unpacks \/ Notes \/ Enters \/ Exits)
    BY <1>1, StepsInStruct DEF Still
  <2>2. \/ UNCHANGED memory
        \/ AtAction("field") /\ Atom(Action.type) /\ Got # 0 /\ memory' = Put(memory, Path, Reading)
    BY <2>1 DEF Takes, Fails, Unpacks, Notes, Enters, Exits
  <2>3. CASE UNCHANGED memory
    BY <2>3 DEF Holds
  <2> QED BY <2>1, <2>2, <2>3, ReadingHolds
<1>2. CASE ~InStruct
  <2>1. UNCHANGED memory
    BY <1>2 DEF Next, Decode, InStruct, Loading, Receive, Send, Process, TryPacket, NoPacket, HeaderDone,
                TrySub, NoSub, SubDone, Verdict, vars, decodeVars, tryVars
  <2> QED BY <2>1 DEF Holds
<1> QED BY <1>1, <1>2

LEMMA TypesAreRight ==
    ASSUME Control, Frames, Holds
    PROVE  TypeOK
<1>1. \A i \in DOMAIN stack : IsFrame(stack[i]) /\ Inside(stack[i].state)
  BY SequenceFacts DEF Frames
<1>2. \A i \in DOMAIN stack :
        LET st == stack[i].state
        IN st.buf \in {0, 1} /\ st.left \in Nat /\ st.pos + st.left = Len(Data(st.buf))
  BY <1>1 DEF IsFrame, States, Inside
<1> QED BY <1>2 DEF TypeOK, Control, Holds

-----------------------------------------------------------------------------
(* The theorems.                                                           *)

\* All of it holds in every state.
IInv ==
    /\ LoaderMade /\ PacketsOK
    /\ Control /\ Frames /\ Tiles /\ Values /\ Ranks /\ Header /\ Layers /\ Results /\ Holds

\* Every step of the decoder, and of the loader before it, keeps the invariant that relates the
\* frames, the blocks, the fields' values and the text to the payload and to the loaded packets.
THEOREM Inductive == Spec => []IInv
<1>1. Init => IInv
  <2> SUFFICES ASSUME Init PROVE IInv
    OBVIOUS
  <2>1. LoaderMade /\ PacketsOK
    BY LoaderStart DEF Init
  <2>2. Holds
    BY DEF Init, Holds
  <2>3. Control /\ Frames /\ Tiles /\ Values /\ Ranks /\ Header /\ Layers /\ Results
    BY <2>1, ControlStart, FramesStart, TilesStart, ValuesStart, RanksStart, HeaderStart, LayersStart, ResultsStart
  <2> QED BY <2>1, <2>2, <2>3 DEF IInv
<1>2. IInv /\ [Next]_vars => IInv'
  <2> SUFFICES ASSUME IInv, [Next]_vars PROVE IInv'
    OBVIOUS
  <2>1. LoaderMade' /\ PacketsOK'
    <3>1. Load \/ UNCHANGED loaderVars
      BY DEF Next, Loading, Decode, Receive, Send, Process, TryPacket, NoPacket, HeaderDone, TrySub, NoSub,
             SubDone, Verdict, FillField, EnterStruct, LeaveStruct, Transform, Annotate, vars
    <3> QED BY <3>1, LoaderStep DEF IInv
  <2>2. Control' /\ Frames' /\ Tiles' /\ Values' /\ Ranks'
    BY <2>1, ControlStep, FramesStep, TilesStep, ValuesStep, RanksStep DEF IInv
  <2>3. Header' /\ Layers' /\ Results' /\ Holds'
    BY HeaderStep, LayersStep, ResultsStep, HoldsStep DEF IInv
  <2> QED BY <2>1, <2>2, <2>3 DEF IInv
<1> QED BY <1>1, <1>2, PTL DEF Spec

\* Process and Fill never look beyond the data they were given, and a field
\* holds what was read from bytes, or what nobody has written.
THEOREM StaysInside == Spec => []TypeOK
<1>1. IInv => TypeOK
  BY TypesAreRight DEF IInv
<1> QED BY <1>1, Inductive, PTL

\* The fields of an identified payload and of the text unpacked from it cover
\* each byte once and in order: DecodeState's pointer and count move together.
THEOREM EveryByteOnce == Spec => []WellTiled
<1>1. IInv => WellTiled
  BY TilesAreTiled DEF IInv
<1> QED BY <1>1, Inductive, PTL

\* What Print shows for a field that the payload supplied is what stands at its
\* place in the payload, although failed trials have stored values before.
THEOREM NothingElseIsPrinted == Spec => []PrintedIsDecoded
<1>1. IInv => PrintedIsDecoded
  BY ValuesAreDecoded DEF IInv
<1> QED BY <1>1, Inductive, PTL

\* Packet::Fill tries subpackets only behind a header that is there in full.
THEOREM HeaderBeforeSubpackets == Spec => []HeaderIsWhole
<1>1. IInv => HeaderIsWhole
  BY HeaderIsInFull DEF IInv
<1> QED BY <1>1, Inductive, PTL

\* Fields that a payload did not supply are printed last: of two actions of one
\* list, of the packet or of a structure in it, the payload supplied something of
\* the earlier one if it did of the later one.
THEOREM OldValuesComeLast == Spec => []StaleIsLast
<1>1. IInv => StaleIsLast
  BY ResultsAreOrdered DEF IInv
<1> QED BY <1>1, Inductive, PTL

\* An annotation stores only what one payload supplied, in a trial that may
\* still fail.
THEOREM NamesFromOnePayload == Spec => StoredFromOnePayload
<1>1. IInv /\ [Next]_vars =>
        [/\ ids' # ids => Whole("objectid") /\ Whole("race") /\ Whole("name")
         /\ chars' # chars => Whole("charid") /\ Whole("objectid")]_vars
  BY StoredStep DEF IInv
<1> QED BY <1>1, Inductive, PTL DEF Spec, StoredFromOnePayload
=============================================================================
