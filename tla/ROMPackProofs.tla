--------------------------- MODULE ROMPackProofs ---------------------------
(***************************************************************************)
(* Theorems about Unpack for every stream that WellWritten describes, of   *)
(* any length and with any bases, and for whatever Pack makes of more than *)
(* 18 bytes.                                                               *)
(***************************************************************************)
EXTENDS ROMPack, Traces

-----------------------------------------------------------------------------
(* The recursive functions of the model exist: there is one up to any      *)
(* number of pieces, since it can be continued by one piece.               *)

\* Texts extends a text by one piece after the other.
LEMMA TextsByPiece ==
    ASSUME NEW ps \in Seq(Text!Piece)
    PROVE  /\ Text!Texts(ps)[0] = <<>>
           /\ \A i \in 1 .. Len(ps) : Text!Texts(ps)[i] = Text!Extend(Text!Texts(ps)[i - 1], ps[i])
<1> DEFINE n == Len(ps)
           IsUpTo(f, k) ==
               f = [i \in 0 .. k |-> IF i = 0 THEN <<>> ELSE Text!Extend(f[i - 1], ps[i])]
           Missing == {k \in 0 .. n : ~ \E f : IsUpTo(f, k)}
<1>1. n \in Nat
  BY LenProperties
<1>2. \E f : IsUpTo(f, n)
  <2>1. SUFFICES ASSUME Missing # {} PROVE FALSE
    BY <1>1
  <2>0. Missing \subseteq Nat
    BY <1>1
  <2>2. PICK m \in Missing : \A h \in Missing : m <= h
    <3> HIDE DEF Missing
    <3> QED BY <2>0, <2>1, LeastNumber
  <2>3. CASE m = 0
    <3>1. IsUpTo([i \in 0 .. 0 |-> <<>>], 0)
      OBVIOUS
    <3> QED BY <2>2, <2>3, <3>1
  <2>4. CASE m # 0
    <3>1. m - 1 \in 0 .. n /\ m \in 1 .. n /\ ~(m - 1 \in Missing)
      <4>1. m \in 0 .. n
        BY <2>2
      <4>2. m - 1 \in 0 .. n /\ m \in 1 .. n /\ ~(m <= m - 1)
        BY <1>1, <2>4, <4>1
      <4> HIDE DEF Missing
      <4> QED BY <2>2, <4>2
    <3>2. PICK f : IsUpTo(f, m - 1)
      <4>1. \E f : IsUpTo(f, m - 1)
        BY <3>1
      <4> QED BY <4>1
    <3> DEFINE g == [i \in 0 .. m |-> IF i = m THEN Text!Extend(f[m - 1], ps[m]) ELSE f[i]]
    <3>3. ASSUME NEW i \in 0 .. m
          PROVE  g[i] = IF i = 0 THEN <<>> ELSE Text!Extend(g[i - 1], ps[i])
      <4>1. CASE i = 0
        BY <3>1, <3>2, <4>1
      <4>2. CASE i = m
        <5>1. g[i - 1] = f[m - 1]
          BY <3>1, <4>2
        <5> QED BY <3>1, <4>2, <5>1
      <4>3. CASE i # 0 /\ i # m
        <5>1. i \in 0 .. m - 1 /\ i - 1 \in 0 .. m - 1 /\ i - 1 # m
          BY <3>1, <4>3
        <5>2. g[i] = f[i] /\ g[i - 1] = f[i - 1]
          BY <3>1, <4>3, <5>1
        <5>3. f[i] = Text!Extend(f[i - 1], ps[i])
          BY <3>2, <4>3, <5>1
        <5> QED BY <4>3, <5>2, <5>3
      <4> QED BY <4>1, <4>2, <4>3
    <3>4. IsUpTo(g, m)
      BY <3>3
    <3> QED BY <2>2, <3>4
  <2> QED BY <2>3, <2>4
<1> DEFINE t == CHOOSE f : IsUpTo(f, n)
<1>3. Text!Texts(ps) = t
  BY DEF Text!Texts
<1>4. IsUpTo(t, n)
  BY <1>2
<1> HIDE DEF t
<1>5. t[0] = <<>> /\ \A i \in 1 .. n : t[i] = Text!Extend(t[i - 1], ps[i])
  BY <1>1, <1>4
<1> QED BY <1>3, <1>5

\* Streams appends the bytes of one piece after the other.
LEMMA StreamsByPiece ==
    ASSUME NEW ps \in Seq(Text!Piece)
    PROVE  /\ Streams(ps)[0] = <<>>
           /\ \A i \in 1 .. Len(ps) : Streams(ps)[i] = Streams(ps)[i - 1] \o PieceBytes(ps, i)
<1> DEFINE Step(s, i) == s \o PieceBytes(ps, i)
<1> DEFINE n == Len(ps)
           IsUpTo(f, k) ==
               f = [i \in 0 .. k |-> IF i = 0 THEN <<>> ELSE Step(f[i - 1], i)]
           Missing == {k \in 0 .. n : ~ \E f : IsUpTo(f, k)}
<1> HIDE DEF Step
<1>1. n \in Nat
  BY LenProperties
<1>2. \E f : IsUpTo(f, n)
  <2>1. SUFFICES ASSUME Missing # {} PROVE FALSE
    BY <1>1
  <2>0. Missing \subseteq Nat
    BY <1>1
  <2>2. PICK m \in Missing : \A h \in Missing : m <= h
    <3> HIDE DEF Missing
    <3> QED BY <2>0, <2>1, LeastNumber
  <2>3. CASE m = 0
    <3>1. IsUpTo([i \in 0 .. 0 |-> <<>>], 0)
      OBVIOUS
    <3> QED BY <2>2, <2>3, <3>1
  <2>4. CASE m # 0
    <3>1. m - 1 \in 0 .. n /\ m \in 1 .. n /\ ~(m - 1 \in Missing)
      <4>1. m \in 0 .. n
        BY <2>2
      <4>2. m - 1 \in 0 .. n /\ m \in 1 .. n /\ ~(m <= m - 1)
        BY <1>1, <2>4, <4>1
      <4> HIDE DEF Missing
      <4> QED BY <2>2, <4>2
    <3>2. PICK f : IsUpTo(f, m - 1)
      <4>1. \E f : IsUpTo(f, m - 1)
        BY <3>1
      <4> QED BY <4>1
    <3> DEFINE g == [i \in 0 .. m |-> IF i = m THEN Step(f[m - 1], m) ELSE f[i]]
    <3>3. ASSUME NEW i \in 0 .. m
          PROVE  g[i] = IF i = 0 THEN <<>> ELSE Step(g[i - 1], i)
      <4>1. CASE i = 0
        BY <3>1, <3>2, <4>1
      <4>2. CASE i = m
        <5>1. g[i - 1] = f[m - 1]
          BY <3>1, <4>2
        <5> QED BY <3>1, <4>2, <5>1
      <4>3. CASE i # 0 /\ i # m
        <5>1. i \in 0 .. m - 1 /\ i - 1 \in 0 .. m - 1 /\ i - 1 # m
          BY <3>1, <4>3
        <5>2. g[i] = f[i] /\ g[i - 1] = f[i - 1]
          BY <3>1, <4>3, <5>1
        <5>3. f[i] = Step(f[i - 1], i)
          BY <3>2, <4>3, <5>1
        <5> QED BY <4>3, <5>2, <5>3
      <4> QED BY <4>1, <4>2, <4>3
    <3>4. IsUpTo(g, m)
      BY <3>3
    <3> QED BY <2>2, <3>4
  <2> QED BY <2>3, <2>4
<1> DEFINE t == CHOOSE f : IsUpTo(f, n)
<1>3. Streams(ps) = t
  BY DEF Streams, Step
<1>4. IsUpTo(t, n)
  BY <1>2
<1> HIDE DEF t
<1>5. t[0] = <<>> /\ \A i \in 1 .. n : t[i] = Step(t[i - 1], i)
  BY <1>1, <1>4
<1> QED BY <1>3, <1>5 DEF Step


-----------------------------------------------------------------------------
(* The text: literals and repetitions.                                     *)

Bytes == {b \in Nat : b < 256}

LEMMA LiteralsTyped ==
    ASSUME NEW n \in Nat, NEW place \in Nat
    PROVE  Text!Literals(n, place) \in Seq(Bytes) /\ Len(Text!Literals(n, place)) = n
<1>1. \A i \in 1 .. n : (place + i) % 251 \in Bytes
  BY DEF Bytes
<1> QED BY <1>1 DEF Text!Literals

\* The remainder that COPY's source runs through.
LEMMA Remainder ==
    ASSUME NEW d \in Nat, d > 0, NEW x \in Nat
    PROVE  /\ x % d \in 0 .. d - 1
           /\ x < d => x % d = x
           /\ x >= d => x % d = (x - d) % d
<1>1. x % d \in 0 .. d - 1
  OBVIOUS
<1>2. x < d => x % d = x
  OBVIOUS
<1>3. ASSUME x >= d PROVE x % d = (x - d) % d
  <2> DEFINE a == x % d
             b == (x - d) % d
             z == (x \div d) - ((x - d) \div d) - 1
  <2>1. /\ x = d * (x \div d) + a /\ a \in 0 .. d - 1 /\ (x \div d) \in Int
        /\ x - d = d * ((x - d) \div d) + b /\ b \in 0 .. d - 1 /\ ((x - d) \div d) \in Int
    BY <1>3
  <2>2. z \in Int /\ d * z = b - a
    BY <2>1
  <2> HIDE DEF a, b, z
  <2>3. CASE z >= 1
    <3>1. PICK e \in Nat : z = 1 + e
      <4>1. z - 1 \in Nat /\ z = 1 + (z - 1)
        BY <2>2, <2>3
      <4> QED BY <4>1
    <3>2. d * z = d + d * e /\ d * e \in Nat
      BY <3>1
    <3> QED BY <2>1, <2>2, <3>2
  <2>4. CASE z <= 0 - 1
    <3>1. PICK e \in Nat : z = 0 - 1 - e
      <4>1. 0 - 1 - z \in Nat /\ z = 0 - 1 - (0 - 1 - z)
        BY <2>2, <2>4
      <4> QED BY <4>1
    <3>2. d * z = 0 - d - d * e /\ d * e \in Nat
      BY <3>1
    <3> QED BY <2>1, <2>2, <3>2
  <2>5. CASE z = 0
    BY <2>1, <2>2, <2>5 DEF a, b
  <2> QED BY <2>2, <2>3, <2>4, <2>5
<1> QED BY <1>1, <1>2, <1>3

LEMMA RepetitionTyped ==
    ASSUME NEW T, NEW t \in Seq(T), NEW n \in Nat, NEW dist \in 1 .. Len(t)
    PROVE  /\ Text!Repetition(t, n, dist) \in Seq(T) /\ Len(Text!Repetition(t, n, dist)) = n
           /\ \A i \in 1 .. n :
                Text!Repetition(t, n, dist)[i] = t[Len(t) - dist + 1 + ((i - 1) % dist)]
<1>1. Len(t) \in Nat /\ \A k \in 1 .. Len(t) : t[k] \in T
  BY LenProperties, ElementOfSeq
<1>2. ASSUME NEW i \in 1 .. n PROVE t[Len(t) - dist + 1 + ((i - 1) % dist)] \in T
  <2>1. i - 1 \in Nat /\ dist \in Nat /\ dist > 0
    BY <1>1
  <2>2. (i - 1) % dist \in 0 .. dist - 1
    BY <2>1, Remainder
  <2>3. Len(t) - dist + 1 + ((i - 1) % dist) \in 1 .. Len(t)
    BY <1>1, <2>2
  <2> QED BY <1>1, <2>3
<1> QED BY <1>2 DEF Text!Repetition

\* COPY, which may read what it has just written, writes a repetition: the
\* loop's only outcome.
LEMMA CopyIsRepetition ==
    ASSUME NEW T, NEW t \in Seq(T), NEW n \in Nat, NEW dist \in 1 .. Len(t)
    PROVE  Copied(t, n, dist) = t \o Text!Repetition(t, n, dist)
<1> DEFINE len == Len(t)
           r == Text!Repetition(t, n, dist)
           w == t \o r
           IsCopy(f) == f = [k \in 1 .. len + n |-> IF k <= len THEN t[k] ELSE f[k - dist]]
           out == CHOOSE f : IsCopy(f)
<1>1. len \in Nat /\ dist \in Nat /\ dist > 0 /\ dist <= len /\ DOMAIN t = 1 .. len
  BY LenProperties
<1>2. /\ r \in Seq(T) /\ Len(r) = n
      /\ \A i \in 1 .. n : r[i] = t[len - dist + 1 + ((i - 1) % dist)]
  BY RepetitionTyped
<1> HIDE DEF r
<1>3. /\ w \in Seq(T) /\ Len(w) = len + n
      /\ \A k \in 1 .. len + n : w[k] = IF k <= len THEN t[k] ELSE r[k - len]
  BY <1>2, ConcatProperties
<1> HIDE DEF w
<1>4. ASSUME NEW k \in 1 .. len + n, k > len PROVE w[k] = w[k - dist]
  <2>1. k - len \in 1 .. n /\ k - len - 1 \in Nat /\ k - dist \in 1 .. len + n
    BY <1>1, <1>4
  <2>2. w[k] = t[len - dist + 1 + ((k - len - 1) % dist)]
    BY <1>2, <1>3, <1>4, <2>1
  <2>3. CASE k - dist <= len
    <3>1. (k - len - 1) % dist = k - len - 1
      BY <1>1, <2>1, <2>3, Remainder
    <3>2. len - dist + 1 + (k - len - 1) = k - dist
      BY <1>1, <2>1
    <3>3. w[k - dist] = t[k - dist]
      BY <1>3, <2>1, <2>3
    <3> QED BY <2>2, <3>1, <3>2, <3>3
  <2>4. CASE k - dist > len
    <3>1. k - dist - len \in 1 .. n
      BY <1>1, <2>1, <2>4
    <3>2. w[k - dist] = r[k - dist - len]
      BY <1>1, <1>3, <2>1, <2>4, SMTT(20)
    <3>3. r[k - dist - len] = t[len - dist + 1 + ((k - dist - len - 1) % dist)]
      BY <1>2, <3>1
    <3>4. k - len - 1 >= dist /\ (k - len - 1) - dist = k - dist - len - 1
      BY <1>1, <2>1, <2>4
    <3>5. (k - len - 1) % dist = (k - dist - len - 1) % dist
      BY <1>1, <2>1, <3>4, Remainder
    <3> QED BY <2>2, <3>2, <3>3, <3>5
  <2> QED BY <1>1, <2>1, <2>3, <2>4
<1>5. IsCopy(w)
  <2>1. w = [k \in 1 .. len + n |-> w[k]]
    BY <1>3, LenProperties
  <2>2. \A k \in 1 .. len + n : w[k] = IF k <= len THEN t[k] ELSE w[k - dist]
    BY <1>1, <1>3, <1>4
  <2> QED BY <2>1, <2>2
<1>6. IsCopy(out)
  BY <1>5
<1> HIDE DEF out
<1>7. \A k \in 1 .. len + n : out[k] = IF k <= len THEN t[k] ELSE out[k - dist]
  BY <1>6
<1> DEFINE Wrong == {k \in 1 .. len + n : out[k] # w[k]}
<1>8. Wrong = {}
  <2>1. SUFFICES ASSUME Wrong # {} PROVE FALSE
    OBVIOUS
  <2>2. Wrong \subseteq Nat
    BY <1>1
  <2>3. PICK k \in Wrong : \A h \in Wrong : k <= h
    <3> HIDE DEF Wrong
    <3> QED BY <2>1, <2>2, LeastNumber
  <2>4. k \in 1 .. len + n /\ out[k] # w[k]
    BY <2>3
  <2>5. CASE k <= len
    BY <1>3, <1>7, <2>4, <2>5
  <2>6. CASE k > len
    <3>1. k - dist \in 1 .. len + n /\ ~(k <= k - dist)
      BY <1>1, <2>4, <2>6
    <3>2. ~(k - dist \in Wrong)
      <4> HIDE DEF Wrong
      <4> QED BY <2>3, <3>1
    <3>3. out[k - dist] = w[k - dist]
      BY <3>1, <3>2
    <3>4. out[k] = out[k - dist] /\ w[k] = w[k - dist]
      BY <1>1, <1>4, <1>7, <2>4, <2>6
    <3> QED BY <2>4, <3>3, <3>4
  <2> QED BY <1>1, <2>4, <2>5, <2>6
<1>9. out = w
  <2>1. out = [k \in 1 .. len + n |-> out[k]]
    BY <1>6
  <2>2. w = [k \in 1 .. len + n |-> w[k]]
    BY <1>3, LenProperties
  <2>3. \A k \in 1 .. len + n : out[k] = w[k]
    BY <1>8
  <2> QED BY <2>1, <2>2, <2>3
<1>10. Copied(t, n, dist) = out
  BY DEF Copied, out
<1> QED BY <1>9, <1>10 DEF w, r

\* What is known of a piece of each form.
LEMMA WritableFacts ==
    ASSUME NEW p, Writable(p)
    PROVE  /\ p.n \in Nat \ {0} /\ p.dist \in Nat
           /\ p.kind \in {"lit", "head", "near", "mid", "far", "alt"}
           /\ p.kind = "head" => p.n <= 238
           /\ p.kind = "near" => p.n \in 3 .. 8 /\ p.dist <= 2048
           /\ p.kind = "mid" => p.n > 2 /\ p.dist <= 16384
           /\ p.kind = "far" => p.n > 2 /\ p.dist - VeryFarBase \in Nat /\ p.dist - VeryFarBase < 32768
           /\ p.kind = "far" => p.dist - VeryFarBase > 0
           /\ p.kind = "alt" => p.n = 3 /\ p.dist - FarBase \in Nat /\ p.dist - FarBase < 1024
           /\ ~Text!IsRun(p) => p.dist > 0
<1>1. p.n \in Nat /\ p.dist \in Nat /\ p.kind \in {"lit", "head", "near", "mid", "far", "alt"}
  BY DEF Writable, Text!Piece
<1>2. p.n # 0
  BY <1>1 DEF Writable
<1>3. ~Text!IsRun(p) => p.dist > 0
  BY <1>1, BasesAssumption DEF Writable, Text!IsRun
<1> QED BY <1>1, <1>2, <1>3, BasesAssumption DEF Writable

\* What Extend makes of a piece that reaches no further back than the text.
LEMMA ExtendTyped ==
    ASSUME NEW t \in Seq(Bytes), NEW p, Writable(p), p.dist <= Len(t)
    PROVE  /\ Text!Extend(t, p) \in Seq(Bytes) /\ Len(Text!Extend(t, p)) = Len(t) + p.n
           /\ p.n \in Nat \ {0}
           /\ ~Text!IsRun(p) => p.dist \in 1 .. Len(t)
<1>1. Len(t) \in Nat /\ p.n \in Nat /\ p.dist \in Nat /\ p.n # 0
  BY LenProperties, WritableFacts
<1>2. CASE Text!IsRun(p)
  <2>1. Text!Literals(p.n, Len(t)) \in Seq(Bytes) /\ Len(Text!Literals(p.n, Len(t))) = p.n
    BY <1>1, LiteralsTyped
  <2>2. Text!Extend(t, p) = t \o Text!Literals(p.n, Len(t))
    BY <1>2 DEF Text!Extend
  <2> QED BY <1>1, <1>2, <2>1, <2>2, ConcatProperties
<1>3. CASE ~Text!IsRun(p)
  <2>1. p.dist \in 1 .. Len(t)
    BY <1>1, <1>3, WritableFacts
  <2>2. /\ Text!Repetition(t, p.n, p.dist) \in Seq(Bytes)
        /\ Len(Text!Repetition(t, p.n, p.dist)) = p.n
    BY <1>1, <2>1, RepetitionTyped, ZenonT(30)
  <2>3. Text!Extend(t, p) = t \o Text!Repetition(t, p.n, p.dist)
    BY <1>3 DEF Text!Extend
  <2> QED BY <1>1, <2>1, <2>2, <2>3, ConcatProperties, ZenonT(30)
<1> QED BY <1>2, <1>3

\* Every text on the way consists of bytes.
LEMMA TextsTyped ==
    ASSUME NEW ps \in Seq(Text!Piece), WellWritten(ps), NEW j \in 0 .. Len(ps)
    PROVE  Text!Texts(ps)[j] \in Seq(Bytes)
<1> DEFINE n == Len(ps)
           t == Text!Texts(ps)
           Wrong == {i \in 0 .. n : t[i] \notin Seq(Bytes)}
<1>1. n \in Nat /\ DOMAIN ps = 1 .. n
  BY LenProperties
<1>2. t[0] = <<>> /\ \A i \in 1 .. n : t[i] = Text!Extend(t[i - 1], ps[i])
  BY TextsByPiece
<1>3. \A i \in 1 .. n : Writable(ps[i]) /\ ps[i].dist <= Len(t[i - 1])
  BY <1>1 DEF WellWritten
<1> HIDE DEF t
<1>4. SUFFICES ASSUME Wrong # {} PROVE FALSE
  BY DEF t
<1>5. Wrong \subseteq Nat
  BY <1>1
<1>6. PICK m \in Wrong : \A h \in Wrong : m <= h
  <2> HIDE DEF Wrong
  <2> QED BY <1>4, <1>5, LeastNumber
<1>7. m \in 0 .. n /\ t[m] \notin Seq(Bytes)
  BY <1>6
<1>8. m # 0
  <2>1. <<>> \in Seq(Bytes)
    OBVIOUS
  <2> QED BY <1>2, <1>7, <2>1
<1>9. m \in 1 .. n /\ m - 1 \in 0 .. n /\ ~(m <= m - 1)
  BY <1>1, <1>7, <1>8
<1>10. t[m - 1] \in Seq(Bytes)
  <2>1. ~(m - 1 \in Wrong)
    <3> HIDE DEF Wrong
    <3> QED BY <1>6, <1>9
  <2> QED BY <1>9, <2>1
<1>11. Text!Extend(t[m - 1], ps[m]) \in Seq(Bytes)
  BY <1>3, <1>9, <1>10, ExtendTyped
<1> QED BY <1>2, <1>7, <1>9, <1>11

-----------------------------------------------------------------------------
(* The bytes of a count and of a piece.                                    *)

Masks == {7, 15, 31}

\* A count that does not fit its bits: zero bytes, and a rest that is not zero.
LEMMA LongCount ==
    ASSUME NEW n \in Nat, NEW mask \in Masks, n > mask,
           NEW zeroes, zeroes = (n - mask - 1) \div 255,
           NEW rest, rest = n - mask - 255 * zeroes
    PROVE  /\ zeroes \in Nat /\ rest \in Bytes \ {0}
           /\ CountBytes(n, mask) \in Seq(Bytes) /\ Len(CountBytes(n, mask)) = zeroes + 1
           /\ \A i \in 1 .. zeroes : CountBytes(n, mask)[i] = 0
           /\ CountBytes(n, mask)[zeroes + 1] = rest
<1> DEFINE z == [i \in 1 .. zeroes |-> 0]
<1>1. zeroes \in Nat /\ rest \in Nat /\ rest > 0 /\ rest < 256
  BY DEF Masks
<1>2. CountBytes(n, mask) = z \o <<rest>>
  BY DEF CountBytes, Masks
<1>3. z \in Seq(Bytes) /\ Len(z) = zeroes /\ \A i \in 1 .. zeroes : z[i] = 0
  BY <1>1 DEF Bytes
<1>4. <<rest>> \in Seq(Bytes) /\ Len(<<rest>>) = 1 /\ <<rest>>[1] = rest
  BY <1>1 DEF Bytes
<1> HIDE DEF z
<1>5. /\ z \o <<rest>> \in Seq(Bytes) /\ Len(z \o <<rest>>) = zeroes + 1
      /\ \A i \in 1 .. zeroes + 1 :
            (z \o <<rest>>)[i] = IF i <= zeroes THEN z[i] ELSE <<rest>>[i - zeroes]
  BY <1>3, <1>4, ConcatProperties
<1>6. /\ \A i \in 1 .. zeroes : (z \o <<rest>>)[i] = 0
      /\ (z \o <<rest>>)[zeroes + 1] = rest
  BY <1>1, <1>3, <1>4, <1>5, SMTT(20)
<1> QED BY <1>1, <1>2, <1>5, <1>6 DEF Bytes

\* A count that fits takes no bytes of its own.
LEMMA ShortCount ==
    ASSUME NEW n \in Nat, NEW mask \in Masks, n <= mask
    PROVE  CountField(n, mask) = n /\ CountBytes(n, mask) = <<>>
BY DEF CountField, CountBytes

LEMMA CountTyped ==
    ASSUME NEW n \in Nat, NEW mask \in Masks
    PROVE  /\ CountField(n, mask) \in Nat /\ CountField(n, mask) <= mask
           /\ CountBytes(n, mask) \in Seq(Bytes)
<1>1. CountField(n, mask) \in Nat /\ CountField(n, mask) <= mask
  BY DEF CountField, Masks
<1>2. CASE n <= mask
  <2>1. CountBytes(n, mask) = <<>>
    BY <1>2, ShortCount
  <2> QED BY <1>1, <2>1
<1>3. CASE n > mask
  BY <1>1, <1>3, LongCount
<1> QED BY <1>2, <1>3 DEF Masks

\* A match is made of bytes: its count and its offset fit the bits they have.
LEMMA MatchBytesTyped ==
    ASSUME NEW p, Writable(p), ~Text!IsRun(p), NEW lits \in 0 .. 3
    PROVE  MatchBytes(p, lits) \in Seq(Bytes)
<1>1. p.n \in Nat /\ p.dist \in Nat
  BY WritableFacts
<1>2. CASE p.kind = "near"
  <2>1. MatchBytes(p, lits)
          = <<32 * (p.n - 1) + 4 * ((p.dist - 1) % 8) + lits, (p.dist - 1) \div 8>>
    BY <1>2 DEF MatchBytes
  <2>2. p.n \in 3 .. 8 /\ p.dist > 0 /\ p.dist <= 2048
    BY <1>2, WritableFacts
  <2>3. 32 * (p.n - 1) + 4 * ((p.dist - 1) % 8) + lits \in Bytes /\ (p.dist - 1) \div 8 \in Bytes
    <3>1. (p.dist - 1) % 8 \in 0 .. 7 /\ (p.dist - 1) \div 8 \in Nat /\ (p.dist - 1) \div 8 < 256
      BY <1>1, <2>2
    <3> QED BY <2>2, <3>1 DEF Bytes
  <2> QED BY <2>1, <2>3
<1>3. CASE p.kind = "mid"
  <2> DEFINE w == 4 * (p.dist - 1) + lits
             f == 32 + CountField(p.n - 2, 31)
  <2>1. MatchBytes(p, lits) = (<<f>> \o CountBytes(p.n - 2, 31)) \o Word16(w)
    BY <1>3 DEF MatchBytes
  <2>2. p.n - 2 \in Nat /\ p.dist > 0 /\ p.dist <= 16384
    BY <1>1, <1>3, WritableFacts
  <2>3. CountField(p.n - 2, 31) \in Nat /\ CountField(p.n - 2, 31) <= 31 /\ CountBytes(p.n - 2, 31) \in Seq(Bytes)
    <3>1. \A c \in Nat : CountField(c, 31) \in Nat /\ CountField(c, 31) <= 31 /\ CountBytes(c, 31) \in Seq(Bytes)
      BY CountTyped DEF Masks
    <3>2. p.n - 2 \in Nat
      BY <2>2
    <3> QED BY <3>1, <3>2
  <2>4. <<f>> \in Seq(Bytes) /\ Word16(w) \in Seq(Bytes)
    <3>1. f \in Bytes
      BY <1>1, <2>2, <2>3 DEF Bytes
    <3>2. w \in Nat /\ w < 65536
      BY <1>1, <2>2
    <3> HIDE DEF w
    <3>3. w % 256 \in Bytes /\ w \div 256 \in Bytes
      BY <3>2 DEF Bytes
    <3> QED BY <3>1, <3>3 DEF Word16
  <2> HIDE DEF f, w
  <2> QED BY <2>1, <2>3, <2>4, ConcatProperties
<1>4. CASE p.kind = "far"
  <2> DEFINE off == p.dist - VeryFarBase
             w == 4 * (off % 16384) + lits
             f == 16 + 8 * (off \div 16384) + CountField(p.n - 2, 7)
  <2>1. MatchBytes(p, lits) = (<<f>> \o CountBytes(p.n - 2, 7)) \o Word16(w)
    BY <1>4 DEF MatchBytes
  <2>2. p.n - 2 \in Nat /\ off \in Nat /\ off < 32768
    BY <1>1, <1>4, WritableFacts
  <2> HIDE DEF off
  <2>3. CountField(p.n - 2, 7) \in Nat /\ CountField(p.n - 2, 7) <= 7 /\ CountBytes(p.n - 2, 7) \in Seq(Bytes)
    <3>1. \A c \in Nat : CountField(c, 7) \in Nat /\ CountField(c, 7) <= 7 /\ CountBytes(c, 7) \in Seq(Bytes)
      BY CountTyped DEF Masks
    <3>2. p.n - 2 \in Nat
      BY <2>2
    <3> QED BY <3>1, <3>2
  <2>4. <<f>> \in Seq(Bytes) /\ Word16(w) \in Seq(Bytes)
    <3>1. f \in Bytes
      BY <1>1, <2>2, <2>3 DEF Bytes
    <3>2. w \in Nat /\ w < 65536
      BY <1>1, <2>2
    <3> HIDE DEF w
    <3>3. w % 256 \in Bytes /\ w \div 256 \in Bytes
      BY <3>2 DEF Bytes
    <3> QED BY <3>1, <3>3 DEF Word16
  <2> HIDE DEF f, w
  <2> QED BY <2>1, <2>3, <2>4, ConcatProperties
<1>5. CASE p.kind = "alt"
  <2> DEFINE off == p.dist - FarBase
  <2>1. MatchBytes(p, lits) = <<4 * (off % 4) + lits, off \div 4>>
    BY <1>5 DEF MatchBytes
  <2>2. off \in Nat /\ off < 1024
    BY <1>5, WritableFacts
  <2> HIDE DEF off
  <2>3. 4 * (off % 4) + lits \in Bytes /\ off \div 4 \in Bytes
    BY <2>2 DEF Bytes
  <2> QED BY <2>1, <2>3
<1> QED BY <1>2, <1>3, <1>4, <1>5, WritableFacts DEF Text!IsRun

\* A match counts at most three literals behind it.
LEMMA LitsTyped ==
    ASSUME NEW ps \in Seq(Text!Piece), NEW i \in 1 .. Len(ps)
    PROVE  LitsBehind(ps, i) \in 0 .. 3
<1>1. CASE i < Len(ps) /\ Text!IsRun(ps[i + 1]) /\ ps[i + 1].n < 4
  <2>1. i + 1 \in 1 .. Len(ps)
    BY <1>1, LenProperties
  <2>2. ps[i + 1].n \in Nat
    <3>1. ps[i + 1] \in Text!Piece
      BY <2>1, ElementOfSeq
    <3> QED BY <3>1 DEF Text!Piece
  <2> QED BY <1>1, <2>2 DEF LitsBehind
<1>2. CASE ~(i < Len(ps) /\ Text!IsRun(ps[i + 1]) /\ ps[i + 1].n < 4)
  BY <1>2 DEF LitsBehind
<1> QED BY <1>1, <1>2

\* So is a run, whose literals a byte stands in front of unless they are
\* counted by a match.
LEMMA RunBytesTyped ==
    ASSUME NEW p, Writable(p), Text!IsRun(p)
    PROVE  RunBytes(p) \in Seq(Bytes)
<1>1. p.n \in Nat
  BY WritableFacts
<1>2. CASE p.kind = "head"
  <2>1. RunBytes(p) = <<17 + p.n>> /\ p.n \in Nat /\ p.n <= 238
    BY <1>2, WritableFacts DEF RunBytes
  <2> QED BY <2>1 DEF Bytes
<1>3. CASE p.kind = "lit" /\ p.n < 4
  BY <1>3 DEF RunBytes
<1>4. CASE p.kind = "lit" /\ p.n >= 4
  <2>1. RunBytes(p) = <<CountField(p.n - 3, 15)>> \o CountBytes(p.n - 3, 15)
    BY <1>1, <1>4 DEF RunBytes
  <2>2. CountField(p.n - 3, 15) \in Nat /\ CountField(p.n - 3, 15) <= 15 /\ CountBytes(p.n - 3, 15) \in Seq(Bytes)
    <3>1. 15 \in Masks /\ p.n - 3 \in Nat
      BY <1>1, <1>4 DEF Masks
    <3> QED BY <3>1, CountTyped
  <2>3. <<CountField(p.n - 3, 15)>> \in Seq(Bytes)
    BY <2>2 DEF Bytes
  <2> QED BY <2>1, <2>2, <2>3, ConcatProperties
<1> QED BY <1>1, <1>2, <1>3, <1>4 DEF Text!IsRun

LEMMA PieceBytesTyped ==
    ASSUME NEW ps \in Seq(Text!Piece), WellWritten(ps), NEW i \in 1 .. Len(ps)
    PROVE  PieceBytes(ps, i) \in Seq(Bytes)
<1>1. Writable(ps[i]) /\ LitsBehind(ps, i) \in 0 .. 3
  BY LitsTyped, LenProperties DEF WellWritten
<1>2. CASE Text!IsRun(ps[i])
  <2>1. ps[i].n \in Nat /\ i - 1 \in 0 .. Len(ps)
    BY <1>1, LenProperties, WritableFacts
  <2>2. Len(Text!Texts(ps)[i - 1]) \in Nat
    BY <2>1, TextsTyped, LenProperties
  <2>3. Text!Literals(ps[i].n, Len(Text!Texts(ps)[i - 1])) \in Seq(Bytes)
    BY <2>1, <2>2, LiteralsTyped
  <2> QED BY <1>1, <1>2, <2>3, RunBytesTyped, ConcatProperties DEF PieceBytes
<1>3. CASE ~Text!IsRun(ps[i])
  BY <1>1, <1>3, MatchBytesTyped DEF PieceBytes
<1> QED BY <1>2, <1>3

-----------------------------------------------------------------------------
(* Where the bytes of a piece lie in the stream.                           *)

\* The bytes b are found in s behind its first o.
Lies(s, o, b) ==
    /\ o + Len(b) <= Len(s)
    /\ \A k \in 1 .. Len(b) : s[o + k] = b[k]

\* What is written behind a stream does not change what lies in it.
LEMMA LiesFront ==
    ASSUME NEW T, NEW s \in Seq(T), NEW t \in Seq(T), NEW b \in Seq(T), NEW o \in Nat, Lies(s, o, b)
    PROVE  Lies(s \o t, o, b)
<1>1. Len(s) \in Nat /\ Len(t) \in Nat /\ Len(b) \in Nat
  BY LenProperties
<1>2. /\ Len(s \o t) = Len(s) + Len(t)
      /\ \A i \in 1 .. Len(s) + Len(t) : (s \o t)[i] = IF i <= Len(s) THEN s[i] ELSE t[i - Len(s)]
  BY ConcatProperties
<1>3. ASSUME NEW k \in 1 .. Len(b) PROVE (s \o t)[o + k] = b[k]
  <2>1. o + k \in 1 .. Len(s) /\ s[o + k] = b[k]
    BY <1>1, <1>3 DEF Lies
  <2>2. (s \o t)[o + k] = s[o + k]
    BY <1>1, <1>2, <2>1
  <2> QED BY <2>1, <2>2
<1>4. o + Len(b) <= Len(s \o t)
  BY <1>1, <1>2 DEF Lies
<1> QED BY <1>3, <1>4 DEF Lies

\* It lies behind what was there.
LEMMA LiesBehind ==
    ASSUME NEW T, NEW s \in Seq(T), NEW b \in Seq(T)
    PROVE  Lies(s \o b, Len(s), b)
<1>1. Len(s) \in Nat /\ Len(b) \in Nat
  BY LenProperties
<1>2. /\ Len(s \o b) = Len(s) + Len(b)
      /\ \A i \in 1 .. Len(s) + Len(b) : (s \o b)[i] = IF i <= Len(s) THEN s[i] ELSE b[i - Len(s)]
  BY ConcatProperties
<1>3. ASSUME NEW k \in 1 .. Len(b) PROVE (s \o b)[Len(s) + k] = b[k]
  <2>1. Len(s) + k \in 1 .. Len(s) + Len(b) /\ ~(Len(s) + k <= Len(s)) /\ Len(s) + k - Len(s) = k
    BY <1>1
  <2> QED BY <1>2, <2>1
<1> QED BY <1>1, <1>2, <1>3 DEF Lies

\* Bytes that were put together lie one after the other.
LEMMA LiesSplit ==
    ASSUME NEW T, NEW s \in Seq(T), NEW b \in Seq(T), NEW c \in Seq(T), NEW o \in Nat,
           Lies(s, o, b \o c)
    PROVE  Lies(s, o, b) /\ Lies(s, o + Len(b), c)
<1>1. Len(s) \in Nat /\ Len(b) \in Nat /\ Len(c) \in Nat
  BY LenProperties
<1>2. /\ Len(b \o c) = Len(b) + Len(c)
      /\ \A i \in 1 .. Len(b) + Len(c) : (b \o c)[i] = IF i <= Len(b) THEN b[i] ELSE c[i - Len(b)]
  BY ConcatProperties
<1>3. o + Len(b) <= Len(s) /\ o + Len(b) + Len(c) <= Len(s)
  BY <1>1, <1>2 DEF Lies
<1>4. ASSUME NEW k \in 1 .. Len(b) PROVE s[o + k] = b[k]
  <2>1. k \in 1 .. Len(b) + Len(c) /\ k <= Len(b)
    BY <1>1
  <2> QED BY <1>2, <2>1 DEF Lies
<1>5. ASSUME NEW k \in 1 .. Len(c) PROVE s[o + Len(b) + k] = c[k]
  <2>1. Len(b) + k \in 1 .. Len(b) + Len(c) /\ ~(Len(b) + k <= Len(b)) /\ Len(b) + k - Len(b) = k
        /\ o + (Len(b) + k) = o + Len(b) + k
    BY <1>1
  <2> QED BY <1>2, <2>1 DEF Lies
<1> QED BY <1>3, <1>4, <1>5 DEF Lies

\* Copying the literals that lie there.
LEMMA LiesCopied ==
    ASSUME NEW T, NEW s \in Seq(T), NEW b \in Seq(T), NEW o \in Nat, Lies(s, o, b)
    PROVE  SubSeq(s, o + 1, o + Len(b)) = b
<1>1. Len(s) \in Nat /\ Len(b) \in Nat /\ \A i \in 1 .. Len(s) : s[i] \in T
  BY LenProperties, ElementOfSeq
<1> DEFINE u == SubSeq(s, o + 1, o + Len(b))
<1>2. \A i \in o + 1 .. o + Len(b) : s[i] \in T
  BY <1>1 DEF Lies
<1>3. u \in Seq(T) /\ Len(u) = Len(b) /\ \A k \in 1 .. Len(b) : u[k] = s[o + k]
  <2>1. u \in Seq(T)
    BY <1>1, <1>2, SubSeqProperties
  <2>2. Len(u) = Len(b)
    BY <1>1
  <2>3. \A k \in 1 .. Len(b) : u[k] = s[o + k]
    BY <1>1
  <2> QED BY <2>1, <2>2, <2>3
<1> HIDE DEF u
<1>4. \A k \in 1 .. Len(u) : u[k] = b[k]
  BY <1>3 DEF Lies
<1>5. u = b
  BY <1>3, <1>4, SeqEqual
<1> QED BY <1>5 DEF u

\* Every stream on the way consists of bytes, and what lies in one lies in all
\* that follow.
LEMMA StreamsTyped ==
    ASSUME NEW ps \in Seq(Text!Piece), WellWritten(ps), NEW j \in 0 .. Len(ps)
    PROVE  Streams(ps)[j] \in Seq(Bytes)
<1> DEFINE n == Len(ps)
           s == Streams(ps)
           Wrong == {i \in 0 .. n : s[i] \notin Seq(Bytes)}
<1>1. n \in Nat
  BY LenProperties
<1>2. s[0] = <<>> /\ \A i \in 1 .. n : s[i] = s[i - 1] \o PieceBytes(ps, i)
  BY StreamsByPiece
<1>3. \A i \in 1 .. n : PieceBytes(ps, i) \in Seq(Bytes)
  BY PieceBytesTyped
<1> HIDE DEF s
<1>4. SUFFICES ASSUME Wrong # {} PROVE FALSE
  BY DEF s
<1>5. Wrong \subseteq Nat
  BY <1>1
<1>6. PICK m \in Wrong : \A h \in Wrong : m <= h
  <2> HIDE DEF Wrong
  <2> QED BY <1>4, <1>5, LeastNumber
<1>7. m \in 0 .. n /\ s[m] \notin Seq(Bytes)
  BY <1>6
<1>8. m # 0
  <2>1. <<>> \in Seq(Bytes)
    OBVIOUS
  <2> QED BY <1>2, <1>7, <2>1
<1>9. m \in 1 .. n /\ m - 1 \in 0 .. n /\ ~(m <= m - 1)
  BY <1>1, <1>7, <1>8
<1>10. s[m - 1] \in Seq(Bytes)
  <2>1. ~(m - 1 \in Wrong)
    <3> HIDE DEF Wrong
    <3> QED BY <1>6, <1>9
  <2> QED BY <1>9, <2>1
<1>11. s[m - 1] \o PieceBytes(ps, m) \in Seq(Bytes)
  BY <1>3, <1>9, <1>10, ConcatProperties
<1> QED BY <1>2, <1>7, <1>9, <1>11

LEMMA PieceLies ==
    ASSUME NEW ps \in Seq(Text!Piece), WellWritten(ps), NEW i \in 1 .. Len(ps)
    PROVE  /\ Lies(Streams(ps)[Len(ps)], Len(Streams(ps)[i - 1]), PieceBytes(ps, i))
           /\ Len(Streams(ps)[i]) = Len(Streams(ps)[i - 1]) + Len(PieceBytes(ps, i))
<1> DEFINE n == Len(ps)
           s == Streams(ps)
           b == PieceBytes(ps, i)
           o == Len(s[i - 1])
           Wrong == {j \in i .. n : ~Lies(s[j], o, b)}
<1>1. n \in Nat /\ i \in Nat /\ i <= n /\ i - 1 \in 0 .. n
  BY LenProperties
<1>2. \A j \in 1 .. n : s[j] = s[j - 1] \o PieceBytes(ps, j)
  BY StreamsByPiece
<1>3. \A j \in 1 .. n : PieceBytes(ps, j) \in Seq(Bytes)
  BY PieceBytesTyped
<1>4. \A j \in 0 .. n : s[j] \in Seq(Bytes)
  BY StreamsTyped
<1>5. b \in Seq(Bytes) /\ o \in Nat
  BY <1>1, <1>3, <1>4, LenProperties
<1>6. s[i] = s[i - 1] \o b
  BY <1>2
<1> HIDE DEF s, b
<1>7. Len(s[i]) = o + Len(b) /\ Lies(s[i], o, b)
  <2>1. s[i - 1] \in Seq(Bytes)
    BY <1>1, <1>4
  <2>2. Len(s[i - 1] \o b) = Len(s[i - 1]) + Len(b)
    BY <1>5, <2>1, ConcatProperties
  <2>3. Lies(s[i - 1] \o b, Len(s[i - 1]), b)
    BY <1>5, <2>1, LiesBehind
  <2> QED BY <1>6, <2>2, <2>3
<1> HIDE DEF o
<1>8. Wrong = {}
  <2>1. SUFFICES ASSUME Wrong # {} PROVE FALSE
    OBVIOUS
  <2>2. Wrong \subseteq Nat
    BY <1>1
  <2>3. PICK m \in Wrong : \A h \in Wrong : m <= h
    <3> HIDE DEF Wrong
    <3> QED BY <2>1, <2>2, LeastNumber
  <2>4. m \in i .. n /\ ~Lies(s[m], o, b)
    BY <2>3
  <2>5. m # i
    BY <1>7, <2>4
  <2>6. m \in 1 .. n /\ m - 1 \in i .. n /\ ~(m <= m - 1) /\ m - 1 \in 0 .. n
    BY <1>1, <2>4, <2>5
  <2>7. Lies(s[m - 1], o, b)
    <3>1. ~(m - 1 \in Wrong)
      <4> HIDE DEF Wrong
      <4> QED BY <2>3, <2>6
    <3> QED BY <2>6, <3>1
  <2>8. Lies(s[m - 1] \o PieceBytes(ps, m), o, b)
    BY <1>3, <1>4, <1>5, <2>6, <2>7, LiesFront
  <2> QED BY <1>2, <2>4, <2>6, <2>8
<1>9. Lies(s[n], o, b)
  <2>1. n \in i .. n
    BY <1>1
  <2> QED BY <1>8, <2>1
<1> QED BY <1>7, <1>9 DEF s, b, o

-----------------------------------------------------------------------------
(* What Unpack reads where a piece lies.                                   *)

\* The lowest bits of a command hold a count, or zero if it does not fit.
Holds(acc, n, mask) == acc % (mask + 1) = CountField(n, mask)

\* HANDLE_COUNT returns the count that was written, and stops behind it.
LEMMA CountRead ==
    ASSUME src \in Seq(Bytes), NEW n \in Nat \ {0}, NEW mask \in Masks, NEW acc \in Nat,
           Holds(acc, n, mask),
           NEW i \in Nat, Lies(src, i, CountBytes(n, mask))
    PROVE  /\ Count(acc, mask, i).n = n
           /\ Count(acc, mask, i).in = i + Len(CountBytes(n, mask))
<1>1. CASE n <= mask
  <2>1. CountField(n, mask) = n /\ CountBytes(n, mask) = <<>>
    BY <1>1, ShortCount
  <2>2. acc % (mask + 1) = n /\ n # 0
    BY <2>1 DEF Holds
  <2>3. Count(acc, mask, i) = [n |-> n, in |-> i]
    BY <2>2 DEF Count
  <2>4. i + Len(CountBytes(n, mask)) = i
    BY <2>1
  <2> QED BY <2>3, <2>4
<1>2. CASE n > mask
  <2> DEFINE zeroes == (n - mask - 1) \div 255
             rest == n - mask - 255 * zeroes
             b == CountBytes(n, mask)
             I == {k \in i + 1 .. Len(src) : src[k] # 0}
  <2>1. CountField(n, mask) = 0
    BY <1>2 DEF CountField, Masks
  <2>2. /\ zeroes \in Nat /\ rest \in Bytes \ {0}
        /\ b \in Seq(Bytes) /\ Len(b) = zeroes + 1
        /\ \A k \in 1 .. zeroes : b[k] = 0
        /\ b[zeroes + 1] = rest
    BY <1>2, LongCount
  <2>3. rest + 255 * zeroes + mask = n
    BY <2>2 DEF Masks
  <2> HIDE DEF zeroes, rest, b
  <2>4. rest \in Nat /\ rest # 0 /\ Len(src) \in Nat
    BY <2>2, LenProperties DEF Bytes
  <2>5. i + zeroes + 1 <= Len(src) /\ \A k \in 1 .. zeroes + 1 : src[i + k] = b[k]
    BY <2>2 DEF Lies, b
  <2>6. src[i + zeroes + 1] = rest
    <3>1. zeroes + 1 \in 1 .. zeroes + 1 /\ i + (zeroes + 1) = i + zeroes + 1
      BY <2>2
    <3> QED BY <2>2, <2>5, <3>1
  <2>7. ASSUME NEW k \in i + 1 .. i + zeroes PROVE src[k] = 0
    <3>1. k - i \in 1 .. zeroes /\ k - i \in 1 .. zeroes + 1 /\ i + (k - i) = k
      BY <2>2
    <3> QED BY <2>2, <2>5, <3>1
  <2>8. i + zeroes + 1 \in I
    BY <2>2, <2>4, <2>5, <2>6
  <2>9. \A k \in I : i + zeroes + 1 <= k
    <3>1. SUFFICES ASSUME NEW k \in I, ~(i + zeroes + 1 <= k) PROVE FALSE
      OBVIOUS
    <3>2. k \in i + 1 .. Len(src) /\ src[k] # 0
      OBVIOUS
    <3>3. k \in i + 1 .. i + zeroes
      BY <2>2, <2>4, <3>1, <3>2
    <3> QED BY <2>7, <3>2, <3>3
  <2>10. Min(I) = i + zeroes + 1
    <3>1. I \subseteq Int
      BY <2>4
    <3> HIDE DEF I
    <3>2. \A x \in I : (\A y \in I : x <= y) => x = i + zeroes + 1
      BY <2>2, <2>8, <2>9, <3>1
    <3> QED BY <2>8, <2>9, <3>2 DEF Min
  <2>11. Rest(i) = i + zeroes + 1
    BY <2>10 DEF Rest
  <2>12. acc % (mask + 1) = 0
    BY <2>1 DEF Holds
  <2>13. Count(acc, mask, i)
           = [n |-> 255 * (Rest(i) - i - 1) + src[Rest(i)] + mask, in |-> Rest(i)]
    BY <2>12 DEF Count
  <2>14. 255 * (Rest(i) - i - 1) + src[Rest(i)] + mask = n
    BY <2>2, <2>3, <2>4, <2>6, <2>11, SMTT(20) DEF Masks
  <2>15. i + Len(b) = i + zeroes + 1
    BY <2>2
  <2> QED BY <2>11, <2>13, <2>14, <2>15 DEF b
<1> QED BY <1>1, <1>2 DEF Masks

\* What 14 bits hold.
Offsets == {k \in Nat : k < 16384}

LEMMA WordTyped ==
    ASSUME NEW off \in Offsets, NEW lits \in 0 .. 3
    PROVE  Word16(4 * off + lits) \in Seq(Bytes) /\ Len(Word16(4 * off + lits)) = 2
<1> DEFINE w == 4 * off + lits
<1>1. w \in Nat /\ w < 65536
  BY DEF Offsets
<1> HIDE DEF w
<1>2. w % 256 \in Bytes /\ w \div 256 \in Bytes
  BY <1>1 DEF Bytes
<1>3. Word16(w) \in Seq(Bytes) /\ Len(Word16(w)) = 2
  BY <1>2 DEF Word16
<1> QED BY <1>3 DEF w

\* 16 bits, lowest first, of which Offset14 drops the lowest two.
LEMMA WordRead ==
    ASSUME src \in Seq(Bytes), NEW off \in Offsets, NEW lits \in 0 .. 3, NEW i \in Nat,
           Lies(src, i, Word16(4 * off + lits))
    PROVE  Offset14(i) = off /\ Byte(i) % 4 = lits
<1> DEFINE w == 4 * off + lits
<1>0. w \in Nat /\ w < 65536 /\ w \div 4 = off /\ w % 4 = lits
  BY DEF Offsets
<1>1. w \in Nat /\ w \div 4 = off /\ w % 4 = lits
  BY <1>0
<1> HIDE DEF w
<1>2. w % 256 \in Bytes /\ w \div 256 \in Bytes
  BY <1>0 DEF Bytes
<1>3. Word16(w) = <<w % 256, w \div 256>>
  BY DEF Word16
<1>4. Word16(w) \in Seq(Bytes) /\ Len(Word16(w)) = 2
  BY <1>2, <1>3
<1>5. src[i + 1] = w % 256 /\ src[i + 2] = w \div 256
  <2>1. Lies(src, i, Word16(w))
    BY DEF w
  <2>2. 1 \in 1 .. Len(Word16(w)) /\ 2 \in 1 .. Len(Word16(w))
    BY <1>4
  <2>3. src[i + 1] = Word16(w)[1] /\ src[i + 2] = Word16(w)[2]
    BY <2>1, <2>2 DEF Lies
  <2> QED BY <1>3, <2>3
<1>6. Byte(i) = w % 256 /\ Byte(i + 1) = w \div 256
  <2>1. Byte(i) = src[i + 1] /\ Byte(i + 1) = src[i + 2]
    BY DEF Byte
  <2> QED BY <1>5, <2>1
<1>7. Offset14(i) = ((w % 256) + 256 * (w \div 256)) \div 4
  BY <1>6 DEF Offset14
<1>8. (w % 256) + 256 * (w \div 256) = w /\ (w % 256) % 4 = w % 4
  BY <1>1
<1>9. Offset14(i) = off
  BY <1>1, <1>7, <1>8
<1>10. Byte(i) % 4 = lits
  BY <1>1, <1>6, <1>8
<1> QED BY <1>9, <1>10

\* cccbbbaa dddddddd
LEMMA NearRead ==
    ASSUME src \in Seq(Bytes), NEW p, Writable(p), p.kind = "near", NEW lits \in 0 .. 3,
           NEW o \in Nat, Lies(src, o, MatchBytes(p, lits))
    PROVE  /\ Len(MatchBytes(p, lits)) = 2
           /\ Byte(o) \in Nat /\ Byte(o) >= 64
           /\ Byte(o) \div 32 + 1 = p.n
           /\ 8 * Byte(o + 1) + ((Byte(o) \div 4) % 8) + 1 = p.dist
           /\ Byte(o) % 4 = lits
<1> DEFINE n == p.n - 1
           d == p.dist - 1
           f == 32 * n + 4 * (d % 8) + lits
<1>1. n \in 2 .. 7 /\ d \in Nat /\ n + 1 = p.n /\ d + 1 = p.dist
  BY WritableFacts DEF Text!IsRun
<1>2. MatchBytes(p, lits) = <<f, d \div 8>>
  BY DEF MatchBytes
<1>3. Byte(o) = f /\ Byte(o + 1) = d \div 8 /\ Len(MatchBytes(p, lits)) = 2
  <2> HIDE DEF f, d
  <2>1. Len(MatchBytes(p, lits)) = 2 /\ MatchBytes(p, lits)[1] = f /\ MatchBytes(p, lits)[2] = d \div 8
    BY <1>2
  <2>2. src[o + 1] = f /\ src[o + 2] = d \div 8
    BY <2>1 DEF Lies
  <2>3. Byte(o) = src[o + 1] /\ Byte(o + 1) = src[o + 2]
    BY DEF Byte
  <2> QED BY <2>1, <2>2, <2>3
<1> HIDE DEF n, d
<1>4. /\ f \in Nat /\ f >= 64 /\ f \div 32 = n /\ (f \div 4) % 8 = d % 8 /\ f % 4 = lits
      /\ 8 * (d \div 8) + (d % 8) = d
  <2>1. d % 8 \in 0 .. 7 /\ 8 * (d \div 8) + (d % 8) = d
    BY <1>1
  <2>2. ASSUME NEW e \in 0 .. 7, NEW g, g = 32 * n + 4 * e + lits
        PROVE  g \in Nat /\ g >= 64 /\ g \div 32 = n /\ (g \div 4) % 8 = e /\ g % 4 = lits
    <3>1. g \in Nat /\ g >= 64 /\ g \div 32 = n /\ g % 4 = lits
      BY <1>1, <2>2
    <3>2. g \div 4 = 8 * n + e
      BY <1>1, <2>2
    <3>3. (8 * n + e) % 8 = e
      BY <1>1
    <3> QED BY <3>1, <3>2, <3>3
  <2> QED BY <2>1, <2>2, ZenonT(30)
<1> HIDE DEF f
<1> QED BY <1>1, <1>3, <1>4

\* A match with a count of its own: a command, the count and a word.
LEMMA LiesThree ==
    ASSUME NEW T, NEW s \in Seq(T), NEW f \in T, NEW u \in Seq(T), NEW w \in Seq(T), NEW o \in Nat,
           Lies(s, o, (<<f>> \o u) \o w)
    PROVE  /\ s[o + 1] = f
           /\ Lies(s, o + 1, u)
           /\ Lies(s, o + 1 + Len(u), w)
           /\ Len((<<f>> \o u) \o w) = 1 + Len(u) + Len(w)
           /\ Len(u) \in Nat
<1> DEFINE h == <<f>>
           x == h \o u
<1>1. h \in Seq(T) /\ Len(h) = 1 /\ h[1] = f /\ Lies(s, o, x \o w)
  OBVIOUS
<1> HIDE DEF h
<1>2. x \in Seq(T) /\ Len(x) = 1 + Len(u) /\ Len(u) \in Nat
  BY <1>1, ConcatProperties, LenProperties, ZenonT(30)
<1>3. Lies(s, o, h \o u) /\ Lies(s, o + Len(x), w)
  <2> HIDE DEF x
  <2>1. Lies(s, o, x) /\ Lies(s, o + Len(x), w)
    BY <1>1, <1>2, LiesSplit
  <2> QED BY <2>1 DEF x
<1>4. Lies(s, o, h) /\ Lies(s, o + Len(h), u)
  BY <1>1, <1>3, LiesSplit
<1>5. s[o + 1] = f
  BY <1>1, <1>4 DEF Lies
<1>6. Len(x \o w) = Len(x) + Len(w) /\ Len(w) \in Nat
  BY <1>2, ConcatProperties, LenProperties
<1>7. o + Len(x) = o + 1 + Len(u) /\ o + Len(h) = o + 1
  BY <1>1, <1>2
<1>8. Lies(s, o + 1, u) /\ Lies(s, o + 1 + Len(u), w)
  BY <1>3, <1>4, <1>7
<1>9. Len(x \o w) = 1 + Len(u) + Len(w)
  BY <1>2, <1>6
<1> QED BY <1>2, <1>5, <1>8, <1>9 DEF x, h

\* Together: a command with the bits of a count, the rest of the count, a word.
Written(b, f, u, w, n, mask, off, lits) ==
    /\ u \in Seq(Bytes) /\ w \in Seq(Bytes) /\ Holds(f, n, mask)
    /\ b = (<<f>> \o u) \o w
    /\ u = CountBytes(n, mask) /\ w = Word16(4 * off + lits)

LEMMA CountedMatch ==
    ASSUME src \in Seq(Bytes), NEW f \in Bytes, NEW n \in Nat \ {0}, NEW mask \in Masks,
           NEW off \in Offsets, NEW lits \in 0 .. 3, NEW b, NEW u, NEW w,
           Written(b, f, u, w, n, mask, off, lits), NEW o \in Nat, Lies(src, o, b)
    PROVE  \E i \in Nat : /\ Byte(o) = f /\ i > o /\ i + 2 = o + Len(b)
                          /\ Count(f, mask, o + 1).n = n /\ Count(f, mask, o + 1).in = i
                          /\ Offset14(i) = off /\ Byte(i) % 4 = lits
<1>1. u \in Seq(Bytes) /\ w \in Seq(Bytes)
  BY DEF Written
<1>2. /\ src[o + 1] = f
      /\ Lies(src, o + 1, u)
      /\ Lies(src, o + 1 + Len(u), w)
      /\ Len(b) = 1 + Len(u) + Len(w)
      /\ Len(u) \in Nat
  <2>1. b = (<<f>> \o u) \o w
    BY DEF Written
  <2> QED BY <1>1, <2>1, LiesThree
<1> DEFINE a == o + 1
           i == a + Len(u)
<1>3. Len(w) = 2
  BY WordTyped DEF Written
<1>4. a \in Nat /\ i \in Nat /\ i > o /\ i + 2 = o + Len(b)
  BY <1>2, <1>3
<1>5. Byte(o) = f
  BY <1>2 DEF Byte
<1>6. Lies(src, a, u) /\ Lies(src, i, w)
  BY <1>2
<1> HIDE DEF a
<1>7. Count(f, mask, a).n = n /\ Count(f, mask, a).in = i /\ Offset14(i) = off /\ Byte(i) % 4 = lits
  <2>1. u = CountBytes(n, mask) /\ w = Word16(4 * off + lits) /\ f \in Nat /\ Holds(f, n, mask)
    BY DEF Written, Bytes
  <2>2. Lies(src, a, CountBytes(n, mask)) /\ Lies(src, i, Word16(4 * off + lits))
    BY <1>6, <2>1
  <2>3. Count(f, mask, a).n = n /\ Count(f, mask, a).in = a + Len(CountBytes(n, mask))
    BY <1>4, <2>1, <2>2, CountRead
  <2>4. i = a + Len(CountBytes(n, mask)) /\ i \in Nat
    BY <1>4, <2>1
  <2> HIDE DEF i
  <2>5. Offset14(i) = off /\ Byte(i) % 4 = lits
    BY <2>2, <2>4, WordRead
  <2> QED BY <2>3, <2>4, <2>5
<1> HIDE DEF i
<1> QED BY <1>4, <1>5, <1>7 DEF a

\* 001aaaaa oooooooooooooobb
LEMMA MidRead ==
    ASSUME src \in Seq(Bytes), NEW p, Writable(p), p.kind = "mid", NEW lits \in 0 .. 3,
           NEW o \in Nat, Lies(src, o, MatchBytes(p, lits))
    PROVE  LET c == Count(Byte(o), 31, o + 1)
           IN /\ Byte(o) \in Nat /\ Byte(o) >= 32 /\ Byte(o) < 64
              /\ c.n + 2 = p.n /\ c.in \in Nat /\ c.in > o
              /\ Offset14(c.in) + 1 = p.dist /\ Byte(c.in) % 4 = lits
              /\ c.in + 2 = o + Len(MatchBytes(p, lits))
<1> DEFINE n == p.n - 2
           d == p.dist - 1
           f == 32 + CountField(n, 31)
<1>1. n \in Nat \ {0} /\ n + 2 = p.n /\ d \in Offsets /\ d + 1 = p.dist
  BY WritableFacts, SMTT(20) DEF Text!IsRun, Offsets
<1>2. MatchBytes(p, lits) = (<<f>> \o CountBytes(n, 31)) \o Word16(4 * d + lits)
  BY DEF MatchBytes
<1> HIDE DEF n, d
<1>3. CountField(n, 31) \in Nat /\ CountField(n, 31) <= 31
  <2>1. \A x \in Nat : CountField(x, 31) \in Nat /\ CountField(x, 31) <= 31
    BY CountTyped DEF Masks
  <2> QED BY <1>1, <2>1
<1>4. f \in Nat /\ f >= 32 /\ f < 64 /\ f % 32 = CountField(n, 31)
  <2> DEFINE k == CountField(n, 31)
  <2> HIDE DEF k
  <2>1. k \in Nat /\ k <= 31 /\ f = 32 + k
    BY <1>3 DEF k
  <2>2. f \in Nat /\ f >= 32 /\ f < 64 /\ f % 32 = k
    BY <2>1
  <2> QED BY <2>2 DEF k
<1> DEFINE m == 31
           u == CountBytes(n, m)
           w == Word16(4 * d + lits)
           b == MatchBytes(p, lits)
<1>5. m \in Masks /\ Holds(f, n, m) /\ f \in Bytes
  BY <1>4 DEF Holds, Masks, Bytes
<1>6. b = (<<f>> \o u) \o w
  BY <1>2
<1> HIDE DEF f, m
<1>7. Written(b, f, u, w, n, m, d, lits)
  BY <1>6, <1>1, <1>5, CountTyped, WordTyped DEF Written
<1>8. Lies(src, o, b)
  OBVIOUS
<1> HIDE DEF u, w, b
<1>9. \E i \in Nat : /\ Byte(o) = f /\ i > o /\ i + 2 = o + Len(b)
                     /\ Count(f, m, o + 1).n = n /\ Count(f, m, o + 1).in = i
                     /\ Offset14(i) = d /\ Byte(i) % 4 = lits
  <2>1. f \in Bytes /\ n \in Nat \ {0} /\ m \in Masks /\ d \in Offsets
    BY <1>1, <1>5
  <2> QED BY <1>7, <1>8, <2>1, CountedMatch
<1> DEFINE c == Count(f, m, o + 1)
<1>12. c.in \in Nat /\ c.in > o /\ c.in + 2 = o + Len(b) /\ c.n = n /\ Offset14(c.in) = d /\ Byte(c.in) % 4 = lits
  BY <1>9
<1>13. Byte(o) = f
  BY <1>9
<1> HIDE DEF c
<1>18. Count(Byte(o), 31, o + 1) = c
  BY <1>13 DEF c, m
<1> QED BY <1>1, <1>4, <1>12, <1>13, <1>18 DEF b

\* 0001baaa oooooooooooooobb
FarOff(f, i) == 2048 * (f - (f % 8) - 16) + Offset14(i)

LEMMA FarRead ==
    ASSUME src \in Seq(Bytes), NEW p, Writable(p), p.kind = "far", NEW lits \in 0 .. 3,
           NEW o \in Nat, Lies(src, o, MatchBytes(p, lits))
    PROVE  LET c == Count(Byte(o), 7, o + 1)
               off == FarOff(Byte(o), c.in)
           IN /\ Byte(o) \in Nat /\ Byte(o) >= 16 /\ Byte(o) < 32
              /\ c.n + 2 = p.n /\ c.in \in Nat /\ c.in > o
              /\ off # 0 /\ off + VeryFarBase = p.dist /\ Byte(c.in) % 4 = lits
              /\ c.in + 2 = o + Len(MatchBytes(p, lits))
<1> DEFINE n == p.n - 2
           e == p.dist - VeryFarBase
           h == e \div 16384
           d == e % 16384
           f == 16 + 8 * h + CountField(n, 7)
<1>0. e \in Nat /\ e < 32768
  BY WritableFacts, BasesAssumption
<1>1. n \in Nat \ {0} /\ n + 2 = p.n /\ e # 0 /\ e + VeryFarBase = p.dist
  BY WritableFacts, BasesAssumption, SMTT(20) DEF Text!IsRun
<1>2. MatchBytes(p, lits) = (<<f>> \o CountBytes(n, 7)) \o Word16(4 * d + lits)
  BY DEF MatchBytes
<1> HIDE DEF n, e
<1>10. h \in 0 .. 1 /\ d \in Offsets
  BY <1>0 DEF Offsets
<1>11. 16384 * h + d = e
  BY <1>0
<1> HIDE DEF d, h
<1>3. CountField(n, 7) \in Nat /\ CountField(n, 7) <= 7
  <2>1. \A x \in Nat : CountField(x, 7) \in Nat /\ CountField(x, 7) <= 7
    BY CountTyped DEF Masks
  <2> QED BY <1>1, <2>1
<1>4. f \in Nat /\ f >= 16 /\ f < 32 /\ f % 8 = CountField(n, 7) /\ f - (f % 8) - 16 = 8 * h
  <2> DEFINE k == CountField(n, 7)
  <2> HIDE DEF k
  <2>1. k \in Nat /\ k <= 7 /\ f = 16 + 8 * h + k
    BY <1>3 DEF k
  <2>2. CASE h = 0
    <3>1. f = 16 + k
      BY <2>1, <2>2
    <3>2. f \in Nat /\ f >= 16 /\ f < 32 /\ f % 8 = k
      BY <2>1, <3>1
    <3> QED BY <2>1, <2>2, <3>2 DEF k
  <2>3. CASE h = 1
    <3>1. f = 24 + k
      BY <2>1, <2>3
    <3>2. f \in Nat /\ f >= 16 /\ f < 32 /\ f % 8 = k
      BY <2>1, <3>1
    <3> QED BY <2>1, <2>3, <3>2 DEF k
  <2> QED BY <1>10, <2>2, <2>3
<1> DEFINE m == 7
           u == CountBytes(n, m)
           w == Word16(4 * d + lits)
           b == MatchBytes(p, lits)
<1>5. m \in Masks /\ Holds(f, n, m) /\ f \in Bytes
  BY <1>4 DEF Holds, Masks, Bytes
<1>6. b = (<<f>> \o u) \o w
  BY <1>2
<1> HIDE DEF f, m
<1>7. Written(b, f, u, w, n, m, d, lits)
  BY <1>6, <1>1, <1>5, <1>10, CountTyped, WordTyped DEF Written
<1>8. Lies(src, o, b)
  OBVIOUS
<1> HIDE DEF u, w, b
<1>9. \E i \in Nat : /\ Byte(o) = f /\ i > o /\ i + 2 = o + Len(b)
                     /\ Count(f, m, o + 1).n = n /\ Count(f, m, o + 1).in = i
                     /\ Offset14(i) = d /\ Byte(i) % 4 = lits
  <2>1. f \in Bytes /\ n \in Nat \ {0} /\ m \in Masks /\ d \in Offsets
    BY <1>1, <1>5, <1>10
  <2> QED BY <1>7, <1>8, <2>1, CountedMatch
<1> DEFINE c == Count(f, m, o + 1)
<1>12. c.in \in Nat /\ c.in > o /\ c.in + 2 = o + Len(b) /\ c.n = n /\ Offset14(c.in) = d /\ Byte(c.in) % 4 = lits
  BY <1>9
<1>13. Byte(o) = f
  BY <1>9
<1> HIDE DEF c
<1>18. Count(Byte(o), 7, o + 1) = c
  BY <1>13 DEF c, m
<1>16. 2048 * (f - (f % 8) - 16) + d = e
  BY <1>4, <1>10, <1>11 DEF Offsets
<1>19. FarOff(f, c.in) = e
  BY <1>12, <1>16 DEF FarOff
<1> QED BY <1>1, <1>4, <1>12, <1>13, <1>18, <1>19 DEF b

\* 0000ooaa oooooooo, after literals
LEMMA AltRead ==
    ASSUME src \in Seq(Bytes), NEW p, Writable(p), p.kind = "alt", NEW lits \in 0 .. 3,
           NEW o \in Nat, Lies(src, o, MatchBytes(p, lits))
    PROVE  /\ Len(MatchBytes(p, lits)) = 2
           /\ Byte(o) \in Nat /\ Byte(o) < 16
           /\ p.n = 3
           /\ Byte(o) \div 4 + 4 * Byte(o + 1) + FarBase = p.dist
           /\ Byte(o) % 4 = lits
<1> DEFINE d == p.dist - FarBase
           f == 4 * (d % 4) + lits
<1>1. p.n = 3 /\ d \in Nat /\ d + FarBase = p.dist
  BY WritableFacts, BasesAssumption
<1>2. MatchBytes(p, lits) = <<f, d \div 4>>
  BY DEF MatchBytes
<1>3. Byte(o) = f /\ Byte(o + 1) = d \div 4 /\ Len(MatchBytes(p, lits)) = 2
  <2> HIDE DEF f, d
  <2>1. Len(MatchBytes(p, lits)) = 2 /\ MatchBytes(p, lits)[1] = f /\ MatchBytes(p, lits)[2] = d \div 4
    BY <1>2
  <2>2. src[o + 1] = f /\ src[o + 2] = d \div 4
    BY <2>1 DEF Lies
  <2>3. Byte(o) = src[o + 1] /\ Byte(o + 1) = src[o + 2]
    BY DEF Byte
  <2> QED BY <2>1, <2>2, <2>3
<1> HIDE DEF d
<1>4. f \in Nat /\ f < 16 /\ f % 4 = lits /\ f \div 4 + 4 * (d \div 4) = d
  BY <1>1
<1> HIDE DEF f
<1> QED BY <1>1, <1>3, <1>4


-----------------------------------------------------------------------------
(* What lies in src.                                                       *)

\* The stream Unpack is given: written by the packer of the game, perhaps with
\* a trailer, which is not counted.
IsStream ==
    /\ pieces \in Seq(Text!Piece) /\ WellWritten(pieces)
    /\ \E t \in {<<>>, Trailer} : src = Encode(pieces) \o t
    /\ srclen = Len(Encode(pieces))

\* Where the piece behind the first d pieces lies.
Place(d) == Len(Streams(pieces)[d])

LEMMA EndTyped ==
    /\ EndMarker \in Seq(Bytes) /\ Len(EndMarker) = 3
    /\ EndMarker[1] = 17 /\ EndMarker[2] = 0 /\ EndMarker[3] = 0
<1>1. 17 \in Bytes /\ 0 \in Bytes
  BY DEF Bytes
<1> QED BY <1>1 DEF EndMarker

LEMMA TrailerTyped ==
    /\ Trailer \in Seq(Bytes) /\ Len(Trailer) = 8
    /\ Trailer[5] = 17 /\ Trailer[6] = 16 /\ Trailer[7] = 0 /\ Trailer[8] = 0
<1>1. 17 \in Bytes /\ 0 \in Bytes /\ 9 \in Bytes /\ 16 \in Bytes
  BY DEF Bytes
<1> QED BY <1>1 DEF Trailer

LEMMA EncodeTyped ==
    ASSUME NEW ps \in Seq(Text!Piece), WellWritten(ps)
    PROVE  /\ Encode(ps) \in Seq(Bytes)
           /\ Len(Encode(ps)) = Len(Streams(ps)[Len(ps)]) + 3
           /\ Len(Streams(ps)[Len(ps)]) \in Nat
           /\ Lies(Encode(ps), Len(Streams(ps)[Len(ps)]), EndMarker)
<1> DEFINE s == Streams(ps)[Len(ps)]
<1>1. s \in Seq(Bytes)
  BY StreamsTyped, LenProperties
<1>2. Encode(ps) = s \o EndMarker
  BY DEF Encode
<1> HIDE DEF s
<1>3. /\ s \o EndMarker \in Seq(Bytes) /\ Len(s \o EndMarker) = Len(s) + 3 /\ Len(s) \in Nat
      /\ Lies(s \o EndMarker, Len(s), EndMarker)
  <2>1. EndMarker \in Seq(Bytes) /\ Len(EndMarker) = 3
    BY EndTyped
  <2>2. Lies(s \o EndMarker, Len(s), EndMarker)
    BY <1>1, <2>1, LiesBehind
  <2>3. s \o EndMarker \in Seq(Bytes) /\ Len(s \o EndMarker) = Len(s) + Len(EndMarker)
    BY <1>1, <2>1, ConcatProperties
  <2>4. Len(s) \in Nat
    BY <1>1, LenProperties
  <2> QED BY <2>1, <2>2, <2>3, <2>4
<1> QED BY <1>2, <1>3 DEF s

\* Every piece lies in its place, the end marker behind the last one.
LEMMA StreamFacts ==
    ASSUME IsStream
    PROVE  /\ src \in Seq(Bytes) /\ Len(pieces) \in Nat
           /\ \A i \in 1 .. Len(pieces) :
                /\ Lies(src, Place(i - 1), PieceBytes(pieces, i))
                /\ PieceBytes(pieces, i) \in Seq(Bytes)
                /\ Place(i) = Place(i - 1) + Len(PieceBytes(pieces, i))
                /\ pieces[i] \in Text!Piece /\ Writable(pieces[i])
           /\ \A d \in 0 .. Len(pieces) : Place(d) \in Nat /\ Place(d) + 3 <= srclen
           /\ Place(0) = 0
           /\ Lies(src, Place(Len(pieces)), EndMarker)
           /\ srclen = Place(Len(pieces)) + 3
           /\ Place(Len(pieces)) \in Nat /\ srclen \in Nat
<1> DEFINE n == Len(pieces)
           s == Streams(pieces)
           e == Encode(pieces)
<1>1. pieces \in Seq(Text!Piece) /\ WellWritten(pieces)
  BY DEF IsStream
<1>2. PICK t \in {<<>>, Trailer} : src = e \o t
  BY DEF IsStream
<1>3. t \in Seq(Bytes)
  <2>1. <<>> \in Seq(Bytes) /\ Trailer \in Seq(Bytes)
    BY TrailerTyped
  <2> QED BY <2>1
<1>4. n \in Nat /\ DOMAIN pieces = 1 .. n /\ \A i \in 1 .. n : pieces[i] \in Text!Piece /\ Writable(pieces[i])
  BY <1>1, LenProperties, ElementOfSeq DEF WellWritten
<1>5. e \in Seq(Bytes) /\ Len(e) = Place(n) + 3 /\ Place(n) \in Nat /\ Lies(e, Place(n), EndMarker)
  BY <1>1, EncodeTyped DEF Place
<1>6. srclen = Place(n) + 3
  BY <1>5 DEF IsStream
<1>7. s[n] \in Seq(Bytes) /\ e = s[n] \o EndMarker
  BY <1>1, <1>4, StreamsTyped DEF Encode
<1>8. src \in Seq(Bytes) /\ Lies(src, Place(n), EndMarker)
  <2> HIDE DEF e
  <2> QED BY <1>2, <1>3, <1>5, EndTyped, LiesFront, ConcatProperties
<1>9. \A d \in 0 .. n : s[d] \in Seq(Bytes) /\ Place(d) \in Nat
  BY <1>1, StreamsTyped, LenProperties DEF Place
<1>10. \A i \in 1 .. n : PieceBytes(pieces, i) \in Seq(Bytes)
  BY <1>1, PieceBytesTyped
<1>11. \A i \in 1 .. n : /\ Lies(s[n], Place(i - 1), PieceBytes(pieces, i))
                         /\ Place(i) = Place(i - 1) + Len(PieceBytes(pieces, i))
  BY <1>1, PieceLies DEF Place
<1>12. Place(0) = 0
  BY <1>1, StreamsByPiece DEF Place
<1>13. \A i \in 1 .. n : Place(i) <= Place(n)
  BY <1>11 DEF Lies, Place
<1>14. \A i \in 1 .. n : Lies(src, Place(i - 1), PieceBytes(pieces, i))
  <2>1. SUFFICES ASSUME NEW i \in 1 .. n PROVE Lies(src, Place(i - 1), PieceBytes(pieces, i))
    OBVIOUS
  <2> DEFINE b == PieceBytes(pieces, i)
             o == Place(i - 1)
  <2>2. o \in Nat /\ b \in Seq(Bytes) /\ Lies(s[n], o, b)
    <3>1. i - 1 \in 0 .. n
      BY <1>4
    <3> QED BY <1>9, <1>10, <1>11, <3>1
  <2> HIDE DEF b, o, e, s
  <2>3. Lies(e, o, b)
    BY <1>7, <2>2, EndTyped, LiesFront
  <2>4. Lies(e \o t, o, b)
    BY <1>3, <1>5, <2>2, <2>3, LiesFront
  <2> QED BY <1>2, <2>4 DEF b, o
<1>15. \A d \in 0 .. n : Place(d) + 3 <= srclen
  <2>1. SUFFICES ASSUME NEW d \in 0 .. n PROVE Place(d) <= Place(n)
    BY <1>4, <1>6, <1>9
  <2>2. CASE d = 0
    BY <1>5, <1>12, <2>2
  <2>3. CASE d # 0
    BY <1>4, <1>13, <2>3
  <2> QED BY <2>2, <2>3
<1>16. Place(n) \in Nat /\ srclen \in Nat
  BY <1>5, <1>6
<1> QED BY <1>4, <1>6, <1>8, <1>9, <1>10, <1>11, <1>12, <1>14, <1>15, <1>16

\* A match, and the number of literals it counts.
LEMMA MatchHere ==
    ASSUME IsStream, NEW i \in 1 .. Len(pieces), ~Text!IsRun(pieces[i])
    PROVE  /\ src \in Seq(Bytes) /\ Writable(pieces[i]) /\ Place(i - 1) \in Nat
           /\ LitsBehind(pieces, i) \in 0 .. 3
           /\ Lies(src, Place(i - 1), MatchBytes(pieces[i], LitsBehind(pieces, i)))
           /\ Place(i) = Place(i - 1) + Len(MatchBytes(pieces[i], LitsBehind(pieces, i)))
<1>1. PieceBytes(pieces, i) = MatchBytes(pieces[i], LitsBehind(pieces, i))
  BY DEF PieceBytes
<1>2. LitsBehind(pieces, i) \in 0 .. 3
  BY LitsTyped DEF IsStream
<1>3. i - 1 \in 0 .. Len(pieces)
  BY StreamFacts
<1> QED BY <1>1, <1>2, <1>3, StreamFacts

\* A run: what introduces it, and its literals.
LEMMA RunHere ==
    ASSUME IsStream, NEW i \in 1 .. Len(pieces), Text!IsRun(pieces[i]),
           NEW p, p = pieces[i], NEW o, o = Place(i - 1), NEW t, t = Text!Texts(pieces)[i - 1]
    PROVE  /\ src \in Seq(Bytes) /\ Writable(p) /\ o \in Nat
           /\ RunBytes(p) \in Seq(Bytes) /\ Lies(src, o, RunBytes(p))
           /\ o + Len(RunBytes(p)) \in Nat
           /\ SubSeq(src, o + Len(RunBytes(p)) + 1, o + Len(RunBytes(p)) + p.n) = Text!Literals(p.n, Len(t))
           /\ Place(i) = o + Len(RunBytes(p)) + p.n
           /\ Place(i) <= srclen
<1> DEFINE r == RunBytes(p)
           l == Text!Literals(p.n, Len(t))
<1>1. i \in Nat /\ i - 1 \in 0 .. Len(pieces) /\ i \in 0 .. Len(pieces)
  BY StreamFacts
<1>2. src \in Seq(Bytes) /\ Writable(p) /\ o \in Nat /\ Place(i) \in Nat /\ Place(i) <= srclen
  <2>1. srclen \in Nat /\ Place(i) \in Nat /\ Place(i) + 3 <= srclen
    BY <1>1, StreamFacts
  <2>2. src \in Seq(Bytes) /\ Writable(p) /\ o \in Nat
    BY <1>1, StreamFacts
  <2> QED BY <2>1, <2>2
<1>3. t \in Seq(Bytes)
  BY <1>1, TextsTyped DEF IsStream
<1>4. r \in Seq(Bytes) /\ Len(r) \in Nat
  BY <1>2, RunBytesTyped, LenProperties
<1>5. p.n \in Nat /\ l \in Seq(Bytes) /\ Len(l) = p.n
  <2>1. p.n \in Nat /\ Len(t) \in Nat
    BY <1>2, <1>3, WritableFacts, LenProperties
  <2> QED BY <2>1, LiteralsTyped
<1>6. PieceBytes(pieces, i) = r \o l
  BY DEF PieceBytes
<1>7. Lies(src, o, r \o l) /\ Place(i) = o + Len(r \o l)
  BY <1>6, StreamFacts
<1> HIDE DEF r, l
<1>8. Lies(src, o, r) /\ Lies(src, o + Len(r), l)
  BY <1>2, <1>4, <1>5, <1>7, LiesSplit
<1>9. Len(r \o l) = Len(r) + Len(l)
  BY <1>4, <1>5, ConcatProperties
<1> DEFINE q == o + Len(r)
<1>10. q \in Nat /\ Lies(src, q, l) /\ Place(i) = q + p.n
  BY <1>2, <1>4, <1>5, <1>7, <1>8, <1>9, SMTT(20)
<1> HIDE DEF q
<1>11. SubSeq(src, q + 1, q + Len(l)) = l
  BY <1>2, <1>5, <1>10, LiesCopied
<1>12. SubSeq(src, q + 1, q + p.n) = l
  BY <1>5, <1>11
<1> QED BY <1>2, <1>4, <1>8, <1>10, <1>12 DEF r, l, q

\* A run's command is below 0x10, and its count is read as it was written.
LEMMA RunRead ==
    ASSUME src \in Seq(Bytes), NEW p, Writable(p), p.kind = "lit", p.n > 3,
           NEW o \in Nat, Lies(src, o, RunBytes(p))
    PROVE  /\ Byte(o) \in Nat /\ Byte(o) < 16
           /\ Count(Byte(o), 15, o + 1).n + 3 = p.n
           /\ Count(Byte(o), 15, o + 1).in = o + Len(RunBytes(p))
<1> DEFINE n == p.n - 3
           f == CountField(n, 15)
           u == CountBytes(n, 15)
<1>1. n \in Nat \ {0} /\ n + 3 = p.n
  BY WritableFacts
<1>2. RunBytes(p) = <<f>> \o u
  BY <1>1 DEF RunBytes
<1> HIDE DEF n
<1>3. 15 \in Masks
  BY DEF Masks
<1>4. f \in Nat /\ f <= 15 /\ u \in Seq(Bytes)
  BY <1>1, <1>3, CountTyped
<1>5. f \in Bytes /\ f % 16 = f
  <2> HIDE DEF f, u
  <2>1. f \in Nat /\ f <= 15
    BY <1>4
  <2>2. f \in Bytes
    BY <2>1 DEF Bytes
  <2>3. f % 16 = f
    BY <2>1
  <2> QED BY <2>2, <2>3
<1>6. Holds(f, n, 15)
  BY <1>5 DEF Holds
<1> DEFINE h == <<f>>
<1>7. h \in Seq(Bytes) /\ Len(h) = 1 /\ h[1] = f /\ Lies(src, o, h \o u)
  BY <1>2, <1>5
<1> HIDE DEF h, u, f
<1>8. Lies(src, o, h) /\ Lies(src, o + Len(h), u)
  BY <1>4, <1>7, LiesSplit
<1>9. src[o + 1] = f
  BY <1>7, <1>8 DEF Lies
<1>10. Byte(o) = f
  BY <1>9 DEF Byte
<1>11. Len(h \o u) = 1 + Len(u) /\ Len(u) \in Nat
  BY <1>4, <1>7, ConcatProperties, LenProperties, ZenonT(30)
<1> DEFINE a == o + 1
<1>12. a \in Nat /\ Lies(src, a, u)
  BY <1>7, <1>8
<1>13. Len(RunBytes(p)) = 1 + Len(u) /\ o + Len(RunBytes(p)) = a + Len(u)
  BY <1>2, <1>11 DEF h, f, u
<1> HIDE DEF a
<1>14. Count(f, 15, a).n = n /\ Count(f, 15, a).in = a + Len(u)
  <2>1. Lies(src, a, CountBytes(n, 15))
    BY <1>12 DEF u
  <2>2. Count(f, 15, a).n = n /\ Count(f, 15, a).in = a + Len(CountBytes(n, 15))
    BY <1>1, <1>3, <1>4, <1>6, <1>12, <2>1, CountRead
  <2> QED BY <2>2 DEF u
<1> QED BY <1>1, <1>4, <1>10, <1>13, <1>14 DEF a

\* The first byte is the length of a run.
LEMMA HeadRead ==
    ASSUME src \in Seq(Bytes), NEW p, Writable(p), p.kind = "head",
           NEW o \in Nat, Lies(src, o, RunBytes(p))
    PROVE  Byte(o) = 17 + p.n /\ Len(RunBytes(p)) = 1
<1>1. RunBytes(p) = <<17 + p.n>>
  BY DEF RunBytes
<1>2. Len(RunBytes(p)) = 1 /\ RunBytes(p)[1] = 17 + p.n
  BY <1>1
<1>3. src[o + 1] = 17 + p.n
  BY <1>2 DEF Lies
<1> QED BY <1>2, <1>3 DEF Byte

\* The end marker is a far match of offset zero.
LEMMA EndRead ==
    ASSUME IsStream, NEW o, o = Place(Len(pieces))
    PROVE  /\ o \in Nat /\ Byte(o) = 17 /\ srclen = o + 3
           /\ Count(17, 7, o + 1) = [n |-> 1, in |-> o + 1]
           /\ Offset14(o + 1) = 0
<1>1. o \in Nat /\ srclen = o + 3 /\ Lies(src, o, EndMarker)
  BY StreamFacts
<1>2. src[o + 1] = 17 /\ src[o + 2] = 0 /\ src[o + 3] = 0
  BY <1>1, EndTyped DEF Lies
<1>3. Byte(o) = 17 /\ Byte(o + 1) = 0 /\ Byte(o + 2) = 0
  BY <1>1, <1>2 DEF Byte
<1>4. Offset14(o + 1) = 0
  <2>1. Byte(o + 1 + 1) = 0
    BY <1>1, <1>2 DEF Byte
  <2> QED BY <1>3, <2>1 DEF Offset14
<1>5. Count(17, 7, o + 1) = [n |-> 1, in |-> o + 1]
  BY DEF Count
<1> QED BY <1>1, <1>3, <1>4, <1>5

-----------------------------------------------------------------------------
(* The inductive invariant.                                                *)

IsMatch(p) == p.kind \in {"near", "mid", "far"}

\* What the label says of the bytes that are read next and of the next piece,
\* if there is one: label, pieces done, bytes read and command.
Stands(label, d, i, c) ==
    LET o == Place(d)
        more == d < Len(pieces)
        next == pieces[d + 1]
    IN \/ label = "first" /\ d = 0 /\ i = o
       \/ /\ label = "standard" /\ i = o
          /\ more => IsMatch(next) \/ (next.kind = "lit" /\ next.n > 3)
       \/ /\ label = "alternative" /\ i = o
          /\ more => IsMatch(next) \/ next.kind = "alt"
       \/ /\ label = "offset" /\ i = o
          /\ d > 0 /\ ~Text!IsRun(pieces[d])
          /\ i >= 2 /\ Byte(i - 2) % 4 = LitsBehind(pieces, d)
       \/ /\ label = "command" /\ i = o + 1 /\ c = Byte(o)
          /\ more => IsMatch(next)
       \/ label = "done" /\ d = Len(pieces) /\ i = srclen

\* The text is that of the pieces done, and the machine stands where the next
\* one begins.
IInv ==
    /\ IsStream
    /\ done \in 0 .. Len(pieces)
    /\ text = Text!Texts(pieces)[done]
    /\ read \in Int /\ 1 <= read /\ read <= Len(text) + 1
    /\ code \in Nat /\ code < 256
    /\ Stands(at, done, in, code)

\* The stream does not change, so a state is judged by the same bytes.
LEMMA StreamStays ==
    ASSUME IsStream, Stream, Stands(at', done', in', code'),
           done' \in 0 .. Len(pieces), text' = Text!Texts(pieces)[done'],
           read' \in Int, 1 <= read', read' <= Len(text') + 1,
           code' \in Nat, code' < 256
    PROVE  IInv'
<1>1. pieces' = pieces /\ src' = src /\ srclen' = srclen
  BY DEF Stream
<1>2. IsStream'
  BY <1>1 DEF IsStream
<1>3. Stands(at, done, in, code)'
  BY <1>1 DEF Stands, Place, Byte
<1> QED BY <1>1, <1>2, <1>3 DEF IInv

\* Putting the next piece behind the text is a step of PackedText.
LEMMA TextGrows ==
    ASSUME IInv, done < Len(pieces), UNCHANGED pieces, done' = done + 1,
           text' = Text!Extend(text, pieces[done + 1])
    PROVE  /\ Text!Next
           /\ done' \in 0 .. Len(pieces) /\ done' > 0
           /\ text' = Text!Texts(pieces)[done']
           /\ text \in Seq(Bytes) /\ Len(text) \in Nat /\ Len(text') \in Nat /\ Len(text) <= Len(text')
           /\ ~Text!IsRun(pieces[done + 1]) => pieces[done + 1].dist \in 1 .. Len(text)
<1> DEFINE n == Len(pieces)
           p == pieces[done + 1]
<1>1. IsStream /\ n \in Nat /\ done \in 0 .. n /\ text = Text!Texts(pieces)[done]
  BY StreamFacts DEF IInv
<1>2. done + 1 \in 1 .. n /\ done + 1 \in 0 .. n /\ done + 1 - 1 = done
  BY <1>1
<1>3. pieces \in Seq(Text!Piece) /\ WellWritten(pieces) /\ DOMAIN pieces = 1 .. n
  BY <1>1, LenProperties DEF IsStream
<1>4. text \in Seq(Bytes)
  BY <1>1, <1>3, TextsTyped
<1>5. Writable(p) /\ p.dist <= Len(text)
  BY <1>1, <1>2, <1>3 DEF WellWritten
<1>6. Text!Texts(pieces)[done + 1] = Text!Extend(text, p)
  BY <1>1, <1>2, <1>3, TextsByPiece
<1>7. /\ Text!Extend(text, p) \in Seq(Bytes) /\ Len(Text!Extend(text, p)) = Len(text) + p.n
      /\ p.n \in Nat \ {0}
      /\ ~Text!IsRun(p) => p.dist \in 1 .. Len(text)
  BY <1>4, <1>5, ExtendTyped
<1>8. Text!Next
  BY DEF Text!Next
<1>9. Len(text) \in Nat /\ Len(text') \in Nat /\ Len(text) <= Len(text')
  BY <1>4, <1>7, LenProperties
<1> QED BY <1>1, <1>2, <1>4, <1>6, <1>7, <1>8, <1>9


-----------------------------------------------------------------------------
(* The steps.                                                              *)

\* The lowest position read stays within the text, which does not shrink.
LEMMA ReadStays ==
    ASSUME NEW r \in Int, NEW a \in Nat, NEW b \in Nat, a <= b, 1 <= r, r <= a + 1
    PROVE  /\ r <= b + 1
           /\ \A dist \in 1 .. a : \A q :
                q = (IF a - dist + 1 < r THEN a - dist + 1 ELSE r) =>
                    q \in Int /\ 1 <= q /\ q <= b + 1
OBVIOUS

\* A match that is read as it was written.
LEMMA MatchStep ==
    ASSUME IInv, Stream, done < Len(pieces),
           NEW p, p = pieces[done + 1], ~Text!IsRun(p),
           NEW n, n = p.n, NEW dist, dist = p.dist,
           NEW i \in Nat, i + 2 = Place(done + 1), Byte(i) % 4 = LitsBehind(pieces, done + 1),
           CopyMatch(n, dist, i + 2), at' = "offset", UNCHANGED code
    PROVE  IInv' /\ Text!Next
<1>1. /\ text' = Copied(text, n, dist) /\ in' = i + 2 /\ done' = done + 1
      /\ read' = IF Len(text) - dist + 1 < read THEN Len(text) - dist + 1 ELSE read
  BY DEF CopyMatch
<1>2. /\ IsStream /\ done \in 0 .. Len(pieces) /\ text = Text!Texts(pieces)[done]
      /\ read \in Int /\ 1 <= read /\ read <= Len(text) + 1
      /\ code \in Nat /\ code < 256
  BY DEF IInv
<1>3. Len(pieces) \in Nat /\ done \in 0 .. Len(pieces) /\ done + 1 \in 1 .. Len(pieces) /\ done + 1 > 0
  BY <1>2, StreamFacts
<1>4. text \in Seq(Bytes) /\ dist \in 1 .. Len(text)
  <2>1. pieces \in Seq(Text!Piece) /\ WellWritten(pieces) /\ DOMAIN pieces = 1 .. Len(pieces)
    BY <1>2, LenProperties DEF IsStream
  <2>2. text \in Seq(Bytes)
    BY <1>2, <2>1, TextsTyped
  <2>3. Writable(p) /\ p.dist <= Len(text)
    <3>1. done + 1 - 1 = done
      BY <1>3
    <3> QED BY <1>2, <1>3, <2>1, <3>1 DEF WellWritten
  <2> QED BY <2>2, <2>3, ExtendTyped
<1>5. n \in Nat
  <2>1. Writable(p)
    BY <1>2, <1>3, StreamFacts
  <2> QED BY <2>1, WritableFacts
<1>6. text' = Text!Extend(text, p)
  <2>1. Copied(text, n, dist) = text \o Text!Repetition(text, n, dist)
    BY <1>4, <1>5, CopyIsRepetition
  <2>2. Text!Extend(text, p) = text \o Text!Repetition(text, n, dist)
    BY DEF Text!Extend
  <2> QED BY <1>1, <2>1, <2>2
<1>7. UNCHANGED pieces
  BY DEF Stream
<1>8. /\ Text!Next /\ done' \in 0 .. Len(pieces)
      /\ text' = Text!Texts(pieces)[done']
      /\ Len(text) \in Nat /\ Len(text') \in Nat /\ Len(text) <= Len(text')
  BY <1>1, <1>6, <1>7, TextGrows
<1>9. read' \in Int /\ 1 <= read' /\ read' <= Len(text') + 1
  <2>1. dist \in Nat /\ 1 <= dist /\ dist <= Len(text)
    BY <1>4, <1>8
  <2>2. /\ read' = IF Len(text) - dist + 1 < read THEN Len(text) - dist + 1 ELSE read
        /\ read \in Int /\ 1 <= read /\ read <= Len(text) + 1
    BY <1>1, <1>2
  <2>3. Len(text) \in Nat /\ Len(text') \in Nat /\ Len(text) <= Len(text')
    BY <1>8
  <2>4. dist \in 1 .. Len(text)
    BY <1>4
  <2> QED BY <2>2, <2>3, <2>4, ReadStays
<1>10. Stands(at', done', in', code')
  <2> DEFINE d == done + 1
             j == i + 2
  <2>1. j = Place(d) /\ d > 0 /\ ~Text!IsRun(pieces[d]) /\ j >= 2 /\ j - 2 = i
    BY <1>3
  <2>2. Byte(j - 2) % 4 = LitsBehind(pieces, d)
    BY <2>1
  <2>3. at' = "offset" /\ done' = d /\ in' = j
    BY <1>1
  <2> HIDE DEF d, j
  <2> QED BY <2>1, <2>2, <2>3 DEF Stands
<1> QED BY <1>2, <1>8, <1>9, <1>10, StreamStays

\* A run, whose literals lie behind what introduces it.
LEMMA RunStep ==
    ASSUME IInv, Stream, done < Len(pieces),
           NEW p, p = pieces[done + 1], Text!IsRun(p),
           NEW n, n = p.n, NEW i, i = Place(done) + Len(RunBytes(p)),
           text' = text \o SubSeq(src, i + 1, i + n), done' = done + 1, UNCHANGED read
    PROVE  /\ Text!Next /\ IsStream
           /\ done' \in 0 .. Len(pieces)
           /\ text' = Text!Texts(pieces)[done']
           /\ read' \in Int /\ 1 <= read' /\ read' <= Len(text') + 1
           /\ i + n = Place(done + 1)
<1>1. /\ IsStream /\ done \in 0 .. Len(pieces) /\ text = Text!Texts(pieces)[done]
      /\ read \in Int /\ 1 <= read /\ read <= Len(text) + 1
  BY DEF IInv
<1>2. done + 1 \in 1 .. Len(pieces) /\ done + 1 - 1 = done
  BY <1>1, StreamFacts
<1> DEFINE o == Place(done)
<1>3. o = Place(done + 1 - 1) /\ text = Text!Texts(pieces)[done + 1 - 1]
  BY <1>1, <1>2
<1>4. /\ SubSeq(src, o + Len(RunBytes(p)) + 1, o + Len(RunBytes(p)) + p.n) = Text!Literals(p.n, Len(text))
      /\ Place(done + 1) = o + Len(RunBytes(p)) + p.n
  <2> DEFINE k == done + 1
  <2>1. k \in 1 .. Len(pieces) /\ o = Place(k - 1) /\ text = Text!Texts(pieces)[k - 1]
    BY <1>1, <1>2
  <2>2. Text!IsRun(pieces[k]) /\ p = pieces[k]
    OBVIOUS
  <2> HIDE DEF k, o
  <2>3. /\ SubSeq(src, o + Len(RunBytes(p)) + 1, o + Len(RunBytes(p)) + p.n) = Text!Literals(p.n, Len(text))
        /\ Place(k) = o + Len(RunBytes(p)) + p.n
    BY <1>1, <2>1, <2>2, RunHere, ZenonT(30)
  <2> QED BY <2>3 DEF k
<1>5. text' = text \o Text!Literals(n, Len(text)) /\ i + n = Place(done + 1)
  BY <1>4
<1>6. text' = Text!Extend(text, p)
  BY <1>5 DEF Text!Extend
<1>7. UNCHANGED pieces
  BY DEF Stream
<1>8. /\ Text!Next /\ done' \in 0 .. Len(pieces)
      /\ text' = Text!Texts(pieces)[done']
      /\ Len(text) \in Nat /\ Len(text') \in Nat /\ Len(text) <= Len(text')
  BY <1>6, <1>7, TextGrows
<1>9. read' \in Int /\ 1 <= read' /\ read' <= Len(text') + 1
  <2>1. read \in Int /\ 1 <= read /\ read <= Len(text) + 1
    BY <1>1
  <2>2. Len(text) \in Nat /\ Len(text') \in Nat /\ Len(text) <= Len(text')
    BY <1>8
  <2>3. read <= Len(text') + 1
    BY <2>1, <2>2, ReadStays
  <2> QED BY <2>1, <2>2, <2>3
<1> QED BY <1>1, <1>5, <1>8, <1>9


\* What stands behind the first d pieces.
LEMMA FollowsHere ==
    ASSUME IsStream, NEW d \in 0 .. Len(pieces), d < Len(pieces)
    PROVE  /\ Writable(pieces[d + 1])
           /\ d = 0 => pieces[d + 1].kind = "head" \/ (pieces[d + 1].kind = "lit" /\ pieces[d + 1].n > 3)
           /\ d > 0 => Follows(pieces[d], pieces[d + 1]) /\ Writable(pieces[d])
<1>1. Len(pieces) \in Nat /\ DOMAIN pieces = 1 .. Len(pieces)
  BY LenProperties DEF IsStream
<1>2. d + 1 \in 1 .. Len(pieces) /\ (d > 0 => d \in 1 .. Len(pieces)) /\ d + 1 - 1 = d /\ (d + 1 = 1 <=> d = 0)
  BY <1>1
<1> DEFINE k == d + 1
<1>3. k \in DOMAIN pieces
  BY <1>1, <1>2
<1>4. /\ Writable(pieces[k])
      /\ IF k = 1 THEN pieces[k].kind = "head" \/ (pieces[k].kind = "lit" /\ pieces[k].n > 3)
         ELSE Follows(pieces[k - 1], pieces[k])
  BY <1>3 DEF IsStream, WellWritten
<1>5. d > 0 => Writable(pieces[d])
  BY <1>1, <1>2 DEF IsStream, WellWritten
<1> QED BY <1>2, <1>4, <1>5

\* The byte that is read next.
LEMMA ByteTyped ==
    ASSUME IsStream, NEW d \in 0 .. Len(pieces)
    PROVE  Byte(Place(d)) \in Nat /\ Byte(Place(d)) < 256
<1> DEFINE o == Place(d)
<1>1. /\ src \in Seq(Bytes) /\ o \in Nat /\ o + 3 <= srclen
      /\ srclen = Place(Len(pieces)) + 3 /\ Lies(src, Place(Len(pieces)), EndMarker)
  BY StreamFacts
<1>2. srclen <= Len(src) /\ Len(src) \in Nat
  BY <1>1, EndTyped, LenProperties DEF Lies
<1>3. o + 1 \in 1 .. Len(src)
  <2>1. srclen \in Nat
    BY StreamFacts
  <2> HIDE DEF o
  <2> QED BY <1>1, <1>2, <2>1
<1>4. src[o + 1] \in Bytes
  <2> HIDE DEF o
  <2> QED BY <1>1, <1>3, ElementOfSeq
<1> QED BY <1>4 DEF Byte, Bytes

\* The next piece, if it is a match.
LEMMA MatchNext ==
    ASSUME IsStream, NEW d \in 0 .. Len(pieces), d < Len(pieces), ~Text!IsRun(pieces[d + 1]),
           NEW p, p = pieces[d + 1], NEW o, o = Place(d)
    PROVE  \E lits \in 0 .. 3 :
              /\ lits = LitsBehind(pieces, d + 1)
              /\ src \in Seq(Bytes) /\ Writable(p) /\ o \in Nat
              /\ Lies(src, o, MatchBytes(p, lits))
              /\ Place(d + 1) = o + Len(MatchBytes(p, lits))
<1> DEFINE k == d + 1
<1>1. k \in 1 .. Len(pieces) /\ k - 1 = d
  BY StreamFacts
<1>2. o = Place(k - 1) /\ p = pieces[k] /\ ~Text!IsRun(pieces[k])
  BY <1>1
<1> HIDE DEF k
<1>3. /\ src \in Seq(Bytes) /\ Writable(p) /\ o \in Nat
      /\ LitsBehind(pieces, k) \in 0 .. 3
      /\ Lies(src, o, MatchBytes(p, LitsBehind(pieces, k)))
      /\ Place(k) = o + Len(MatchBytes(p, LitsBehind(pieces, k)))
  BY <1>1, <1>2, MatchHere
<1> QED BY <1>3 DEF k

\* Where a command must stand, one does: at least 0x10.
LEMMA CommandThere ==
    ASSUME IsStream, NEW d \in 0 .. Len(pieces), d < Len(pieces) => IsMatch(pieces[d + 1])
    PROVE  Byte(Place(d)) >= 16
<1> DEFINE o == Place(d)
           p == pieces[d + 1]
<1>1. CASE d < Len(pieces)
  <2>1. IsMatch(p) /\ ~Text!IsRun(p)
    BY <1>1 DEF IsMatch, Text!IsRun
  <2>2. PICK lits \in 0 .. 3 :
              /\ lits = LitsBehind(pieces, d + 1)
              /\ src \in Seq(Bytes) /\ Writable(p) /\ o \in Nat
              /\ Lies(src, o, MatchBytes(p, lits))
              /\ Place(d + 1) = o + Len(MatchBytes(p, lits))
    BY <1>1, <2>1, MatchNext
  <2> HIDE DEF p, o
  <2>3. CASE p.kind = "near"
    <3>1. Byte(o) \in Nat /\ Byte(o) >= 64
      BY <2>2, <2>3, NearRead
    <3> QED BY <3>1 DEF o
  <2>4. CASE p.kind = "mid"
    <3>1. Byte(o) \in Nat /\ Byte(o) >= 32
      BY <2>2, <2>4, MidRead
    <3> QED BY <3>1 DEF o
  <2>5. CASE p.kind = "far"
    <3>1. Byte(o) \in Nat /\ Byte(o) >= 16
      BY <2>2, <2>5, FarRead
    <3> QED BY <3>1 DEF o
  <2> QED BY <2>1, <2>3, <2>4, <2>5 DEF IsMatch
<1>2. CASE ~(d < Len(pieces))
  <2>1. d = Len(pieces)
    BY <1>2, StreamFacts
  <2>2. Byte(o) = 17
    BY <2>1, EndRead
  <2> QED BY <2>2
<1> QED BY <1>1, <1>2

\* Reading a command.
LEMMA FetchStep ==
    ASSUME IInv, Stream, NEW i, i = Place(done), FetchCommand(i), UNCHANGED <<text, done, read>>,
           done < Len(pieces) => IsMatch(pieces[done + 1])
    PROVE  IInv' /\ UNCHANGED Text!vars
<1>1. /\ IsStream /\ done \in 0 .. Len(pieces) /\ text = Text!Texts(pieces)[done]
      /\ read \in Int /\ 1 <= read /\ read <= Len(text) + 1
  BY DEF IInv
<1>2. code' = Byte(i) /\ in' = i + 1 /\ at' = "command" /\ done' = done /\ text' = text /\ read' = read
  BY DEF FetchCommand
<1>3. code' \in Nat /\ code' < 256
  BY <1>1, <1>2, ByteTyped
<1>4. Stands(at', done', in', code')
  BY <1>2 DEF Stands
<1>5. IInv'
  BY <1>1, <1>2, <1>3, <1>4, StreamStays
<1>6. UNCHANGED Text!vars
  BY <1>2 DEF Text!vars, Stream
<1> QED BY <1>5, <1>6


\* The first byte of the stream.
LEMMA FirstByteStep ==
    ASSUME IInv, FirstByte
    PROVE  IInv' /\ (Text!Next \/ UNCHANGED Text!vars)
<1>1. /\ IsStream /\ done \in 0 .. Len(pieces) /\ text = Text!Texts(pieces)[done]
      /\ read \in Int /\ 1 <= read /\ read <= Len(text) + 1
      /\ code \in Nat /\ code < 256
  BY DEF IInv
<1>2. at = "first" /\ Stream /\ UNCHANGED code
  BY DEF FirstByte
<1>3. done = 0 /\ in = Place(0) /\ Place(0) = 0
  BY <1>1, <1>2, StreamFacts DEF IInv, Stands
<1> DEFINE p == pieces[done + 1]
<1>4. CASE done < Len(pieces) /\ p.kind = "head"
  <2>1. Writable(p) /\ Text!IsRun(p)
    BY <1>1, <1>4, FollowsHere DEF Text!IsRun
  <2>2. /\ src \in Seq(Bytes) /\ Lies(src, 0, RunBytes(p))
    <3>1. done + 1 \in 1 .. Len(pieces) /\ done + 1 - 1 = 0
      BY <1>1, <1>3, <1>4, StreamFacts
    <3>2. Lies(src, Place(0), RunBytes(p))
      BY <1>1, <2>1, <3>1, RunHere
    <3> QED BY <1>1, <1>3, <3>2, StreamFacts
  <2>3. Byte(0) = 17 + p.n /\ Len(RunBytes(p)) = 1
    BY <1>4, <2>1, <2>2, HeadRead
  <2>4. p.n \in Nat \ {0}
    BY <2>1, WritableFacts
  <2> DEFINE n == p.n
             i == 1
  <2>5. Byte(0) > 17 /\ Byte(0) - 17 = n
    BY <2>3, <2>4
  <2>6. CopyLiterals(n, i) /\ at' = IF n < 4 THEN "standard" ELSE "alternative"
    <3>1. /\ CopyLiterals(Byte(0) - 17, 1)
          /\ at' = IF Byte(0) - 17 < 4 THEN "standard" ELSE "alternative"
      <4>1. ~(Byte(0) <= 17)
        <5> HIDE DEF p
        <5> QED BY <2>3, <2>4
      <4> QED BY <4>1 DEF FirstByte
    <3> QED BY <2>5, <3>1
  <2>7. i = Place(done) + Len(RunBytes(p))
    BY <1>3, <2>3
  <2>8. /\ text' = text \o SubSeq(src, i + 1, i + n) /\ done' = done + 1 /\ UNCHANGED read
        /\ in' = i + n
    BY <2>6 DEF CopyLiterals
  <2> HIDE DEF n, i, p
  <2>9. /\ Text!Next
        /\ done' \in 0 .. Len(pieces)
        /\ text' = Text!Texts(pieces)[done']
        /\ read' \in Int /\ 1 <= read' /\ read' <= Len(text') + 1
        /\ i + n = Place(done + 1)
    BY <1>2, <1>4, <2>1, <2>7, <2>8, RunStep DEF n, p
  <2>10. Stands(at', done', in', code')
    <3>1. done' < Len(pieces) => Follows(p, pieces[done' + 1]) /\ done' > 0
      <4>1. ASSUME done' < Len(pieces) PROVE Follows(pieces[done'], pieces[done' + 1]) /\ done' > 0
        <5>1. done' > 0
          BY <1>3, <2>8
        <5> QED BY <1>1, <2>9, <4>1, <5>1, FollowsHere
      <4> QED BY <2>8, <4>1 DEF p
    <3>2. in' = Place(done')
      BY <2>8, <2>9
    <3>3. /\ Text!IsRun(p) /\ n \in Nat /\ n = p.n /\ p.kind = "head"
      BY <1>4, <2>1, <2>4 DEF n
    <3> DEFINE q == pieces[done' + 1]
    <3>4. done' < Len(pieces) => IF n < 4 THEN IsMatch(q) \/ (q.kind = "lit" /\ q.n > 3)
                                 ELSE IsMatch(q) \/ q.kind = "alt"
      BY <3>1, <3>3 DEF Follows, IsMatch
    <3>5. CASE n < 4
      BY <2>6, <3>2, <3>4, <3>5 DEF Stands
    <3>6. CASE ~(n < 4)
      BY <2>6, <3>2, <3>4, <3>6 DEF Stands
    <3> QED BY <3>5, <3>6
  <2>11. code' \in Nat /\ code' < 256
    BY <1>1, <1>2
  <2> QED BY <1>1, <1>2, <2>9, <2>10, <2>11, StreamStays
<1>5. CASE ~(done < Len(pieces) /\ p.kind = "head")
  <2>1. Byte(0) <= 17
    <3>1. CASE done < Len(pieces)
      <4>1. Writable(p) /\ p.kind = "lit" /\ p.n > 3 /\ Text!IsRun(p)
        BY <1>1, <1>3, <1>5, <3>1, FollowsHere DEF Text!IsRun
      <4>2. src \in Seq(Bytes) /\ Lies(src, 0, RunBytes(p))
        <5>1. done + 1 \in 1 .. Len(pieces) /\ done + 1 - 1 = 0
          BY <1>1, <1>3, <3>1, StreamFacts
        <5>2. Lies(src, Place(0), RunBytes(p))
          BY <1>1, <4>1, <5>1, RunHere
        <5> QED BY <1>1, <1>3, <5>2, StreamFacts
      <4>3. Byte(0) \in Nat /\ Byte(0) < 16
        BY <4>1, <4>2, RunRead
      <4> QED BY <4>3
    <3>2. CASE ~(done < Len(pieces))
      <4>1. Len(pieces) = 0
        BY <1>1, <1>3, <3>2, StreamFacts
      <4>2. Byte(Place(Len(pieces))) = 17
        BY <1>1, EndRead
      <4> QED BY <1>3, <4>1, <4>2
    <3> QED BY <3>1, <3>2
  <2>2. Byte(0) \in Nat
    <3>1. 0 \in 0 .. Len(pieces)
      BY <1>1, <1>3
    <3> QED BY <1>1, <1>3, <3>1, ByteTyped
  <2>3. at' = "standard" /\ UNCHANGED <<text, in, done, read>>
    BY <2>1, <2>2 DEF FirstByte
  <2>4. Stands(at', done', in', code')
    <3>1. done < Len(pieces) => p.kind = "lit" /\ p.n > 3
      BY <1>1, <1>3, <1>5, FollowsHere
    <3> QED BY <1>3, <2>3, <3>1 DEF Stands
  <2>5. UNCHANGED Text!vars
    BY <1>2, <2>3 DEF Text!vars, Stream
  <2> QED BY <1>1, <1>2, <2>3, <2>4, <2>5, StreamStays
<1> QED BY <1>4, <1>5

\* try_00to0F_standard
LEMMA StandardStep ==
    ASSUME IInv, Standard
    PROVE  IInv' /\ (Text!Next \/ UNCHANGED Text!vars)
<1>1. /\ IsStream /\ done \in 0 .. Len(pieces) /\ text = Text!Texts(pieces)[done]
      /\ read \in Int /\ 1 <= read /\ read <= Len(text) + 1
      /\ code \in Nat /\ code < 256
  BY DEF IInv
<1>2. at = "standard" /\ Stream
  BY DEF Standard
<1> DEFINE p == pieces[done + 1]
           o == Place(done)
<1>3. in = o /\ (done < Len(pieces) => IsMatch(p) \/ (p.kind = "lit" /\ p.n > 3))
  BY <1>2 DEF IInv, Stands
<1>4. Byte(o) \in Nat
  BY <1>1, ByteTyped
<1>5. CASE done < Len(pieces) => IsMatch(p)
  <2>1. Byte(o) >= 16
    BY <1>1, <1>5, CommandThere
  <2>2. FetchCommand(in) /\ UNCHANGED <<text, done, read>>
    BY <1>3, <1>4, <2>1 DEF Standard
  <2> QED BY <1>2, <1>3, <1>5, <2>2, FetchStep
<1>6. CASE done < Len(pieces) /\ p.kind = "lit" /\ p.n > 3
  <2>1. Writable(p) /\ Text!IsRun(p)
    BY <1>1, <1>6, FollowsHere DEF Text!IsRun
  <2>2. src \in Seq(Bytes) /\ o \in Nat /\ Lies(src, o, RunBytes(p))
    <3>1. done + 1 \in 1 .. Len(pieces) /\ done + 1 - 1 = done
      BY <1>1, <1>6, StreamFacts, SMTT(20)
    <3>2. o = Place(done + 1 - 1)
      BY <3>1
    <3> HIDE DEF o
    <3> QED BY <1>1, <2>1, <3>1, <3>2, RunHere
  <2> DEFINE count == Count(Byte(o), 15, o + 1)
             i == count.in
             n == p.n
  <2>3. Byte(o) < 16 /\ count.n + 3 = n /\ i = o + Len(RunBytes(p))
    <3> HIDE DEF o, p
    <3> QED BY <1>6, <2>1, <2>2, RunRead DEF p
  <2>4. CopyLiterals(count.n + 3, i) /\ at' = "alternative" /\ UNCHANGED code
    BY <1>3, <1>4, <2>3 DEF Standard
  <2> HIDE DEF count, i
  <2>5. /\ text' = text \o SubSeq(src, i + 1, i + n) /\ done' = done + 1 /\ UNCHANGED read
        /\ in' = i + n
    BY <2>3, <2>4 DEF CopyLiterals
  <2> HIDE DEF n, o, p
  <2>6. /\ Text!Next
        /\ done' \in 0 .. Len(pieces)
        /\ text' = Text!Texts(pieces)[done']
        /\ read' \in Int /\ 1 <= read' /\ read' <= Len(text') + 1
        /\ i + n = Place(done + 1)
    BY <1>2, <1>6, <2>1, <2>3, <2>5, RunStep DEF n, p, o
  <2>7. Stands(at', done', in', code')
    <3>1. done' < Len(pieces) => Follows(p, pieces[done' + 1])
      <4>1. ASSUME done' < Len(pieces) PROVE Follows(pieces[done'], pieces[done' + 1])
        <5>1. done' > 0
          BY <1>1, <2>5
        <5> QED BY <1>1, <2>6, <4>1, <5>1, FollowsHere
      <4> QED BY <2>5, <4>1 DEF p
    <3>2. in' = Place(done')
      BY <2>5, <2>6
    <3>3. Text!IsRun(p) /\ p.kind = "lit"
      BY <1>6, <2>1
    <3> DEFINE q == pieces[done' + 1]
    <3>4. done' < Len(pieces) => IsMatch(q) \/ q.kind = "alt"
      BY <3>1, <3>3 DEF Follows, IsMatch
    <3> QED BY <2>4, <3>2, <3>4 DEF Stands
  <2>8. code' \in Nat /\ code' < 256
    BY <1>1, <2>4
  <2> QED BY <1>1, <1>2, <2>6, <2>7, <2>8, StreamStays
<1> QED BY <1>3, <1>5, <1>6

\* try_00to0F_alternative
LEMMA AlternativeStep ==
    ASSUME IInv, Alternative
    PROVE  IInv' /\ (Text!Next \/ UNCHANGED Text!vars)
<1>1. IsStream /\ done \in 0 .. Len(pieces)
  BY DEF IInv
<1>2. at = "alternative" /\ Stream
  BY DEF Alternative
<1> DEFINE p == pieces[done + 1]
           o == Place(done)
<1>3. in = o /\ (done < Len(pieces) => IsMatch(p) \/ p.kind = "alt")
  BY <1>2 DEF IInv, Stands
<1>4. Byte(o) \in Nat
  BY <1>1, ByteTyped
<1>5. CASE done < Len(pieces) => IsMatch(p)
  <2>1. Byte(o) >= 16
    BY <1>1, <1>5, CommandThere
  <2>2. FetchCommand(in) /\ UNCHANGED <<text, done, read>>
    BY <1>3, <1>4, <2>1 DEF Alternative
  <2> QED BY <1>2, <1>3, <1>5, <2>2, FetchStep
<1>6. CASE done < Len(pieces) /\ p.kind = "alt"
  <2>1. ~Text!IsRun(p)
    BY <1>6 DEF Text!IsRun
  <2>2. PICK lits \in 0 .. 3 :
              /\ lits = LitsBehind(pieces, done + 1)
              /\ src \in Seq(Bytes) /\ Writable(p) /\ o \in Nat
              /\ Lies(src, o, MatchBytes(p, lits))
              /\ Place(done + 1) = o + Len(MatchBytes(p, lits))
    BY <1>1, <1>6, <2>1, MatchNext
  <2> DEFINE dist == Byte(o) \div 4 + 4 * Byte(o + 1) + FarBase
  <2>3. /\ Len(MatchBytes(p, lits)) = 2 /\ Byte(o) < 16 /\ p.n = 3 /\ dist = p.dist
        /\ Byte(o) % 4 = lits
    <3> HIDE DEF o, p
    <3> QED BY <1>6, <2>2, AltRead DEF p
  <2>4. CopyMatch(3, dist, o + 2) /\ at' = "offset" /\ UNCHANGED code
    BY <1>3, <1>4, <2>3 DEF Alternative
  <2>5. o \in Nat /\ o + 2 = Place(done + 1) /\ Byte(o) % 4 = LitsBehind(pieces, done + 1)
    BY <2>2, <2>3
  <2> HIDE DEF dist, o, p
  <2> QED BY <1>2, <1>6, <2>1, <2>3, <2>4, <2>5, MatchStep DEF p
<1> QED BY <1>3, <1>5, <1>6


\* handle_offset_count
LEMMA OffsetCountStep ==
    ASSUME IInv, OffsetCount
    PROVE  IInv' /\ (Text!Next \/ UNCHANGED Text!vars)
<1>1. /\ IsStream /\ done \in 0 .. Len(pieces) /\ text = Text!Texts(pieces)[done]
      /\ read \in Int /\ 1 <= read /\ read <= Len(text) + 1
      /\ code \in Nat /\ code < 256
  BY DEF IInv
<1>2. at = "offset" /\ Stream
  BY DEF OffsetCount
<1> DEFINE p == pieces[done + 1]
           lits == LitsBehind(pieces, done)
<1>3. /\ in = Place(done) /\ done > 0 /\ ~Text!IsRun(pieces[done])
      /\ Byte(in - 2) % 4 = lits
  BY <1>2 DEF IInv, Stands
<1>4. done < Len(pieces) => /\ Writable(p) /\ p.kind \in {"lit", "near", "mid", "far"}
                            /\ p.n \in Nat \ {0}
  <2>1. SUFFICES ASSUME done < Len(pieces)
                 PROVE  Writable(p) /\ p.kind \in {"lit", "near", "mid", "far"} /\ p.n \in Nat \ {0}
    OBVIOUS
  <2>2. Writable(p) /\ Follows(pieces[done], p)
    BY <1>1, <1>3, <2>1, FollowsHere
  <2> QED BY <1>3, <2>2, WritableFacts DEF Follows
<1>5. CASE lits = 0
  <2>1. at' = "standard" /\ UNCHANGED <<text, in, done, read, code>>
    BY <1>3, <1>5 DEF OffsetCount
  <2>2. done < Len(pieces) => IsMatch(p) \/ (p.kind = "lit" /\ p.n > 3)
    <3>1. done < Len(pieces) /\ p.kind = "lit" => ~(p.n < 4)
      BY <1>4, <1>5 DEF LitsBehind, Text!IsRun
    <3> QED BY <1>4, <3>1 DEF IsMatch
  <2>3. Stands(at', done', in', code')
    BY <1>3, <2>1, <2>2 DEF Stands
  <2>4. UNCHANGED Text!vars
    BY <1>2, <2>1 DEF Text!vars, Stream
  <2> QED BY <1>1, <1>2, <2>1, <2>3, <2>4, StreamStays
<1>6. CASE lits # 0
  <2>1. done < Len(pieces) /\ Text!IsRun(p) /\ p.n < 4 /\ lits = p.n
    BY <1>6 DEF LitsBehind
  <2>2. p.kind = "lit" /\ p.n \in Nat \ {0}
    BY <1>4, <2>1 DEF Text!IsRun
  <2> DEFINE n == p.n
             i == in
  <2>3. /\ text' = text \o SubSeq(src, i + 1, i + n) /\ done' = done + 1 /\ UNCHANGED read
        /\ FetchCommand(i + n)
    BY <1>3, <2>1, <2>2 DEF OffsetCount
  <2>4. i = Place(done) + Len(RunBytes(p))
    <3>1. Len(RunBytes(p)) = 0
      BY <2>1, <2>2 DEF RunBytes
    <3>2. Place(done) \in Nat
      BY <1>1, StreamFacts
    <3> QED BY <1>3, <3>1, <3>2
  <2> HIDE DEF n, i, p
  <2>5. /\ Text!Next
        /\ done' \in 0 .. Len(pieces)
        /\ text' = Text!Texts(pieces)[done']
        /\ read' \in Int /\ 1 <= read' /\ read' <= Len(text') + 1
        /\ i + n = Place(done + 1)
    BY <1>2, <2>1, <2>3, <2>4, RunStep DEF n, p
  <2>6. code' = Byte(Place(done')) /\ in' = Place(done') + 1 /\ at' = "command"
    BY <2>3, <2>5 DEF FetchCommand
  <2>7. done' < Len(pieces) => IsMatch(pieces[done' + 1])
    <3> DEFINE q == pieces[done' + 1]
    <3>1. SUFFICES ASSUME done' < Len(pieces) PROVE IsMatch(q)
      OBVIOUS
    <3>2. done' > 0
      BY <1>1, <2>3
    <3>3. Follows(pieces[done'], q)
      BY <1>1, <2>5, <3>1, <3>2, FollowsHere
    <3>4. Follows(p, q)
      BY <2>3, <3>3 DEF p
    <3> HIDE DEF q
    <3>5. ~(p.n > 3)
      BY <2>1, <2>2
    <3> QED BY <2>1, <2>2, <3>4, <3>5 DEF Follows, IsMatch
  <2>8. code' \in Nat /\ code' < 256
    BY <1>1, <2>5, <2>6, ByteTyped
  <2>9. Stands(at', done', in', code')
    BY <2>6, <2>7 DEF Stands
  <2> QED BY <1>1, <1>2, <2>5, <2>8, <2>9, StreamStays
<1> QED BY <1>5, <1>6

\* Where a command has been read.
LEMMA CommandHere ==
    ASSUME IInv, at = "command"
    PROVE  /\ IsStream /\ done \in 0 .. Len(pieces) /\ Place(done) \in Nat
           /\ in = Place(done) + 1 /\ code = Byte(Place(done))
           /\ done < Len(pieces) => IsMatch(pieces[done + 1]) /\ ~Text!IsRun(pieces[done + 1])
           /\ ~(done < Len(pieces)) => done = Len(pieces) /\ code = 17 /\ FarOffset = 0
           /\ ~(done < Len(pieces)) => FarCount.in + 2 = srclen
<1>1. IsStream /\ done \in 0 .. Len(pieces)
  BY DEF IInv
<1>2. /\ in = Place(done) + 1 /\ code = Byte(Place(done))
      /\ done < Len(pieces) => IsMatch(pieces[done + 1])
  BY DEF IInv, Stands
<1>3. Place(done) \in Nat /\ Len(pieces) \in Nat
  BY <1>1, StreamFacts
<1>4. ASSUME ~(done < Len(pieces))
      PROVE  done = Len(pieces) /\ code = 17 /\ FarOffset = 0 /\ FarCount.in + 2 = srclen
  <2>1. done = Len(pieces)
    BY <1>1, <1>3, <1>4
  <2> DEFINE o == Place(done)
  <2>2. /\ o \in Nat /\ Byte(o) = 17 /\ srclen = o + 3
        /\ Count(17, 7, o + 1) = [n |-> 1, in |-> o + 1]
        /\ Offset14(o + 1) = 0
    BY <1>1, <2>1, EndRead
  <2>3. code = 17 /\ in = o + 1
    BY <1>2, <2>2
  <2>4. FarCount = [n |-> 1, in |-> o + 1]
    BY <2>2, <2>3 DEF FarCount
  <2> HIDE DEF o
  <2>5. FarCount.in = o + 1
    BY <2>4
  <2>6. Offset14(FarCount.in) = 0
    BY <2>2, <2>5
  <2>7. FarOffset = 0
    BY <2>3, <2>6 DEF FarOffset
  <2> QED BY <2>1, <2>2, <2>3, <2>5, <2>7
<1>5. done < Len(pieces) => ~Text!IsRun(pieces[done + 1])
  BY <1>2 DEF IsMatch, Text!IsRun
<1> QED BY <1>1, <1>2, <1>3, <1>4, <1>5

\* Which form a command is of.
LEMMA FormRead ==
    ASSUME IInv, at = "command", done < Len(pieces), NEW p, p = pieces[done + 1],
           NEW o, o = Place(done)
    PROVE  /\ o \in Nat
           /\ \E lits \in 0 .. 3 :
                /\ lits = LitsBehind(pieces, done + 1)
                /\ src \in Seq(Bytes) /\ Writable(p)
                /\ Lies(src, o, MatchBytes(p, lits))
                /\ Place(done + 1) = o + Len(MatchBytes(p, lits))
           /\ code \in Nat
           /\ p.kind \in {"near", "mid", "far"}
           /\ p.kind = "near" => code >= 64
           /\ p.kind = "mid" => code >= 32 /\ code < 64
           /\ p.kind = "far" => code >= 16 /\ code < 32 /\ FarOffset # 0
<1>1. /\ IsStream /\ done \in 0 .. Len(pieces) /\ o \in Nat /\ in = o + 1 /\ code = Byte(o)
      /\ IsMatch(p) /\ ~Text!IsRun(p)
  BY CommandHere
<1>2. PICK lits \in 0 .. 3 :
            /\ lits = LitsBehind(pieces, done + 1)
            /\ src \in Seq(Bytes) /\ Writable(p) /\ o \in Nat
            /\ Lies(src, o, MatchBytes(p, lits))
            /\ Place(done + 1) = o + Len(MatchBytes(p, lits))
  BY <1>1, MatchNext
<1>3. code \in Nat
  BY DEF IInv
<1>4. p.kind = "near" => code >= 64
  <2>1. SUFFICES ASSUME p.kind = "near" PROVE Byte(o) >= 64
    BY <1>1
  <2> QED BY <1>2, <2>1, NearRead
<1>5. p.kind = "mid" => code >= 32 /\ code < 64
  <2>1. SUFFICES ASSUME p.kind = "mid" PROVE Byte(o) >= 32 /\ Byte(o) < 64
    BY <1>1
  <2> QED BY <1>2, <2>1, MidRead
<1>6. p.kind = "far" => code >= 16 /\ code < 32 /\ FarOffset # 0
  <2>1. SUFFICES ASSUME p.kind = "far" PROVE Byte(o) >= 16 /\ Byte(o) < 32 /\ FarOffset # 0
    BY <1>1
  <2>2. /\ Byte(o) >= 16 /\ Byte(o) < 32
        /\ FarOff(Byte(o), Count(Byte(o), 7, o + 1).in) # 0
    <3>1. FarOff(Byte(o), Count(Byte(o), 7, o + 1).in) # 0 /\ Byte(o) >= 16 /\ Byte(o) < 32
      BY <1>2, <2>1, FarRead, SMTT(20)
    <3> QED BY <3>1
  <2>3. FarOffset = FarOff(Byte(o), Count(Byte(o), 7, o + 1).in)
    BY <1>1 DEF FarOffset, FarCount, FarOff
  <2> QED BY <2>2, <2>3
<1> QED BY <1>1, <1>2, <1>3, <1>4, <1>5, <1>6 DEF IsMatch


\* cccbbbaa dddddddd
LEMMA NearStep ==
    ASSUME IInv, Near
    PROVE  IInv' /\ Text!Next
<1> DEFINE p == pieces[done + 1]
           o == Place(done)
<1>1. at = "command" /\ code >= 64 /\ Stream /\ at' = "offset" /\ UNCHANGED code
  BY DEF Near
<1>2. in = o + 1 /\ code = Byte(o) /\ done < Len(pieces) /\ ~Text!IsRun(p)
  <2>1. done < Len(pieces)
    BY <1>1, CommandHere
  <2> QED BY <1>1, <2>1, CommandHere
<1>3. PICK lits \in 0 .. 3 :
            /\ lits = LitsBehind(pieces, done + 1)
            /\ src \in Seq(Bytes) /\ Writable(p)
            /\ Lies(src, o, MatchBytes(p, lits))
            /\ Place(done + 1) = o + Len(MatchBytes(p, lits))
  BY <1>1, <1>2, FormRead
<1>4. o \in Nat /\ p.kind = "near"
  <2> HIDE DEF p, o
  <2>1. /\ o \in Nat /\ p.kind \in {"near", "mid", "far"}
        /\ p.kind = "mid" => code < 64
        /\ p.kind = "far" => code < 32
        /\ code \in Nat
    BY <1>1, <1>2, FormRead DEF p, o
  <2> QED BY <1>1, <2>1
<1> DEFINE n == code \div 32 + 1
           dist == 8 * Byte(in) + ((code \div 4) % 8) + 1
<1>5. Len(MatchBytes(p, lits)) = 2 /\ Byte(o) % 4 = lits /\ n = p.n /\ dist = p.dist
  <2> HIDE DEF p, o
  <2>1. /\ Len(MatchBytes(p, lits)) = 2 /\ Byte(o) % 4 = lits
        /\ Byte(o) \div 32 + 1 = p.n
        /\ 8 * Byte(o + 1) + ((Byte(o) \div 4) % 8) + 1 = p.dist
    BY <1>3, <1>4, NearRead
  <2> QED BY <1>2, <2>1
<1>6. CopyMatch(n, dist, in + 1)
  BY DEF Near
<1>7. in + 1 = o + 2 /\ o + 2 = Place(done + 1)
  <2> HIDE DEF dist, n, p
  <2>1. Len(MatchBytes(p, lits)) = 2
    BY <1>5
  <2>2. in = o + 1 /\ o \in Nat /\ Place(done + 1) = o + 2
    BY <1>2, <1>3, <1>4, <2>1
  <2> QED BY <2>2
<1>8. CopyMatch(n, dist, o + 2) /\ Byte(o) % 4 = LitsBehind(pieces, done + 1)
  <2> HIDE DEF n, dist
  <2> QED BY <1>3, <1>5, <1>6, <1>7
<1> HIDE DEF n, dist, p, o
<1> QED BY <1>1, <1>2, <1>4, <1>5, <1>7, <1>8, MatchStep DEF p

\* 001aaaaa oooooooooooooobb
LEMMA MidStep ==
    ASSUME IInv, Mid
    PROVE  IInv' /\ Text!Next
<1> DEFINE p == pieces[done + 1]
           o == Place(done)
<1>1. at = "command" /\ code >= 32 /\ code < 64 /\ Stream /\ at' = "offset" /\ UNCHANGED code
  BY DEF Mid
<1>2. in = o + 1 /\ code = Byte(o) /\ done < Len(pieces) /\ ~Text!IsRun(p)
  <2>1. done < Len(pieces)
    BY <1>1, CommandHere
  <2> QED BY <1>1, <2>1, CommandHere
<1>3. PICK lits \in 0 .. 3 :
            /\ lits = LitsBehind(pieces, done + 1)
            /\ src \in Seq(Bytes) /\ Writable(p)
            /\ Lies(src, o, MatchBytes(p, lits))
            /\ Place(done + 1) = o + Len(MatchBytes(p, lits))
  BY <1>1, <1>2, FormRead
<1>4. o \in Nat /\ p.kind = "mid"
  <2> HIDE DEF p, o
  <2>1. /\ o \in Nat /\ p.kind \in {"near", "mid", "far"}
        /\ p.kind = "near" => code >= 64
        /\ p.kind = "far" => code < 32
        /\ code \in Nat
    BY <1>1, <1>2, FormRead DEF p, o
  <2> QED BY <1>1, <2>1
<1> DEFINE c == Count(code, 31, in)
           i == c.in
           n == c.n + 2
           dist == Offset14(i) + 1
<1>5. CopyMatch(n, dist, i + 2)
  BY DEF Mid
<1>6. c = Count(Byte(o), 31, o + 1)
  BY <1>2
<1> HIDE DEF p, o, c
<1>7. n = p.n /\ i \in Nat /\ dist = p.dist /\ Byte(i) % 4 = lits /\ i + 2 = o + Len(MatchBytes(p, lits))
  <2>1. /\ Count(Byte(o), 31, o + 1).n + 2 = p.n /\ Count(Byte(o), 31, o + 1).in \in Nat
        /\ Offset14(Count(Byte(o), 31, o + 1).in) + 1 = p.dist
        /\ Byte(Count(Byte(o), 31, o + 1).in) % 4 = lits
        /\ Count(Byte(o), 31, o + 1).in + 2 = o + Len(MatchBytes(p, lits))
    BY <1>3, <1>4, MidRead, ZenonT(30)
  <2> QED BY <1>6, <2>1
<1> HIDE DEF i, n, dist
<1>8. i + 2 = Place(done + 1) /\ Byte(i) % 4 = LitsBehind(pieces, done + 1)
  BY <1>3, <1>7
<1> QED BY <1>1, <1>2, <1>5, <1>7, <1>8, MatchStep DEF p

\* 0001baaa oooooooooooooobb
LEMMA FarStep ==
    ASSUME IInv, Far
    PROVE  IInv' /\ Text!Next
<1> DEFINE p == pieces[done + 1]
           o == Place(done)
<1>1. /\ at = "command" /\ code < 32 /\ FarOffset # 0 /\ Stream /\ at' = "offset"
      /\ UNCHANGED code
  BY DEF Far
<1>2. in = o + 1 /\ code = Byte(o) /\ done < Len(pieces) /\ ~Text!IsRun(p)
  <2>1. done < Len(pieces)
    BY <1>1, CommandHere
  <2> QED BY <1>1, <2>1, CommandHere
<1>3. PICK lits \in 0 .. 3 :
            /\ lits = LitsBehind(pieces, done + 1)
            /\ src \in Seq(Bytes) /\ Writable(p)
            /\ Lies(src, o, MatchBytes(p, lits))
            /\ Place(done + 1) = o + Len(MatchBytes(p, lits))
  BY <1>1, <1>2, FormRead
<1>4. o \in Nat /\ p.kind = "far"
  <2> HIDE DEF p, o
  <2>1. /\ o \in Nat /\ p.kind \in {"near", "mid", "far"}
        /\ p.kind = "near" => code >= 64
        /\ p.kind = "mid" => code >= 32
        /\ code \in Nat
    BY <1>1, <1>2, FormRead DEF p, o
  <2> QED BY <1>1, <2>1
<1> DEFINE c == FarCount
           i == c.in
           n == c.n + 2
           dist == FarOffset + VeryFarBase
<1>5. CopyMatch(n, dist, i + 2)
  BY DEF Far
<1>6. c = Count(Byte(o), 7, o + 1) /\ FarOffset = FarOff(Byte(o), c.in)
  BY <1>2 DEF FarCount, FarOffset, FarOff
<1> HIDE DEF p, o, c
<1>7. n = p.n /\ i \in Nat /\ dist = p.dist /\ Byte(i) % 4 = lits /\ i + 2 = o + Len(MatchBytes(p, lits))
  BY <1>3, <1>4, <1>6, FarRead, ZenonT(30)
<1> HIDE DEF i, n, dist
<1>8. i + 2 = Place(done + 1) /\ Byte(i) % 4 = LitsBehind(pieces, done + 1)
  BY <1>3, <1>7
<1> QED BY <1>1, <1>2, <1>5, <1>7, <1>8, MatchStep DEF p

\* The end marker, and nothing but it, ends the stream, and where srclen says.
LEMMA FinishStep ==
    ASSUME IInv, Finish
    PROVE  IInv' /\ UNCHANGED Text!vars
<1>1. /\ IsStream /\ done \in 0 .. Len(pieces) /\ text = Text!Texts(pieces)[done]
      /\ read \in Int /\ 1 <= read /\ read <= Len(text) + 1
      /\ code \in Nat /\ code < 256
  BY DEF IInv
<1>2. /\ at = "command" /\ Stream /\ UNCHANGED <<text, done, code, read>>
      /\ code < 16 \/ (code < 32 /\ FarOffset = 0)
      /\ in' = IF code < 16 THEN in ELSE FarCount.in + 2
      /\ at' = IF code >= 16 /\ in' = srclen THEN "done" ELSE "failed"
  BY DEF Finish
<1>3. ~(done < Len(pieces))
  <2>1. SUFFICES ASSUME done < Len(pieces) PROVE FALSE
    OBVIOUS
  <2> DEFINE p == pieces[done + 1]
  <2>2. /\ p.kind \in {"near", "mid", "far"}
        /\ p.kind = "near" => code >= 64
        /\ p.kind = "mid" => code >= 32
        /\ p.kind = "far" => code >= 16 /\ FarOffset # 0
    BY <1>2, <2>1, FormRead
  <2> HIDE DEF p
  <2> QED BY <1>1, <1>2, <2>2
<1>4. done = Len(pieces) /\ code = 17 /\ FarCount.in + 2 = srclen
  BY <1>2, <1>3, CommandHere
<1>5. in' = srclen /\ at' = "done"
  BY <1>2, <1>4
<1>6. Stands(at', done', in', code')
  BY <1>2, <1>4, <1>5 DEF Stands
<1>7. UNCHANGED Text!vars
  BY <1>2 DEF Text!vars, Stream
<1> QED BY <1>1, <1>2, <1>6, <1>7, StreamStays


-----------------------------------------------------------------------------
(* The initial states.                                                     *)

\* A stream that ends with the end marker is not cut ...
LEMMA MarkerKept ==
    ASSUME NEW e \in Seq(Bytes), NEW o \in Nat, Len(e) = o + 3, e[o + 1] = 17
    PROVE  StreamLength(e) = Len(e)
<1>1. SUFFICES ASSUME Len(e) > 8, SubSeq(e, Len(e) - 3, Len(e)) = <<17, 16, 0, 0>> PROVE FALSE
  BY DEF StreamLength
<1>2. o > 0 /\ o \in Int /\ o + 3 \in Int /\ Len(e) - 3 = o
  BY <1>1
<1> DEFINE v == SubSeq(e, o, o + 3)
<1>3. v = <<17, 16, 0, 0>>
  BY <1>1, <1>2
<1>4. \A i \in o .. o + 3 : e[i] \in Bytes
  BY <1>2, ElementOfSeq
<1>5. \A i \in 1 .. 4 : v[i] = e[o + i - 1]
  BY <1>2, <1>4, SubSeqProperties
<1>6. v[2] = e[o + 1]
  <2> HIDE DEF v
  <2>1. 2 \in 1 .. 4 /\ o + 2 - 1 = o + 1
    OBVIOUS
  <2> QED BY <1>5, <2>1
<1> HIDE DEF v
<1>7. v[2] = 16
  BY <1>3
<1>8. 16 = 17
  BY <1>6, <1>7
<1> QED BY <1>8

\* ... but a trailer is cut off.
LEMMA TrailerDropped ==
    ASSUME NEW e \in Seq(Bytes), Len(e) > 0
    PROVE  StreamLength(e \o Trailer) = Len(e)
<1> DEFINE s == e \o Trailer
           l == Len(e)
<1>1. l \in Nat /\ l > 0 /\ Trailer \in Seq(Bytes) /\ Len(Trailer) = 8
  BY TrailerTyped, LenProperties
<1>2. /\ s \in Seq(Bytes) /\ Len(s) = l + 8
      /\ \A i \in 1 .. l + 8 : s[i] = IF i <= l THEN e[i] ELSE Trailer[i - l]
  <2>1. /\ s \in Seq(Bytes) /\ Len(s) = Len(e) + Len(Trailer)
        /\ \A i \in 1 .. Len(e) + Len(Trailer) :
              s[i] = IF i <= Len(e) THEN e[i] ELSE Trailer[i - Len(e)]
    BY <1>1, ConcatProperties
  <2> HIDE DEF s
  <2>2. Len(e) + Len(Trailer) = l + 8
    BY <1>1
  <2> QED BY <2>1, <2>2
<1> HIDE DEF s, l
<1>3. s[l + 5] = 17 /\ s[l + 6] = 16 /\ s[l + 7] = 0 /\ s[l + 8] = 0
  <2>1. ASSUME NEW k \in 1 .. 8 PROVE s[l + k] = Trailer[k]
    <3> DEFINE j == l + k
    <3>1. j \in 1 .. l + 8 /\ ~(j <= l) /\ j - l = k
      BY <1>1
    <3> HIDE DEF j
    <3>2. s[j] = Trailer[j - l]
      BY <1>2, <3>1
    <3>3. s[j] = Trailer[k]
      BY <3>1, <3>2
    <3> QED BY <3>3 DEF j
  <2> QED BY <2>1, TrailerTyped
<1> DEFINE v == SubSeq(s, l + 5, l + 8)
           w == <<17, 16, 0, 0>>
<1>4. v = w
  <2>1. l + 5 \in Int /\ l + 8 \in Int /\ l + 5 <= l + 8 /\ l + 8 - (l + 5) + 1 = 4
    BY <1>1
  <2>2. \A i \in l + 5 .. l + 8 : s[i] \in Bytes
    <3>1. \A i \in l + 5 .. l + 8 : i \in 1 .. Len(s)
      BY <1>1, <1>2
    <3> QED BY <1>2, <3>1, ElementOfSeq
  <2>3. v \in Seq(Bytes) /\ Len(v) = 4 /\ \A i \in 1 .. 4 : v[i] = s[l + 5 + i - 1]
    <3> DEFINE a == l + 5
               b == l + 8
    <3>1. a \in Int /\ b \in Int /\ a <= b /\ b - a + 1 = 4 /\ \A i \in a .. b : s[i] \in Bytes
      <4>1. a \in Int /\ b \in Int /\ a <= b
        BY <2>1
      <4>2. b - a + 1 = 4
        BY <1>1
      <4>3. \A i \in a .. b : s[i] \in Bytes
        BY <2>2
      <4> QED BY <4>1, <4>2, <4>3
    <3>2. v = SubSeq(s, a, b)
      OBVIOUS
    <3> HIDE DEF a, b, v
    <3>3. /\ v \in Seq(Bytes)
          /\ Len(v) = IF a <= b THEN b - a + 1 ELSE 0
          /\ \A i \in 1 .. b - a + 1 : v[i] = s[a + i - 1]
      BY <3>1, <3>2, SubSeqProperties
    <3>4. v \in Seq(Bytes) /\ Len(v) = 4 /\ \A i \in 1 .. 4 : v[i] = s[a + i - 1]
      BY <3>1, <3>3
    <3> QED BY <3>4 DEF a
  <2> HIDE DEF v
  <2>4. v[1] = 17 /\ v[2] = 16 /\ v[3] = 0 /\ v[4] = 0
    <3>1. /\ 1 \in 1 .. 4 /\ l + 5 + 1 - 1 = l + 5
          /\ 2 \in 1 .. 4 /\ l + 5 + 2 - 1 = l + 6
          /\ 3 \in 1 .. 4 /\ l + 5 + 3 - 1 = l + 7
          /\ 4 \in 1 .. 4 /\ l + 5 + 4 - 1 = l + 8
      BY <1>1
    <3>2. v[1] = s[l + 5] /\ v[2] = s[l + 6] /\ v[3] = s[l + 7] /\ v[4] = s[l + 8]
      BY <2>3, <3>1
    <3> QED BY <1>3, <3>2
  <2>5. w \in Seq(Bytes) /\ Len(w) = 4 /\ w[1] = 17 /\ w[2] = 16 /\ w[3] = 0 /\ w[4] = 0
    BY DEF Bytes
  <2> HIDE DEF w
  <2>6. \A i \in 1 .. Len(v) : v[i] = w[i]
    BY <2>3, <2>4, <2>5
  <2> QED BY <2>3, <2>5, <2>6, SeqEqual
<1>5. Len(s) > 8 /\ Len(s) - 3 = l + 5 /\ Len(s) - 8 = l
  BY <1>1, <1>2
<1>6. SubSeq(s, Len(s) - 3, Len(s)) = <<17, 16, 0, 0>>
  BY <1>2, <1>4, <1>5
<1>7. StreamLength(s) = l
  BY <1>5, <1>6 DEF StreamLength
<1> QED BY <1>7 DEF s, l

\* ROMPacking::Apply cuts off a trailer if there is one, and nothing else.
LEMMA TrailerCut ==
    ASSUME NEW ps \in Seq(Text!Piece), WellWritten(ps), NEW t \in {<<>>, Trailer}
    PROVE  StreamLength(Encode(ps) \o t) = Len(Encode(ps))
<1> DEFINE e == Encode(ps)
           o == Len(Streams(ps)[Len(ps)])
<1>1. e \in Seq(Bytes) /\ o \in Nat /\ Len(e) = o + 3 /\ Lies(e, o, EndMarker)
  BY EncodeTyped
<1> HIDE DEF e, o
<1>2. e[o + 1] = 17 /\ Len(e) > 0
  BY <1>1, EndTyped DEF Lies
<1>3. CASE t = <<>>
  <2>1. e \o t = e
    BY <1>1, <1>3, ConcatEmptySeq
  <2> QED BY <1>1, <1>2, <2>1, MarkerKept DEF e
<1>4. CASE t = Trailer
  BY <1>1, <1>2, <1>4, TrailerDropped DEF e
<1> QED BY <1>3, <1>4

\* What Pack makes is a stream of one run, whose count it writes in its own way.
LEMMA PackIsStream ==
    ASSUME NEW n \in Nat \ (0 .. 18)
    PROVE  /\ Packed(n) \in Seq(Text!Piece) /\ WellWritten(Packed(n))
           /\ Pack(Text!Literals(n, 0)) = Encode(Packed(n))
<1> DEFINE p == Text!Run("lit", n)
           ps == Packed(n)
           l == Text!Literals(n, 0)
<1>1. n \in Nat /\ n > 18
  OBVIOUS
<1>2. p.kind = "lit" /\ p.n = n /\ p.dist = 0 /\ p \in Text!Piece
  BY DEF Text!Run, Text!Piece
<1> HIDE DEF p
<1>3. ps \in Seq(Text!Piece) /\ Len(ps) = 1 /\ ps[1] = p /\ DOMAIN ps = {1}
  BY <1>2 DEF Packed, p
<1> HIDE DEF ps
<1>4. Text!Texts(ps)[0] = <<>>
  BY <1>3, TextsByPiece
<1>5. WellWritten(ps)
  <2>1. Writable(p)
    BY <1>1, <1>2 DEF Writable
  <2>2. p.dist <= Len(Text!Texts(ps)[0])
    BY <1>2, <1>4
  <2>3. p.kind = "lit" /\ p.n > 3
    BY <1>1, <1>2
  <2> QED BY <1>3, <2>1, <2>2, <2>3 DEF WellWritten
<1> DEFINE u == CountBytes(n - 3, 15)
<1>6. RunBytes(p) = <<0>> \o u
  <2>1. CountField(n - 3, 15) = 0 /\ ~(p.kind = "lit" /\ p.n < 4) /\ p.kind # "head"
    BY <1>1, <1>2 DEF CountField
  <2> QED BY <1>2, <2>1 DEF RunBytes
<1>7. u = PackCount(n)
  <2> DEFINE m == n - 18
             z == (m - 1) \div 255
  <2>1. m \in Nat /\ m > 0 /\ n - 3 - 15 - 1 = m - 1 /\ n - 3 - 15 = m /\ ~(n - 3 <= 15)
    BY <1>1
  <2>2. u = [i \in 1 .. z |-> 0] \o <<m - 255 * z>>
    <3>1. u = [i \in 1 .. ((n - 3 - 15 - 1) \div 255) |-> 0]
                \o <<n - 3 - 15 - 255 * ((n - 3 - 15 - 1) \div 255)>>
      BY <2>1 DEF CountBytes
    <3> HIDE DEF m
    <3> QED BY <2>1, <3>1
  <2> HIDE DEF m
  <2>3. (IF m > 255 THEN (m - 1) \div 255 ELSE 0) = z
    BY <2>1
  <2>4. (m - 255 * z) % 256 = m - 255 * z
    <3>1. m - 255 * z \in Nat /\ m - 255 * z < 256
      BY <2>1
    <3> HIDE DEF z
    <3> QED BY <3>1
  <2> HIDE DEF z
  <2>5. PackCount(n) = [i \in 1 .. z |-> 0] \o <<(m - 255 * z) % 256>>
    <3> DEFINE z2 == IF m > 255 THEN (m - 1) \div 255 ELSE 0
    <3>1. PackCount(n) = [i \in 1 .. z2 |-> 0] \o <<(m - 255 * z2) % 256>>
      BY DEF PackCount, m
    <3>2. z2 = z
      BY <2>3
    <3> HIDE DEF z2
    <3> QED BY <3>1, <3>2
  <2> QED BY <2>2, <2>4, <2>5
<1>8. l \in Seq(Bytes) /\ Len(l) = n
  BY <1>1, LiteralsTyped
<1>9. PieceBytes(ps, 1) = (<<0>> \o u) \o l
  <2>1. Text!IsRun(ps[1]) /\ Text!Texts(ps)[1 - 1] = <<>>
    BY <1>2, <1>3, <1>4 DEF Text!IsRun
  <2> HIDE DEF u
  <2> QED BY <1>2, <1>3, <1>6, <2>1 DEF PieceBytes
<1>10. Streams(ps)[1] = (<<0>> \o u) \o l
  <2>1. Streams(ps)[0] = <<>> /\ Streams(ps)[1] = Streams(ps)[0] \o PieceBytes(ps, 1)
    <3>1. \A i \in 1 .. Len(ps) : Streams(ps)[i] = Streams(ps)[i - 1] \o PieceBytes(ps, i)
      BY <1>3, StreamsByPiece
    <3>2. 1 \in 1 .. Len(ps) /\ 1 - 1 = 0
      BY <1>3
    <3>3. Streams(ps)[1] = Streams(ps)[1 - 1] \o PieceBytes(ps, 1)
      BY <3>1, <3>2
    <3> QED BY <1>3, <3>2, <3>3, StreamsByPiece
  <2>2. PieceBytes(ps, 1) \in Seq(Bytes)
    BY <1>3, <1>5, PieceBytesTyped
  <2> QED BY <1>9, <2>1, <2>2, ConcatEmptySeq
<1>11. Encode(ps) = ((<<0>> \o u) \o l) \o EndMarker
  BY <1>3, <1>10 DEF Encode
<1>12. Pack(l) = ((<<0>> \o u) \o l) \o EndMarker
  <2> HIDE DEF u, l
  <2> QED BY <1>7, <1>8 DEF Pack
<1> QED BY <1>3, <1>5, <1>11, <1>12 DEF ps

LEMMA InitHolds ==
    ASSUME Init
    PROVE  IInv /\ Text!Init
<1>1. \E t \in {<<>>, Trailer} :
        pieces \in Seq(Text!Piece) /\ WellWritten(pieces) /\ src = Encode(pieces) \o t
  <2>1. CASE pieces \in Pieces /\ \E t \in {<<>>, Trailer} : src = Encode(pieces) \o t
    BY <2>1, PiecesAssumption
  <2>2. CASE \E n \in PackSizes : pieces = Packed(n) /\ src = Pack(Text!Literals(n, 0))
    <3>1. PICK n \in PackSizes : pieces = Packed(n) /\ src = Pack(Text!Literals(n, 0))
      BY <2>2
    <3>2. n \in Nat \ (0 .. 18)
      BY SizesAssumption
    <3>3. pieces \in Seq(Text!Piece) /\ WellWritten(pieces) /\ src = Encode(pieces)
      BY <3>1, <3>2, PackIsStream
    <3>4. Encode(pieces) \in Seq(Bytes)
      BY <3>3, EncodeTyped
    <3>5. src = Encode(pieces) \o <<>>
      BY <3>3, <3>4, ConcatEmptySeq
    <3> QED BY <3>3, <3>5
  <2> QED BY <2>1, <2>2 DEF Init
<1>2. srclen = StreamLength(src) /\ done = 0 /\ text = <<>> /\ in = 0 /\ code = 0 /\ read = 1 /\ at = "first"
  BY DEF Init
<1>3. IsStream
  BY <1>1, <1>2, TrailerCut DEF IsStream
<1>4. pieces \in Seq(Text!Piece) /\ Len(pieces) \in Nat /\ Place(0) = 0
  BY <1>3, StreamFacts DEF IsStream
<1>5. Stands(at, done, in, code)
  BY <1>2, <1>4 DEF Stands
<1>6. text = Text!Texts(pieces)[done]
  BY <1>2, <1>4, TextsByPiece
<1>7. Len(text) = 0
  BY <1>2
<1>8. IInv
  BY <1>2, <1>3, <1>4, <1>5, <1>6, <1>7 DEF IInv
<1>9. Text!Init
  BY <1>2, <1>4 DEF Text!Init
<1> QED BY <1>8, <1>9

-----------------------------------------------------------------------------
(* The theorems.                                                           *)

\* Every step keeps the invariant, and is a step of PackedText or none.
LEMMA StepHolds ==
    ASSUME IInv, [Next]_vars
    PROVE  IInv' /\ [Text!Next]_(Text!vars)
<1>1. CASE UNCHANGED vars
  <2>1. UNCHANGED Text!vars
    BY <1>1 DEF vars, Text!vars
  <2>2. /\ Stream /\ at' = at /\ done' = done /\ in' = in /\ code' = code /\ text' = text
        /\ read' = read
    BY <1>1 DEF vars, Stream
  <2> QED BY <2>1, <2>2, StreamStays DEF IInv
<1>2. CASE FirstByte
  BY <1>2, FirstByteStep
<1>3. CASE Standard
  BY <1>3, StandardStep
<1>4. CASE Alternative
  BY <1>4, AlternativeStep
<1>5. CASE OffsetCount
  BY <1>5, OffsetCountStep
<1>6. CASE Near
  BY <1>6, NearStep
<1>7. CASE Mid
  BY <1>7, MidStep
<1>8. CASE Far
  BY <1>8, FarStep
<1>9. CASE Finish
  BY <1>9, FinishStep
<1> QED BY <1>1, <1>2, <1>3, <1>4, <1>5, <1>6, <1>7, <1>8, <1>9 DEF Next

\* Unpack always stands where a piece begins, at the label that piece needs.
THEOREM Inductive == Spec => []IInv
<1>1. Init => IInv
  BY InitHolds
<1>2. IInv /\ [Next]_vars => IInv'
  BY StepHolds
<1> QED BY <1>1, <1>2, PTL DEF Spec

\* TypeOK, of Unpack's variables and labels.
THEOREM TypeCorrect == Spec => []TypeOK
<1>1. IInv => TypeOK
  <2>1. SUFFICES ASSUME IInv PROVE TypeOK
    OBVIOUS
  <2>2. /\ IsStream /\ done \in 0 .. Len(pieces) /\ read \in Int /\ code \in Nat /\ code < 256
        /\ Stands(at, done, in, code)
    BY <2>1 DEF IInv
  <2>3. Place(done) \in Nat /\ srclen \in Nat /\ pieces \in Seq(Text!Piece)
    BY <2>2, StreamFacts DEF IsStream
  <2>4. in \in Nat /\ at \in {"first", "standard", "alternative", "offset", "command", "done", "failed"}
    BY <2>2, <2>3 DEF Stands
  <2>5. code \in 0 .. 255
    BY <2>2
  <2> QED BY <2>2, <2>3, <2>4, <2>5 DEF TypeOK
<1> QED BY <1>1, Inductive, PTL

\* StaysInside: Unpack, which checks no bounds, neither reads src beyond the
\* length it was told nor what it has not written.
THEOREM NeverOutside == Spec => []StaysInside
<1>1. IInv => StaysInside
  <2>1. SUFFICES ASSUME IInv PROVE StaysInside
    OBVIOUS
  <2>2. /\ IsStream /\ done \in 0 .. Len(pieces) /\ Stands(at, done, in, code)
        /\ 1 <= read /\ read <= Len(text) + 1
    BY <2>1 DEF IInv
  <2>3. Place(done) \in Nat /\ srclen \in Nat /\ Place(done) + 3 <= srclen
    BY <2>2, StreamFacts
  <2>4. in <= srclen
    BY <2>2, <2>3 DEF Stands
  <2> QED BY <2>2, <2>4 DEF StaysInside
<1> QED BY <1>1, Inductive, PTL

\* Accepted: whatever was written, by the packer of the game or by Pack, is
\* taken, and at the end the text is there, the whole of it.
THEOREM EveryStreamAccepted == Spec => []Accepted
<1>1. IInv => Accepted
  <2>1. SUFFICES ASSUME IInv PROVE Accepted
    OBVIOUS
  <2>2. text = Text!Texts(pieces)[done] /\ Stands(at, done, in, code)
    BY <2>1 DEF IInv
  <2>3. at # "failed" /\ (at = "done" => done = Len(pieces))
    BY <2>2 DEF Stands
  <2> QED BY <2>2, <2>3 DEF Accepted, Text!TextOf
<1> QED BY <1>1, Inductive, PTL

\* Unpack implements PackedText: each of its steps puts the next piece behind
\* the text, or leaves the text alone.
THEOREM UnpackImplements == Spec => Implements
<1>1. Init => Text!Init
  BY InitHolds
<1>2. IInv /\ [Next]_vars => [Text!Next]_(Text!vars)
  BY StepHolds
<1> QED BY <1>1, <1>2, Inductive, PTL DEF Spec, Implements, Text!Spec
=============================================================================
