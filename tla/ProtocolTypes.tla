---------------------------- MODULE ProtocolTypes ----------------------------
(***************************************************************************)
(* The types of lib/protocoldefinition.h and what their Fill functions in  *)
(* lib/protocoldecode.cc take from a buffer.  All builtin types are arrays *)
(* of entries of some width: a string's entries are its bytes, a length or *)
(* a timestamp is one entry.  A number is the value of its bytes; signs    *)
(* and the bit patterns of float and double matter to the display only.    *)
(***************************************************************************)
EXTENDS Integers, Sequences

CONSTANTS Word,      \* sizeof(uint32_t) and sizeof(float); a double has twice that
          ByteBase   \* number of values of a byte

ASSUME WordAssumption == Word \in Nat \ {0} /\ ByteBase \in Nat \ {0}

\* What a buffer holds that nobody has written.
Junk == -1

Least(a, b) == IF a <= b THEN a ELSE b

\* A type as its constructor makes it.  fixed, enumeration, annotation and
\* display are sets of at most one element, empty if the attribute is absent.
Builtin(kind, name, width) ==
    [kind |-> kind, name |-> name, width |-> width, count |-> 1, min |-> 1,
     fixed |-> {}, enumeration |-> {}, annotation |-> {}, display |-> {},
     decimal |-> FALSE, actions |-> <<>>, size |-> 0, places |-> {}]

\* What a structure is made of, in order: fields, transformations, annotations.
Field(name, t) == [do |-> "field", name |-> name, type |-> t]
Step(do, name) == [do |-> do, name |-> name]

\* The parts of a kind, in their order.
Only(do, parts) ==
    LET some[i \in 0..Len(parts)] ==
          IF i = 0 THEN <<>>
          ELSE IF parts[i].do = do THEN Append(some[i - 1], parts[i]) ELSE some[i - 1]
    IN some[Len(parts)]
Fields(actions) == Only("field", actions)

\* What the first i numbers come to.
Sums(numbers) ==
    LET sum[i \in 0..Len(numbers)] == IF i = 0 THEN 0 ELSE sum[i - 1] + numbers[i] IN sum
Total(numbers) == Sums(numbers)[Len(numbers)]

\* A size of every field; other actions have none.
Sizes(actions, Size(_)) ==
    [i \in 1..Len(actions) |-> IF actions[i].do = "field" THEN Size(actions[i].type) ELSE 0]

IsStruct(t) == t.kind = "struct"

\* Type::GetConstantSize: 0 if the size may vary.  A structure carries this
\* size, and its full size as its width.
ConstantSize(t) ==
    IF IsStruct(t) THEN t.size
    ELSE IF t.count = t.min THEN t.count * t.width ELSE 0

\* Where Print shows values: a structure's own place has none, and it carries
\* the places of its fields, those of structures in it included.
Leaves(t) == IF IsStruct(t) THEN t.places ELSE {<<>>}
PlacesIn(actions) ==
    UNION {{<<i>> \o place : place \in Leaves(actions[i].type)} :
              i \in {j \in DOMAIN actions : actions[j].do = "field"}}

\* sizeof of the C++ type.
FullSize(t) == t.count * t.width

\* How many entries Fill reads with `left` bytes left; 0 if there are too few.
Entries(t, left) ==
    IF t.width * t.min > left THEN 0 ELSE Least(left \div t.width, t.count)

\* The number in the w bytes of buf from position i + 1 on, lowest byte first.
Number(buf, i, w) ==
    LET sum[k \in 0..w] == IF k = 0 THEN 0 ELSE ByteBase * sum[k - 1] + buf[i + w - k + 1]
    IN sum[w]

\* How many numbers w bytes can hold.
Capacity(w) == LET power[k \in 0..w] == IF k = 0 THEN 1 ELSE ByteBase * power[k - 1] IN power[w]

\* What is kept of a number: a length includes itself.
Stored(kind, n) == IF kind = "length" THEN (n + Word) % Capacity(Word) ELSE n

\* The value after reading n entries: the others keep what they had.
Read(t, buf, i, n, old) ==
    [k \in 1..t.count |->
        IF k <= n THEN Stored(t.kind, Number(buf, i + (k - 1) * t.width, t.width)) ELSE old[k]]

\* A fixed value has to be there; a length has to be that of all that is left.
Acceptable(t, value, left) ==
    /\ t.kind \in {"unsigned", "signed"} => \A f \in t.fixed : value[1] = f
    /\ t.kind = "length" => value[1] = left

\* Fill: the bytes taken, 0 or less if the type rejects what it finds.
Taken(t, value, left) ==
    IF Acceptable(t, value, left) THEN t.width * Entries(t, left) ELSE 0
=============================================================================
