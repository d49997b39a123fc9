------------------------------ MODULE ROMPack ------------------------------
(***************************************************************************)
(* lib/rompack.cc: Unpack as a machine over bytes, one action per label of *)
(* the code, and Pack.  The streams come from the packer of the game,      *)
(* which is not part of the repository: Encode writes pieces the way the   *)
(* comments in Unpack describe the commands it reads.  romdump's           *)
(* ROMPacking::Apply, which cuts off a trailer first, is included.         *)
(***************************************************************************)
EXTENDS Integers, Sequences, SequencesExt

CONSTANTS Pieces,        \* what the packer of the game may have written
          FarBase,       \* 0x801: what is added to the offset of an "alt" match
          VeryFarBase,   \* 0x4000: what is added to the offset of a "far" match
          PackSizes      \* sizes of the data given to Pack

ASSUME BasesAssumption == FarBase \in Nat \ {0} /\ VeryFarBase \in Nat \ {0}

VARIABLES pieces, done, text, \* as in PackedText
          src,    \* the packed bytes
          srclen, \* the length Unpack is told
          in,     \* bytes of src that have been read
          code,   \* the command being read
          at,     \* label of the code the machine stands at
          read    \* lowest position of the text read so far, 1 being the first

Text == INSTANCE PackedText

\* What Pack makes of n bytes is a stream too: one run.
Packed(n) == <<Text!Run("lit", n)>>

vars == <<pieces, done, text, src, srclen, in, code, at, read>>

-----------------------------------------------------------------------------
(* The packer.                                                             *)

\* A count is written as it is, or as 0 in the command, followed by one zero
\* for every 255 and by the rest; mask is the largest count in a command.
CountField(n, mask) == IF n <= mask THEN n ELSE 0
CountBytes(n, mask) ==
    IF n <= mask THEN <<>>
    ELSE LET zeroes == (n - mask - 1) \div 255
         IN [i \in 1..zeroes |-> 0] \o <<n - mask - 255 * zeroes>>

Word16(n) == <<n % 256, n \div 256>>

\* A match and the number of literals, below four, that follow it.
MatchBytes(p, lits) ==
    CASE p.kind = "near" -> <<32 * (p.n - 1) + 4 * ((p.dist - 1) % 8) + lits, (p.dist - 1) \div 8>>
      [] p.kind = "mid"  -> <<32 + CountField(p.n - 2, 31)>> \o CountBytes(p.n - 2, 31)
                              \o Word16(4 * (p.dist - 1) + lits)
      [] p.kind = "far"  -> LET off == p.dist - VeryFarBase
                            IN <<16 + 8 * (off \div 16384) + CountField(p.n - 2, 7)>>
                                 \o CountBytes(p.n - 2, 7) \o Word16(4 * (off % 16384) + lits)
      [] p.kind = "alt"  -> <<4 * ((p.dist - FarBase) % 4) + lits, (p.dist - FarBase) \div 4>>

\* The literals after a match, below four, are counted by the match.
RunBytes(p) ==
    CASE p.kind = "head" -> <<17 + p.n>>
      [] p.kind = "lit" /\ p.n < 4 -> <<>>
      [] OTHER -> <<CountField(p.n - 3, 15)>> \o CountBytes(p.n - 3, 15)

EndMarker == <<17, 0, 0>>

\* The literals that ps[i], a match, counts.
LitsBehind(ps, i) ==
    IF i < Len(ps) /\ Text!IsRun(ps[i + 1]) /\ ps[i + 1].n < 4 THEN ps[i + 1].n ELSE 0

PieceBytes(ps, i) ==
    IF Text!IsRun(ps[i])
    THEN RunBytes(ps[i]) \o Text!Literals(ps[i].n, Len(Text!Texts(ps)[i - 1]))
    ELSE MatchBytes(ps[i], LitsBehind(ps, i))

\* The stream, piece by piece.
Streams(ps) ==
    LET s[i \in 0 .. Len(ps)] == IF i = 0 THEN <<>> ELSE s[i - 1] \o PieceBytes(ps, i) IN s

Encode(ps) == Streams(ps)[Len(ps)] \o EndMarker

\* What a piece may be: the counts and offsets its form has bits for.
Writable(p) ==
    /\ p \in Text!Piece
    /\ \/ p.kind = "head" /\ p.n > 0 /\ p.n <= 238
       \/ p.kind = "lit" /\ p.n > 0
       \/ p.kind = "near" /\ p.n \in 3..8 /\ p.dist > 0 /\ p.dist <= 2048
       \/ p.kind = "mid" /\ p.n > 2 /\ p.dist > 0 /\ p.dist <= 16384
       \/ p.kind = "far" /\ p.n > 2 /\ p.dist > VeryFarBase /\ p.dist < VeryFarBase + 32768
       \/ p.kind = "alt" /\ p.n = 3 /\ p.dist >= FarBase /\ p.dist < FarBase + 1024

\* What may stand behind p: a command below 0x10 says something else at each
\* label of Unpack, and up to three literals are counted by a match.
Follows(p, q) ==
    IF Text!IsRun(p)
    THEN \/ q.kind \in {"near", "mid", "far"}
         \/ q.kind = "alt" /\ p.n > 3
         \/ q.kind = "lit" /\ q.n > 3 /\ p.kind = "head" /\ p.n < 4
    ELSE q.kind \in {"lit", "near", "mid", "far"}

\* What the packer of the game may write.
WellWritten(ps) ==
    \A i \in DOMAIN ps :
        /\ Writable(ps[i])
        /\ ps[i].dist <= Len(Text!Texts(ps)[i - 1])
        /\ IF i = 1 THEN ps[i].kind = "head" \/ (ps[i].kind = "lit" /\ ps[i].n > 3)
           ELSE Follows(ps[i - 1], ps[i])

ASSUME PiecesAssumption == \A ps \in Pieces : ps \in Seq(Text!Piece) /\ WellWritten(ps)

\* The command that Pack writes stands for runs of more than 18 bytes.  Its
\* assertion stops it at exactly 18; of fewer it makes a wrong count, and the
\* pieces are not what such a stream encodes.  Those sizes are left out here.
ASSUME SizesAssumption == PackSizes \subseteq Nat \ (0..18)

\* ROMPack::Pack: one run, whatever the data; the length is an int, and what
\* is stored of it a byte.
PackCount(size) ==
    LET len == size - 18
        zeroes == IF len > 255 THEN (len - 1) \div 255 ELSE 0
    IN [i \in 1..zeroes |-> 0] \o <<(len - 255 * zeroes) % 256>>
Pack(data) == <<0>> \o PackCount(Len(data)) \o data \o EndMarker

-----------------------------------------------------------------------------
(* ROMPacking::Apply.                                                      *)

Trailer == <<9, 9, 9, 9, 17, 16, 0, 0>>

\* Mutants: the trailer is left in place; eight bytes are cut off untested.
StreamLength_Whole(bytes) == Len(bytes)
StreamLength_Untested(bytes) == IF Len(bytes) > 8 THEN Len(bytes) - 8 ELSE Len(bytes)

\* The last eight bytes are not part of the stream if they end like this.
StreamLength(bytes) ==
    IF Len(bytes) > 8 /\ SubSeq(bytes, Len(bytes) - 3, Len(bytes)) = <<17, 16, 0, 0>>
    THEN Len(bytes) - 8 ELSE Len(bytes)

Init == /\ \/ /\ pieces \in Pieces
              /\ \E t \in {<<>>, Trailer} : src = Encode(pieces) \o t
           \/ \E n \in PackSizes : /\ pieces = Packed(n)
                                   /\ src = Pack(Text!Literals(n, 0))
        /\ srclen = StreamLength(src)
        /\ done = 0 /\ text = <<>> /\ in = 0 /\ code = 0 /\ read = 1
        /\ at = "first"

-----------------------------------------------------------------------------
(* Unpack.                                                                 *)

Byte(i) == src[i + 1]                  \* *(in + i) is Byte(in + i)
Offset14(i) == (Byte(i) + 256 * Byte(i + 1)) \div 4

\* HANDLE_COUNT: the count, and where the bytes of the count end.  Its loop
\* runs over bytes of zero to the first other one.
Rest(i) == Min({k \in (i + 1)..Len(src) : src[k] # 0})
Count(acc, mask, i) ==
    IF acc % (mask + 1) # 0 THEN [n |-> acc % (mask + 1), in |-> i]
    ELSE [n |-> 255 * (Rest(i) - i - 1) + src[Rest(i)] + mask, in |-> Rest(i)]

\* COPY(out, in, n)
CopyLiterals(n, i) ==
    /\ text' = text \o SubSeq(src, i + 1, i + n)
    /\ in' = i + n
    /\ done' = done + 1
    /\ UNCHANGED read

\* Mutant: the source is what was there when the loop began.
CopyMatch_NoOverlap(n, dist, i) ==
    /\ text' = text \o [k \in 1..n |-> IF k <= dist THEN text[Len(text) - dist + k] ELSE 0]
    /\ in' = i
    /\ done' = done + 1
    /\ read' = IF Len(text) - dist + 1 < read THEN Len(text) - dist + 1 ELSE read

\* COPY(out, buf, n) with buf = out - dist: a byte at a time, so that buf may
\* run into what this very loop has written.
Copied(t, n, dist) ==
    LET out[k \in 1..(Len(t) + n)] == IF k <= Len(t) THEN t[k] ELSE out[k - dist] IN out

CopyMatch(n, dist, i) ==
    /\ text' = Copied(text, n, dist)
    /\ in' = i
    /\ done' = done + 1
    /\ read' = IF Len(text) - dist + 1 < read THEN Len(text) - dist + 1 ELSE read

Stream == UNCHANGED <<pieces, src, srclen>>

\* The first byte may be the length of a run.
FirstByte ==
    /\ at = "first"
    /\ \/ /\ Byte(0) > 17
          /\ CopyLiterals(Byte(0) - 17, 1)
          /\ at' = IF Byte(0) - 17 < 4 THEN "standard" ELSE "alternative"
       \/ /\ Byte(0) <= 17
          /\ at' = "standard"
          /\ UNCHANGED <<text, in, done, read>>
    /\ UNCHANGED code /\ Stream

\* Mutant: bytes are signed.
FetchCommand_Signed(i) ==
    code' = (IF Byte(i) < 128 THEN Byte(i) ELSE Byte(i) - 256) /\ in' = i + 1 /\ at' = "command"

FetchCommand(i) == code' = Byte(i) /\ in' = i + 1 /\ at' = "command"

\* try_00to0F_standard: below 0x10 a run of literals.
Standard ==
    /\ at = "standard"
    /\ \/ Byte(in) >= 16 /\ FetchCommand(in) /\ UNCHANGED <<text, done, read>>
       \/ /\ Byte(in) < 16
          /\ LET count == Count(Byte(in), 15, in + 1) IN CopyLiterals(count.n + 3, count.in)
          /\ at' = "alternative"
          /\ UNCHANGED code
    /\ Stream

\* try_00to0F_alternative: below 0x10 three bytes from far away.
Alternative ==
    /\ at = "alternative"
    /\ \/ Byte(in) >= 16 /\ FetchCommand(in) /\ UNCHANGED <<text, done, read>>
       \/ /\ Byte(in) < 16
          /\ CopyMatch(3, Byte(in) \div 4 + 4 * Byte(in + 1) + FarBase, in + 2)
          /\ at' = "offset"
          /\ UNCHANGED code
    /\ Stream

\* Mutant: back to the wrong label.
OffsetCount_Again ==
    /\ at = "offset"
    /\ \/ /\ Byte(in - 2) % 4 = 0
          /\ UNCHANGED <<text, in, done, read, code, at>>
       \/ LET n == Byte(in - 2) % 4 IN
          /\ n # 0
          /\ text' = text \o SubSeq(src, in + 1, in + n)
          /\ done' = done + 1
          /\ FetchCommand(in + n)
          /\ UNCHANGED read
    /\ Stream

\* handle_offset_count: the two lowest bits of the offset count literals.
OffsetCount ==
    /\ at = "offset"
    /\ \/ /\ Byte(in - 2) % 4 = 0
          /\ at' = "standard"
          /\ UNCHANGED <<text, in, done, read, code>>
       \/ LET n == Byte(in - 2) % 4 IN
          /\ n # 0
          /\ text' = text \o SubSeq(src, in + 1, in + n)
          /\ done' = done + 1
          /\ FetchCommand(in + n)
          /\ UNCHANGED read
    /\ Stream

\* try_standard, code >= 0x40: cccbbbaa dddddddd
Near ==
    /\ at = "command" /\ code >= 64
    /\ CopyMatch(code \div 32 + 1, 8 * Byte(in) + ((code \div 4) % 8) + 1, in + 1)
    /\ at' = "offset"
    /\ UNCHANGED code /\ Stream

\* 001aaaaa oooooooooooooobb
Mid ==
    /\ at = "command" /\ code \in 32..63
    /\ LET count == Count(code, 31, in)
       IN CopyMatch(count.n + 2, Offset14(count.in) + 1, count.in + 2)
    /\ at' = "offset"
    /\ UNCHANGED code /\ Stream

FarCount == Count(code, 7, in)
FarOffset == 2048 * (code - (code % 8) - 16) + Offset14(FarCount.in)

\* 0001baaa oooooooooooooobb
Far ==
    /\ at = "command" /\ code \in 16..31
    /\ FarOffset # 0
    /\ CopyMatch(FarCount.n + 2, FarOffset + VeryFarBase, FarCount.in + 2)
    /\ at' = "offset"
    /\ UNCHANGED code /\ Stream

\* Offset zero ends the stream, which must end there; a command below 0x10 is
\* refused in this place.
Finish ==
    /\ at = "command"
    /\ code < 16 \/ (code < 32 /\ FarOffset = 0)
    /\ in' = IF code < 16 THEN in ELSE FarCount.in + 2
    /\ at' = IF code >= 16 /\ in' = srclen THEN "done" ELSE "failed"
    /\ UNCHANGED <<text, done, code, read>> /\ Stream

Next == FirstByte \/ Standard \/ Alternative \/ OffsetCount
          \/ Near \/ Mid \/ Far \/ Finish

Spec == Init /\ [][Next]_vars
FairSpec == Spec /\ WF_vars(Next)

-----------------------------------------------------------------------------
(* Properties.                                                             *)

TypeOK ==
    /\ pieces \in Seq(Text!Piece)
    /\ done \in 0..Len(pieces)
    /\ in \in Nat /\ code \in 0..255 /\ read \in Int
    /\ at \in {"first", "standard", "alternative", "offset", "command", "done", "failed"}

\* Unpack has no bounds of its own: it reads src only as far as it was told
\* to, and of dst only what it has written.
StaysInside == in <= srclen /\ 1 <= read /\ read <= Len(text) + 1

\* Whatever the packer wrote is unpacked, up to the last byte: neither the
\* meaning of a command below 0x10, nor a count, nor a trailer is mistaken.
Accepted ==
    /\ at # "failed"
    /\ at = "done" => done = Len(pieces) /\ text = Text!TextOf(pieces)

\* Unpack puts the text together piece by piece, whatever the form in which
\* a piece was written.
Implements == Text!Spec

\* Unpack comes to an end.
Unpacks == <>(at = "done")

=============================================================================
