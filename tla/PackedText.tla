----------------------------- MODULE PackedText -----------------------------
(***************************************************************************)
(* What a ROMPack stream says, without its bytes: a text is put together   *)
(* from pieces, each a run of literal bytes or the repetition of `n` bytes *)
(* found `dist` bytes back.  A repetition may reach into itself.           *)
(***************************************************************************)
EXTENDS Integers, Sequences

VARIABLES pieces,    \* the stream
          done,      \* pieces put into the text so far
          text       \* the text so far

vars == <<pieces, done, text>>

\* A run is introduced by a command or the previous match ("lit"), or by the
\* first byte of the stream ("head"); a match is written in one of four forms.
Run(form, n) == [kind |-> form, n |-> n, dist |-> 0]
Match(form, n, dist) == [kind |-> form, n |-> n, dist |-> dist]
Piece == [kind : {"lit", "head", "near", "mid", "far", "alt"}, n : Nat, dist : Nat]
IsRun(p) == p.kind \in {"lit", "head"}

\* Literal bytes differ from their neighbours, so that a byte out of place is
\* seen; a byte depends only on where it stands.
Literals(n, place) == [i \in 1..n |-> (place + i) % 251]

\* n bytes from dist bytes before the end of t on: what lies behind the end
\* has been copied by the same repetition.
Repetition(t, n, dist) == [i \in 1..n |-> t[Len(t) - dist + 1 + ((i - 1) % dist)]]

Extend(t, p) ==
    t \o IF IsRun(p) THEN Literals(p.n, Len(t)) ELSE Repetition(t, p.n, p.dist)

\* The texts on the way, from the empty one to the one that ps says.
Texts(ps) ==
    LET t[i \in 0 .. Len(ps)] == IF i = 0 THEN <<>> ELSE Extend(t[i - 1], ps[i]) IN t
TextOf(ps) == Texts(ps)[Len(ps)]

Init == pieces \in Seq(Piece) /\ done = 0 /\ text = <<>>

Next == /\ done < Len(pieces)
        /\ text' = Extend(text, pieces[done + 1])
        /\ done' = done + 1
        /\ UNCHANGED pieces

Spec == Init /\ [][Next]_vars
=============================================================================
