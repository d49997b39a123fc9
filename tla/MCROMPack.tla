------------------------------ MODULE MCROMPack ------------------------------
(* ROMPack on streams of at most five pieces: runs and matches whose counts *)
(* lie at the ends of the ranges of each form of a command.                 *)
EXTENDS ROMPack

Lens(form) ==
    CASE form = "near" -> {3, 8}
      [] form = "mid"  -> {3, 33, 34, 288, 289}
      [] form = "far"  -> {3, 9, 10, 264, 265}
      [] form = "alt"  -> {3}

\* What a form reaches in a text of length size.
Dists(form, size) ==
    {d \in {1, 2, 4, FarBase, FarBase + 3, VeryFarBase + 1, VeryFarBase + 5, size - 1, size} :
        /\ d \in 1..size
        /\ CASE form = "near" -> d <= 2048
             [] form = "mid"  -> d <= 16384
             [] form = "far"  -> d > VeryFarBase
             [] form = "alt"  -> d >= FarBase /\ d < FarBase + 1024}

Matches(forms, size) ==
    UNION {{Text!Match(f, n, d) : n \in Lens(f), d \in Dists(f, size)} : f \in forms}

Plain == {"near", "mid", "far"}
AfterRun == Plain \cup {"alt"}

Heads == {Text!Run("head", n) : n \in {1, 3, 4, 238}}
Runs == {Text!Run("lit", n) : n \in {4, 18, 19, 273, 274}}

\* A run, or two; a match; literals; a match that depends on what was before.
Starts == {<<r>> : r \in Heads \cup Runs} \cup {<<Text!Run("head", 3), Text!Run("lit", 4)>>}
SizeOf(ps) == Len(Text!TextOf(ps))
FirstMatch(ps) == IF ps[Len(ps)].n < 4 THEN Plain ELSE AfterRun

OneMatch == UNION {{Append(s, m) : m \in Matches(FirstMatch(s), SizeOf(s))} : s \in Starts}

TwoMatches ==
    LET s == <<Text!Run("lit", 19)>>
        Firsts == {m \in Matches(AfterRun, 19) : m.dist \in {1, 5, 9, 19} /\ m.n < 34}
        Betweens == {<<>>} \cup {<<Text!Run("lit", n)>> : n \in {1, 3, 4, 19}}
        Lasts(b) == {m \in Matches(IF b # <<>> /\ b[1].n >= 4 THEN AfterRun ELSE Plain, 19) :
                        m.dist \in {1, 9, 18} /\ m.n < 34}
    IN UNION {{(Append(s, m) \o b) \o <<l>> : m \in Firsts, l \in Lasts(b)} : b \in Betweens}

\* A text so long that the highest bit of a far offset is needed.
Long == {<<Text!Run("lit", 16500), Text!Match("far", 9, VeryFarBase + d)>> : d \in {16383, 16384, 16400}}

MCPieces == OneMatch \cup TwoMatches \cup Long
MCPackSizes == (19..40) \cup (270..276) \cup (526..531)
=============================================================================
