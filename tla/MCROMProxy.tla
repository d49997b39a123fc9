----------------------------- MODULE MCROMProxy -----------------------------
(* ROMProxy with a login server, two game servers and one port taken.      *)
EXTENDS ROMProxy
CONSTANTS login, s1, s2
MCServers == {s1, s2}
MCOneServer == {s1}
=============================================================================
