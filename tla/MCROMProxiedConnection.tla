----------------------- MODULE MCROMProxiedConnection -----------------------
(* ROMProxiedConnection with two keys the server can hand out.             *)
EXTENDS ROMProxiedConnection
CONSTANTS k1, k2
MCKeys == {k1, k2}
=============================================================================
