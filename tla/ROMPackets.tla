----------------------------- MODULE ROMPackets -----------------------------
(***************************************************************************)
(* A packet of the Runes of Magic protocol, as far as                      *)
(* ROMConnection::OnEvent tells packets apart, and the questions OnEvent   *)
(* asks of one, in the order it asks them.  The byte arithmetic of the     *)
(* checksums and of the mangling is abstracted to what it decides: hdrok   *)
(* says whether the header checksum verifies, accepts is the set of keys   *)
(* under which the data checksum verifies after decryption.  An 8-bit sum  *)
(* may verify under several keys, so accepts need not be a singleton.      *)
(***************************************************************************)
EXTENDS Integers

CONSTANTS
    HeaderSize,     \* sizeof(struct ROM::Packet), 12 in the code
    KeyLength,      \* ROM_KEY_LENGTH, 10 in the code
    MaxPacketSize,  \* ROMConnection::s_MaxPacketSize, 131072 in the code
    Keys,           \* the key tables a KEY packet can carry
    FixedKey,       \* the constant key 8, used when p_keynum is 0xff
    NoKey           \* the all-zero table the constructor fills in

ASSUME SizeAssumption ==
    /\ HeaderSize \in Nat \ {0}
    /\ KeyLength \in Nat
    /\ MaxPacketSize \in Nat
    /\ HeaderSize < MaxPacketSize

ASSUME KeyAssumption == FixedKey \notin Keys /\ NoKey \notin Keys

Flag == {"KEY", "ENCRYPTED", "ALIVE_REQUEST", "ALIVE_REPLY"}

\* p_keynum: an index into the key table, 0xff, or an index past the table,
\* where the code reads whatever lies behind the array.
KeyNum == {"table", "fixed", "beyond"}

Packet == [length  : Nat,
           flags   : SUBSET Flag,
           keynum  : KeyNum,
           hdrok   : BOOLEAN,
           key     : Keys,
           accepts : SUBSET (Keys \cup {FixedKey, NoKey})]

-----------------------------------------------------------------------------
\* Slips of LengthOK and KeyFor that the properties must notice.
LengthOK_NoMaximum(p) == p.length >= HeaderSize
KeyFor_Inverted(p, key) == IF p.keynum # "fixed" THEN FixedKey ELSE key

LengthOK(p) == p.length >= HeaderSize /\ p.length < MaxPacketSize

\* KEY is tested before the checksums: a key packet is never verified.
IsKey(p) == "KEY" \in p.flags
CarriesKey(p) == IsKey(p) /\ p.length - HeaderSize = KeyLength

HeaderBad(p) == ~IsKey(p) /\ ~p.hdrok
Verified(p) == ~IsKey(p) /\ p.hdrok

IsKeepalive(p) == Verified(p) /\ "ALIVE_REQUEST" \in p.flags
IsPlain(p) == /\ Verified(p)
              /\ "ALIVE_REQUEST" \notin p.flags
              /\ p.flags # {"ENCRYPTED"}
IsData(p) == Verified(p) /\ p.flags = {"ENCRYPTED"}

\* The packets OnEvent drops: a KEY packet of another size, an unencrypted
\* packet, and any encrypted packet before the first key.
Ignored(p, haveKey) ==
    \/ IsKey(p) /\ ~CarriesKey(p)
    \/ IsPlain(p)
    \/ IsData(p) /\ ~haveKey

\* The key OnEvent decrypts with, and the verdicts the data checksum can give.
KeyFor(p, key) == IF p.keynum = "fixed" THEN FixedKey ELSE key
DataChecksum(p, key) ==
    IF p.keynum = "beyond" THEN BOOLEAN ELSE {KeyFor(p, key) \in p.accepts}
=============================================================================
