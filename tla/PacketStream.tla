---------------------------- MODULE PacketStream ----------------------------
(***************************************************************************)
(* What a ROMConnection promises the object behind its callbacks: the      *)
(* packets of the peer's byte stream are answered one by one, each exactly *)
(* once and in the order they were sent, as if each had arrived whole.     *)
(* There are no reads, no buffer and no leftovers here, so nothing in this *)
(* specification can depend on how TCP cuts the stream into chunks, and    *)
(* running out of buffer space is not among the reasons to give up.        *)
(***************************************************************************)
EXTENDS ROMPackets, Sequences

CONSTANTS
    StreamLen,   \* bytes the peer sends before it falls silent
    Streams      \* the streams a peer may send: the packet read at each offset

VARIABLES
    stream,         \* the peer's stream
    next,           \* offset of the first packet that is not answered yet
    haveKey, key,   \* the key in force for that packet
    handled,        \* the answers so far, each with its packet's offset
    cause           \* "open", or why the connection was given up

vars == <<stream, next, haveKey, key, handled, cause>>

\* The answers that end the connection, and those after which it goes on.
Fatal == {"badheader", "baddata", "noreply"}
Benign == {"newkey", "ignored", "reply", "packet"}

Fits(p, answer) ==
    \/ answer = "newkey"    /\ CarriesKey(p)
    \/ answer = "ignored"   /\ Ignored(p, haveKey)
    \/ answer = "badheader" /\ HeaderBad(p)
    \/ answer \in {"reply", "noreply"} /\ IsKeepalive(p)
    \/ answer = "packet"    /\ IsData(p) /\ haveKey /\ TRUE \in DataChecksum(p, key)
    \/ answer = "baddata"   /\ IsData(p) /\ haveKey /\ FALSE \in DataChecksum(p, key)

Init == /\ stream \in Streams
        /\ next = 0
        /\ haveKey = FALSE
        /\ key = NoKey
        /\ handled = <<>>
        /\ cause = "open"

\* The next packet has been sent in full and is answered.
Answer(answer) ==
    LET p == stream[next] IN
    /\ cause = "open"
    /\ next + HeaderSize <= StreamLen
    /\ LengthOK(p)
    /\ next + p.length <= StreamLen
    /\ Fits(p, answer)
    /\ handled' = Append(handled, [at |-> next, answer |-> answer])
    /\ IF answer = "newkey" THEN haveKey' = TRUE /\ key' = p.key
                            ELSE UNCHANGED <<haveKey, key>>
    /\ IF answer \in Fatal THEN cause' = answer /\ UNCHANGED next
                           ELSE next' = next + p.length /\ UNCHANGED cause
    /\ UNCHANGED stream

\* A length no packet can have ends the connection, as does the peer.
GiveUp ==
    /\ cause = "open"
    /\ \/ cause' = "peer"
       \/ /\ next + HeaderSize <= StreamLen
          /\ ~LengthOK(stream[next])
          /\ cause' = "badlength"
    /\ UNCHANGED <<stream, next, haveKey, key, handled>>

Next == GiveUp \/ \E answer \in Fatal \cup Benign : Answer(answer)

Spec == Init /\ [][Next]_vars
=============================================================================
