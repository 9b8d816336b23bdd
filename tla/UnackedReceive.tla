--------------------------- MODULE UnackedReceive ---------------------------
(***************************************************************************)
(* How PacketHandler follows the ids of the packets that are never         *)
(* acknowledged nor sent again (voice, whisper, ping, pong), each kind with*)
(* a GenerationWindow of its own that spans half of the id space.  This    *)
(* module follows one such kind; the four do not share state.              *)
(*                                                                         *)
(* The network may lose, duplicate, delay and reorder: any packet the      *)
(* server ever sent may arrive at any time.                                *)
(***************************************************************************)
EXTENDS GenerationWindow

CONSTANT MaxPackets   \* bound: how many packets the server sends

ASSUME PacketsAssumption == MaxPackets \in Nat /\ MaxPackets < MaxGen * Mod

VARIABLES win,    \* the kind's receive window
          sent,   \* how many packets the server has sent: 0 .. sent-1
          top     \* history: one past the highest packet taken

unackedVars == <<win, sent, top>>

UnackedInit == win = NewWindow /\ sent = 0 /\ top = 0

\* The server sends the next packet of this kind.
ServerSend ==
    /\ sent < MaxPackets
    /\ sent' = sent + 1
    /\ UNCHANGED <<win, top>>

\* #advanceReceiveGeneration, for a packet that passed #decryptPacketData
Take(n) ==
    /\ win' = AdvanceAfter(win, Id(n))
    /\ top' = IF n >= top THEN n + 1 ELSE top
    /\ UNCHANGED sent

\* An encrypted packet arrives: #resolveGeneration picks the generation, and a
\* wrong one fails the packet's authentication, which drops it.
ReceiveEncrypted(n) ==
    /\ n < sent
    /\ Decrypts(win, n)
    /\ Take(n)

\* A plaintext packet arrives.  Its signature is the same for every generation,
\* so nothing but the id tells where it belongs; the code's premise is that
\* fewer than half of the ids lie between it and the newest packet.
ReceivePlain(n) ==
    /\ n < sent
    /\ n >= top - Window
    /\ n < top + Window
    /\ Take(n)

UnackedNext ==
    \/ ServerSend
    \/ \E n \in 0 .. (MaxPackets - 1) : ReceiveEncrypted(n)
    \/ \E n \in 0 .. (MaxPackets - 1) : ReceivePlain(n)

UnackedSpec == UnackedInit /\ [][UnackedNext]_unackedVars

-----------------------------------------------------------------------------
TypeOK ==
    /\ win \in WindowType
    /\ sent \in 0 .. MaxPackets
    /\ top \in 0 .. sent

\* The window never loses count: across any number of wraps, losses and late
\* packets, it stands exactly one past the highest packet taken (advanceAfter
\* neither moves back for a stale packet nor takes a late packet of the last
\* generation for one a whole cycle ahead).
WindowFollows == Position(win) = top

\* Every packet within half the id space of the newest one is placed in its own
\* generation, so after any loss of fewer than Window packets in a row the next
\* encrypted packet still decrypts (the comment on UNACKED_RECEIVE_WINDOW_SIZE),
\* and it counts as stale exactly when it is older than the newest.
NearPacketsArePlaced ==
    \A n \in 0 .. MaxPackets :
        (n >= top - Window /\ n < top + Window) =>
            /\ Decrypts(win, n)
            /\ IsOldPacket(win, Id(n)) <=> (n < top)
=============================================================================
