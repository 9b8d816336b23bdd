---------------------------- MODULE CommandSend ----------------------------
(***************************************************************************)
(* The send side of PacketHandler (client/transport/handler.ts) for the    *)
(* packets of one command type on a session that has its keys: the packet  *)
(* id and its generation, the send window that follows them, the packets   *)
(* kept until they are acknowledged, and the resend loop with its          *)
(* time-out.  Handshake has the packets sent before the keys are there.    *)
(*                                                                         *)
(* The packets are numbered as they are sent, from 1 (the id of the first  *)
(* command is 1).  A datagram carries the id and is encrypted under the    *)
(* generation; n is what it is about, which only its number should say.    *)
(* The server and the network are the environment: what was sent may       *)
(* arrive at any time, any number of times, or never.                      *)
(***************************************************************************)
EXTENDS GenerationWindow

CONSTANTS
    MaxPackets,   \* bound: packets sent in a run
    InFlight,     \* bound: how far the caller runs ahead of what is acknowledged
    TimeoutTicks  \* PACKET_TIMEOUT_MS

ASSUME SendAssumption ==
    /\ Mod > 1
    /\ MaxPackets \in Nat
    /\ MaxPackets + 1 < MaxGen * Mod
    /\ InFlight \in 1 .. (Mod - 1)
    /\ TimeoutTicks \in Nat

VARIABLES
    counter,     \* #packetCounter
    generation,  \* #generationCounter
    sendWindow,  \* #sendWindowCommand
    ackManager,  \* #ackManager: the packet kept under each id
    age,         \* ticks since its firstSend
    closed,      \* #closed
    count,       \* history: the number of the next packet
    wire,        \* network: datagrams sent to the server
    received,    \* server: packets it has
    acks,        \* network: acknowledgements sent by the server
    heard        \* history: packets whose acknowledgement was handled

env  == <<received, acks>>
sendVars == <<counter, generation, sendWindow, ackManager, age, closed, count, wire, env, heard>>

Packets  == [n : 1 .. MaxPackets, id : Ids, gen : Nat]
NoPacket == [n |-> 0, id |-> 0, gen |-> 0]

Unacked(id) == ackManager[id] # NoPacket
PendingIds  == {id \in Ids : Unacked(id)}

\* start(): the counter of the commands begins at 1, the send window at 0.
SendInit ==
    /\ counter = 1
    /\ generation = 0
    /\ sendWindow = NewWindow
    /\ ackManager = [id \in Ids |-> NoPacket]
    /\ age = [id \in Ids |-> 0]
    /\ closed = FALSE
    /\ count = 1
    /\ wire = {}
    /\ received = {}
    /\ acks = {}
    /\ heard = {}

-----------------------------------------------------------------------------

\* #nextPacketIdentity: the generation goes up when the id wraps to 0.
NextGeneration == IF (counter + 1) % Mod = 0 THEN generation + 1 ELSE generation

\* Mutant: the window moves to the id that was used, not past it.
SendWindowAfter_Included(id) == AdvanceToExcluded(sendWindow, (id + Mod - 1) % Mod)

SendWindowAfter(id) == AdvanceToExcluded(sendWindow, id)

\* #sendPacketRaw of a command packet: it takes the next id, goes out, and is
\* kept by its id.  #sendSplitPacket sends the packets of a long command one
\* after the other.  A write that throws closes the handler, after which the
\* packet is kept like any other.
SendPacket(throws) ==
    LET p == [n |-> count, id |-> counter, gen |-> generation]
    IN  /\ ~closed
        /\ count <= MaxPackets
        /\ \A id \in PendingIds : count - ackManager[id].n <= InFlight
        /\ counter' = (counter + 1) % Mod
        /\ generation' = NextGeneration
        /\ sendWindow' = SendWindowAfter(counter)
        /\ ackManager' = [ackManager EXCEPT ![counter] = p]
        /\ age' = [age EXCEPT ![counter] = 0]
        /\ count' = count + 1
        /\ wire' = IF throws THEN wire ELSE wire \cup {p}
        /\ closed' = throws
        /\ UNCHANGED <<env, heard>>

\* Mutant: the last packet sent is taken for the acknowledged one.
AckedId_Newest(n) == (counter + Mod - 1) % Mod

\* The acknowledgement carries the id of the packet.
AckedId(n) == Id(n)

\* #updatePostReceiveState: the packet kept under the id is given up, whichever
\* it is.  The server's acknowledgements come unencrypted, so only their age
\* keeps one from before a wrap away: none outlives a whole cycle of the ids.
ReceiveAck(n) ==
    /\ ~closed
    /\ n \in acks
    /\ count <= n + Mod
    /\ ackManager' = [ackManager EXCEPT ![AckedId(n)] = NoPacket]
    /\ age' = [age EXCEPT ![AckedId(n)] = 0]
    /\ heard' = heard \cup {n}
    /\ UNCHANGED <<counter, generation, sendWindow, closed, count, wire, env>>

\* Mutant: sending a packet again starts its time again.
AgeAfter_Restarted(id) == 0

\* firstSend stays what it was.
AgeAfter(id) == IF Unacked(id) THEN age[id] + 1 ELSE 0

\* Mutant: a packet is encrypted again under the generation of the moment.
Resent_GenerationNow(id) == [ackManager[id] EXCEPT !.gen = generation]

\* #doResend: the packet as it was first sent.
Resent(id) == ackManager[id]

TimedOut == {id \in PendingIds : age[id] + 1 > TimeoutTicks}

\* #checkResends.  A tick is the time within which everything pending is sent
\* again (MAX_RETRY_INTERVAL_MS).
Resend ==
    /\ ~closed
    /\ TimedOut = {}
    /\ age' = [id \in Ids |-> AgeAfter(id)]
    /\ wire' = wire \cup {Resent(id) : id \in PendingIds}
    /\ UNCHANGED <<counter, generation, sendWindow, ackManager, closed, count, env, heard>>

\* The packet that waited too long is given up, and the handler closes.
Expire(id) ==
    /\ ~closed
    /\ id \in TimedOut
    /\ ackManager' = [ackManager EXCEPT ![id] = NoPacket]
    /\ age' = [age EXCEPT ![id] = 0]
    /\ closed' = TRUE
    /\ UNCHANGED <<counter, generation, sendWindow, count, wire, env, heard>>

Tick == Resend \/ \E id \in Ids : Expire(id)

\* The server takes a packet within its window, and acknowledges it, again if
\* it has it.
ServerReceive(p) ==
    /\ ~closed
    /\ p \in wire
    /\ \A m \in 1 .. (p.n - Window) : m \in received
    /\ received' = received \cup {p.n}
    /\ acks' = acks \cup {p.n}
    /\ UNCHANGED <<counter, generation, sendWindow, ackManager, age, closed, count, wire, heard>>

SendNext ==
    \/ \E throws \in BOOLEAN : SendPacket(throws)
    \/ \E n \in acks : ReceiveAck(n)
    \/ Tick
    \/ \E p \in wire : ServerReceive(p)

SendSpec == SendInit /\ [][SendNext]_sendVars

\* The timer of the resend loop fires.  Of the network and the server nothing
\* is assumed.
SendFairSpec == SendSpec /\ WF_sendVars(Tick)

-----------------------------------------------------------------------------
\* Every variable has its type.
TypeOK ==
    /\ counter \in Ids
    /\ generation \in Nat
    /\ sendWindow \in WindowType
    /\ ackManager \in [Ids -> Packets \cup {NoPacket}]
    /\ age \in [Ids -> 0 .. TimeoutTicks]
    /\ closed \in BOOLEAN
    /\ count \in 1 .. (MaxPackets + 1)
    /\ wire \subseteq Packets
    /\ received \subseteq 1 .. MaxPackets
    /\ acks \subseteq 1 .. MaxPackets
    /\ heard \subseteq 1 .. MaxPackets

\* The id, the generation and the send window count the same packets, each in
\* its own way and moved by its own code, over any number of wraps.
CountersAgree ==
    /\ counter = Id(count)
    /\ generation = Gen(count)
    /\ count > 1 => Position(sendWindow) = count

\* Every datagram, sent again or not, goes under the number of its packet: the
\* server finds the packet under the id and the generation that it expects.
SentUnderItsNumber == \A p \in wire : p.id = Id(p.n) /\ p.gen = Gen(p.n)

\* A packet is given up only when the server has it: an acknowledgement, which
\* names no more than an id, never takes the place of another packet's.
NoneForgotten ==
    \A n \in 1 .. (count - 1) :
        ~closed => n \in received \/ ackManager[Id(n)].n = n

\* Whatever is lost, a packet does not stay pending: it is acknowledged, or the
\* handler closes.
PacketsSettle ==
    \A n \in 1 .. MaxPackets :
        [](count > n => <>(closed \/ n \in heard))
=============================================================================
