--------------------------- MODULE CommandReceive ---------------------------
(***************************************************************************)
(* The receive side of PacketHandler (client/transport/handler.ts) for the *)
(* packets that carry commands: the receive window, the acknowledgements,  *)
(* the two queues that put packets back in order, the byte limit they      *)
(* share, reassembly of fragmented commands, and the check that closes the *)
(* connection when a hole stays open.                                      *)
(*                                                                         *)
(* The server and the network are the environment.  The server numbers the *)
(* packets of each queue 0, 1, 2, ..., sends them in order and sends each  *)
(* again until it hears the acknowledgement; the network loses, delays,    *)
(* duplicates and reorders in both directions.  A packet is known by its   *)
(* number n: its id is Id(n), the generation of its key Gen(n), its        *)
(* contents Stream[q][n + 1].                                              *)
(***************************************************************************)
EXTENDS GenerationWindow, Sequences, FiniteSets

CONSTANTS
    Queues,          \* the command queues: Command and CommandLow
    Stream,          \* per queue, the packets the server sends:
                     \*   cmd   the number of the command it is part of, from 1
                     \*   frag  the Fragmented flag
                     \*   size  the bytes of its payload
                     \*   bad   its command is compressed and does not decompress
    Lead,            \* how far past its oldest unacknowledged packet the server sends
    MaxQueuedBytes,  \* MAX_QUEUED_BYTES
    MaxReassembled,  \* MAX_REASSEMBLED_SIZE
    HoleTicks        \* COMMAND_HOLE_TIMEOUT_MS, in passes of the resend loop

Idle     == "idle"
NoPacket == -1

Numbers(q) == 0 .. (Len(Stream[q]) - 1)
Packet(q, n) == Stream[q][n + 1]

CommandPackets(q, c) == {n \in Numbers(q) : Packet(q, n).cmd = c}

\* How the server frames a command (#sendSplitPacket does the same): its packets
\* follow each other; a command of one packet is not flagged, of a longer one the
\* first and the last are.
IsCommand(q, first, last) ==
    /\ CommandPackets(q, Packet(q, first).cmd) = first .. last
    /\ Packet(q, first).cmd = IF first = 0 THEN 1 ELSE Packet(q, first - 1).cmd + 1
    /\ \A n \in first .. last :
        /\ Packet(q, n).frag <=> ((n = first) # (n = last))
        /\ Packet(q, n).bad = Packet(q, first).bad

PacketType == [cmd : Nat, frag : BOOLEAN, size : Nat, bad : BOOLEAN]

ASSUME StreamAssumption ==
    /\ Idle \notin Queues /\ IsFiniteSet(Queues)
    /\ \A q \in Queues :
        /\ Stream[q] \in Seq(PacketType)
        /\ Len(Stream[q]) < MaxGen * Mod
        /\ \A n \in Numbers(q) :
            /\ \E first \in 0 .. n, last \in n .. (Len(Stream[q]) - 1) : IsCommand(q, first, last)
            /\ \A m \in 0 .. n : Packet(q, m).cmd <= Packet(q, n).cmd
    /\ Lead \in Nat \ {0}
    /\ MaxQueuedBytes \in Nat
    /\ MaxReassembled \in Nat
    /\ HoleTicks \in Nat

VARIABLES
    sent,        \* environment: packets of each queue sent at least once
    heard,       \* environment: packets the server heard acknowledged
    win,         \* #recvWindowCommand, #recvWindowCommandLow
    next,        \* #nextCommandID, #nextCommandLowID
    queue,       \* #commandQueue, #commandLowQueue: the packet held under each id
    age,         \* passes of the resend loop since the held packet's receivedAt
    queuedBytes, \* #queuedBytes
    busy,        \* the queue whose loop in #handlePacketQueue is running, or Idle
    closed,      \* #closed
    acked,       \* history: packets acknowledged at least once
    log          \* history: the commands handed to onPacket, in order

env  == <<sent, heard>>
vars == <<env, win, next, queue, age, queuedBytes, busy, closed, acked, log>>

Init ==
    /\ sent = [q \in Queues |-> 0]
    /\ heard = [q \in Queues |-> {}]
    /\ win = [q \in Queues |-> NewWindow]
    /\ next = [q \in Queues |-> 0]
    /\ queue = [q \in Queues |-> [id \in Ids |-> NoPacket]]
    /\ age = [q \in Queues |-> [id \in Ids |-> 0]]
    /\ queuedBytes = 0
    /\ busy = Idle
    /\ closed = FALSE
    /\ acked = [q \in Queues |-> {}]
    /\ log = [q \in Queues |-> <<>>]

-----------------------------------------------------------------------------
(* The server sends its packets in order, up to Lead past the oldest one   *)
(* it has not heard acknowledged.  What it has sent may arrive at any time *)
(* and any number of times, now or late: that it sends a packet again, and *)
(* that the network reorders, duplicates and loses, is in Arrives below.   *)

ServerSend(q) ==
    /\ ~closed
    /\ sent[q] < Len(Stream[q])
    /\ \A n \in 0 .. (sent[q] - Lead) : n \in heard[q]
    /\ sent' = [sent EXCEPT ![q] = @ + 1]
    /\ UNCHANGED <<heard, win, next, queue, age, queuedBytes, busy, closed, acked, log>>

-----------------------------------------------------------------------------
(* #handleRawPacket for a command packet: everything up to the loop of     *)
(* #handlePacketQueue.                                                     *)

Held(q, id) == queue[q][id] # NoPacket
HeldIds(q)  == {id \in Ids : Held(q, id)}

\* The first id from the next expected one that the queue does not hold.
Needed(q) ==
    LET size  == Cardinality(HeldIds(q))
        At(k) == (next[q] + k) % Mod
        count == CHOOSE k \in 0 .. size :
                    /\ k = size \/ ~Held(q, At(k))
                    /\ \A j \in 0 .. (k - 1) : Held(q, At(j))
    IN  At(count)

\* Mutant: the packet that is replaced keeps its bytes on the account.
HeldSize_Ignored(q, id) == 0

HeldSize(q, id) == IF Held(q, id) THEN Packet(q, queue[q][id]).size ELSE 0

\* Mutant: the packet the queue needs next has to find room like any other.
NoRoom_NeededToo(q, n) ==
    queuedBytes - HeldSize(q, Id(n)) + Packet(q, n).size > MaxQueuedBytes

\* The packet would take the bytes held over the limit, and is not the one
\* that the queue needs next.
NoRoom(q, n) ==
    /\ Id(n) # Needed(q)
    /\ queuedBytes - HeldSize(q, Id(n)) + Packet(q, n).size > MaxQueuedBytes

\* #sendAck: the acknowledgement reaches the server, or is lost.
SendAck(q, n, reaches) ==
    /\ acked' = [acked EXCEPT ![q] = @ \cup {n}]
    /\ heard' = IF reaches THEN [heard EXCEPT ![q] = @ \cup {n}] ELSE heard

\* A datagram arrives.  One of another generation fails to decrypt.
Arrives(q, n) ==
    /\ ~closed
    /\ busy = Idle
    /\ n < sent[q]
    /\ Decrypts(win[q], n)

\* Behind the window: acknowledged again, in case the acknowledgement was lost.
\* (One past the window is dropped, which changes nothing.)
ReceiveOld(q, n, reaches) ==
    /\ Arrives(q, n)
    /\ ~IsInWindow(win[q], Id(n))
    /\ IsOldPacket(win[q], Id(n))
    /\ SendAck(q, n, reaches)
    /\ UNCHANGED <<sent, win, next, queue, age, queuedBytes, busy, closed, log>>

\* Mutant: acknowledged before the room is looked at.
Receive_AckFirst(q, n, reaches) ==
    /\ Arrives(q, n)
    /\ IsInWindow(win[q], Id(n))
    /\ SendAck(q, n, reaches)
    /\ queuedBytes' = queuedBytes
                        + IF NoRoom(q, n) THEN 0 ELSE Packet(q, n).size - HeldSize(q, Id(n))
    /\ queue' = IF NoRoom(q, n) THEN queue ELSE [queue EXCEPT ![q][Id(n)] = n]
    /\ age' = [age EXCEPT ![q][Id(n)] = 0]
    /\ busy' = q
    /\ UNCHANGED <<sent, win, next, closed, log>>

\* In the window: acknowledged and held (#hold), unless there is no room.
Receive(q, n, reaches) ==
    /\ Arrives(q, n)
    /\ IsInWindow(win[q], Id(n))
    /\ ~NoRoom(q, n)
    /\ SendAck(q, n, reaches)
    /\ queuedBytes' = queuedBytes - HeldSize(q, Id(n)) + Packet(q, n).size
    /\ queue' = [queue EXCEPT ![q][Id(n)] = n]
    /\ age' = [age EXCEPT ![q][Id(n)] = 0]
    /\ busy' = q
    /\ UNCHANGED <<sent, win, next, closed, log>>

-----------------------------------------------------------------------------
(* The loop of #handlePacketQueue, one iteration a step.  Nothing else of  *)
(* the handler runs before the loop ends, except what onPacket calls.      *)

Flagged(q, id) == Packet(q, queue[q][id]).frag

\* The number of packets, from the next expected one on, of the command that
\* starts there; 0 while one is missing (#tryReassemble returns null).
CommandLength(q) ==
    LET At(k) == (next[q] + k) % Mod
        Ends  == {k \in 1 .. (Mod - 1) :
                    /\ \A j \in 0 .. k : Held(q, At(j))
                    /\ \A j \in 1 .. (k - 1) : ~Flagged(q, At(j))
                    /\ Flagged(q, At(k))}
    IN  IF ~Held(q, next[q]) THEN 0
        ELSE IF ~Flagged(q, next[q]) THEN 1
        ELSE IF Ends = {} THEN 0
        ELSE (CHOOSE k \in Ends : TRUE) + 1

\* The ids of the first count packets from the next expected one on.
Front(q, count) == {(next[q] + k) % Mod : k \in 0 .. (count - 1)}

HeldUnder(q, ids) == {queue[q][id] : id \in ids}

\* The bytes of some packets, each known by its packet and its place in it.
BytesOf(q, numbers) == UNION {{<<q, n>>} \X (1 .. Packet(q, n).size) : n \in numbers}
SizeOf(q, numbers)  == Cardinality(BytesOf(q, numbers))

\* The whole command at the front is dropped: it is over the reassembly limit
\* (only a fragmented one is measured) or does not decompress.
Discards(q) ==
    \/ /\ CommandLength(q) > 1
       /\ SizeOf(q, HeldUnder(q, Front(q, CommandLength(q)))) > MaxReassembled
    \/ Packet(q, queue[q][next[q]]).bad

\* Mutant: of a command over the limit only the first packet is released.
Released_FirstOnly(q) ==
    IF CommandLength(q) > 0 /\ Discards(q) THEN 1 ELSE CommandLength(q)

\* How many packets leave the queue: all of the command's, dropped or not.
Released(q) == CommandLength(q)

\* The command at the front is whole: its packets leave the queue (#release),
\* the window and the next id move past them, and it is handed over.
TakeCommand(q) ==
    LET count == Released(q)
        ids   == Front(q, count)
    IN  /\ busy = q
        /\ count > 0
        /\ queue' = [queue EXCEPT ![q] = [id \in Ids |-> IF id \in ids THEN NoPacket ELSE @[id]]]
        /\ age' = [age EXCEPT ![q] = [id \in Ids |-> IF id \in ids THEN 0 ELSE @[id]]]
        /\ queuedBytes' = queuedBytes - SizeOf(q, HeldUnder(q, ids))
        /\ win' = [win EXCEPT ![q] = Advance(@, count)]
        /\ next' = [next EXCEPT ![q] = (@ + count) % Mod]
        /\ log' = IF Discards(q) THEN log
                  ELSE [log EXCEPT ![q] = Append(@, Packet(q, queue[q][next[q]]).cmd)]
        /\ UNCHANGED <<env, busy, closed, acked>>

\* Mutant: the loop ends at a command it would have to drop.
EndOfLoop_AtDropped(q) ==
    /\ busy = q
    /\ IF CommandLength(q) = 0 THEN TRUE ELSE Discards(q)
    /\ busy' = Idle
    /\ UNCHANGED <<env, win, next, queue, age, queuedBytes, closed, acked, log>>

\* The loop ends: the next packet, or one of its command, is still missing.
EndOfLoop(q) ==
    /\ busy = q
    /\ CommandLength(q) = 0
    /\ busy' = Idle
    /\ UNCHANGED <<env, win, next, queue, age, queuedBytes, closed, acked, log>>

-----------------------------------------------------------------------------
(* Time and the end of the connection.                                     *)

\* #hasStalledHole, of the ages after a pass
StalledHole(q, ages) ==
    /\ ~Held(q, next[q])
    /\ \E id \in HeldIds(q) :
        /\ (id - next[q] + Mod) % Mod < Mod \div 2
        /\ ages[id] > HoleTicks

\* A pass of the resend loop (#checkResends); its other checks are in CommandSend.
Tick ==
    LET older == [q \in Queues |-> [id \in Ids |->
                    IF Held(q, id) /\ age[q][id] <= HoleTicks
                    THEN age[q][id] + 1 ELSE age[q][id]]]
    IN  /\ ~closed
        /\ busy = Idle
        /\ age' = older
        /\ closed' = (\E q \in Queues : StalledHole(q, older[q]))
        /\ UNCHANGED <<env, win, next, queue, queuedBytes, busy, acked, log>>

\* The owner closes the handler: at any time, also from within onPacket.
Close ==
    /\ ~closed
    /\ closed' = TRUE
    /\ UNCHANGED <<env, win, next, queue, age, queuedBytes, busy, acked, log>>

Next ==
    \/ \E q \in Queues :
        \/ ServerSend(q)
        \/ \E n \in Numbers(q), reaches \in BOOLEAN :
            \/ ReceiveOld(q, n, reaches)
            \/ Receive(q, n, reaches)
        \/ TakeCommand(q)
        \/ EndOfLoop(q)
    \/ Tick
    \/ Close

Spec == Init /\ [][Next]_vars

\* The server sends every packet again until it hears it acknowledged, and the
\* network does not lose every copy of it nor every acknowledgement; a handler
\* runs to its end.  Nothing is assumed of the passes of the resend loop.
Fairness ==
    \A q \in Queues :
        /\ WF_vars(ServerSend(q))
        /\ WF_vars(TakeCommand(q))
        /\ WF_vars(EndOfLoop(q))
        /\ \A n \in Numbers(q) :
            SF_vars(n \notin heard[q] /\ (ReceiveOld(q, n, TRUE) \/ Receive(q, n, TRUE)))

FairSpec == Spec /\ Fairness

-----------------------------------------------------------------------------
\* Every variable has its type (BytesAreBounded says what queuedBytes is).
TypeOK ==
    /\ sent \in [Queues -> Nat]
    /\ heard \in [Queues -> SUBSET Nat]
    /\ acked \in [Queues -> SUBSET Nat]
    /\ win \in [Queues -> WindowType]
    /\ next \in [Queues -> Ids]
    /\ queue \in [Queues -> [Ids -> Nat \cup {NoPacket}]]
    /\ age \in [Queues -> [Ids -> 0 .. (HoleTicks + 1)]]
    /\ busy \in Queues \cup {Idle}
    /\ closed \in BOOLEAN
    /\ log \in [Queues -> Seq(Nat)]
    /\ \A q \in Queues : sent[q] <= Len(Stream[q])

\* #nextCommandID and the window's base are two counters for one thing, moved in
\* different places; and a held packet is the packet the server numbered that
\* way, in the window, whatever wrapped in between.  An id held for a packet of
\* another generation would be handed over in place of the right one.
HeldInWindow ==
    \A q \in Queues :
        /\ next[q] = win[q].base
        /\ \A id \in HeldIds(q) :
            LET n == queue[q][id]
            IN  /\ Id(n) = id
                /\ n >= Position(win[q])
                /\ n < Position(win[q]) + Window
                /\ n < sent[q]

\* A packet once acknowledged is never sent again, so it must not be lost: it is
\* held, or its command has been dealt with.
AckedIsKept ==
    \A q \in Queues : \A n \in acked[q] :
        n < Position(win[q]) \/ queue[q][Id(n)] = n

\* Between datagrams nothing that could be handed over is left in a queue: the
\* loop of #handlePacketQueue goes on past a command it drops.
NothingWholeWaits ==
    busy = Idle => \A q \in Queues : CommandLength(q) = 0

\* The packets of a queue that wait for one before them.
OutOfOrder(q) ==
    {id \in HeldIds(q) : \E k \in 0 .. ((id - next[q] + Mod) % Mod) :
                            ~Held(q, (next[q] + k) % Mod)}

BytesHeld    == UNION {BytesOf(q, HeldUnder(q, HeldIds(q))) : q \in Queues}
BytesWaiting == UNION {BytesOf(q, HeldUnder(q, OutOfOrder(q))) : q \in Queues}

\* #queuedBytes is what the queues hold, and the bytes that wait for a packet
\* before them stay within MAX_QUEUED_BYTES, across both queues, although the
\* packet needed next is taken whatever its size.
BytesAreBounded ==
    /\ queuedBytes = Cardinality(BytesHeld)
    /\ Cardinality(BytesWaiting) <= MaxQueuedBytes

\* Which of the server's commands the handler gives up on.
GivenUp(q) ==
    {c \in {Packet(q, n).cmd : n \in Numbers(q)} :
        \/ \E n \in CommandPackets(q, c) : Packet(q, n).bad
        \/ /\ Cardinality(CommandPackets(q, c)) > 1
           /\ SizeOf(q, CommandPackets(q, c)) > MaxReassembled}

CommandCount(q) == IF Stream[q] = <<>> THEN 0 ELSE Stream[q][Len(Stream[q])].cmd

Ordered ==
    INSTANCE OrderedCommands WITH
        Commands <- [q \in Queues |-> CommandCount(q)],
        Undeliverable <- [q \in Queues |-> GivenUp(q)],
        taken <- [q \in Queues |->
                    IF Position(win[q]) < Len(Stream[q])
                    THEN Packet(q, Position(win[q])).cmd - 1
                    ELSE CommandCount(q)]

\* The handler implements OrderedCommands: in order, whole, once, over any
\* number of wraps and whatever the network does.
ImplementsOrderedCommands == Ordered!Spec

\* No packet is stuck behind the byte limit, the window or a lost datagram: what
\* the server sends is dealt with, and it hears that it was, unless the
\* connection is closed.
EverythingArrives ==
    \A q \in Queues : \A n \in Numbers(q) :
        <>(closed \/ (Position(win[q]) > n /\ n \in heard[q]))

=============================================================================
