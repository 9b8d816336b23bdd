---------------------------- MODULE CommandsProof ----------------------------
(***************************************************************************)
(* The commands of the voice client.  CommandSend numbers their packets    *)
(* and keeps them until they are acknowledged, for every number of ids,    *)
(* any bound on the packets in flight below it, and any length of a run.   *)
(* CommandTracker answers a command with its own rows and all of them, for *)
(* any number of commands, rows, targets and sessions.  The two share no   *)
(* state.                                                                  *)
(***************************************************************************)
EXTENDS CommandSend, CommandTracker, GenerationWindowProof, FiniteSetTheorems,
        SequenceTheorems, NaturalsInduction, WellFoundedInduction, TLAPS

-----------------------------------------------------------------------------
(* The packets.                                                            *)

\* The packet kept under an id is the one that was numbered that way, and is
\* less than a cycle of the ids behind the next: with the in-flight bound this
\* is why an id, which is all an acknowledgement names, stands for one packet.
KeptInPlace ==
    \A id \in PendingIds :
        LET p == ackManager[id]
        IN  /\ p.n \in Nat
            /\ p.n < count
            /\ count - p.n <= Mod
            /\ p.id = id
            /\ id = Id(p.n)
            /\ p.gen = Gen(p.n)

\* Only what was sent is on the wire, and only what arrived is acknowledged.
NothingInvented ==
    /\ \A p \in wire : p.n < count
    /\ acks \subseteq received
    /\ \A n \in received : n < count

SendInv ==
    /\ TypeOK
    /\ count = 1 => sendWindow = NewWindow
    /\ CountersAgree
    /\ KeptInPlace
    /\ NothingInvented
    /\ SentUnderItsNumber
    /\ NoneForgotten

-----------------------------------------------------------------------------
\* The initial state: the first command has the id 1.
LEMMA InitHolds == SendInit => SendInv
<1> SUFFICES ASSUME SendInit PROVE SendInv
    OBVIOUS
<1>1. 0 \in Ids /\ 1 \in Ids
    BY WindowAssumption, SendAssumption DEF Ids
<1>2. Id(1) = 1 /\ Gen(1) = 0
  <2>1. 1 = 0 * Mod + 1
      BY WindowAssumption
  <2> QED
      BY <2>1, <1>1, SplitUnique
<1>3. PendingIds = {}
    BY DEF SendInit, PendingIds, Unacked
<1>4. TypeOK
  <2>1. sendWindow \in WindowType
      BY <1>1, WindowAssumption DEF SendInit, NewWindow, WindowType
  <2>2. /\ ackManager \in [Ids -> Packets \cup {NoPacket}]
        /\ age \in [Ids -> 0 .. TimeoutTicks]
      BY SendAssumption DEF SendInit
  <2>3. counter \in Ids /\ generation \in Nat /\ count \in 1 .. (MaxPackets + 1)
      BY <1>1, SendAssumption DEF SendInit
  <2>4. closed \in BOOLEAN /\ wire \subseteq Packets /\ received \subseteq 1 .. MaxPackets
        /\ acks \subseteq 1 .. MaxPackets /\ heard \subseteq 1 .. MaxPackets
      BY Zenon DEF SendInit
  <2> QED
      BY <2>1, <2>2, <2>3, <2>4 DEF TypeOK
<1> QED
    BY <1>2, <1>3, <1>4
    DEF SendInit, SendInv, CountersAgree, KeptInPlace, NothingInvented, SentUnderItsNumber, NoneForgotten

\* #nextPacketIdentity moves the id, the generation and the window by one packet.
LEMMA CountersMove ==
    ASSUME SendInv, NEW throws \in BOOLEAN, SendPacket(throws)
    PROVE  /\ counter' = Id(count + 1)
           /\ generation' = Gen(count + 1)
           /\ counter' \in Ids
           /\ generation' \in Nat
           /\ sendWindow' \in WindowType
           /\ Position(sendWindow') = count + 1
<1>1. /\ count \in Nat /\ count >= 1 /\ count <= MaxPackets /\ count + 1 \in Nat
      /\ MaxPackets \in Nat /\ Mod \in Nat /\ Mod > 1 /\ MaxGen \in Nat
      /\ MaxGen * Mod \in Nat /\ MaxPackets + 1 < MaxGen * Mod
    BY WindowAssumption, SendAssumption DEF SendInv, TypeOK, SendPacket
<1>2. /\ counter \in Nat /\ counter < Mod /\ generation \in Nat /\ counter = Id(count)
      /\ generation = Gen(count) /\ sendWindow \in WindowType
    BY <1>1 DEF SendInv, TypeOK, CountersAgree, Ids
<1>3. count = generation * Mod + counter
    BY <1>1, <1>2, IdAndGen
<1>4. counter' = Id(count + 1) /\ generation' = Gen(count + 1) /\ counter' \in Ids /\ generation' \in Nat
  <2>1. CASE counter + 1 < Mod
    <3>1. counter' = counter + 1 /\ generation' = generation
        BY <2>1, <1>1, <1>2 DEF SendPacket, NextGeneration
    <3>2. count + 1 = generation * Mod + (counter + 1) /\ counter + 1 \in Ids /\ generation * Mod \in Int
        BY <2>1, <1>1, <1>2, <1>3, Product DEF Ids
    <3> QED
        BY <3>1, <3>2, <1>1, <1>2, SplitUnique
  <2>2. CASE counter + 1 = Mod
    <3>1. counter' = 0 /\ generation' = generation + 1
        BY <2>2, <1>1, <1>2 DEF SendPacket, NextGeneration
    <3>2. count + 1 = (generation + 1) * Mod + 0 /\ 0 \in Ids
        BY <2>2, <1>1, <1>2, <1>3, Product DEF Ids
    <3> QED
        BY <3>1, <3>2, <1>1, <1>2, SplitUnique
  <2> QED
      BY <2>1, <2>2, <1>1, <1>2
<1>5. sendWindow' \in WindowType /\ Position(sendWindow') = count + 1
  <2>1. sendWindow' = AdvanceToExcluded(sendWindow, counter)
      BY DEF SendPacket, SendWindowAfter
  <2>2. CASE count = 1
    <3>1. sendWindow = NewWindow /\ sendWindow.base = 0 /\ Position(sendWindow) = 0 /\ counter = 1
      <4>1. 1 = 0 * Mod + 1 /\ 1 \in Ids
          BY <1>1 DEF Ids
      <4>2. Id(1) = 1
          BY <4>1, SplitUnique
      <4> QED
          BY <2>2, <1>1, <1>2, <4>2 DEF SendInv, NewWindow, Position
    <3>2. sendWindow' = Advance(sendWindow, 2)
        BY <2>1, <3>1 DEF AdvanceToExcluded
    <3> QED
        BY <3>1, <3>2, <2>2, <1>1, <1>2, AdvanceExact
  <2>3. CASE count > 1
    <3>1. Position(sendWindow) = count
        BY <2>3 DEF SendInv, CountersAgree
    <3>2. sendWindow.base = counter
      <4>1. sendWindow.base \in Ids /\ sendWindow.gen \in Int
          BY <1>2 DEF WindowType
      <4> QED
          BY <4>1, <3>1, <1>1, <1>2, SplitUnique DEF Position
    <3>3. sendWindow' = Advance(sendWindow, 1)
        BY <2>1, <3>2, <1>2 DEF AdvanceToExcluded
    <3> QED
        BY <3>1, <3>3, <1>1, <1>2, AdvanceExact
  <2> QED
      BY <2>2, <2>3, <1>1
<1> QED
    BY <1>4, <1>5

\* Sending a packet.  The one kept before under its id has been given up: it
\* would be more than the in-flight bound behind.
LEMMA SendStep == SendInv /\ (\E throws \in BOOLEAN : SendPacket(throws)) => SendInv'
<1> SUFFICES ASSUME SendInv, NEW throws \in BOOLEAN, SendPacket(throws)
             PROVE  SendInv'
    OBVIOUS
<1> DEFINE p == [n |-> count, id |-> counter, gen |-> generation]
<1>1. /\ count \in Nat /\ count >= 1 /\ count <= MaxPackets /\ count' = count + 1
      /\ MaxPackets \in Nat /\ Mod \in Nat /\ Mod > 1
      /\ InFlight \in Nat /\ InFlight < Mod
    BY WindowAssumption, SendAssumption DEF SendInv, TypeOK, SendPacket
<1>2. counter \in Ids /\ generation \in Nat /\ counter = Id(count) /\ generation = Gen(count)
    BY DEF SendInv, TypeOK, CountersAgree
<1>3. /\ ackManager \in [Ids -> Packets \cup {NoPacket}]
      /\ ackManager' = [ackManager EXCEPT ![counter] = p]
      /\ wire \subseteq Packets
      /\ wire' = wire \/ wire' = wire \cup {p}
      /\ received' = received /\ acks' = acks /\ heard' = heard
    BY DEF SendInv, TypeOK, SendPacket, env
<1>4. p \in Packets
    BY <1>1, <1>2 DEF Packets
<1>5. TypeOK'
  <2>1. counter' \in Ids /\ generation' \in Nat /\ sendWindow' \in WindowType
      BY CountersMove
  <2>2. ackManager' \in [Ids -> Packets \cup {NoPacket}] /\ wire' \subseteq Packets
      BY <1>2, <1>3, <1>4
  <2>3. age' \in [Ids -> 0 .. TimeoutTicks]
      BY <1>2, SendAssumption DEF SendInv, TypeOK, SendPacket
  <2>4. count' \in 1 .. (MaxPackets + 1)
      BY <1>1
  <2>5. closed' \in BOOLEAN
      BY Zenon DEF SendPacket
  <2>6. received' \subseteq 1 .. MaxPackets /\ acks' \subseteq 1 .. MaxPackets /\ heard' \subseteq 1 .. MaxPackets
      BY <1>3 DEF SendInv, TypeOK
  <2> QED
      BY <2>1, <2>2, <2>3, <2>4, <2>5, <2>6 DEF TypeOK
<1>6. CountersAgree' /\ (count = 1 => sendWindow = NewWindow)'
    BY <1>1, CountersMove DEF CountersAgree
<1>7. KeptInPlace'
  <2> SUFFICES ASSUME NEW id \in Ids, ackManager'[id] # NoPacket
               PROVE  LET k == ackManager'[id]
                      IN  /\ k.n \in Nat /\ k.n < count' /\ count' - k.n <= Mod
                          /\ k.id = id /\ id = Id(k.n) /\ k.gen = Gen(k.n)
      BY DEF KeptInPlace, PendingIds, Unacked
  <2>1. CASE id = counter
      BY <2>1, <1>1, <1>2, <1>3
  <2>2. CASE id # counter
    <3>1. ackManager'[id] = ackManager[id] /\ id \in PendingIds
        BY <2>2, <1>3 DEF PendingIds, Unacked
    <3>2. count - ackManager[id].n <= InFlight
        BY <3>1 DEF SendPacket
    <3> QED
        BY <3>1, <3>2, <1>1 DEF SendInv, KeptInPlace
  <2> QED
      BY <2>1, <2>2
<1>8. NothingInvented' /\ SentUnderItsNumber'
  <2>1. \A q \in wire : q.n < count' /\ q.id = Id(q.n) /\ q.gen = Gen(q.n)
      BY <1>1, <1>3 DEF SendInv, NothingInvented, SentUnderItsNumber, Packets
  <2>2. \A n \in received : n < count'
      BY <1>1 DEF SendInv, TypeOK, NothingInvented
  <2>3. p.n < count' /\ p.id = Id(p.n) /\ p.gen = Gen(p.n)
      BY <1>1, <1>2
  <2> QED
      BY <2>1, <2>2, <2>3, <1>3 DEF SendInv, NothingInvented, SentUnderItsNumber
<1>9. NoneForgotten'
  <2> SUFFICES ASSUME NEW n \in 1 .. (count' - 1), ~closed'
               PROVE  n \in received' \/ ackManager'[Id(n)].n = n
      BY DEF NoneForgotten
  <2>1. n \in Nat /\ n <= count
      BY <1>1
  <2>2. Id(n) \in Ids
      BY <2>1, IdAndGen
  <2>3. CASE n = count
      BY <2>3, <1>2, <1>3
  <2>4. CASE n < count
    <3>1. ~closed
        BY DEF SendPacket
    <3>2. n \in received \/ ackManager[Id(n)].n = n
        BY <3>1, <2>1, <2>4, <1>1 DEF SendInv, NoneForgotten
    <3>3. ASSUME ackManager[Id(n)].n = n, Id(n) = counter PROVE FALSE
      <4>1. Id(n) \in PendingIds
          BY <3>3, <2>1, <2>2 DEF PendingIds, Unacked, NoPacket
      <4>2. count - n <= InFlight
          BY <4>1, <3>3 DEF SendPacket
      <4> QED
          BY <4>2, <3>3, <2>1, <2>4, <1>1, <1>2, SameId
    <3> QED
        BY <3>2, <3>3, <2>2, <1>3
  <2> QED
      BY <2>1, <2>3, <2>4, <1>1
<1> QED
    BY <1>5, <1>6, <1>7, <1>8, <1>9 DEF SendInv

\* The facts about the counters, which only sending a packet moves.
LEMMA CountersKept ==
    ASSUME SendInv, UNCHANGED <<counter, generation, sendWindow, count>>
    PROVE  /\ (count = 1 => sendWindow = NewWindow)'
           /\ CountersAgree'
           /\ counter' \in Ids
           /\ generation' \in Nat
           /\ sendWindow' \in WindowType
           /\ count' \in 1 .. (MaxPackets + 1)
  BY DEF SendInv, TypeOK, CountersAgree, Position, Id, Gen

\* An acknowledgement.  The packet it gives up is the one it is about: another
\* under that id would be a cycle away from it, which KeptInPlace and the age of
\* the acknowledgement rule out.
LEMMA ReceiveAckStep == SendInv /\ (\E n \in acks : ReceiveAck(n)) => SendInv'
<1> SUFFICES ASSUME SendInv, NEW n \in acks, ReceiveAck(n)
             PROVE  SendInv'
    OBVIOUS
<1>1. /\ count \in Nat /\ count <= n + Mod /\ n \in Nat /\ n \in 1 .. MaxPackets
      /\ Mod \in Nat /\ n \in received /\ n < count
    BY WindowAssumption, SendAssumption DEF SendInv, TypeOK, NothingInvented, ReceiveAck
<1>2. Id(n) \in Ids
    BY <1>1, IdAndGen
<1>3. /\ ackManager \in [Ids -> Packets \cup {NoPacket}]
      /\ ackManager' = [ackManager EXCEPT ![Id(n)] = NoPacket]
      /\ wire' = wire /\ received' = received /\ acks' = acks /\ count' = count /\ closed' = closed
      /\ UNCHANGED <<counter, generation, sendWindow, count>>
    BY DEF SendInv, TypeOK, ReceiveAck, AckedId, env
<1>4. TypeOK'
  <2>1. ackManager' \in [Ids -> Packets \cup {NoPacket}]
      BY <1>2, <1>3
  <2>2. age' \in [Ids -> 0 .. TimeoutTicks]
      BY <1>2, SendAssumption DEF SendInv, TypeOK, ReceiveAck, AckedId
  <2>3. heard' \subseteq 1 .. MaxPackets
      BY <1>1 DEF SendInv, TypeOK, ReceiveAck
  <2> QED
      BY <2>1, <2>2, <2>3, <1>3, CountersKept DEF SendInv, TypeOK
<1>5. KeptInPlace'
    BY <1>2, <1>3 DEF SendInv, KeptInPlace, PendingIds, Unacked
<1>6. NothingInvented' /\ SentUnderItsNumber'
    BY <1>3 DEF SendInv, NothingInvented, SentUnderItsNumber
<1>7. NoneForgotten'
  <2> SUFFICES ASSUME NEW m \in 1 .. (count - 1), ~closed
               PROVE  m \in received \/ ackManager'[Id(m)].n = m
      BY <1>3 DEF NoneForgotten
  <2>1. m \in Nat /\ m < count
      BY <1>1
  <2>2. Id(m) \in Ids
      BY <2>1, IdAndGen
  <2>3. m \in received \/ ackManager[Id(m)].n = m
      BY DEF SendInv, NoneForgotten
  <2>4. ASSUME ackManager[Id(m)].n = m, Id(m) = Id(n) PROVE m \in received
    <3>1. Id(m) \in PendingIds
        BY <2>4, <2>2, <2>1, SMT DEF PendingIds, Unacked, NoPacket
    <3>2. count - m <= Mod
        BY <3>1, <2>4 DEF SendInv, KeptInPlace
    <3>3. m = n
        BY <3>2, <2>1, <2>4, <1>1, SameId
    <3> QED
        BY <3>3, <1>1
  <2> QED
      BY <2>2, <2>3, <2>4, <1>3
<1> QED
    BY <1>3, <1>4, <1>5, <1>6, <1>7, CountersKept DEF SendInv

\* A pass of the resend loop: what goes out again is what was kept.
LEMMA ResendStep == SendInv /\ Resend => SendInv'
<1> SUFFICES ASSUME SendInv, Resend PROVE SendInv'
    OBVIOUS
<1>1. /\ ackManager \in [Ids -> Packets \cup {NoPacket}] /\ ackManager' = ackManager
      /\ wire \subseteq Packets /\ wire' = wire \cup {ackManager[id] : id \in PendingIds}
      /\ received' = received /\ acks' = acks /\ heard' = heard /\ closed' = closed
      /\ UNCHANGED <<counter, generation, sendWindow, count>>
    BY DEF SendInv, TypeOK, Resend, Resent, env
<1>2. TypeOK'
  <2>1. wire' \subseteq Packets
      BY <1>1 DEF PendingIds, Unacked
  <2>2. age' \in [Ids -> 0 .. TimeoutTicks]
    <3> SUFFICES ASSUME NEW id \in Ids PROVE AgeAfter(id) \in 0 .. TimeoutTicks
        BY DEF Resend
    <3>1. age[id] \in Nat /\ TimeoutTicks \in Nat
        BY SendAssumption DEF SendInv, TypeOK
    <3>2. CASE Unacked(id)
        BY <3>1, <3>2 DEF AgeAfter, Resend, TimedOut, PendingIds
    <3>3. CASE ~Unacked(id)
        BY <3>1, <3>3 DEF AgeAfter
    <3> QED
        BY <3>2, <3>3
  <2> QED
      BY <2>1, <2>2, <1>1, CountersKept DEF SendInv, TypeOK
<1>3. KeptInPlace'
    BY <1>1 DEF SendInv, KeptInPlace, PendingIds, Unacked
<1>4. NothingInvented' /\ SentUnderItsNumber'
    BY <1>1 DEF SendInv, KeptInPlace, NothingInvented, SentUnderItsNumber
<1>5. NoneForgotten'
    BY <1>1 DEF SendInv, NoneForgotten
<1> QED
    BY <1>1, <1>2, <1>3, <1>4, <1>5, CountersKept DEF SendInv

\* A packet that waited too long: the handler closes.
LEMMA ExpireStep == SendInv /\ (\E id \in Ids : Expire(id)) => SendInv'
<1> SUFFICES ASSUME SendInv, NEW id \in Ids, Expire(id) PROVE SendInv'
    OBVIOUS
<1>1. /\ ackManager \in [Ids -> Packets \cup {NoPacket}]
      /\ ackManager' = [ackManager EXCEPT ![id] = NoPacket]
      /\ wire' = wire /\ received' = received /\ acks' = acks /\ heard' = heard /\ closed' = TRUE
      /\ UNCHANGED <<counter, generation, sendWindow, count>>
    BY DEF SendInv, TypeOK, Expire, env
<1>2. ackManager' \in [Ids -> Packets \cup {NoPacket}]
    BY <1>1
<1>3. age' \in [Ids -> 0 .. TimeoutTicks]
    BY SendAssumption DEF SendInv, TypeOK, Expire
<1>4. TypeOK'
    BY <1>1, <1>2, <1>3, CountersKept DEF SendInv, TypeOK
<1>5. KeptInPlace'
    BY <1>1 DEF SendInv, KeptInPlace, PendingIds, Unacked
<1>6. NothingInvented' /\ SentUnderItsNumber' /\ NoneForgotten'
    BY <1>1 DEF SendInv, NothingInvented, SentUnderItsNumber, NoneForgotten
<1> QED
    BY <1>1, <1>4, <1>5, <1>6, CountersKept DEF SendInv

\* The server takes a packet: it was sent.
LEMMA ServerReceiveStep == SendInv /\ (\E p \in wire : ServerReceive(p)) => SendInv'
<1> SUFFICES ASSUME SendInv, NEW p \in wire, ServerReceive(p) PROVE SendInv'
    OBVIOUS
<1>1. /\ ackManager' = ackManager /\ wire' = wire /\ heard' = heard /\ closed' = closed /\ age' = age
      /\ received' = received \cup {p.n} /\ acks' = acks \cup {p.n}
      /\ UNCHANGED <<counter, generation, sendWindow, count>>
    BY DEF ServerReceive
<1>2. p.n \in 1 .. MaxPackets /\ p.n < count
    BY DEF SendInv, TypeOK, NothingInvented, Packets
<1>3. TypeOK'
    BY <1>1, <1>2, CountersKept DEF SendInv, TypeOK
<1>4. KeptInPlace'
    BY <1>1 DEF SendInv, KeptInPlace, PendingIds, Unacked
<1>5. NothingInvented' /\ SentUnderItsNumber' /\ NoneForgotten'
    BY <1>1, <1>2 DEF SendInv, NothingInvented, SentUnderItsNumber, NoneForgotten
<1> QED
    BY <1>1, <1>3, <1>4, <1>5, CountersKept DEF SendInv

\* The inductive invariant holds in every state the handler can reach.
THEOREM SendInductive == SendSpec => []SendInv
<1>1. SendInv /\ UNCHANGED sendVars => SendInv'
    BY DEF SendInv, TypeOK, CountersAgree, KeptInPlace, NothingInvented, SentUnderItsNumber,
           NoneForgotten, PendingIds, Unacked, Position, Id, Gen, sendVars, env
<1>2. SendInv /\ [SendNext]_sendVars => SendInv'
    BY <1>1, SendStep, ReceiveAckStep, ResendStep, ExpireStep, ServerReceiveStep DEF SendNext, Tick
<1> QED
    BY <1>2, InitHolds, PTL DEF SendSpec

\* The packet id, its generation and the send window count the same packets
\* (#nextPacketIdentity), for every number of ids and any number of wraps.
THEOREM CountersAlwaysAgree == SendSpec => []CountersAgree
<1>1. SendInv => CountersAgree
    BY DEF SendInv
<1> QED
    BY <1>1, SendInductive, PTL

\* Every datagram goes out, and goes out again, under the id and the generation
\* of its packet (#sendPacketRaw, #doResend).
THEOREM DatagramsKeepTheirNumber == SendSpec => []SentUnderItsNumber
<1>1. SendInv => SentUnderItsNumber
    BY DEF SendInv
<1> QED
    BY <1>1, SendInductive, PTL

\* While the handler is open, a packet the server does not have is kept to be
\* sent again (#updatePostReceiveState gives up no other).
THEOREM UnansweredPacketsAreKept == SendSpec => []NoneForgotten
<1>1. SendInv => NoneForgotten
    BY DEF SendInv
<1> QED
    BY <1>1, SendInductive, PTL

-----------------------------------------------------------------------------
(* The answers.  The invariant relates the client to the server, which     *)
(* handles the commands in inbox one after the other: a row in the buffer  *)
(* that was asked for is of the command at the head, whether or not that   *)
(* has a return code (BufferInv); while somebody                           *)
(* waits for that command, the buffer holds as many rows of it as the      *)
(* server sent, and each of them answers it (HeadInv); no other command in *)
(* the inbox has rows yet (InboxInv).  So the rows picked at the error     *)
(* line are the command's, and after it the server sends it no more        *)
(* (CallInv).                                                              *)

States == {"waiting", "held", "ok", "failed", "gaveUp", "down"}

RowType == [source : {"", "inline", "matched"}, target : AllTargets, of : Int]

CallType ==
    [state : States, kind : Kinds, target : AllTargets, matched : Seq(RowType), data : Seq(RowType)]

\* Which of the rows are of a command.
Of(rows, rc) == {i \in DOMAIN rows : rows[i].of = rc}

\* What AnswersAreItsOwn says of a row.
Own(rc, row) ==
    \/ row.of = rc
    \/ /\ row.source = "inline" /\ call[rc].kind = "inline"
       /\ row.of = Nobody /\ NamesNoOther(rc, row)
    \/ /\ row.source = "matched" /\ IsMatched(rc)
       /\ row.target = call[rc].target

TrackerTypeOK ==
    /\ nextRC \in 0 .. MaxCalls
    /\ DOMAIN call = Calls
    /\ \A rc \in Calls : IF rc <= nextRC THEN call[rc] \in CallType ELSE call[rc] = Unused
    /\ buffer \in Seq(RowType)
    /\ \A i \in DOMAIN buffer : buffer[i].of <= nextRC
    /\ welcomed \in BOOLEAN
    /\ inbox \in Seq(Nat)
    /\ \A i \in DOMAIN inbox : inbox[i] <= nextRC
    /\ rowsSent \in [Calls \cup {Silent} -> Nat]
    /\ \A rc \in Calls : rc > nextRC => rowsSent[rc] = 0
    /\ late \subseteq 1 .. nextRC

\* Of the commands the server is to handle, each with a return code of its own, only
\* the first may have rows.
InboxInv ==
    /\ \A i, j \in DOMAIN inbox : inbox[i] = inbox[j] /\ inbox[i] # Silent => i = j
    /\ \A i \in DOMAIN inbox : inbox[i] \notin late
    /\ \A i \in DOMAIN inbox : i # 1 /\ inbox[i] # Silent => rowsSent[inbox[i]] = 0

\* A row in the buffer is of the command the server is at, with a return code or
\* without, or it is a notification that nobody asked for; but one that is to be
\* matched may come at any time.
FromHead(row) ==
    \/ inbox # <<>> /\ row.of = inbox[1]
    \/ row.source = "inline" /\ row.of = Nobody
    \/ row.source = "matched"

BufferInv ==
    /\ ~welcomed => buffer = <<>>
    /\ \A i \in DOMAIN buffer : FromHead(buffer[i])

\* The buffer holds what the server sent for that command so far.
HeadIsWhole(rc) ==
    /\ Cardinality(Of(buffer, rc)) = rowsSent[rc]
    /\ \A i \in Of(buffer, rc) : Answers(rc, buffer[i])

AtHead(rc) == inbox # <<>> /\ inbox[1] = rc

HeadInv ==
    \A rc \in Calls :
        AtHead(rc) /\ IsPending(rc) /\ call[rc].kind # "matched" => HeadIsWhole(rc)

\* What a command has got.
OwnRows(rc) ==
    /\ \A i \in DOMAIN call[rc].matched : Own(rc, call[rc].matched[i])
    /\ \A i \in DOMAIN call[rc].data : Own(rc, call[rc].data[i])
    /\ call[rc].kind # "matched" => call[rc].matched = <<>>
    /\ call[rc].kind # "matched" => call[rc].state # "held"
    /\ call[rc].state = "ok" /\ IsMatched(rc) => call[rc].data # <<>>

WholeRows(rc) ==
    call[rc].state = "ok" /\ call[rc].kind # "matched" =>
        /\ Cardinality(Of(call[rc].data, rc)) = rowsSent[rc]
        /\ \A i \in DOMAIN inbox : inbox[i] # rc

CallInv == \A rc \in Calls : rc <= nextRC => OwnRows(rc) /\ WholeRows(rc)

IInv == TrackerTypeOK /\ InboxInv /\ BufferInv /\ HeadInv /\ CallInv

-----------------------------------------------------------------------------
(* Numbers, sequences and their rows.                                      *)

\* A set of numbers that is not empty has a least one.
LEMMA MinimalIn ==
    ASSUME NEW R, IsWellFoundedOn(R, Nat), NEW S, S \subseteq Nat, S # {}
    PROVE  \E n \in S : \A m \in S : ~(<<m, n>> \in R)
  BY WFMin, Zenon

LEMMA NatOrder ==
    \E R : IsWellFoundedOn(R, Nat) /\ \A m, n \in Nat : m < n => <<m, n>> \in R
  <1>. DEFINE R == OpToRel(<, Nat)
  <1>1. IsWellFoundedOn(R, Nat)
    BY NatLessThanWellFounded
  <1>2. \A m, n \in Nat : m < n => <<m, n>> \in R
    BY DEF OpToRel
  <1>. WITNESS R
  <1>. QED  BY <1>1, <1>2

LEMMA LeastNumber ==
    ASSUME NEW S, S \subseteq Nat, S # {}
    PROVE  \E n \in S : \A m \in S : n <= m
  <1>1. PICK R : IsWellFoundedOn(R, Nat) /\ \A m, n \in Nat : m < n => <<m, n>> \in R
    BY NatOrder, Zenon
  <1>2. PICK n \in S : \A m \in S : ~(<<m, n>> \in R)
    BY <1>1, MinimalIn, Zenon
  <1>3. ASSUME NEW m \in S  PROVE n <= m
    <2>1. m \in Nat /\ n \in Nat
      OBVIOUS
    <2>2. ~(m < n)
      BY <1>1, <1>2, <2>1, Zenon
    <2>. QED  BY <2>1, <2>2, SMT
  <1>. QED  BY <1>3, Zenon

\* A set of numbers that holds 0 and with each number the next one holds all: the
\* form in which induction is used here.
LEMMA AllNumbers ==
    ASSUME NEW S, 0 \in S, \A n \in Nat : n \in S => n + 1 \in S
    PROVE  Nat \subseteq S
  <1>. SUFFICES ASSUME Nat \ S # {}  PROVE FALSE
    OBVIOUS
  <1>1. PICK n \in Nat \ S : \A m \in Nat \ S : n <= m
    <2>1. Nat \ S \subseteq Nat
      OBVIOUS
    <2>. QED  BY <2>1, LeastNumber
  <1>2. n # 0 /\ n - 1 \in Nat /\ (n - 1) + 1 = n
    BY <1>1
  <1>3. n - 1 \in S
    BY <1>1, <1>2
  <1>. QED  BY <1>1, <1>2, <1>3

\* One element is appended.
LEMMA AppendFacts ==
    ASSUME NEW T, NEW s \in Seq(T), NEW x \in T
    PROVE  /\ Append(s, x) \in Seq(T) /\ Len(Append(s, x)) = Len(s) + 1
           /\ DOMAIN Append(s, x) = 1 .. (Len(s) + 1) /\ Len(s) \in Nat /\ DOMAIN s = 1 .. Len(s)
           /\ \A i \in DOMAIN s : Append(s, x)[i] = s[i]
           /\ Append(s, x)[Len(s) + 1] = x
           /\ Append(s, x) # <<>>
  OBVIOUS

LEMMA OfFinite ==
    ASSUME NEW T, NEW s \in Seq(T), NEW c
    PROVE  IsFiniteSet(Of(s, c)) /\ Cardinality(Of(s, c)) \in Nat
  <1>1. DOMAIN s = 1 .. Len(s) /\ Len(s) \in Nat
    OBVIOUS
  <1>2. IsFiniteSet(DOMAIN s)
    BY <1>1, FS_Interval
  <1>3. Of(s, c) \in SUBSET (DOMAIN s)
    BY DEF Of
  <1>. QED  BY <1>2, <1>3, FS_Subset, FS_CardinalityType

\* A row appended is one more of its command.
LEMMA OfAppend ==
    ASSUME NEW T, NEW s \in Seq(T), NEW x \in T, NEW c
    PROVE  /\ Cardinality(Of(Append(s, x), c)) = Cardinality(Of(s, c)) + (IF x.of = c THEN 1 ELSE 0)
           /\ Of(Append(s, x), c) = Of(s, c) \cup (IF x.of = c THEN {Len(s) + 1} ELSE {})
  <1>1. IsFiniteSet(Of(s, c)) /\ Cardinality(Of(s, c)) \in Nat
    BY OfFinite
  <1>2. Of(Append(s, x), c) = Of(s, c) \cup (IF x.of = c THEN {Len(s) + 1} ELSE {})
    BY AppendFacts DEF Of
  <1>3. Len(s) + 1 \notin Of(s, c)
    BY AppendFacts DEF Of
  <1>4. CASE x.of = c
    <2>1. Cardinality(Of(s, c) \cup {Len(s) + 1}) = Cardinality(Of(s, c)) + 1
      BY <1>1, <1>3, FS_AddElement
    <2>. QED  BY <1>1, <1>2, <1>4, <2>1
  <1>5. CASE x.of # c
    BY <1>1, <1>2, <1>5
  <1>. QED  BY <1>4, <1>5

-----------------------------------------------------------------------------
(* The rows an error line picks out of the buffer.                         *)

\* f picks from s, one place after the other, the elements at the places in I.
Picks(f, n, s, I) ==
    f = [i \in 0 .. n |-> IF i = 0 THEN <<>>
                          ELSE IF i \in I THEN Append(f[i - 1], s[i])
                          ELSE f[i - 1]]

LEMMA PicksExists ==
    ASSUME NEW s, NEW I
    PROVE  \A n \in Nat : \E f : Picks(f, n, s, I)
  <1>. DEFINE S == {n \in Nat : \E f : Picks(f, n, s, I)}
  <1>1. 0 \in S
    <2>. DEFINE f == [i \in 0 .. 0 |-> <<>>]
    <2>1. Picks(f, 0, s, I)
      BY DEF Picks
    <2>. HIDE DEF f
    <2>. QED  BY <2>1
  <1>2. ASSUME NEW n \in Nat, n \in S  PROVE n + 1 \in S
    <2>1. PICK f : Picks(f, n, s, I)
      BY <1>2
    <2>. DEFINE last == IF n + 1 \in I THEN Append(f[n], s[n + 1]) ELSE f[n]
                g    == [i \in 0 .. (n + 1) |-> IF i = n + 1 THEN last ELSE f[i]]
                Rest(i) == IF i = 0 THEN <<>> ELSE IF i \in I THEN Append(g[i - 1], s[i]) ELSE g[i - 1]
    <2>2. \A i \in 0 .. n : f[i] = IF i = 0 THEN <<>>
                                   ELSE IF i \in I THEN Append(f[i - 1], s[i]) ELSE f[i - 1]
      BY <2>1 DEF Picks
    <2>3. \A i \in 0 .. n : g[i] = f[i]
      OBVIOUS
    <2>4. g[n + 1] = last
      OBVIOUS
    <2>. HIDE DEF g
    <2>5. ASSUME NEW i \in 0 .. (n + 1)  PROVE g[i] = Rest(i)
      <3>1. CASE i = n + 1
        <4>1. i # 0 /\ i - 1 = n /\ g[i - 1] = f[n]
          BY <2>3, <3>1
        <4>. QED  BY <2>4, <3>1, <4>1
      <3>2. CASE i # n + 1
        <4>1. i \in 0 .. n /\ (i # 0 => i - 1 \in 0 .. n)
          BY <3>2
        <4>. QED  BY <2>2, <2>3, <4>1
      <3>. QED  BY <3>1, <3>2
    <2>6. g = [i \in 0 .. (n + 1) |-> g[i]]
      BY DEF g
    <2>7. Picks(g, n + 1, s, I)
      BY <2>5, <2>6 DEF Picks
    <2>. QED  BY <2>7
  <1>. HIDE DEF S
  <1>3. Nat \subseteq S
    BY <1>1, <1>2, AllNumbers
  <1>. QED  BY <1>3 DEF S

\* p is in Seq(T), has only elements of s at the places in I, and of command c as
\* many as there are.
PickedFrom(p, T, s, I, c) ==
    /\ p \in Seq(T)
    /\ \A k \in DOMAIN p : \E i \in DOMAIN s : i \in I /\ p[k] = s[i]
    /\ Cardinality(Of(p, c)) = Cardinality(Of(s, c) \cap I)

\* What is picked: only elements at those places, and as many of each command as
\* there are.
LEMMA PicksExactly ==
    ASSUME NEW T, NEW s \in Seq(T), NEW I, NEW c, NEW f, Picks(f, Len(s), s, I)
    PROVE  PickedFrom(f[Len(s)], T, s, I, c)
  <1>. DEFINE Upto(n) == {i \in 1 .. n : i \in I /\ s[i].of = c}
              Good(n) == /\ f[n] \in Seq(T)
                         /\ \A k \in DOMAIN f[n] : \E i \in 1 .. n : i \in I /\ f[n][k] = s[i]
                         /\ Cardinality(Of(f[n], c)) = Cardinality(Upto(n))
              S == {n \in Nat : n <= Len(s) => Good(n)}
  <1>1. /\ Len(s) \in Nat /\ DOMAIN s = 1 .. Len(s)
        /\ \A i \in 1 .. Len(s) : s[i] \in T
    OBVIOUS
  <1>2. \A i \in 0 .. Len(s) : f[i] = IF i = 0 THEN <<>>
                                      ELSE IF i \in I THEN Append(f[i - 1], s[i]) ELSE f[i - 1]
    BY <1>1 DEF Picks
  <1>3. 0 \in S
    <2>1. f[0] = <<>>
      BY <1>1, <1>2
    <2>2. Of(f[0], c) = {} /\ Upto(0) = {}
      BY <2>1 DEF Of
    <2>3. f[0] \in Seq(T) /\ DOMAIN f[0] = {}
      BY <2>1
    <2>. QED  BY <2>2, <2>3
  <1>4. ASSUME NEW n \in Nat, n \in S, n + 1 <= Len(s)  PROVE Good(n + 1)
    <2>1. /\ f[n] \in Seq(T)
          /\ \A k \in DOMAIN f[n] : \E i \in 1 .. n : i \in I /\ f[n][k] = s[i]
          /\ Cardinality(Of(f[n], c)) = Cardinality(Upto(n))
      BY <1>1, <1>4
    <2>2. n + 1 \in 1 .. Len(s) /\ s[n + 1] \in T
      BY <1>1, <1>4
    <2>3. f[n + 1] = IF n + 1 \in I THEN Append(f[n], s[n + 1]) ELSE f[n]
      <3>1. n + 1 \in 0 .. Len(s) /\ n + 1 # 0 /\ (n + 1) - 1 = n
        BY <1>1, <1>4
      <3>. QED  BY <1>2, <3>1
    <2>4. Upto(n + 1) = Upto(n) \cup (IF n + 1 \in I /\ s[n + 1].of = c THEN {n + 1} ELSE {})
      OBVIOUS
    <2>5. IsFiniteSet(Upto(n)) /\ n + 1 \notin Upto(n) /\ Cardinality(Upto(n)) \in Nat
      <3>1. IsFiniteSet(1 .. n) /\ Upto(n) \in SUBSET (1 .. n)
        BY FS_Interval
      <3>. QED  BY <3>1, FS_Subset, FS_CardinalityType
    <2>. HIDE DEF Upto
    <2>6. Cardinality(Upto(n) \cup {n + 1}) = Cardinality(Upto(n)) + 1
      BY <2>5, FS_AddElement
    <2>7. CASE n + 1 \notin I
      <3>1. f[n + 1] = f[n] /\ Upto(n + 1) = Upto(n)
        BY <2>3, <2>4, <2>7
      <3>2. \A k \in DOMAIN f[n] : \E i \in 1 .. (n + 1) : i \in I /\ f[n][k] = s[i]
        BY <2>1
      <3>. QED  BY <2>1, <3>1, <3>2
    <2>8. CASE n + 1 \in I
      <3>1. f[n + 1] = Append(f[n], s[n + 1])
        BY <2>3, <2>8
      <3>2. f[n + 1] \in Seq(T)
        BY <2>1, <2>2, <3>1
      <3>3. Cardinality(Of(f[n + 1], c)) = Cardinality(Upto(n + 1))
        <4>1. Cardinality(Of(f[n + 1], c))
                = Cardinality(Of(f[n], c)) + (IF s[n + 1].of = c THEN 1 ELSE 0)
          BY <2>1, <2>2, <3>1, OfAppend
        <4>. QED  BY <2>1, <2>4, <2>5, <2>6, <2>8, <4>1
      <3>4. ASSUME NEW k \in DOMAIN f[n + 1]
            PROVE  \E i \in 1 .. (n + 1) : i \in I /\ f[n + 1][k] = s[i]
        <4>1. CASE k \in DOMAIN f[n]
          <5>1. f[n + 1][k] = f[n][k]
            BY <2>1, <2>2, <3>1, <4>1, AppendFacts
          <5>. QED  BY <2>1, <4>1, <5>1
        <4>2. CASE k \notin DOMAIN f[n]
          <5>1. f[n + 1][k] = s[n + 1]
            BY <2>1, <2>2, <3>1, <3>4, <4>2, AppendFacts
          <5>. QED  BY <2>8, <5>1
        <4>. QED  BY <4>1, <4>2
      <3>. QED  BY <3>2, <3>3, <3>4
    <2>. QED  BY <2>7, <2>8
  <1>. HIDE DEF Good
  <1>5. \A n \in Nat : n \in S => n + 1 \in S
    BY <1>1, <1>4
  <1>. HIDE DEF S
  <1>6. Len(s) \in S
    BY <1>1, <1>3, <1>5, AllNumbers
  <1>7. Good(Len(s))
    BY <1>1, <1>6 DEF S
  <1>8. Upto(Len(s)) = Of(s, c) \cap I
    BY <1>1 DEF Of
  <1>. QED  BY <1>1, <1>7, <1>8 DEF Good, PickedFrom

\* The rows for a command are rows of the buffer that answer it, and all of them.
LEMMA RowsForExactly ==
    ASSUME NEW rc, NEW c, buffer \in Seq(RowType)
    PROVE  /\ RowsFor(rc) \in Seq(RowType)
           /\ \A k \in DOMAIN RowsFor(rc) :
                \E i \in DOMAIN buffer : Answers(rc, buffer[i]) /\ RowsFor(rc)[k] = buffer[i]
           /\ Cardinality(Of(RowsFor(rc), c))
                = Cardinality({i \in Of(buffer, c) : Answers(rc, buffer[i])})
  <1>. DEFINE I == {i \in DOMAIN buffer : Answers(rc, buffer[i])}
              n == Len(buffer)
              Body(f) == [i \in 0 .. n |-> IF i = 0 THEN <<>>
                                           ELSE IF Answers(rc, buffer[i]) THEN Append(f[i - 1], buffer[i])
                                           ELSE f[i - 1]]
              pick == CHOOSE f : f = Body(f)
  <1>1. n \in Nat /\ DOMAIN buffer = 1 .. n
    OBVIOUS
  <1>2. RowsFor(rc) = pick[n]
    BY DEF RowsFor
  <1>3. \A f : Picks(f, n, buffer, I) <=> f = Body(f)
    <2>1. \A i \in 0 .. n : i # 0 => (i \in I <=> Answers(rc, buffer[i]))
      BY <1>1
    <2>. HIDE DEF I, n
    <2>. QED  BY <2>1 DEF Picks
  <1>. HIDE DEF Body, I, n
  <1>4. \E f : f = Body(f)
    BY <1>1, <1>3, PicksExists
  <1>5. Picks(pick, n, buffer, I)
    BY <1>3, <1>4
  <1>. HIDE DEF pick
  <1>6. PickedFrom(pick[n], RowType, buffer, I, c)
    BY <1>5, PicksExactly DEF n
  <1>7. Of(buffer, c) \cap I = {i \in Of(buffer, c) : Answers(rc, buffer[i])}
    BY DEF Of, I
  <1>. QED  BY <1>2, <1>6, <1>7 DEF I, PickedFrom

-----------------------------------------------------------------------------
(* What the parts of the invariant depend on.                              *)

LEMMA OwnKept ==
    ASSUME NEW rc, call'[rc] = call[rc], OwnRows(rc)
    PROVE  OwnRows(rc)'
  BY DEF OwnRows, Own, NamesNoOther, IsMatched

LEMMA WholeKept ==
    ASSUME NEW rc, call'[rc] = call[rc], rowsSent'[rc] = rowsSent[rc], WholeRows(rc),
           \A i \in DOMAIN inbox' : inbox'[i] = rc => \E j \in DOMAIN inbox : inbox[j] = rc
    PROVE  WholeRows(rc)'
  BY DEF WholeRows, Of

LEMMA HeadKept ==
    ASSUME NEW rc, call'[rc].kind = call[rc].kind, call'[rc].target = call[rc].target,
           rowsSent'[rc] = rowsSent[rc], buffer' = buffer, HeadIsWhole(rc)
    PROVE  HeadIsWhole(rc)'
  BY DEF HeadIsWhole, Of, Answers, NamesNoOther

\* Nothing that the invariant speaks of changes.
LEMMA QuietOK ==
    ASSUME IInv, UNCHANGED <<nextRC, call, buffer, inbox, rowsSent, late>>, welcomed' \in BOOLEAN,
           welcomed => welcomed'
    PROVE  IInv'
  <1>1. TrackerTypeOK' /\ InboxInv' /\ BufferInv'
    BY DEF IInv, TrackerTypeOK, InboxInv, BufferInv, FromHead
  <1>2. HeadInv'
    BY DEF IInv, HeadInv, AtHead, HeadIsWhole, Of, Answers, NamesNoOther, IsPending
  <1>3. CallInv'
    <2>1. \A rc \in Calls : OwnRows(rc) => OwnRows(rc)'
      BY DEF OwnRows, Own, NamesNoOther, IsMatched
    <2>2. \A rc \in Calls : WholeRows(rc) => WholeRows(rc)'
      BY DEF WholeRows, Of
    <2>. QED  BY <2>1, <2>2 DEF IInv, CallInv
  <1>. QED  BY <1>1, <1>2, <1>3 DEF IInv

LEMMA InitOK == Init => IInv
  <1>. SUFFICES ASSUME Init  PROVE IInv
    OBVIOUS
  <1>1. nextRC = 0 /\ buffer = <<>> /\ inbox = <<>> /\ late = {}
    BY DEF Init
  <1>2. \A rc \in Calls : rc > 0 /\ call[rc] = Unused /\ rowsSent[rc] = 0
    BY TrackerAssumption DEF Init, Calls
  <1>3. TrackerTypeOK
    <2>1. rowsSent \in [Calls \cup {Silent} -> Nat] /\ DOMAIN call = Calls
      BY DEF Init
    <2>2. buffer \in Seq(RowType) /\ inbox \in Seq(Nat) /\ DOMAIN buffer = {} /\ DOMAIN inbox = {}
      BY <1>1
    <2>3. \A rc \in Calls : ~(rc <= nextRC)
      BY <1>1, <1>2, TrackerAssumption DEF Calls
    <2>4. nextRC \in 0 .. MaxCalls /\ late \subseteq 1 .. nextRC
      BY <1>1, TrackerAssumption
    <2>6. welcomed \in BOOLEAN
      BY Zenon DEF Init
    <2>5. \A rc \in Calls : IF rc <= nextRC THEN call[rc] \in CallType ELSE call[rc] = Unused
      BY <1>2, <2>3
    <2>. QED  BY <1>2, <2>1, <2>2, <2>4, <2>5, <2>6 DEF TrackerTypeOK
  <1>4. InboxInv /\ BufferInv /\ HeadInv
    BY <1>1 DEF InboxInv, BufferInv, HeadInv, AtHead
  <1>5. CallInv
    BY <1>1, <1>2, TrackerAssumption DEF CallInv, Calls
  <1>. QED  BY <1>3, <1>4, <1>5 DEF IInv

-----------------------------------------------------------------------------
(* The caller.                                                             *)

\* A command is sent, with a return code that is not in use anywhere.
LEMMA ExecOK ==
    ASSUME IInv, NEW kind \in Kinds, NEW target \in AllTargets, Exec(kind, target)
    PROVE  IInv'
  <1>0. PICK rc : rc = nextRC + 1
    OBVIOUS
  <1>. DEFINE new == [state |-> "waiting", kind |-> kind, target |-> target,
                      matched |-> <<>>, data |-> <<>>]
  <1>1. /\ nextRC < MaxCalls /\ nextRC' = rc
        /\ call' = [call EXCEPT ![rc] = new]
        /\ inbox' = Append(inbox, rc)
        /\ UNCHANGED <<buffer, welcomed, rowsSent, late>>
    BY <1>0 DEF Exec
  <1>2. nextRC \in Nat /\ rc \in Calls /\ rc \in Nat /\ rc # Silent /\ rc = nextRC + 1
    BY <1>0, <1>1, TrackerAssumption DEF IInv, TrackerTypeOK, Calls, Silent
  <1>3. new \in CallType
    BY DEF CallType, States
  <1>4. /\ DOMAIN call' = Calls /\ call'[rc] = new
        /\ \A c \in Calls : c # rc => call'[c] = call[c]
    BY <1>1, <1>2 DEF IInv, TrackerTypeOK
  <1>5. /\ inbox \in Seq(Nat) /\ \A i \in DOMAIN inbox : inbox[i] \in Nat /\ inbox[i] <= nextRC
    BY DEF IInv, TrackerTypeOK
  <1>6. /\ inbox' \in Seq(Nat) /\ inbox' # <<>>
        /\ \A i \in DOMAIN inbox' : (i \in DOMAIN inbox /\ inbox'[i] = inbox[i])
                                      \/ (i = Len(inbox) + 1 /\ inbox'[i] = rc /\ i \notin DOMAIN inbox)
        /\ inbox'[1] = IF inbox = <<>> THEN rc ELSE inbox[1]
    BY <1>1, <1>2, <1>5
  <1>. HIDE DEF new
  <1>7. TrackerTypeOK'
    <2>1. nextRC' \in 0 .. MaxCalls
      BY <1>1, <1>2, TrackerAssumption
    <2>2. \A c \in Calls : IF c <= nextRC' THEN call'[c] \in CallType ELSE call'[c] = Unused
      <3>1. \A c \in Calls : c \in Nat /\ (c <= rc <=> c <= nextRC \/ c = rc)
        BY <1>2 DEF Calls
      <3>. QED  BY <1>1, <1>2, <1>3, <1>4, <3>1 DEF IInv, TrackerTypeOK
    <2>3. buffer' \in Seq(RowType) /\ \A i \in DOMAIN buffer' : buffer'[i].of <= nextRC'
      <3>1. \A i \in DOMAIN buffer : buffer[i].of \in Int /\ buffer[i].of <= nextRC
        <4>1. \A i \in DOMAIN buffer : buffer[i] \in RowType
          BY DEF IInv, TrackerTypeOK
        <4>. QED  BY <4>1 DEF IInv, TrackerTypeOK, RowType
      <3>. QED  BY <1>1, <1>2, <3>1 DEF IInv, TrackerTypeOK
    <2>4. \A i \in DOMAIN inbox' : inbox'[i] <= nextRC'
      BY <1>1, <1>2, <1>5, <1>6
    <2>5. rowsSent' \in [Calls \cup {Silent} -> Nat] /\ \A c \in Calls : c > nextRC' => rowsSent'[c] = 0
      BY <1>1, <1>2 DEF IInv, TrackerTypeOK, Calls
    <2>6. late' \subseteq 1 .. nextRC'
      BY <1>1, <1>2 DEF IInv, TrackerTypeOK
    <2>7. welcomed' \in BOOLEAN
      BY <1>1 DEF IInv, TrackerTypeOK
    <2>. QED  BY <1>4, <1>6, <2>1, <2>2, <2>3, <2>4, <2>5, <2>6, <2>7 DEF TrackerTypeOK
  <1>8. rowsSent[rc] = 0 /\ rc \notin late /\ \A i \in DOMAIN inbox : inbox[i] # rc
    BY <1>2, <1>5 DEF IInv, TrackerTypeOK
  <1>9. InboxInv'
    <2>1. \A i, j \in DOMAIN inbox' : inbox'[i] = inbox'[j] /\ inbox'[i] # Silent => i = j
      BY <1>6, <1>8 DEF IInv, InboxInv
    <2>2. \A i \in DOMAIN inbox' : inbox'[i] \notin late'
      BY <1>1, <1>6, <1>8 DEF IInv, InboxInv
    <2>3. \A i \in DOMAIN inbox' : i # 1 /\ inbox'[i] # Silent => rowsSent'[inbox'[i]] = 0
      BY <1>1, <1>6, <1>8 DEF IInv, InboxInv
    <2>. QED  BY <2>1, <2>2, <2>3 DEF InboxInv
  <1>10. BufferInv'
    BY <1>1, <1>6 DEF IInv, BufferInv, FromHead
  <1>11. HeadInv'
    <2>. SUFFICES ASSUME NEW h \in Calls, AtHead(h)', IsPending(h)', call'[h].kind # "matched"
                  PROVE  HeadIsWhole(h)'
      BY DEF HeadInv
    <2>1. CASE inbox = <<>>
      <3>1. h = rc
        BY <1>6, <2>1 DEF AtHead
      <3>2. Of(buffer', rc) = {}
        BY <1>1, <1>2 DEF IInv, TrackerTypeOK, Of
      <3>. QED  BY <1>1, <1>8, <3>1, <3>2, FS_EmptySet DEF HeadIsWhole, Of
    <2>2. CASE inbox # <<>>
      <3>1. AtHead(h) /\ h # rc
        BY <1>5, <1>6, <1>8, <2>2 DEF AtHead
      <3>2. call'[h] = call[h] /\ IsPending(h)
        BY <1>4, <3>1 DEF IsPending
      <3>. QED  BY <1>1, <3>1, <3>2, HeadKept DEF IInv, HeadInv
    <2>. QED  BY <2>1, <2>2
  <1>12. CallInv'
    <2>. SUFFICES ASSUME NEW c \in Calls, c <= nextRC'
                  PROVE  OwnRows(c)' /\ WholeRows(c)'
      BY DEF CallInv
    <2>1. CASE c = rc
      BY <1>4, <2>1 DEF new, OwnRows, WholeRows, IsMatched
    <2>2. CASE c # rc
      <3>1. c <= nextRC /\ call'[c] = call[c] /\ OwnRows(c) /\ WholeRows(c)
        BY <1>1, <1>2, <1>4, <2>2 DEF IInv, CallInv, Calls
      <3>. QED  BY <1>1, <1>6, <2>2, <3>1, OwnKept, WholeKept
    <2>. QED  BY <2>1, <2>2
  <1>. QED  BY <1>7, <1>9, <1>10, <1>11, <1>12 DEF IInv

\* A command without a return code waits its turn like the others.
LEMMA ExecNoWaitOK ==
    ASSUME IInv, ExecNoWait
    PROVE  IInv'
  <1>1. inbox' = Append(inbox, Silent) /\ UNCHANGED <<nextRC, call, buffer, welcomed, rowsSent, late>>
    BY DEF ExecNoWait, tracker
  <1>2. inbox \in Seq(Nat) /\ nextRC \in Nat /\ Silent \in Nat
    BY TrackerAssumption DEF IInv, TrackerTypeOK, Silent
  <1>3. /\ inbox' \in Seq(Nat) /\ inbox' # <<>>
        /\ \A i \in DOMAIN inbox' : (i \in DOMAIN inbox /\ inbox'[i] = inbox[i])
                                      \/ (i \notin DOMAIN inbox /\ inbox'[i] = Silent)
        /\ inbox'[1] = IF inbox = <<>> THEN Silent ELSE inbox[1]
    BY <1>1, <1>2
  <1>4. TrackerTypeOK'
    <2>1. \A i \in DOMAIN inbox' : inbox'[i] <= nextRC
      BY <1>2, <1>3 DEF IInv, TrackerTypeOK, Silent
    <2>. QED  BY <1>1, <1>3, <2>1 DEF IInv, TrackerTypeOK
  <1>5. InboxInv'
    <2>1. Silent \notin late
      BY DEF IInv, TrackerTypeOK, Silent
    <2>. QED  BY <1>1, <1>3, <2>1 DEF IInv, InboxInv
  <1>6. BufferInv'
    BY <1>1, <1>3 DEF IInv, BufferInv, FromHead
  <1>7. HeadInv'
    <2>. SUFFICES ASSUME NEW h \in Calls, AtHead(h)', IsPending(h)', call'[h].kind # "matched"
                  PROVE  HeadIsWhole(h)'
      BY DEF HeadInv
    <2>1. h # Silent
      BY DEF Calls, Silent
    <2>2. AtHead(h) /\ IsPending(h) /\ call'[h] = call[h]
      BY <1>1, <1>3, <2>1 DEF AtHead, IsPending
    <2>. QED  BY <1>1, <2>2, HeadKept DEF IInv, HeadInv
  <1>8. CallInv'
    <2>. SUFFICES ASSUME NEW c \in Calls, c <= nextRC
                  PROVE  OwnRows(c)' /\ WholeRows(c)'
      BY <1>1 DEF CallInv
    <2>1. c # Silent
      BY DEF Calls, Silent
    <2>2. \A i \in DOMAIN inbox' : inbox'[i] = c => \E j \in DOMAIN inbox : inbox[j] = c
      BY <1>3, <2>1
    <2>. QED  BY <1>1, <2>2, OwnKept, WholeKept DEF IInv, CallInv
  <1>. QED  BY <1>4, <1>5, <1>6, <1>7, <1>8 DEF IInv

\* Commands end unanswered: their calls no longer wait, and keep what they have.
LEMMA EndedOK ==
    ASSUME IInv, UNCHANGED <<nextRC, rowsSent>>, DOMAIN call' = Calls,
           \A c \in Calls : \/ call'[c] = call[c]
                            \/ /\ IsPending(c)
                               /\ \E s \in {"gaveUp", "down"} : call'[c] = Ended(c, s, <<>>),
           \/ UNCHANGED <<buffer, welcomed, inbox, late>>
           \/ buffer' = <<>> /\ welcomed' = FALSE /\ inbox' = <<>> /\ late' = {}
    PROVE  IInv'
  <1>1. \A c \in Calls : IsPending(c) => c <= nextRC /\ call[c] \in CallType
    <2>1. \A c \in Calls : c \in Nat
      BY DEF Calls
    <2>2. \A c \in Calls : IsPending(c) => call[c] # Unused
      BY DEF IsPending, Unused
    <2>. QED  BY <2>1, <2>2, TrackerAssumption DEF IInv, TrackerTypeOK
  <1>2. ASSUME NEW c \in Calls, call'[c] # call[c]
        PROVE  /\ call[c] \in CallType /\ call'[c] \in CallType /\ c <= nextRC
               /\ call'[c].state \in {"gaveUp", "down"}
               /\ call'[c].kind = call[c].kind /\ call'[c].target = call[c].target
               /\ call'[c].matched = <<>> /\ call'[c].data = <<>>
    <2>1. PICK s \in {"gaveUp", "down"} : call'[c] = Ended(c, s, <<>>)
      BY <1>2
    <2>2. call[c] \in CallType /\ c <= nextRC
      BY <1>1, <1>2
    <2>0. <<>> \in Seq(RowType)
      OBVIOUS
    <2>3. PICK none : none = <<>> /\ none \in Seq(RowType)
      BY <2>0, Zenon
    <2>4. call'[c] = [call[c] EXCEPT !.state = s, !.data = none, !.matched = none]
      BY <2>1, <2>3 DEF Ended
    <2>. QED  BY <2>2, <2>3, <2>4 DEF CallType, States
  <1>3. TrackerTypeOK'
    <2>1. \A c \in Calls : IF c <= nextRC THEN call'[c] \in CallType ELSE call'[c] = Unused
      BY <1>2 DEF IInv, TrackerTypeOK
    <2>2. CASE UNCHANGED <<buffer, welcomed, inbox, late>>
      BY <2>1, <2>2 DEF IInv, TrackerTypeOK
    <2>3. CASE buffer' = <<>> /\ welcomed' = FALSE /\ inbox' = <<>> /\ late' = {}
      <3>1. /\ buffer' \in Seq(RowType) /\ inbox' \in Seq(Nat)
            /\ DOMAIN buffer' = {} /\ DOMAIN inbox' = {}
        BY <2>3
      <3>2. welcomed' \in BOOLEAN
        BY <2>3, Zenon
      <3>. QED  BY <2>1, <2>3, <3>1, <3>2 DEF IInv, TrackerTypeOK
    <2>. QED  BY <2>2, <2>3
  <1>4. InboxInv' /\ BufferInv'
    <2>1. CASE UNCHANGED <<buffer, welcomed, inbox, late>>
      BY <2>1 DEF IInv, InboxInv, BufferInv, FromHead
    <2>2. CASE buffer' = <<>> /\ welcomed' = FALSE /\ inbox' = <<>> /\ late' = {}
      <3>1. DOMAIN buffer' = {} /\ DOMAIN inbox' = {}
        BY <2>2
      <3>. QED  BY <2>2, <3>1 DEF InboxInv, BufferInv, FromHead
    <2>. QED  BY <2>1, <2>2
  <1>5. HeadInv'
    <2>. SUFFICES ASSUME NEW h \in Calls, AtHead(h)', IsPending(h)', call'[h].kind # "matched"
                  PROVE  HeadIsWhole(h)'
      BY DEF HeadInv
    <2>1. call'[h] = call[h] /\ IsPending(h)
      BY <1>2 DEF IsPending
    <2>2. UNCHANGED <<buffer, inbox>>
      BY DEF AtHead
    <2>3. AtHead(h)
      BY <2>2 DEF AtHead
    <2>. QED  BY <2>1, <2>2, <2>3, HeadKept DEF IInv, HeadInv
  <1>6. CallInv'
    <2>. SUFFICES ASSUME NEW c \in Calls, c <= nextRC
                  PROVE  OwnRows(c)' /\ WholeRows(c)'
      BY DEF CallInv
    <2>1. OwnRows(c) /\ WholeRows(c)
      BY DEF IInv, CallInv
    <2>2. CASE call'[c] = call[c]
      <3>1. \A i \in DOMAIN inbox' : inbox'[i] = c => \E j \in DOMAIN inbox : inbox[j] = c
        OBVIOUS
      <3>. QED  BY <2>1, <2>2, <3>1, OwnKept, WholeKept
    <2>3. CASE call'[c] # call[c]
      <3>1. OwnRows(c)'
        <4>1. DOMAIN call'[c].matched = {} /\ DOMAIN call'[c].data = {}
          BY <1>2, <2>3
        <4>. QED  BY <1>2, <2>3, <4>1 DEF OwnRows
      <3>2. WholeRows(c)'
        BY <1>2, <2>3 DEF WholeRows
      <3>. QED  BY <3>1, <3>2
    <2>. QED  BY <2>2, <2>3
  <1>. QED  BY <1>3, <1>4, <1>5, <1>6 DEF IInv

LEMMA GiveUpOK ==
    ASSUME IInv, NEW rc \in Calls, GiveUp(rc)
    PROVE  IInv'
  <1>1. /\ call' = [call EXCEPT ![rc] = Ended(rc, "gaveUp", <<>>)] /\ IsPending(rc)
        /\ UNCHANGED <<nextRC, buffer, welcomed, inbox, rowsSent, late>>
    BY DEF GiveUp, server
  <1>2. DOMAIN call = Calls
    BY DEF IInv, TrackerTypeOK
  <1>3. /\ DOMAIN call' = Calls /\ call'[rc] = Ended(rc, "gaveUp", <<>>)
        /\ \A c \in Calls : c # rc => call'[c] = call[c]
    BY <1>1, <1>2
  <1>. QED  BY <1>1, <1>3, EndedOK

LEMMA DownOK ==
    ASSUME IInv, Down
    PROVE  IInv'
  <1>1. /\ call' = Abandoned /\ buffer' = <<>> /\ welcomed' = FALSE /\ inbox' = <<>> /\ late' = {}
        /\ UNCHANGED <<nextRC, rowsSent>>
    BY DEF Down
  <1>2. /\ DOMAIN call' = Calls
        /\ \A c \in Calls : call'[c] = IF IsPending(c) THEN Ended(c, "down", <<>>) ELSE call[c]
    BY <1>1 DEF Abandoned
  <1>. QED  BY <1>1, <1>2, EndedOK

-----------------------------------------------------------------------------
(* A row or a notification from the server.                                *)

LEMMA ConcatFacts ==
    ASSUME NEW T, NEW s \in Seq(T), NEW t \in Seq(T)
    PROVE  /\ s \o t \in Seq(T)
           /\ \A i \in DOMAIN (s \o t) : \/ \E j \in DOMAIN s : (s \o t)[i] = s[j]
                                         \/ \E j \in DOMAIN t : (s \o t)[i] = t[j]
           /\ t # <<>> => s \o t # <<>>
           /\ t = <<>> => s \o t = s
  <1>1. /\ s \o t \in Seq(T) /\ Len(s \o t) = Len(s) + Len(t)
        /\ Len(s) \in Nat /\ Len(t) \in Nat
        /\ DOMAIN s = 1 .. Len(s) /\ DOMAIN t = 1 .. Len(t)
        /\ DOMAIN (s \o t) = 1 .. (Len(s) + Len(t))
    OBVIOUS
  <1>2. ASSUME NEW i \in DOMAIN (s \o t)
        PROVE  \/ \E j \in DOMAIN s : (s \o t)[i] = s[j]
               \/ \E j \in DOMAIN t : (s \o t)[i] = t[j]
    <2>1. CASE i <= Len(s)
      <3>1. i \in DOMAIN s /\ (s \o t)[i] = s[i]
        BY <1>1, <2>1
      <3>. QED  BY <3>1
    <2>2. CASE ~(i <= Len(s))
      <3>1. i - Len(s) \in DOMAIN t /\ (s \o t)[i] = t[i - Len(s)]
        BY <1>1, <2>2
      <3>. QED  BY <3>1
    <2>. QED  BY <2>1, <2>2
  <1>3. t # <<>> => s \o t # <<>>
    <2>1. t # <<>> => Len(t) # 0
      OBVIOUS
    <2>. QED  BY <1>1, <2>1
  <1>4. t = <<>> => s \o t = s
    OBVIOUS
  <1>. QED  BY <1>1, <1>2, <1>3, <1>4

\* What a notification may do to a command: one that it does not match is left
\* alone, the others take only a row of their own.
OfferKeeps(c) ==
    /\ call'[c] \in CallType
    /\ call'[c].kind = call[c].kind
    /\ call'[c].target = call[c].target
    /\ call[c].kind # "matched" => call'[c] = call[c]
    /\ call'[c].state \in {"waiting", "held"} => IsPending(c)
    /\ OwnRows(c)'

LEMMA OfferedFacts ==
    ASSUME TrackerTypeOK, CallInv, NEW row \in RowType, NEW fails \in BOOLEAN, call' = Offered(row, fails)
    PROVE  /\ DOMAIN call' = Calls
           /\ \A c \in Calls : IF c <= nextRC THEN OfferKeeps(c) ELSE call'[c] = call[c]
  <1>1. DOMAIN call = Calls /\ \A c \in Calls : c <= nextRC => call[c] \in CallType /\ OwnRows(c)
    BY DEF TrackerTypeOK, CallInv
  <1>2. ASSUME NEW c \in Calls, c <= nextRC, call'[c] = call[c]  PROVE OfferKeeps(c)
    BY <1>1, <1>2, OwnKept DEF OfferKeeps, IsPending
  <1>3. CASE row.source # "matched" \/ MatchedBy(row) = {}
    <2>1. call' = call
      BY <1>3 DEF Offered
    <2>. QED  BY <1>1, <1>2, <2>1
  <1>4. CASE ~(row.source # "matched" \/ MatchedBy(row) = {})
    <2>1. PICK rc : rc = First(MatchedBy(row))
      OBVIOUS
    <2>2. rc \in MatchedBy(row)
      <3>1. MatchedBy(row) \subseteq Nat
        BY DEF MatchedBy, Pending, Calls
      <3>2. \E n \in MatchedBy(row) : \A m \in MatchedBy(row) : n <= m
        BY <1>4, <3>1, LeastNumber
      <3>. QED  BY <2>1, <3>2 DEF First
    <2>3. /\ rc \in Calls /\ IsPending(rc)
          /\ call[rc].kind = "matched" /\ call[rc].target = row.target /\ IsMatched(rc)
      BY <2>2 DEF MatchedBy, Pending, IsMatched
    <2>4. rc <= nextRC /\ call[rc] \in CallType /\ OwnRows(rc)
      <3>1. call[rc] # Unused
        BY <2>3 DEF IsPending, Unused
      <3>. QED  BY <1>1, <2>3, <3>1 DEF TrackerTypeOK
    <2>. DEFINE rows == Append(call[rc].matched, row)
    <2>5. /\ rows \in Seq(RowType) /\ rows # <<>>
          /\ \A i \in DOMAIN rows : Own(rc, rows[i])
      <3>1. call[rc].matched \in Seq(RowType) /\ \A i \in DOMAIN call[rc].matched : Own(rc, call[rc].matched[i])
        BY <2>4 DEF CallType, OwnRows
      <3>2. Own(rc, row)
        BY <1>4, <2>3 DEF Own, NamesNoOther, IsMatched
      <3>3. \A i \in DOMAIN rows : rows[i] = row \/ (i \in DOMAIN call[rc].matched /\ rows[i] = call[rc].matched[i])
        BY <3>1, AppendFacts
      <3>. QED  BY <3>1, <3>2, <3>3, AppendFacts
    <2>. HIDE DEF rows
    <2>6. call' = IF fails THEN Settled(rc, "failed", <<>>)
                  ELSE IF call[rc].state = "held" THEN Settled(rc, "ok", call[rc].data \o rows)
                  ELSE [call EXCEPT ![rc].matched = rows]
      BY <1>4, <2>1 DEF Offered, rows
    <2>7. DOMAIN call' = Calls /\ \A c \in Calls : c # rc => call'[c] = call[c]
      BY <1>1, <2>3, <2>6 DEF Settled
    <2>8. OfferKeeps(rc)
      <3>1. CASE fails
        <4>1. call'[rc] = [call[rc] EXCEPT !.state = "failed", !.data = <<>>, !.matched = <<>>]
          BY <1>1, <2>3, <2>6, <3>1 DEF Settled, Ended
        <4>2. /\ call'[rc] \in CallType /\ call'[rc].state = "failed" /\ call'[rc].data = <<>>
              /\ call'[rc].kind = call[rc].kind /\ call'[rc].target = call[rc].target
              /\ call'[rc].matched = <<>>
          <5>1. <<>> \in Seq(RowType)
            OBVIOUS
          <5>2. PICK none : none = <<>>
            OBVIOUS
          <5>3. none \in Seq(RowType) /\ call'[rc] = [call[rc] EXCEPT !.state = "failed", !.data = none, !.matched = none]
            BY <4>1, <5>1, <5>2
          <5>. QED  BY <2>4, <5>2, <5>3 DEF CallType, States
        <4>3. OwnRows(rc)'
          <5>1. DOMAIN call'[rc].data = {} /\ DOMAIN call'[rc].matched = {}
            BY <4>2
          <5>. QED  BY <2>3, <4>2, <5>1 DEF OwnRows
        <4>. QED  BY <2>3, <4>2, <4>3 DEF OfferKeeps
      <3>2. CASE ~fails /\ call[rc].state = "held"
        <4>. DEFINE all == call[rc].data \o rows
        <4>1. call[rc].data \in Seq(RowType) /\ \A i \in DOMAIN call[rc].data : Own(rc, call[rc].data[i])
          BY <2>4 DEF CallType, OwnRows
        <4>2. /\ all \in Seq(RowType) /\ all # <<>>
              /\ \A i \in DOMAIN all : Own(rc, all[i])
          BY <2>5, <4>1, ConcatFacts
        <4>. HIDE DEF all
        <4>3. call'[rc] = [call[rc] EXCEPT !.state = "ok", !.data = all, !.matched = <<>>]
          BY <1>1, <2>3, <2>6, <3>2 DEF Settled, Ended, all
        <4>4. /\ call'[rc] \in CallType /\ call'[rc].state = "ok" /\ call'[rc].data = all
              /\ call'[rc].kind = call[rc].kind /\ call'[rc].target = call[rc].target
              /\ call'[rc].matched = <<>>
          <5>0. <<>> \in Seq(RowType)
            OBVIOUS
          <5>1. PICK none : none = <<>> /\ none \in Seq(RowType)
            BY <5>0, Zenon
          <5>2. call'[rc] = [call[rc] EXCEPT !.state = "ok", !.data = all, !.matched = none]
            BY <4>3, <5>1
          <5>. QED  BY <2>4, <4>2, <5>1, <5>2 DEF CallType, States
        <4>5. OwnRows(rc)'
          <5>1. DOMAIN call'[rc].matched = {}
            BY <4>4
          <5>. QED  BY <2>3, <4>2, <4>4, <5>1 DEF OwnRows, Own, NamesNoOther, IsMatched
        <4>. QED  BY <2>3, <4>4, <4>5 DEF OfferKeeps
      <3>3. CASE ~fails /\ call[rc].state # "held"
        <4>1. call'[rc] = [call[rc] EXCEPT !.matched = rows]
          BY <1>1, <2>3, <2>6, <3>3
        <4>2. /\ call'[rc] \in CallType /\ call'[rc].matched = rows
              /\ call'[rc].kind = call[rc].kind /\ call'[rc].target = call[rc].target
              /\ call'[rc].state = call[rc].state /\ call'[rc].data = call[rc].data
          BY <2>4, <2>5, <4>1 DEF CallType
        <4>3. OwnRows(rc)'
          BY <2>3, <2>4, <2>5, <4>2 DEF OwnRows, Own, NamesNoOther, IsMatched
        <4>. QED  BY <2>3, <4>2, <4>3 DEF OfferKeeps
      <3>. QED  BY <3>1, <3>2, <3>3
    <2>. QED  BY <1>2, <2>4, <2>7, <2>8
  <1>. QED  BY <1>3, <1>4

\* Where a row comes from: the command the server is at, as it declared, or, with
\* no count of it, no command that the server has still to end.
Sent(row) ==
    \/ /\ rowsSent' = rowsSent
       /\ row.source = "matched" \/ (row.source = "inline" /\ row.of = Nobody)
       /\ ~(row.of \in Calls /\ AtHead(row.of))
    \/ /\ row.of \in Calls \cup {Silent}
       /\ AtHead(row.of)
       /\ welcomed
       /\ rowsSent' = [rowsSent EXCEPT ![row.of] = @ + 1]
       /\ row.of \in Calls =>
            /\ row.source = IF call[row.of].kind = "rows" THEN "" ELSE call[row.of].kind
            /\ NamesNoOther(row.of, row)

LEMMA HandleOK ==
    ASSUME IInv, NEW row \in RowType, NEW fails \in BOOLEAN, Handle(row, fails),
           row.of <= nextRC, Sent(row), inbox' = inbox, late' \subseteq late
    PROVE  IInv'
  <1>1. /\ buffer' = BufferWith(row) /\ call' = Offered(row, fails)
        /\ UNCHANGED <<nextRC, welcomed>>
    BY DEF Handle
  <1>2. /\ DOMAIN call' = Calls
        /\ \A c \in Calls : IF c <= nextRC THEN OfferKeeps(c) ELSE call'[c] = call[c]
    BY <1>1, OfferedFacts DEF IInv
  <1>3. /\ buffer \in Seq(RowType) /\ rowsSent \in [Calls \cup {Silent} -> Nat] /\ row.of \in Int
        /\ inbox \in Seq(Nat) /\ nextRC \in Nat
    <2>1. row.of \in Int
      BY DEF RowType
    <2>. QED  BY <2>1, TrackerAssumption DEF IInv, TrackerTypeOK
  <1>4. /\ buffer' \in Seq(RowType)
        /\ \A i \in DOMAIN buffer' : \/ i \in DOMAIN buffer /\ buffer'[i] = buffer[i]
                                     \/ Buffers(row) /\ buffer'[i] = row
    <2>1. CASE Buffers(row)
      <3>1. buffer' = Append(buffer, row)
        BY <1>1, <2>1 DEF BufferWith
      <3>. QED  BY <1>3, <2>1, <3>1, AppendFacts
    <2>2. CASE ~Buffers(row)
      BY <1>1, <1>3, <2>2 DEF BufferWith
    <2>. QED  BY <2>1, <2>2
  <1>5. /\ rowsSent' \in [Calls \cup {Silent} -> Nat]
        /\ \A c \in Calls : rowsSent'[c] = rowsSent[c] \/ (c = row.of /\ AtHead(c))
    <2>1. CASE rowsSent' = rowsSent
      BY <1>3, <2>1
    <2>2. CASE rowsSent' # rowsSent
      <3>1. PICK rc \in Calls \cup {Silent} : rc = row.of /\ AtHead(rc) /\ rowsSent' = [rowsSent EXCEPT ![rc] = @ + 1]
        BY <2>2 DEF Sent
      <3>. QED  BY <1>3, <3>1
    <2>. QED  BY <2>1, <2>2
  <1>6. TrackerTypeOK'
    <2>1. \A c \in Calls : IF c <= nextRC THEN call'[c] \in CallType ELSE call'[c] = Unused
      BY <1>2 DEF IInv, TrackerTypeOK, OfferKeeps
    <2>2. \A i \in DOMAIN buffer' : buffer'[i].of <= nextRC
      BY <1>4 DEF IInv, TrackerTypeOK
    <2>3. \A c \in Calls : c > nextRC => rowsSent'[c] = 0
      BY <1>3, <1>5 DEF IInv, TrackerTypeOK, Calls
    <2>4. late' \subseteq 1 .. nextRC
      BY DEF IInv, TrackerTypeOK
    <2>. QED  BY <1>1, <1>2, <1>4, <1>5, <2>1, <2>2, <2>3, <2>4 DEF IInv, TrackerTypeOK
  <1>7. \A i \in DOMAIN inbox : i # 1 /\ inbox[i] # Silent => ~AtHead(inbox[i])
    BY <1>3 DEF IInv, InboxInv, AtHead
  <1>8. InboxInv'
    <2>1. ASSUME NEW i \in DOMAIN inbox, i # 1, inbox[i] # Silent  PROVE rowsSent'[inbox[i]] = 0
      <3>1. inbox[i] \in Calls
        <4>1. inbox[i] \in Nat /\ inbox[i] <= nextRC /\ nextRC <= MaxCalls
          BY <1>3, TrackerAssumption DEF IInv, TrackerTypeOK
        <4>. QED  BY <1>3, <2>1, <4>1, TrackerAssumption DEF Calls, Silent
      <3>. QED  BY <1>5, <1>7, <2>1, <3>1 DEF IInv, InboxInv
    <2>. QED  BY <2>1 DEF IInv, InboxInv
  <1>9. BufferInv'
    <2>1. FromHead(row)
      BY DEF Sent, AtHead, FromHead
    <2>2. ~welcomed => buffer' = <<>>
      BY <1>1 DEF BufferWith, Buffers, IInv, BufferInv
    <2>. QED  BY <1>1, <1>4, <2>1, <2>2 DEF IInv, BufferInv, FromHead
  <1>10. HeadInv'
    <2>. SUFFICES ASSUME NEW h \in Calls, AtHead(h)', IsPending(h)', call'[h].kind # "matched"
                  PROVE  HeadIsWhole(h)'
      BY DEF HeadInv
    <2>1. AtHead(h) /\ h <= nextRC
      <3>1. AtHead(h)
        BY DEF AtHead
      <3>2. 1 \in DOMAIN inbox
        BY <1>3, <3>1 DEF AtHead
      <3>. QED  BY <3>1, <3>2 DEF AtHead, IInv, TrackerTypeOK
    <2>2. call'[h] = call[h] /\ IsPending(h) /\ call[h].kind # "matched" /\ call[h] \in CallType
      BY <1>2, <2>1 DEF OfferKeeps, IsPending, IInv, TrackerTypeOK
    <2>3. HeadIsWhole(h)
      BY <2>1, <2>2 DEF IInv, HeadInv
    <2>4. CASE row.of # h
      <3>1. rowsSent'[h] = rowsSent[h]
        BY <1>5, <2>4
      <3>2. Of(buffer', h) = Of(buffer, h) /\ \A i \in Of(buffer, h) : buffer'[i] = buffer[i]
        <4>1. CASE Buffers(row)
          <5>1. buffer' = Append(buffer, row)
            BY <1>1, <4>1 DEF BufferWith
          <5>2. Of(buffer', h) = Of(buffer, h)
            <6>1. Of(buffer', h) = Of(buffer, h) \cup (IF row.of = h THEN {Len(buffer) + 1} ELSE {})
              BY <1>3, <5>1, OfAppend
            <6>. QED  BY <2>4, <6>1
          <5>. QED  BY <1>3, <5>1, <5>2, AppendFacts DEF Of
        <4>2. CASE ~Buffers(row)
          BY <1>1, <4>2 DEF BufferWith
        <4>. QED  BY <4>1, <4>2
      <3>3. \A i \in Of(buffer, h) : Answers(h, buffer[i])'
        BY <2>2, <2>3, <3>2 DEF HeadIsWhole, Answers, NamesNoOther
      <3>. QED  BY <2>3, <3>1, <3>2, <3>3 DEF HeadIsWhole, Answers, NamesNoOther
    <2>5. CASE row.of = h
      <3>1. /\ welcomed /\ rowsSent' = [rowsSent EXCEPT ![h] = @ + 1]
            /\ row.source = (IF call[h].kind = "rows" THEN "" ELSE call[h].kind)
            /\ NamesNoOther(h, row)
        BY <2>1, <2>5 DEF Sent
      <3>2. Buffers(row)
        BY <2>2, <3>1 DEF Buffers, Wanted, Expects, Pending
      <3>3. buffer' = Append(buffer, row)
        BY <1>1, <3>2 DEF BufferWith
      <3>4. /\ Cardinality(Of(buffer', h)) = Cardinality(Of(buffer, h)) + 1
            /\ Of(buffer', h) = Of(buffer, h) \cup {Len(buffer) + 1}
        BY <1>3, <2>5, <3>3, OfAppend
      <3>5. rowsSent'[h] = rowsSent[h] + 1
        BY <1>3, <3>1
      <3>6. Answers(h, row)
        BY <2>2, <3>1 DEF Answers, CallType, Kinds, Notifications
      <3>7. \A i \in Of(buffer', h) : Answers(h, buffer'[i])
        <4>1. \A i \in Of(buffer, h) : buffer'[i] = buffer[i]
          BY <1>3, <3>3, AppendFacts DEF Of
        <4>2. buffer'[Len(buffer) + 1] = row
          BY <1>3, <3>3, AppendFacts
        <4>. QED  BY <2>3, <3>4, <3>6, <4>1, <4>2 DEF HeadIsWhole
      <3>8. \A i \in Of(buffer', h) : Answers(h, buffer[i])'
        BY <2>2, <3>7 DEF Answers, NamesNoOther
      <3>. QED  BY <2>3, <3>4, <3>5, <3>8 DEF HeadIsWhole
    <2>. QED  BY <2>4, <2>5
  <1>11. CallInv'
    <2>. SUFFICES ASSUME NEW c \in Calls, c <= nextRC
                  PROVE  OwnRows(c)' /\ WholeRows(c)'
      BY <1>1 DEF CallInv
    <2>1. OfferKeeps(c) /\ WholeRows(c)
      BY <1>2 DEF IInv, CallInv
    <2>2. WholeRows(c)'
      <3>. SUFFICES ASSUME call'[c].state = "ok", call'[c].kind # "matched"
                    PROVE  /\ Cardinality(Of(call'[c].data, c)) = rowsSent'[c]
                           /\ \A i \in DOMAIN inbox' : inbox'[i] # c
        BY DEF WholeRows, Of
      <3>1. call'[c] = call[c]
        BY <2>1 DEF OfferKeeps
      <3>2. Cardinality(Of(call[c].data, c)) = rowsSent[c] /\ \A i \in DOMAIN inbox : inbox[i] # c
        BY <2>1, <3>1 DEF WholeRows
      <3>3. ~AtHead(c)
        BY <1>3, <3>2 DEF AtHead
      <3>. QED  BY <1>5, <3>1, <3>2, <3>3
    <2>. QED  BY <2>1, <2>2 DEF OfferKeeps
  <1>. QED  BY <1>6, <1>8, <1>9, <1>10, <1>11 DEF IInv

\* The command that the server is at.
LEMMA HeadFacts ==
    ASSUME TrackerTypeOK, inbox # <<>>
    PROVE  /\ Head(inbox) = inbox[1] /\ 1 \in DOMAIN inbox
           /\ inbox[1] \in Nat /\ inbox[1] <= nextRC
           /\ inbox[1] # Silent => inbox[1] \in Calls /\ call[inbox[1]] \in CallType
  <1>1. inbox \in Seq(Nat) /\ nextRC \in Nat /\ nextRC <= MaxCalls
    BY TrackerAssumption DEF TrackerTypeOK
  <1>2. Head(inbox) = inbox[1] /\ 1 \in DOMAIN inbox /\ inbox[1] \in Nat
    BY <1>1
  <1>3. inbox[1] <= nextRC
    BY <1>2 DEF TrackerTypeOK
  <1>4. inbox[1] # Silent => inbox[1] \in Calls
    BY <1>1, <1>2, <1>3, TrackerAssumption DEF Calls, Silent
  <1>. QED  BY <1>2, <1>3, <1>4 DEF TrackerTypeOK

LEMMA SendRowOK ==
    ASSUME IInv, NEW fails \in BOOLEAN, SendRow(fails)
    PROVE  IInv'
  <1>1. welcomed /\ inbox # <<>>
    BY DEF SendRow, Answering
  <1>2. PICK rc : rc = Head(inbox)
    OBVIOUS
  <1>3. PICK row : /\ row \in RowsOf(rc)
                   /\ rowsSent' = [rowsSent EXCEPT ![rc] = @ + 1] /\ Handle(row, fails)
    BY <1>2 DEF SendRow
  <1>4. inbox' = inbox /\ late' = late
    BY DEF SendRow
  <1>5. /\ rc = inbox[1] /\ rc \in Nat /\ rc <= nextRC
        /\ rc # Silent => rc \in Calls /\ call[rc] \in CallType
    BY <1>1, <1>2, HeadFacts DEF IInv
  <1>6. AtHead(rc)
    BY <1>1, <1>5 DEF AtHead
  <1>7. CASE rc = Silent
    <2>0. PICK source, target :
            source \in {"", "inline", "matched"} /\ target \in AllTargets /\ row = Row(source, target, rc)
      <3>1. Any \in AllTargets /\ \A name : Names(name) \subseteq AllTargets
        BY Zenon DEF Names, AllTargets
      <3>2. \/ row = Row("", Any, rc)
            \/ \E name \in Notifications : \E target \in Names(name) : row = Row(name, target, rc)
        <4>1. row \in {Row("", Any, rc)} \cup
                     UNION {{Row(name, target, rc) : target \in Names(name)} : name \in Notifications}
          BY <1>3, <1>7, Zenon DEF RowsOf
        <4>. QED  BY <4>1, Zenon
      <3>3. "" \in {"", "inline", "matched"} /\ Notifications \subseteq {"", "inline", "matched"}
        BY DEF Notifications
      <3>. QED  BY <3>1, <3>2, <3>3, Zenon
    <2>1. row.of = rc /\ row \in RowType
      <3>1. rc \in Int
        BY <1>5
      <3>. QED  BY <2>0, <3>1 DEF Row, RowType
    <2>2. rc \notin Calls
      <3>1. Silent \notin Calls
        BY DEF Calls, Silent
      <3>. QED  BY <1>7, <3>1
    <2>3. Sent(row)
      BY <1>1, <1>3, <1>6, <1>7, <2>1, <2>2 DEF Sent
    <2>. QED  BY <1>3, <1>4, <1>5, <2>1, <2>3, HandleOK
  <1>8. CASE rc # Silent
    <2>1. rc \in Calls /\ call[rc].kind \in Kinds /\ call[rc].target \in AllTargets
      BY <1>5, <1>8 DEF CallType
    <2>2. /\ row.of = rc /\ row \in RowType /\ NamesNoOther(rc, row)
          /\ row.source = IF call[rc].kind = "rows" THEN "" ELSE call[rc].kind
      <3>1. CASE call[rc].kind = "rows"
        <4>1. row = Row("", Any, rc)
          BY <1>3, <1>8, <3>1, Zenon DEF RowsOf
        <4>2. Any \in AllTargets /\ rc \in Int /\ "" \in {"", "inline", "matched"}
          BY <1>5 DEF AllTargets
        <4>3. row \in RowType /\ row.source = "" /\ row.target = Any /\ row.of = rc
          BY <4>1, <4>2 DEF Row, RowType
        <4>. QED  BY <3>1, <4>3, Zenon DEF NamesNoOther
      <3>2. CASE call[rc].kind # "rows"
        <4>1. PICK target : target \in Named(rc) /\ row = Row(call[rc].kind, target, rc)
          <5>1. row \in {Row(call[rc].kind, t, rc) : t \in Named(rc)}
            BY <1>3, <1>8, <3>2, Zenon DEF RowsOf
          <5>. QED  BY <5>1, Zenon
        <4>2. /\ target \in AllTargets
              /\ call[rc].target = Any \/ target \in {call[rc].target, Any}
          BY <4>1 DEF Named, Names, AllTargets
        <4>3. call[rc].kind \in {"", "inline", "matched"} /\ rc \in Int
          <5>1. rc \in Int
            BY <1>5
          <5>. QED  BY <2>1, <3>2, <5>1 DEF Kinds
        <4>4. row \in RowType /\ row.source = call[rc].kind /\ row.target = target /\ row.of = rc
          BY <4>1, <4>2, <4>3 DEF Row, RowType
        <4>. QED  BY <3>2, <4>2, <4>4, Zenon DEF NamesNoOther
      <3>. QED  BY <3>1, <3>2
    <2>3. Sent(row)
      BY <1>1, <1>3, <1>6, <2>1, <2>2 DEF Sent
    <2>. QED  BY <1>3, <1>4, <1>5, <2>2, <2>3, HandleOK
  <1>. QED  BY <1>7, <1>8

LEMMA SendLateOK ==
    ASSUME IInv, NEW rc \in Calls, NEW fails \in BOOLEAN, SendLate(rc, fails)
    PROVE  IInv'
  <1>1. PICK target \in Named(rc) : Handle(Row("matched", target, rc), fails)
    BY DEF SendLate
  <1>2. rc \in late /\ late' \subseteq late /\ inbox' = inbox /\ rowsSent' = rowsSent
    BY DEF SendLate
  <1>3. rc \in Int /\ rc <= nextRC
    BY <1>2, TrackerAssumption DEF IInv, TrackerTypeOK
  <1>4. target \in AllTargets
    BY <1>1 DEF Named, Names, AllTargets
  <1>5. PICK row : row = Row("matched", target, rc)
    OBVIOUS
  <1>6. row \in RowType /\ row.source = "matched" /\ row.of = rc /\ Handle(row, fails)
    BY <1>1, <1>3, <1>4, <1>5 DEF Row, RowType
  <1>7. ~AtHead(rc)
    <2>1. ASSUME AtHead(rc)  PROVE FALSE
      <3>1. 1 \in DOMAIN inbox /\ inbox[1] = rc
        BY <2>1, HeadFacts DEF AtHead, IInv
      <3>. QED  BY <1>2, <3>1 DEF IInv, InboxInv
    <2>. QED  BY <2>1
  <1>8. Sent(row)
    BY <1>2, <1>6, <1>7 DEF Sent
  <1>. QED  BY <1>2, <1>3, <1>6, <1>8, HandleOK

LEMMA UnpromptedOK ==
    ASSUME IInv, NEW name \in Notifications, NEW target \in AllTargets, Unprompted(name, target)
    PROVE  IInv'
  <1>1. PICK row : row = Row(name, target, Nobody)
    OBVIOUS
  <1>2. Handle(row, FALSE) /\ inbox' = inbox /\ rowsSent' = rowsSent /\ late' \subseteq late
    BY <1>1 DEF Unprompted, server
  <1>3. Nobody \in Int /\ Nobody \notin Calls /\ Nobody <= nextRC
    BY TrackerAssumption DEF Nobody, Calls, IInv, TrackerTypeOK
  <1>4. row \in RowType /\ row.source \in Notifications /\ row.of = Nobody
    BY <1>1, <1>3 DEF Row, RowType, Notifications
  <1>5. Sent(row)
    BY <1>2, <1>3, <1>4 DEF Sent, Notifications
  <1>. QED  BY <1>2, <1>3, <1>4, <1>5, HandleOK

\* The rows of the welcome are nobody's: they are neither kept nor matched.
LEMMA WelcomeRowOK ==
    ASSUME IInv, WelcomeRow
    PROVE  IInv'
  <1>1. PICK row : row = Row("", Any, Nobody)
    OBVIOUS
  <1>2. /\ ~welcomed /\ Handle(row, FALSE) /\ UNCHANGED <<inbox, rowsSent, late>>
    BY <1>1 DEF WelcomeRow, server
  <1>3. row.source = ""
    BY <1>1 DEF Row
  <1>4. UNCHANGED <<nextRC, call, buffer, welcomed>>
    BY <1>2, <1>3 DEF Handle, BufferWith, Buffers, Offered
  <1>5. welcomed' \in BOOLEAN /\ (welcomed => welcomed')
    BY <1>4, Zenon DEF IInv, TrackerTypeOK
  <1>. QED  BY <1>2, <1>4, <1>5, QuietOK

LEMMA WelcomeEndsOK ==
    ASSUME IInv, WelcomeEnds
    PROVE  IInv'
  <1>1. /\ ~welcomed /\ welcomed' = TRUE /\ buffer' = <<>>
        /\ UNCHANGED <<nextRC, call, inbox, rowsSent, late>>
    BY DEF WelcomeEnds, server
  <1>2. buffer' = buffer
    BY <1>1 DEF IInv, BufferInv, FromHead
  <1>3. welcomed' \in BOOLEAN /\ (welcomed => welcomed')
    BY <1>1, Zenon
  <1>. QED  BY <1>1, <1>2, <1>3, QuietOK

LEMMA ReconnectedOK ==
    ASSUME IInv, Reconnected
    PROVE  IInv'
  <1>1. UNCHANGED <<nextRC, call, buffer, welcomed, inbox, rowsSent, late>>
    BY DEF Reconnected, tracker, server
  <1>2. welcomed' \in BOOLEAN /\ (welcomed => welcomed')
    BY <1>1, Zenon DEF IInv, TrackerTypeOK
  <1>. QED  BY <1>1, <1>2, QuietOK

-----------------------------------------------------------------------------
(* The error line.                                                         *)

\* What it does to the command at the head, if somebody waits for it.
Ends(rc) ==
    /\ call'[rc] \in CallType
    /\ OwnRows(rc)'
    /\ call'[rc].state = "ok" /\ call'[rc].kind # "matched" =>
        Cardinality(Of(call'[rc].data, rc)) = rowsSent[rc]

\* The rows picked out of the buffer are of the command, and they are all there are.
LEMMA RowsForHead ==
    ASSUME IInv, NEW rc \in Calls, AtHead(rc), IsPending(rc)
    PROVE  /\ RowsFor(rc) \in Seq(RowType)
           /\ \A k \in DOMAIN RowsFor(rc) : Own(rc, RowsFor(rc)[k])
           /\ call[rc].kind # "matched" => Cardinality(Of(RowsFor(rc), rc)) = rowsSent[rc]
  <1>1. buffer \in Seq(RowType)
    BY DEF IInv, TrackerTypeOK
  <1>2. /\ RowsFor(rc) \in Seq(RowType)
        /\ \A k \in DOMAIN RowsFor(rc) :
             \E i \in DOMAIN buffer : Answers(rc, buffer[i]) /\ RowsFor(rc)[k] = buffer[i]
        /\ Cardinality(Of(RowsFor(rc), rc))
             = Cardinality({i \in Of(buffer, rc) : Answers(rc, buffer[i])})
    BY <1>1, RowsForExactly
  <1>3. ASSUME NEW i \in DOMAIN buffer, Answers(rc, buffer[i])  PROVE Own(rc, buffer[i])
    <2>1. buffer[i].source # "matched"
      BY <1>3 DEF Answers
    <2>2. FromHead(buffer[i])
      BY DEF IInv, BufferInv
    <2>. QED  BY <1>3, <2>1, <2>2 DEF Answers, Own, AtHead, FromHead
  <1>4. ASSUME call[rc].kind # "matched"
        PROVE  Cardinality(Of(RowsFor(rc), rc)) = rowsSent[rc]
    <2>1. HeadIsWhole(rc)
      BY <1>4 DEF IInv, HeadInv
    <2>2. {i \in Of(buffer, rc) : Answers(rc, buffer[i])} = Of(buffer, rc)
      BY <2>1 DEF HeadIsWhole
    <2>. QED  BY <1>2, <2>1, <2>2 DEF HeadIsWhole
  <1>. QED  BY <1>2, <1>3, <1>4

LEMMA ErrorEnds ==
    ASSUME IInv, NEW rc \in Calls, AtHead(rc), IsPending(rc), rc <= nextRC,
           NEW fails \in BOOLEAN, HandleError(rc, fails)
    PROVE  /\ DOMAIN call' = Calls
           /\ \A c \in Calls : c # rc => call'[c] = call[c]
           /\ Ends(rc)
  <1>1. DOMAIN call = Calls /\ call[rc] \in CallType /\ OwnRows(rc) /\ rc # Silent
    BY DEF IInv, TrackerTypeOK, CallInv, Calls, Silent
  <1>2. PICK data : data = RowsFor(rc)
    OBVIOUS
  <1>3. /\ data \in Seq(RowType) /\ \A k \in DOMAIN data : Own(rc, data[k])
        /\ call[rc].kind # "matched" => Cardinality(Of(data, rc)) = rowsSent[rc]
    BY <1>2, RowsForHead
  <1>4. PICK matched : matched = call[rc].matched
    OBVIOUS
  <1>5. /\ matched \in Seq(RowType) /\ \A k \in DOMAIN matched : Own(rc, matched[k])
        /\ call[rc].kind # "matched" => matched = <<>>
    BY <1>1, <1>4 DEF CallType, OwnRows
  <1>6. PICK state, rows :
          /\ call' = Settled(rc, state, rows)
          /\ \/ state = "failed" /\ rows = <<>>
             \/ state = "held" /\ rows = data /\ Waits(rc)
             \/ state = "ok" /\ rows = data \o matched /\ ~Waits(rc)
    <2>1. call' = IF fails THEN Settled(rc, "failed", <<>>)
                  ELSE IF Waits(rc) THEN Settled(rc, "held", data)
                  ELSE Settled(rc, "ok", data \o matched)
      BY <1>1, <1>2, <1>4 DEF HandleError
    <2>2. CASE fails
      BY <2>1, <2>2
    <2>3. CASE ~fails /\ Waits(rc)
      BY <2>1, <2>3
    <2>4. CASE ~fails /\ ~Waits(rc)
      BY <2>1, <2>4
    <2>. QED  BY <2>2, <2>3, <2>4
  <1>7. /\ rows \in Seq(RowType) /\ \A k \in DOMAIN rows : Own(rc, rows[k])
        /\ state = "ok" /\ call[rc].kind # "matched" => rows = data
        /\ state = "ok" /\ IsMatched(rc) => rows # <<>>
    <2>1. CASE state = "ok"
      <3>1. rows = data \o matched /\ ~Waits(rc)
        BY <1>6, <2>1
      <3>2. IsMatched(rc) => matched # <<>>
        BY <1>4, <3>1 DEF Waits
      <3>. QED  BY <1>3, <1>5, <3>1, <3>2, ConcatFacts
    <2>2. CASE state = "held"
      BY <1>3, <1>6, <2>2
    <2>3. CASE state = "failed"
      <3>1. rows = <<>>
        BY <1>6, <2>3
      <3>. QED  BY <2>3, <3>1
    <2>. QED  BY <1>6, <2>1, <2>2, <2>3
  <1>8. state \in {"failed", "held", "ok"} /\ (state = "held" => call[rc].kind = "matched")
    BY <1>6 DEF Waits, IsMatched
  <1>9. /\ DOMAIN call' = Calls /\ \A c \in Calls : c # rc => call'[c] = call[c]
        /\ call'[rc] = [call[rc] EXCEPT !.state = state, !.data = rows, !.matched = <<>>]
    BY <1>1, <1>6 DEF Settled, Ended
  <1>10. /\ call'[rc] \in CallType /\ call'[rc].state = state /\ call'[rc].data = rows
         /\ call'[rc].kind = call[rc].kind /\ call'[rc].target = call[rc].target
         /\ call'[rc].matched = <<>>
    <2>0. <<>> \in Seq(RowType)
      OBVIOUS
    <2>1. PICK none : none = <<>> /\ none \in Seq(RowType)
      BY <2>0, Zenon
    <2>2. call'[rc] = [call[rc] EXCEPT !.state = state, !.data = rows, !.matched = none]
      BY <1>9, <2>1
    <2>. QED  BY <1>1, <1>7, <1>8, <2>1, <2>2 DEF CallType, States
  <1>11. OwnRows(rc)'
    <2>1. DOMAIN call'[rc].matched = {}
      BY <1>10
    <2>. QED  BY <1>7, <1>8, <1>10, <2>1 DEF OwnRows, Own, NamesNoOther, IsMatched
  <1>. QED  BY <1>3, <1>7, <1>9, <1>10, <1>11 DEF Ends

LEMMA SendErrorOK ==
    ASSUME IInv, NEW fails \in BOOLEAN, SendError(fails)
    PROVE  IInv'
  <1>1. inbox # <<>> /\ inbox \in Seq(Nat)
    BY DEF SendError, Answering, IInv, TrackerTypeOK
  <1>2. PICK rc : rc = Head(inbox)
    OBVIOUS
  <1>3. /\ HandleError(rc, fails) /\ inbox' = Tail(inbox) /\ rowsSent' = rowsSent
        /\ late' = late \/ (rc # Silent /\ late' = late \cup {rc})
    BY <1>2 DEF SendError
  <1>4. /\ rc = inbox[1] /\ 1 \in DOMAIN inbox /\ rc \in Nat /\ rc <= nextRC
        /\ rc # Silent => rc \in Calls
    BY <1>1, <1>2, HeadFacts DEF IInv
  <1>5. buffer' = <<>> /\ UNCHANGED <<nextRC, welcomed>> /\ DOMAIN buffer' = {}
    BY <1>3 DEF HandleError, BufferAfter
  <1>6. /\ inbox' \in Seq(Nat)
        /\ \A i \in DOMAIN inbox' : /\ i \in Nat /\ i # 0 /\ i + 1 \in DOMAIN inbox
                                    /\ inbox'[i] = inbox[i + 1]
    BY <1>1, <1>3
  <1>7. \A i \in DOMAIN inbox' : inbox'[i] # Silent => inbox'[i] # rc
    BY <1>4, <1>6 DEF IInv, InboxInv
  <1>8. /\ DOMAIN call' = Calls
        /\ \A c \in Calls : call'[c] = call[c] \/ (c = rc /\ Ends(c))
    <2>1. CASE rc = Silent \/ ~IsPending(rc)
      <3>1. call' = call
        BY <1>3, <2>1 DEF HandleError
      <3>. QED  BY <3>1 DEF IInv, TrackerTypeOK
    <2>2. CASE rc # Silent /\ IsPending(rc)
      <3>1. AtHead(rc) /\ rc \in Calls
        BY <1>1, <1>4, <2>2 DEF AtHead
      <3>. QED  BY <1>3, <1>4, <2>2, <3>1, ErrorEnds
    <2>. QED  BY <2>1, <2>2
  <1>9. TrackerTypeOK'
    <2>1. \A c \in Calls : IF c <= nextRC THEN call'[c] \in CallType ELSE call'[c] = Unused
      BY <1>4, <1>8 DEF IInv, TrackerTypeOK, Ends
    <2>2. buffer' \in Seq(RowType)
      BY <1>5
    <2>3. \A i \in DOMAIN inbox' : inbox'[i] <= nextRC
      BY <1>6 DEF IInv, TrackerTypeOK
    <2>4. late' \subseteq 1 .. nextRC
      <3>1. rc # Silent => rc \in 1 .. nextRC
        BY <1>4, TrackerAssumption DEF Silent, IInv, TrackerTypeOK
      <3>. QED  BY <1>3, <3>1 DEF IInv, TrackerTypeOK
    <2>. QED  BY <1>3, <1>5, <1>6, <1>8, <2>1, <2>2, <2>3, <2>4 DEF IInv, TrackerTypeOK
  <1>10. InboxInv'
    <2>1. ASSUME NEW i \in DOMAIN inbox', NEW j \in DOMAIN inbox',
                 inbox'[i] = inbox'[j], inbox'[i] # Silent
          PROVE  i = j
      <3>1. i + 1 = j + 1
        BY <1>6, <2>1 DEF IInv, InboxInv
      <3>. QED  BY <1>6, <3>1
    <2>2. \A i \in DOMAIN inbox' : inbox'[i] \notin late'
      <3>1. \A i \in DOMAIN inbox' : inbox'[i] \notin late
        BY <1>6 DEF IInv, InboxInv
      <3>. QED  BY <1>3, <1>7, <3>1
    <2>3. \A i \in DOMAIN inbox' : i # 1 /\ inbox'[i] # Silent => rowsSent[inbox'[i]] = 0
      BY <1>6 DEF IInv, InboxInv
    <2>. QED  BY <1>3, <2>1, <2>2, <2>3 DEF InboxInv
  <1>11. BufferInv'
    BY <1>5 DEF BufferInv
  <1>12. HeadInv'
    <2>. SUFFICES ASSUME NEW h \in Calls, AtHead(h)'
                  PROVE  HeadIsWhole(h)'
      BY DEF HeadInv
    <2>1. 1 \in DOMAIN inbox' /\ inbox'[1] = h /\ h # Silent
      BY <1>6 DEF AtHead, Calls, Silent
    <2>2. rowsSent[h] = 0
      <3>1. 1 + 1 \in DOMAIN inbox /\ inbox[1 + 1] = h /\ 1 + 1 # 1
        BY <1>6, <2>1
      <3>. QED  BY <2>1, <3>1 DEF IInv, InboxInv
    <2>3. Of(buffer', h) = {}
      BY <1>5 DEF Of
    <2>. QED  BY <1>3, <2>2, <2>3, FS_EmptySet DEF HeadIsWhole, Of
  <1>13. CallInv'
    <2>. SUFFICES ASSUME NEW c \in Calls, c <= nextRC
                  PROVE  OwnRows(c)' /\ WholeRows(c)'
      BY <1>5 DEF CallInv
    <2>1. OwnRows(c) /\ WholeRows(c)
      BY DEF IInv, CallInv
    <2>2. CASE call'[c] = call[c]
      BY <1>3, <1>6, <2>1, <2>2, OwnKept, WholeKept
    <2>3. CASE c = rc /\ Ends(c)
      <3>1. \A i \in DOMAIN inbox' : inbox'[i] # c
        BY <1>7, <2>3 DEF Calls, Silent
      <3>2. OwnRows(c)'
        BY <2>3 DEF Ends
      <3>3. call'[c].state = "ok" /\ call'[c].kind # "matched" => Cardinality(Of(call'[c].data, c)) = rowsSent'[c]
        BY <1>3, <2>3 DEF Ends
      <3>. QED  BY <3>1, <3>2, <3>3 DEF WholeRows, Of
    <2>. QED  BY <1>8, <2>2, <2>3
  <1>. QED  BY <1>9, <1>10, <1>11, <1>12, <1>13 DEF IInv

-----------------------------------------------------------------------------
(* The promises.                                                           *)

LEMMA NextOK ==
    ASSUME IInv, [Next]_vars
    PROVE  IInv'
  <1>1. CASE Next
    BY <1>1, ExecOK, ExecNoWaitOK, GiveUpOK, WelcomeRowOK, WelcomeEndsOK, SendRowOK, SendErrorOK,
       SendLateOK, UnpromptedOK, DownOK, ReconnectedOK DEF Next
  <1>2. CASE UNCHANGED vars
    <2>1. UNCHANGED <<nextRC, call, buffer, welcomed, inbox, rowsSent, late>>
      BY <1>2 DEF vars, tracker, server
    <2>2. welcomed' \in BOOLEAN /\ (welcomed => welcomed')
      BY <2>1, Zenon DEF IInv, TrackerTypeOK
    <2>. QED  BY <2>1, <2>2, QuietOK
  <1>. QED  BY <1>1, <1>2

\* Whatever the callers and the server do, the invariant above holds.
THEOREM Inductive == Spec => []IInv
  BY InitOK, NextOK, PTL DEF Spec

\* Every row the server sends in answer to a command is in the command's answer, and
\* a command that a notification is matched with never succeeds with nothing: for
\* every number of commands, rows, targets and sessions.
THEOREM AnswersAlwaysWhole == Spec => []AnswersAreWhole
  <1>1. ASSUME IInv  PROVE AnswersAreWhole
    <2>. SUFFICES ASSUME NEW rc \in Calls, call[rc].state = "ok"
                  PROVE  /\ IsMatched(rc) => call[rc].data # <<>>
                         /\ call[rc].kind # "matched" =>
                              Cardinality({i \in DOMAIN call[rc].data : call[rc].data[i].of = rc}) = rowsSent[rc]
      BY DEF AnswersAreWhole, Succeeded
    <2>1. call[rc] # Unused
      BY DEF Unused
    <2>2. OwnRows(rc) /\ WholeRows(rc)
      BY <1>1, <2>1 DEF IInv, TrackerTypeOK, CallInv
    <2>. QED  BY <2>2 DEF OwnRows, WholeRows, Of
  <1>. QED  BY <1>1, Inductive, PTL

\* No row of the welcome, of another command, given up, failed or sent without a
\* return code, or of an earlier session gets into an answer.  What does besides its
\* own rows is the notification the command declared: unprompted and naming no other
\* target, or matched with the command's target.
THEOREM AnswersAlwaysItsOwn == Spec => []AnswersAreItsOwn
  <1>1. ASSUME IInv  PROVE AnswersAreItsOwn
    <2>. SUFFICES ASSUME NEW rc \in Calls, call[rc].state = "ok", NEW i \in DOMAIN call[rc].data
                  PROVE  Own(rc, call[rc].data[i])
      BY DEF AnswersAreItsOwn, Succeeded, Own, NamesNoOther, IsMatched
    <2>1. call[rc] # Unused
      BY DEF Unused
    <2>2. OwnRows(rc)
      BY <1>1, <2>1 DEF IInv, TrackerTypeOK, CallInv
    <2>. QED  BY <2>2 DEF OwnRows
  <1>. QED  BY <1>1, Inductive, PTL
=============================================================================
