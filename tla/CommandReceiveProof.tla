------------------------- MODULE CommandReceiveProof -------------------------
(***************************************************************************)
(* The safety of CommandReceive, for every set of queues, every stream the *)
(* server may send, every number of ids and every window of at most half   *)
(* of them.                                                                *)
(*                                                                         *)
(* TypeOK, HeldInWindow and AckedIsKept are inductive together.  The       *)
(* step that matters is TakeCommand: the packets it releases are held      *)
(* under the ids next, next + 1, ..., and by HeldInWindow and IdFromBase   *)
(* they are the packets Position, Position + 1, ..., so the window moves   *)
(* past exactly what leaves the queue.                                     *)
(*                                                                         *)
(* On top of these: a whole command is at the head of a queue only while   *)
(* the loop over that queue runs (OnlyBusyIsWhole), and a window stands at *)
(* the first packet of a command or at the end of the stream               *)
(* (AlwaysAtStart), so that what TakeCommand delivers or drops is one      *)
(* command of the stream: OrderedCommands is implemented.                  *)
(***************************************************************************)
EXTENDS CommandReceive, GenerationWindowProof, FiniteSetTheorems

IInv == TypeOK /\ HeldInWindow /\ AckedIsKept

\* What the invariant says of one queue, with the types of its parts.
LEMMA QueueFacts ==
    ASSUME IInv, NEW q \in Queues
    PROVE  /\ win[q] \in WindowType /\ Position(win[q]) \in Nat
           /\ next[q] = win[q].base
           /\ queue[q] \in [Ids -> Nat \cup {NoPacket}]
           /\ sent[q] \in Nat /\ sent[q] <= Len(Stream[q])
           /\ Len(Stream[q]) \in Nat /\ Len(Stream[q]) < MaxGen * Mod
           /\ \A id \in Ids : Held(q, id) =>
                /\ queue[q][id] \in Nat
                /\ Id(queue[q][id]) = id
                /\ queue[q][id] >= Position(win[q])
                /\ queue[q][id] < Position(win[q]) + Window
                /\ queue[q][id] < sent[q]
           /\ \A n \in acked[q] :
                n \in Nat /\ (n < Position(win[q]) \/ queue[q][Id(n)] = n)
  <1>1. win[q] \in WindowType
    BY DEF IInv, TypeOK
  <1>2. Position(win[q]) \in Nat
    BY <1>1, PositionType
  <1>3. Len(Stream[q]) \in Nat /\ Len(Stream[q]) < MaxGen * Mod
    BY StreamAssumption
  <1>4. /\ queue[q] \in [Ids -> Nat \cup {NoPacket}]
        /\ sent[q] \in Nat /\ sent[q] <= Len(Stream[q])
        /\ acked[q] \in SUBSET Nat
    BY DEF IInv, TypeOK
  <1>5. \A id \in Ids : Held(q, id) => queue[q][id] \in Nat
    BY <1>4 DEF Held
  <1>. QED  BY <1>1, <1>2, <1>3, <1>4, <1>5 DEF IInv, HeldInWindow, AckedIsKept, HeldIds

\* The packet held k places past the next expected one is packet Position + k.
LEMMA HeldAt ==
    ASSUME IInv, NEW q \in Queues, NEW k \in Nat, k < Mod, Held(q, (next[q] + k) % Mod)
    PROVE  /\ (next[q] + k) % Mod \in Ids
           /\ queue[q][(next[q] + k) % Mod] = Position(win[q]) + k
  <1>. DEFINE id == (next[q] + k) % Mod
              n  == queue[q][id]
              m  == Position(win[q]) + k
  <1>1. /\ win[q] \in WindowType /\ Position(win[q]) \in Nat
        /\ next[q] = win[q].base
    BY QueueFacts
  <1>2. id = Id(m)
    BY <1>1, IdFromBase
  <1>3. m \in Nat
    BY <1>1
  <1>4. id \in Ids
    BY <1>2, <1>3, IdAndGen
  <1>5. /\ n \in Nat /\ Id(n) = id
        /\ n >= Position(win[q]) /\ n < Position(win[q]) + Window
    BY <1>4, QueueFacts
  <1>6. n - m < Mod /\ m - n < Mod
    BY <1>1, <1>5, WindowAssumption
  <1>7. n = m
    <2>. HIDE DEF n, m, id
    <2>. QED  BY <1>2, <1>3, <1>5, <1>6, SameId
  <1>. QED  BY <1>4, <1>7

\* The command #tryReassemble takes is held from its first packet to its last.
LEMMA CommandIsHeld ==
    ASSUME NEW q, next[q] \in Ids
    PROVE  /\ CommandLength(q) \in 0 .. Mod
           /\ \A k \in 0 .. (CommandLength(q) - 1) : Held(q, (next[q] + k) % Mod)
  <1>. DEFINE At(k) == (next[q] + k) % Mod
              Ends  == {k \in 1 .. (Mod - 1) :
                          /\ \A j \in 0 .. k : Held(q, At(j))
                          /\ \A j \in 1 .. (k - 1) : ~Flagged(q, At(j))
                          /\ Flagged(q, At(k))}
              last  == CHOOSE k \in Ends : TRUE
  <1>1. CommandLength(q) = IF ~Held(q, next[q]) THEN 0
                           ELSE IF ~Flagged(q, next[q]) THEN 1
                           ELSE IF Ends = {} THEN 0
                           ELSE last + 1
    BY DEF CommandLength
  <1>2. CASE ~Held(q, next[q])
    BY <1>1, <1>2, WindowAssumption
  <1>3. CASE Held(q, next[q]) /\ ~Flagged(q, next[q])
    <2>1. CommandLength(q) = 1
      BY <1>1, <1>3
    <2>2. At(0) = next[q]
      BY WindowAssumption DEF Ids
    <2>3. \A k \in 0 .. (CommandLength(q) - 1) : k = 0
      BY <2>1
    <2>. QED  BY <1>3, <2>1, <2>2, <2>3, WindowAssumption
  <1>4. CASE Held(q, next[q]) /\ Flagged(q, next[q]) /\ Ends = {}
    BY <1>1, <1>4, WindowAssumption
  <1>5. CASE Held(q, next[q]) /\ Flagged(q, next[q]) /\ Ends # {}
    <2>1. last \in Ends
      BY <1>5
    <2>2. last \in 1 .. (Mod - 1) /\ \A j \in 0 .. last : Held(q, At(j))
      BY <2>1
    <2>3. CommandLength(q) = last + 1
      BY <1>1, <1>5
    <2>. HIDE DEF last, At, Ends
    <2>4. \A k \in 0 .. (CommandLength(q) - 1) : Held(q, At(k))
      BY <2>2, <2>3
    <2>. QED  BY <2>2, <2>3, <2>4, WindowAssumption DEF At
  <1>. QED  BY <1>2, <1>3, <1>4, <1>5

-----------------------------------------------------------------------------
\* Both queues start empty, at id 0 of generation 0.
LEMMA InitHolds == Init => IInv
  <1>. SUFFICES ASSUME Init  PROVE IInv
    OBVIOUS
  <1>1. NewWindow \in WindowType /\ 0 \in Ids
    BY WindowAssumption DEF NewWindow, WindowType, Ids
  <1>2. \A q \in Queues : Len(Stream[q]) \in Nat
    BY StreamAssumption
  <1>3. TypeOK
    <2>1. 0 \in 0 .. (HoleTicks + 1)
      BY StreamAssumption
    <2>2. log \in [Queues -> Seq(Nat)]
      BY DEF Init
    <2>3. \A q \in Queues : sent[q] <= Len(Stream[q])
      BY <1>2 DEF Init
    <2>. QED  BY <1>1, <2>1, <2>2, <2>3 DEF Init, TypeOK
  <1>4. HeldInWindow
    BY DEF Init, HeldInWindow, HeldIds, Held, NewWindow
  <1>5. AckedIsKept
    BY DEF Init, AckedIsKept
  <1>. QED  BY <1>3, <1>4, <1>5 DEF IInv

\* The server sends the next packet of its stream: the client's state stays.
LEMMA ServerSendStep ==
    ASSUME IInv, NEW q \in Queues, ServerSend(q)
    PROVE  IInv'
  <1>1. /\ sent' = [sent EXCEPT ![q] = @ + 1] /\ sent[q] < Len(Stream[q])
        /\ UNCHANGED <<heard, win, next, queue, age, busy, closed, acked, log>>
    BY DEF ServerSend
  <1>2. /\ sent \in [Queues -> Nat]
        /\ \A p \in Queues : sent[p] <= Len(Stream[p]) /\ Len(Stream[p]) \in Nat
    <2>1. sent \in [Queues -> Nat] /\ \A p \in Queues : sent[p] <= Len(Stream[p])
      BY DEF IInv, TypeOK
    <2>2. \A p \in Queues : Stream[p] \in Seq(PacketType)
      BY StreamAssumption
    <2>3. \A p \in Queues : Len(Stream[p]) \in Nat
      BY <2>2
    <2>. QED  BY <2>1, <2>3
  <1>3. /\ sent' \in [Queues -> Nat]
        /\ \A p \in Queues : sent'[p] <= Len(Stream[p]) /\ sent[p] <= sent'[p]
    BY <1>1, <1>2
  <1>4. TypeOK'
    BY <1>1, <1>3 DEF IInv, TypeOK
  <1>5. HeldInWindow'
    <2>. SUFFICES ASSUME NEW p \in Queues, NEW id \in HeldIds(p)
                  PROVE  queue[p][id] < sent'[p]
      BY <1>1 DEF IInv, HeldInWindow, HeldIds, Held, Position
    <2>1. queue[p][id] \in Nat /\ queue[p][id] < sent[p]
      BY QueueFacts DEF HeldIds
    <2>. QED  BY <2>1, <1>2, <1>3
  <1>6. AckedIsKept'
    BY <1>1 DEF IInv, AckedIsKept, Position
  <1>. QED  BY <1>4, <1>5, <1>6 DEF IInv

\* A packet the window has passed is acknowledged again and nothing else.
LEMMA ReceiveOldStep ==
    ASSUME IInv, NEW q \in Queues, NEW n \in Nat, NEW reaches \in BOOLEAN,
           ReceiveOld(q, n, reaches)
    PROVE  IInv'
  <1>1. /\ UNCHANGED <<sent, win, next, queue, age, busy, closed, log>>
        /\ acked' = [acked EXCEPT ![q] = @ \cup {n}]
        /\ heard' = IF reaches THEN [heard EXCEPT ![q] = @ \cup {n}] ELSE heard
        /\ Decrypts(win[q], n) /\ IsOldPacket(win[q], Id(n))
    BY DEF ReceiveOld, SendAck, Arrives
  <1>2. n < Position(win[q])
    BY <1>1, QueueFacts, OldExact
  <1>3. TypeOK'
    BY <1>1 DEF IInv, TypeOK
  <1>4. HeldInWindow'
    BY <1>1 DEF IInv, HeldInWindow, HeldIds, Held, Position
  <1>5. AckedIsKept'
    <2>. SUFFICES ASSUME NEW p \in Queues, NEW m \in acked'[p]
                  PROVE  m < Position(win[p]) \/ queue[p][Id(m)] = m
      BY <1>1 DEF AckedIsKept, Position
    <2>1. acked \in [Queues -> SUBSET Nat]
      BY DEF IInv, TypeOK
    <2>2. m \in acked[p] \/ (p = q /\ m = n)
      BY <1>1, <2>1
    <2>. QED  BY <1>2, <2>2 DEF IInv, AckedIsKept
  <1>. QED  BY <1>3, <1>4, <1>5 DEF IInv

\* A packet in the window is held under its id and acknowledged, or, when there is
\* no room for it, neither.
LEMMA ReceiveStep ==
    ASSUME IInv, NEW q \in Queues, NEW n \in Nat, NEW reaches \in BOOLEAN,
           Receive(q, n, reaches)
    PROVE  IInv'
  <1>1. /\ UNCHANGED <<sent, win, next, closed, log>>
        /\ acked' = [acked EXCEPT ![q] = @ \cup {n}]
        /\ heard' = IF reaches THEN [heard EXCEPT ![q] = @ \cup {n}] ELSE heard
        /\ queue' = [queue EXCEPT ![q][Id(n)] = n]
        /\ age' = [age EXCEPT ![q][Id(n)] = 0]
        /\ busy' = q
        /\ Decrypts(win[q], n) /\ IsInWindow(win[q], Id(n)) /\ n < sent[q]
    BY DEF Receive, SendAck, Arrives
  <1>2. n >= Position(win[q]) /\ n < Position(win[q]) + Window
    BY <1>1, QueueFacts, InWindowExact
  <1>3. Id(n) \in Ids
    BY IdAndGen
  <1>4. queue \in [Queues -> [Ids -> Nat \cup {NoPacket}]]
    BY DEF IInv, TypeOK
  <1>5. TypeOK'
    <2>1. queue' \in [Queues -> [Ids -> Nat \cup {NoPacket}]]
      BY <1>1, <1>3, <1>4
    <2>2. age' \in [Queues -> [Ids -> 0 .. (HoleTicks + 1)]]
      <3>1. 0 \in 0 .. (HoleTicks + 1)
        BY StreamAssumption
      <3>. QED  BY <1>1, <1>3, <3>1 DEF IInv, TypeOK
    <2>. QED  BY <1>1, <2>1, <2>2 DEF IInv, TypeOK
  <1>6. \A p \in Queues : \A id \in Ids :
          queue'[p][id] = IF p = q /\ id = Id(n) THEN n ELSE queue[p][id]
    BY <1>1, <1>3, <1>4
  <1>7. HeldInWindow'
    <2>. SUFFICES ASSUME NEW p \in Queues, NEW id \in Ids, Held(p, id)'
                  PROVE  /\ Id(queue'[p][id]) = id
                         /\ queue'[p][id] >= Position(win[p])
                         /\ queue'[p][id] < Position(win[p]) + Window
                         /\ queue'[p][id] < sent[p]
      BY <1>1 DEF IInv, HeldInWindow, HeldIds, Held, Position
    <2>1. CASE p = q /\ id = Id(n)
      BY <1>1, <1>2, <1>6, <2>1
    <2>2. CASE ~(p = q /\ id = Id(n))
      <3>1. queue'[p][id] = queue[p][id] /\ Held(p, id)
        BY <1>6, <2>2 DEF Held
      <3>. QED  BY <3>1, QueueFacts
    <2>. QED  BY <2>1, <2>2
  <1>8. AckedIsKept'
    <2>. SUFFICES ASSUME NEW p \in Queues, NEW m \in acked'[p]
                  PROVE  m < Position(win[p]) \/ queue'[p][Id(m)] = m
      BY <1>1 DEF AckedIsKept, Position
    <2>1. acked \in [Queues -> SUBSET Nat]
      BY DEF IInv, TypeOK
    <2>2. m \in acked[p] \/ (p = q /\ m = n)
      BY <1>1, <2>1
    <2>3. CASE p = q /\ m = n
      BY <1>3, <1>6, <2>3
    <2>4. CASE m \in acked[p] /\ m # n /\ p = q
      <3>1. m \in Nat /\ (m < Position(win[q]) \/ queue[q][Id(m)] = m)
        BY <2>4, QueueFacts
      <3>2. Id(m) \in Ids
        BY <3>1, IdAndGen
      <3>3. CASE m < Position(win[q])
        BY <2>4, <3>3
      <3>4. CASE queue[q][Id(m)] = m
        <4>1. Held(q, Id(m))
          BY <3>1, <3>4 DEF Held, NoPacket
        <4>2. m >= Position(win[q]) /\ m < Position(win[q]) + Window
          BY <3>2, <3>4, <4>1, QueueFacts
        <4>3. Position(win[q]) \in Nat
          BY QueueFacts
        <4>4. Id(m) # Id(n)
          <5>1. m - n < Mod /\ n - m < Mod
            BY <1>2, <3>1, <4>2, <4>3, WindowAssumption
          <5>. QED  BY <2>4, <3>1, <5>1, SameId
        <4>. QED  BY <1>6, <2>4, <3>2, <3>4, <4>4
      <3>. QED  BY <3>1, <3>3, <3>4
    <2>5. CASE m \in acked[p] /\ p # q
      <3>1. m \in Nat /\ (m < Position(win[p]) \/ queue[p][Id(m)] = m)
        BY <2>5, QueueFacts
      <3>2. Id(m) \in Ids
        BY <3>1, IdAndGen
      <3>. QED  BY <1>6, <2>5, <3>1, <3>2
    <2>. QED  BY <2>2, <2>3, <2>4, <2>5
  <1>. QED  BY <1>5, <1>7, <1>8 DEF IInv

\* A command that is taken is held from the next expected id on, which are the
\* packets from the window's position on: both move past what leaves the queue.
LEMMA TakeMoves ==
    ASSUME IInv, NEW q \in Queues, NEW count, count = CommandLength(q), TakeCommand(q)
    PROVE  /\ count \in Nat /\ count > 0 /\ count <= Mod
           /\ \A k \in 0 .. (count - 1) :
                /\ Held(q, (next[q] + k) % Mod)
                /\ (next[q] + k) % Mod \in Ids
                /\ queue[q][(next[q] + k) % Mod] = Position(win[q]) + k
           /\ Position(win[q]) + count <= sent[q]
           /\ Advance(win[q], count) \in WindowType
           /\ Advance(win[q], count).base = (win[q].base + count) % Mod
           /\ \A p \in Queues : \A id \in Ids :
                queue'[p][id] = IF p = q /\ id \in Front(q, count) THEN NoPacket ELSE queue[p][id]
           /\ \A p \in Queues :
                Position(win'[p]) = Position(win[p]) + (IF p = q THEN count ELSE 0)
  <1>. DEFINE ids   == Front(q, count)
              pos   == Position(win[q])
  <1>1. /\ count > 0
        /\ queue' = [queue EXCEPT ![q] = [id \in Ids |->
                        IF id \in ids THEN NoPacket ELSE queue[q][id]]]
        /\ win' = [win EXCEPT ![q] = Advance(win[q], count)]
    BY DEF TakeCommand, Released
  <1>2. /\ win[q] \in WindowType /\ pos \in Nat /\ next[q] = win[q].base
        /\ sent[q] \in Nat /\ sent[q] <= Len(Stream[q])
        /\ Len(Stream[q]) \in Nat /\ Len(Stream[q]) < MaxGen * Mod
    BY QueueFacts
  <1>3. next[q] \in Ids
    BY DEF IInv, TypeOK
  <1>4. /\ count \in Nat /\ count <= Mod
        /\ \A k \in 0 .. (count - 1) : Held(q, (next[q] + k) % Mod)
    BY <1>3, CommandIsHeld, WindowAssumption
  <1>5. \A k \in 0 .. (count - 1) :
          /\ (next[q] + k) % Mod \in Ids
          /\ queue[q][(next[q] + k) % Mod] = pos + k
    BY <1>4, HeldAt, WindowAssumption
  <1>6. pos + count <= sent[q]
    <2>1. count - 1 \in 0 .. (count - 1)
      BY <1>1, <1>4
    <2>. DEFINE id == (next[q] + (count - 1)) % Mod
    <2>2. Held(q, id) /\ id \in Ids /\ queue[q][id] = pos + (count - 1)
      BY <1>4, <1>5, <2>1
    <2>3. queue[q][id] < sent[q]
      BY <2>2, QueueFacts
    <2>. QED  BY <1>2, <1>4, <2>2, <2>3
  <1>7. /\ Advance(win[q], count) \in WindowType
        /\ Position(Advance(win[q], count)) = pos + count
        /\ Advance(win[q], count).base = (win[q].base + count) % Mod
    <2>1. pos + count < MaxGen * Mod
      BY <1>2, <1>4, <1>6, WindowAssumption
    <2>. QED  BY <1>2, <1>4, <2>1, AdvanceExact
  <1>8. /\ win \in [Queues -> WindowType]
        /\ queue \in [Queues -> [Ids -> Nat \cup {NoPacket}]]
    BY DEF IInv, TypeOK
  <1>9. \A p \in Queues : \A id \in Ids :
          queue'[p][id] = IF p = q /\ id \in ids THEN NoPacket ELSE queue[p][id]
    BY <1>1, <1>8
  <1>10. \A p \in Queues : Position(win[p]) \in Nat
    BY QueueFacts
  <1>11. \A p \in Queues : Position(win'[p]) = Position(win[p]) + (IF p = q THEN count ELSE 0)
    <2>1. \A p \in Queues : win'[p] = IF p = q THEN Advance(win[q], count) ELSE win[p]
      BY <1>1, <1>8
    <2>. QED  BY <1>7, <1>10, <2>1
  <1>. QED  BY <1>1, <1>4, <1>5, <1>6, <1>7, <1>9, <1>11

\* A whole command is released: the window and the next id move by as many packets,
\* and exactly those leave the queue.
LEMMA TakeCommandStep ==
    ASSUME IInv, NEW q \in Queues, TakeCommand(q)
    PROVE  IInv'
  <1>. DEFINE count == CommandLength(q)
              ids   == Front(q, count)
              pos   == Position(win[q])
  <1>1. /\ UNCHANGED <<sent, heard, busy, closed, acked>>
        /\ count > 0
        /\ queue' = [queue EXCEPT ![q] = [id \in Ids |->
                        IF id \in ids THEN NoPacket ELSE queue[q][id]]]
        /\ age' = [age EXCEPT ![q] = [id \in Ids |-> IF id \in ids THEN 0 ELSE age[q][id]]]
        /\ win' = [win EXCEPT ![q] = Advance(win[q], count)]
        /\ next' = [next EXCEPT ![q] = (next[q] + count) % Mod]
        /\ log' = IF Discards(q) THEN log
                  ELSE [log EXCEPT ![q] = Append(log[q], Packet(q, queue[q][next[q]]).cmd)]
    BY DEF TakeCommand, Released, env
  <1>2. /\ win[q] \in WindowType /\ pos \in Nat /\ next[q] = win[q].base
        /\ sent[q] \in Nat /\ sent[q] <= Len(Stream[q])
        /\ Len(Stream[q]) \in Nat /\ Len(Stream[q]) < MaxGen * Mod
    BY QueueFacts
  <1>3. next[q] \in Ids
    BY DEF IInv, TypeOK
  <1>4. /\ count \in Nat /\ count <= Mod
        /\ \A k \in 0 .. (count - 1) : Held(q, (next[q] + k) % Mod)
    BY TakeMoves
  <1>5. \A k \in 0 .. (count - 1) :
          /\ (next[q] + k) % Mod \in Ids
          /\ queue[q][(next[q] + k) % Mod] = pos + k
    BY TakeMoves
  <1>6. pos + count <= sent[q]
    BY TakeMoves
  <1>7. /\ Advance(win[q], count) \in WindowType
        /\ Advance(win[q], count).base = (win[q].base + count) % Mod
    BY TakeMoves
  <1>8. /\ win \in [Queues -> WindowType] /\ next \in [Queues -> Ids]
        /\ queue \in [Queues -> [Ids -> Nat \cup {NoPacket}]]
        /\ age \in [Queues -> [Ids -> 0 .. (HoleTicks + 1)]]
        /\ log \in [Queues -> Seq(Nat)]
        /\ acked \in [Queues -> SUBSET Nat]
    BY DEF IInv, TypeOK
  <1>9. \A p \in Queues : \A id \in Ids :
          queue'[p][id] = IF p = q /\ id \in ids THEN NoPacket ELSE queue[p][id]
    BY TakeMoves
  <1>10. \A p \in Queues : Position(win'[p]) = IF p = q THEN pos + count ELSE Position(win[p])
    <2>1. \A p \in Queues : Position(win[p]) \in Nat
      BY QueueFacts
    <2>. QED  BY <2>1, TakeMoves
  <1>. HIDE DEF count
  <1>11. \A p \in Queues : next'[p] = win'[p].base
    BY <1>1, <1>2, <1>7, <1>8, QueueFacts
  <1>12. TypeOK'
    <2>1. win' \in [Queues -> WindowType]
      BY <1>1, <1>7, <1>8
    <2>2. next' \in [Queues -> Ids]
      <3>1. (next[q] + count) % Mod \in Ids
        BY <1>3, <1>4, WindowAssumption DEF Ids
      <3>. QED  BY <1>1, <1>8, <3>1
    <2>3. queue' \in [Queues -> [Ids -> Nat \cup {NoPacket}]]
      BY <1>1, <1>8
    <2>4. age' \in [Queues -> [Ids -> 0 .. (HoleTicks + 1)]]
      <3>1. 0 \in 0 .. (HoleTicks + 1)
        BY StreamAssumption
      <3>. QED  BY <1>1, <1>8, <3>1
    <2>5. log' \in [Queues -> Seq(Nat)]
      <3>1. Packet(q, queue[q][next[q]]).cmd \in Nat
        <4>1. 0 \in 0 .. (count - 1) /\ (next[q] + 0) % Mod = next[q]
          <5>1. 0 \in 0 .. (count - 1)
            BY <1>1, <1>4
          <5>2. (next[q] + 0) % Mod = next[q]
            BY <1>3, WindowAssumption DEF Ids
          <5>. QED  BY <5>1, <5>2
        <4>2. queue[q][next[q]] = pos
          BY <1>2, <1>5, <4>1
        <4>3. pos + 1 \in 1 .. Len(Stream[q])
          BY <1>1, <1>2, <1>4, <1>6
        <4>4. Stream[q] \in Seq(PacketType)
          BY StreamAssumption
        <4>5. Stream[q][pos + 1] \in PacketType
          BY <4>3, <4>4
        <4>. QED  BY <4>2, <4>5 DEF Packet, PacketType
      <3>2. Append(log[q], Packet(q, queue[q][next[q]]).cmd) \in Seq(Nat)
        BY <1>8, <3>1
      <3>. QED  BY <1>1, <1>8, <3>2
    <2>. QED  BY <1>1, <2>1, <2>2, <2>3, <2>4, <2>5 DEF IInv, TypeOK
  <1>13. HeldInWindow'
    <2>. SUFFICES ASSUME NEW p \in Queues, NEW id \in Ids, Held(p, id)'
                  PROVE  /\ Id(queue'[p][id]) = id
                         /\ queue'[p][id] >= Position(win'[p])
                         /\ queue'[p][id] < Position(win'[p]) + Window
                         /\ queue'[p][id] < sent[p]
      BY <1>1, <1>11 DEF HeldInWindow, HeldIds, Held, Position
    <2>1. /\ ~(p = q /\ id \in ids) /\ queue'[p][id] = queue[p][id] /\ Held(p, id)
      BY <1>9 DEF Held
    <2>2. /\ queue[p][id] \in Nat /\ Id(queue[p][id]) = id
          /\ queue[p][id] >= Position(win[p])
          /\ queue[p][id] < Position(win[p]) + Window
          /\ queue[p][id] < sent[p]
      BY <2>1, QueueFacts
    <2>3. CASE p # q
      BY <1>10, <2>1, <2>2, <2>3
    <2>4. CASE p = q
      <3>. DEFINE n == queue[q][id]
                  k == n - pos
      <3>1. n \in Nat /\ k \in Nat /\ n = pos + k
        BY <1>2, <2>2, <2>4
      <3>2. id = (next[q] + k) % Mod
        <4>. HIDE DEF k
        <4>1. Id(pos + k) = (win[q].base + k) % Mod
          BY <1>2, <3>1, IdFromBase
        <4>. QED  BY <1>2, <2>2, <2>4, <3>1, <4>1
      <3>3. k \notin 0 .. (count - 1)
        BY <2>1, <2>4, <3>2 DEF Front
      <3>4. n >= pos + count
        BY <1>2, <1>4, <3>1, <3>3
      <3>5. n < pos + count + Window
        BY <1>2, <1>4, <2>2, <2>4, <3>1, WindowAssumption
      <3>. QED  BY <1>10, <2>1, <2>2, <2>4, <3>4, <3>5
    <2>. QED  BY <2>3, <2>4
  <1>14. AckedIsKept'
    <2>. SUFFICES ASSUME NEW p \in Queues, NEW m \in acked[p]
                  PROVE  m < Position(win'[p]) \/ queue'[p][Id(m)] = m
      BY <1>1 DEF AckedIsKept, Position
    <2>1. m \in Nat /\ (m < Position(win[p]) \/ queue[p][Id(m)] = m)
      BY QueueFacts
    <2>2. Id(m) \in Ids
      BY <2>1, IdAndGen
    <2>3. CASE p # q
      BY <1>9, <1>10, <2>1, <2>2, <2>3
    <2>4. CASE p = q /\ m < pos
      BY <1>2, <1>4, <1>10, <2>1, <2>4
    <2>5. CASE p = q /\ queue[q][Id(m)] = m /\ Id(m) \in ids
      <3>1. PICK k \in 0 .. (count - 1) : Id(m) = (next[q] + k) % Mod
        BY <2>5 DEF Front
      <3>2. m = pos + k
        BY <1>5, <2>5, <3>1
      <3>. QED  BY <1>2, <1>4, <1>10, <2>5, <3>2
    <2>6. CASE p = q /\ queue[q][Id(m)] = m /\ Id(m) \notin ids
      BY <1>9, <2>2, <2>6
    <2>. QED  BY <2>1, <2>3, <2>4, <2>5, <2>6
  <1>. QED  BY <1>12, <1>13, <1>14 DEF IInv

\* Time passes, and at most closes the handler.
LEMMA TickStep ==
    ASSUME IInv, Tick
    PROVE  IInv'
  <1>1. /\ UNCHANGED <<sent, heard, win, next, queue, busy, acked, log>>
        /\ age' = [q \in Queues |-> [id \in Ids |->
                      IF Held(q, id) /\ age[q][id] <= HoleTicks
                      THEN age[q][id] + 1 ELSE age[q][id]]]
        /\ closed' \in BOOLEAN
    BY DEF Tick, env
  <1>2. age' \in [Queues -> [Ids -> 0 .. (HoleTicks + 1)]]
    <2>1. age \in [Queues -> [Ids -> 0 .. (HoleTicks + 1)]] /\ HoleTicks \in Nat
      BY StreamAssumption DEF IInv, TypeOK
    <2>. SUFFICES ASSUME NEW q \in Queues, NEW id \in Ids
                  PROVE  age'[q][id] \in 0 .. (HoleTicks + 1)
      BY <1>1
    <2>2. age[q][id] \in 0 .. (HoleTicks + 1)
      BY <2>1
    <2>. QED  BY <1>1, <2>1, <2>2
  <1>3. TypeOK'
    BY <1>1, <1>2 DEF IInv, TypeOK
  <1>4. HeldInWindow' /\ AckedIsKept'
    BY <1>1 DEF IInv, HeldInWindow, AckedIsKept, HeldIds, Held, Position
  <1>. QED  BY <1>3, <1>4 DEF IInv

\* The steps that leave the window, the queue and the acknowledgements alone.
LEMMA QuietStep ==
    ASSUME IInv,
           UNCHANGED <<sent, heard, win, next, queue, age, acked, log>>,
           busy' \in Queues \cup {Idle}, closed' \in BOOLEAN
    PROVE  IInv'
  BY DEF IInv, TypeOK, HeldInWindow, AckedIsKept, HeldIds, Held, Position

\* The invariant is inductive.
THEOREM Inductive == Spec => []IInv
  <1>1. IInv /\ [Next]_vars => IInv'
    <2>. SUFFICES ASSUME IInv, [Next]_vars  PROVE IInv'
      OBVIOUS
    <2>0. \A q \in Queues : Numbers(q) \subseteq Nat
      BY StreamAssumption DEF Numbers
    <2>1. ASSUME NEW q \in Queues, ServerSend(q)  PROVE IInv'
      BY <2>1, ServerSendStep
    <2>2. ASSUME NEW q \in Queues, NEW n \in Numbers(q), NEW reaches \in BOOLEAN,
                 ReceiveOld(q, n, reaches)
          PROVE  IInv'
      BY <2>0, <2>2, ReceiveOldStep
    <2>3. ASSUME NEW q \in Queues, NEW n \in Numbers(q), NEW reaches \in BOOLEAN,
                 Receive(q, n, reaches)
          PROVE  IInv'
      BY <2>0, <2>3, ReceiveStep
    <2>4. ASSUME NEW q \in Queues, TakeCommand(q)  PROVE IInv'
      BY <2>4, TakeCommandStep
    <2>5. ASSUME NEW q \in Queues, EndOfLoop(q)  PROVE IInv'
      BY <2>5, QuietStep DEF EndOfLoop, env, IInv, TypeOK
    <2>6. CASE Tick
      BY <2>6, TickStep
    <2>7. CASE Close
      BY <2>7, QuietStep DEF Close, env, IInv, TypeOK
    <2>8. CASE UNCHANGED vars
      BY <2>8, QuietStep DEF vars, env, IInv, TypeOK
    <2>. QED  BY <2>1, <2>2, <2>3, <2>4, <2>5, <2>6, <2>7, <2>8 DEF Next
  <1>. QED  BY <1>1, InitHolds, PTL DEF Spec

\* Every variable but the byte account keeps its type.
THEOREM TypeCorrect == Spec => []TypeOK
  <1>1. IInv => TypeOK
    BY DEF IInv
  <1>. QED  BY <1>1, Inductive, PTL

\* The next id and the window never part, and a held packet is the one the
\* server numbered that way, whatever wrapped and whatever arrived twice or late.
THEOREM HeldPacketsAreInPlace == Spec => []HeldInWindow
  <1>1. IInv => HeldInWindow
    BY DEF IInv
  <1>. QED  BY <1>1, Inductive, PTL

\* No packet the client acknowledged is ever lost to it.
THEOREM AcknowledgedPacketsAreKept == Spec => []AckedIsKept
  <1>1. IInv => AckedIsKept
    BY DEF IInv
  <1>. QED  BY <1>1, Inductive, PTL

-----------------------------------------------------------------------------
(* Nothing whole waits.  Only the queue whose loop runs may have a whole   *)
(* command at its front: a packet is added to a queue as its loop starts,  *)
(* and the loop ends where nothing is whole.                               *)

OnlyBusyIsWhole == \A q \in Queues : busy # q => CommandLength(q) = 0

\* Whether a command is whole depends on what its own queue holds, and from where.
LEMMA LengthKept ==
    ASSUME NEW q, next'[q] = next[q], queue'[q] = queue[q], next[q] \in Ids,
           CommandLength(q) = 0
    PROVE  CommandLength(q)' = 0
  <1>. DEFINE At(k) == (next[q] + k) % Mod
              Ends  == {k \in 1 .. (Mod - 1) :
                          /\ \A j \in 0 .. k : Held(q, At(j))
                          /\ \A j \in 1 .. (k - 1) : ~Flagged(q, At(j))
                          /\ Flagged(q, At(k))}
              last  == CHOOSE k \in Ends : TRUE
  <1>1. CommandLength(q) = IF ~Held(q, next[q]) THEN 0
                           ELSE IF ~Flagged(q, next[q]) THEN 1
                           ELSE IF Ends = {} THEN 0
                           ELSE last + 1
    BY DEF CommandLength
  <1>2. ~Held(q, next[q]) \/ (Flagged(q, next[q]) /\ Ends = {})
    <2>1. Ends # {} => last + 1 > 1
      <3>1. Ends # {} => last \in Ends
        OBVIOUS
      <3>2. Ends \subseteq Nat \ {0}
        BY WindowAssumption
      <3>. HIDE DEF last, Ends
      <3>3. Ends # {} => last \in Nat /\ last # 0
        BY <3>1, <3>2
      <3>. QED  BY <3>3
    <2>. HIDE DEF last, Ends
    <2>. QED  BY <1>1, <2>1
  <1>3. \A id : Held(q, id)' = Held(q, id) /\ Flagged(q, id)' = Flagged(q, id)
    BY DEF Held, Flagged, Packet
  <1>4. CASE ~Held(q, next[q])
    BY <1>3, <1>4 DEF CommandLength
  <1>5. CASE Flagged(q, next[q]) /\ Ends = {}
    <2>1. CommandLength(q)' = IF ~Held(q, next[q])' THEN 0
                              ELSE IF ~Flagged(q, next[q])' THEN 1
                              ELSE IF Ends' = {} THEN 0
                              ELSE last' + 1
      BY DEF CommandLength
    <2>2. Flagged(q, next[q])'
      BY <1>3, <1>5
    <2>3. Ends' = {}
      BY <1>3, <1>5
    <2>. HIDE DEF last, Ends
    <2>. QED  BY <2>1, <2>2, <2>3
  <1>. QED  BY <1>2, <1>4, <1>5

\* A step that touches no queue but the one whose loop then runs.
LEMMA OthersKept ==
    ASSUME IInv, OnlyBusyIsWhole, NEW q \in Queues,
           busy' = q, busy \in {q, Idle},
           \A p \in Queues \ {q} : next'[p] = next[p] /\ queue'[p] = queue[p]
    PROVE  OnlyBusyIsWhole'
  <1>. SUFFICES ASSUME NEW p \in Queues, p # q
                PROVE  CommandLength(p)' = 0
    BY DEF OnlyBusyIsWhole
  <1>1. CommandLength(p) = 0
    BY StreamAssumption DEF OnlyBusyIsWhole
  <1>2. next[p] \in Ids
    BY DEF IInv, TypeOK
  <1>. QED  BY <1>1, <1>2, LengthKept

\* A step that touches no queue, and ends no loop but one at whose queue nothing
\* is whole.
LEMMA QueuesKept ==
    ASSUME IInv, OnlyBusyIsWhole, UNCHANGED <<next, queue>>,
           busy' = busy \/ (\E q \in Queues : busy = q /\ CommandLength(q) = 0 /\ busy' = Idle)
    PROVE  OnlyBusyIsWhole'
  <1>. SUFFICES ASSUME NEW p \in Queues, busy' # p
                PROVE  CommandLength(p)' = 0
    BY DEF OnlyBusyIsWhole
  <1>1. CommandLength(p) = 0
    BY StreamAssumption DEF OnlyBusyIsWhole
  <1>2. next[p] \in Ids
    BY DEF IInv, TypeOK
  <1>. QED  BY <1>1, <1>2, LengthKept

\* Between datagrams no whole command waits in a queue, whichever packet of it
\* came last and whatever was dropped before it.
THEOREM NothingWholeEverWaits == Spec => []NothingWholeWaits
  <1>1. Init => OnlyBusyIsWhole
    <2>. SUFFICES ASSUME Init, NEW q \in Queues  PROVE CommandLength(q) = 0
      BY DEF OnlyBusyIsWhole
    <2>1. ~Held(q, next[q])
      BY WindowAssumption DEF Init, Held, Ids
    <2>. QED  BY <2>1 DEF CommandLength
  <1>2. IInv /\ OnlyBusyIsWhole /\ [Next]_vars => OnlyBusyIsWhole'
    <2>. SUFFICES ASSUME IInv, OnlyBusyIsWhole, [Next]_vars  PROVE OnlyBusyIsWhole'
      OBVIOUS
    <2>0. /\ queue \in [Queues -> [Ids -> Nat \cup {NoPacket}]]
          /\ next \in [Queues -> Ids]
      BY DEF IInv, TypeOK
    <2>1. ASSUME NEW q \in Queues, ServerSend(q)  PROVE OnlyBusyIsWhole'
      BY <2>1, QueuesKept DEF ServerSend
    <2>2. ASSUME NEW q \in Queues, NEW n \in Numbers(q), NEW reaches \in BOOLEAN,
                 ReceiveOld(q, n, reaches)
          PROVE  OnlyBusyIsWhole'
      BY <2>2, QueuesKept DEF ReceiveOld
    <2>3. ASSUME NEW q \in Queues, NEW n \in Numbers(q), NEW reaches \in BOOLEAN,
                 Receive(q, n, reaches)
          PROVE  OnlyBusyIsWhole'
      <3>1. /\ busy = Idle /\ busy' = q /\ next' = next
            /\ queue' = [queue EXCEPT ![q][Id(n)] = n]
        BY <2>3 DEF Receive, Arrives
      <3>2. \A p \in Queues \ {q} : next'[p] = next[p] /\ queue'[p] = queue[p]
        BY <2>0, <3>1
      <3>. QED  BY <3>1, <3>2, OthersKept
    <2>4. ASSUME NEW q \in Queues, TakeCommand(q)  PROVE OnlyBusyIsWhole'
      <3>1. /\ busy = q /\ busy' = q
            /\ \E x : next' = [next EXCEPT ![q] = x]
            /\ \E x : queue' = [queue EXCEPT ![q] = x]
        BY <2>4 DEF TakeCommand
      <3>2. \A p \in Queues \ {q} : next'[p] = next[p] /\ queue'[p] = queue[p]
        BY <2>0, <3>1
      <3>. QED  BY <3>1, <3>2, OthersKept
    <2>5. ASSUME NEW q \in Queues, EndOfLoop(q)  PROVE OnlyBusyIsWhole'
      BY <2>5, QueuesKept DEF EndOfLoop
    <2>6. CASE Tick
      BY <2>6, QueuesKept DEF Tick
    <2>7. CASE Close
      BY <2>7, QueuesKept DEF Close
    <2>8. CASE UNCHANGED vars
      BY <2>8, QueuesKept DEF vars
    <2>. QED  BY <2>1, <2>2, <2>3, <2>4, <2>5, <2>6, <2>7, <2>8 DEF Next
  <1>3. OnlyBusyIsWhole => NothingWholeWaits
    BY StreamAssumption DEF OnlyBusyIsWhole, NothingWholeWaits
  <1>. QED  BY <1>1, <1>2, <1>3, Inductive, PTL DEF Spec

-----------------------------------------------------------------------------
(* The handler implements OrderedCommands.  Every position the window      *)
(* takes is the start of a command, or the end of the stream; from there   *)
(* the two flags #tryReassemble looks for are those of the command's first *)
(* and last packet, so that what it releases is that command, no more and  *)
(* no less.                                                                *)

AtStart(q) ==
    LET pos == Position(win[q])
    IN  \/ pos = Len(Stream[q])
        \/ /\ pos < Len(Stream[q])
           /\ pos > 0 => Packet(q, pos - 1).cmd # Packet(q, pos).cmd

AlwaysAtStart == \A q \in Queues : AtStart(q)

\* The stream at one number, with the types of its parts.
LEMMA PacketFacts ==
    ASSUME NEW q \in Queues, NEW n \in Nat, n < Len(Stream[q])
    PROVE  /\ n \in Numbers(q)
           /\ Packet(q, n).cmd \in Nat /\ Packet(q, n).frag \in BOOLEAN
           /\ Packet(q, n).bad \in BOOLEAN
           /\ \E first \in 0 .. n, last \in n .. (Len(Stream[q]) - 1) : IsCommand(q, first, last)
           /\ \A m \in 0 .. n : Packet(q, m).cmd <= Packet(q, n).cmd
  <1>1. Len(Stream[q]) \in Nat /\ Stream[q] \in Seq(PacketType)
    BY StreamAssumption
  <1>2. n \in Numbers(q) /\ n + 1 \in 1 .. Len(Stream[q])
    BY <1>1 DEF Numbers
  <1>3. Stream[q][n + 1] \in PacketType
    BY <1>1, <1>2
  <1>4. /\ \E first \in 0 .. n, last \in n .. (Len(Stream[q]) - 1) : IsCommand(q, first, last)
        /\ \A m \in 0 .. n : Packet(q, m).cmd <= Packet(q, n).cmd
    BY <1>2, StreamAssumption
  <1>. QED  BY <1>2, <1>3, <1>4 DEF Packet, PacketType

\* A packet of another command than the one before it is the first of its own.
LEMMA CommandFrom ==
    ASSUME NEW q \in Queues, NEW n \in Nat, n < Len(Stream[q]),
           n > 0 => Packet(q, n - 1).cmd # Packet(q, n).cmd
    PROVE  \E last \in n .. (Len(Stream[q]) - 1) : IsCommand(q, n, last)
  <1>1. PICK first \in 0 .. n, last \in n .. (Len(Stream[q]) - 1) : IsCommand(q, first, last)
    BY PacketFacts
  <1>2. Len(Stream[q]) \in Nat
    BY StreamAssumption
  <1>3. CommandPackets(q, Packet(q, first).cmd) = first .. last
    BY <1>1 DEF IsCommand
  <1>4. n \in first .. last /\ first \in Int /\ last \in Int
    BY <1>2
  <1>5. Packet(q, n).cmd = Packet(q, first).cmd
    BY <1>3, <1>4 DEF CommandPackets
  <1>6. CASE n = first
    BY <1>1, <1>6
  <1>7. CASE n # first
    <2>1. n > 0 /\ n - 1 \in first .. last
      BY <1>2, <1>4, <1>7
    <2>2. Packet(q, n - 1).cmd = Packet(q, first).cmd
      BY <1>3, <2>1 DEF CommandPackets
    <2>. QED  BY <1>5, <2>1, <2>2
  <1>. QED  BY <1>6, <1>7

\* After the last packet of a command the next command begins.
LEMMA CommandAfter ==
    ASSUME NEW q \in Queues, NEW first \in Nat, NEW last \in Nat, first <= last,
           last + 1 < Len(Stream[q]), IsCommand(q, first, last)
    PROVE  /\ Packet(q, last + 1).cmd # Packet(q, last).cmd
           /\ Packet(q, last + 1).cmd = Packet(q, first).cmd + 1
  <1>1. Len(Stream[q]) \in Nat
    BY StreamAssumption
  <1>2. CommandPackets(q, Packet(q, first).cmd) = first .. last
    BY DEF IsCommand
  <1>3. last \in first .. last /\ last + 1 \notin first .. last
    OBVIOUS
  <1>4. Packet(q, last).cmd = Packet(q, first).cmd
    BY <1>2, <1>3 DEF CommandPackets
  <1>5. last + 1 \in Numbers(q)
    BY <1>1 DEF Numbers
  <1>6. Packet(q, last + 1).cmd # Packet(q, last).cmd
    BY <1>2, <1>3, <1>4, <1>5 DEF CommandPackets
  <1>7. (last + 1) - 1 = last /\ last + 1 \in Nat /\ last + 1 # 0
    OBVIOUS
  <1>8. \E l \in (last + 1) .. (Len(Stream[q]) - 1) : IsCommand(q, last + 1, l)
    BY <1>6, <1>7, CommandFrom
  <1>9. Packet(q, last + 1).cmd = Packet(q, last).cmd + 1
    BY <1>7, <1>8 DEF IsCommand
  <1>. QED  BY <1>4, <1>6, <1>9

\* What #tryReassemble takes at the start of a command is that command, whole: the
\* packet held k places on is packet Position + k, and the second flag from the
\* first on is on the last of the command.
LEMMA WholeCommand ==
    ASSUME IInv, NEW q \in Queues, AtStart(q), CommandLength(q) > 0
    PROVE  \E last \in Nat :
             /\ Position(win[q]) <= last /\ last < Len(Stream[q])
             /\ IsCommand(q, Position(win[q]), last)
             /\ CommandLength(q) = last - Position(win[q]) + 1
  <1>1. /\ win[q] \in WindowType /\ Position(win[q]) \in Nat /\ next[q] = win[q].base
        /\ sent[q] \in Nat /\ sent[q] <= Len(Stream[q]) /\ Len(Stream[q]) \in Nat
    BY QueueFacts
  <1>2. PICK pos \in Nat : pos = Position(win[q])
    BY <1>1
  <1>3. next[q] \in Ids /\ (next[q] + 0) % Mod = next[q]
    <2>1. next[q] \in Ids
      BY DEF IInv, TypeOK
    <2>. QED  BY <2>1, WindowAssumption DEF Ids
  <1>. DEFINE At(k) == (next[q] + k) % Mod
              Ends  == {k \in 1 .. (Mod - 1) :
                          /\ \A j \in 0 .. k : Held(q, At(j))
                          /\ \A j \in 1 .. (k - 1) : ~Flagged(q, At(j))
                          /\ Flagged(q, At(k))}
              end   == CHOOSE k \in Ends : TRUE
  <1>4. CommandLength(q) = IF ~Held(q, next[q]) THEN 0
                           ELSE IF ~Flagged(q, next[q]) THEN 1
                           ELSE IF Ends = {} THEN 0
                           ELSE end + 1
    BY DEF CommandLength
  <1>5. Held(q, next[q])
    BY <1>4
  <1>6. \A k \in 0 .. (Mod - 1) : Held(q, At(k)) =>
          /\ At(k) \in Ids /\ queue[q][At(k)] = pos + k
          /\ Flagged(q, At(k)) = Packet(q, pos + k).frag
    BY <1>2, HeldAt, WindowAssumption DEF Flagged
  <1>7. /\ next[q] \in Ids /\ queue[q][next[q]] = pos
        /\ Flagged(q, next[q]) = Packet(q, pos).frag
    <2>1. 0 \in 0 .. (Mod - 1) /\ pos + 0 = pos /\ At(0) = next[q]
      BY <1>3, WindowAssumption
    <2>2. Held(q, At(0))
      BY <1>5, <2>1
    <2>. QED  BY <1>6, <2>1, <2>2
  <1>8. pos < Len(Stream[q])
    <2>1. pos < sent[q]
      BY <1>5, <1>7, QueueFacts
    <2>. QED  BY <1>1, <2>1
  <1>9. PICK last \in pos .. (Len(Stream[q]) - 1) : IsCommand(q, pos, last)
    <2>1. pos > 0 => Packet(q, pos - 1).cmd # Packet(q, pos).cmd
      BY <1>2, <1>8 DEF AtStart
    <2>. QED  BY <1>8, <2>1, CommandFrom
  <1>10. last \in Nat /\ pos <= last /\ last < Len(Stream[q])
    BY <1>1
  <1>11. \A n \in pos .. last : Packet(q, n).frag <=> ((n = pos) # (n = last))
    BY <1>9 DEF IsCommand
  <1>12. Packet(q, pos).frag <=> pos # last
    BY <1>10, <1>11
  <1>13. CASE pos = last
    <2>1. CommandLength(q) = 1
      BY <1>4, <1>5, <1>7, <1>12, <1>13
    <2>. QED  BY <1>2, <1>9, <1>10, <1>13, <2>1
  <1>14. CASE pos # last
    <2>1. CommandLength(q) = end + 1 /\ Ends # {}
      BY <1>4, <1>5, <1>7, <1>12, <1>14
    <2>2. end \in Ends
      BY <2>1
    <2>. HIDE DEF end
    <2>3. /\ end \in 1 .. (Mod - 1)
          /\ \A j \in 0 .. end : Held(q, At(j))
          /\ \A j \in 1 .. (end - 1) : ~Flagged(q, At(j))
          /\ Flagged(q, At(end))
      BY <2>2
    <2>. HIDE DEF Ends
    <2>4. end \in Nat /\ end >= 1 /\ end <= Mod - 1
      BY <2>3, WindowAssumption
    <2>. HIDE DEF At
    <2>5. \A j \in 0 .. end : Flagged(q, At(j)) = Packet(q, pos + j).frag
      <3>1. ASSUME NEW j \in 0 .. end
            PROVE  Flagged(q, At(j)) = Packet(q, pos + j).frag
        <4>1. j \in 0 .. (Mod - 1)
          BY <2>4, WindowAssumption
        <4>2. Held(q, At(j))
          BY <2>3
        <4>. QED  BY <1>6, <4>1, <4>2
      <3>. QED  BY <3>1
    <2>6. ~(pos + end < last)
      <3>1. SUFFICES ASSUME pos + end < last  PROVE FALSE
        OBVIOUS
      <3>2. pos + end \in pos .. last /\ pos + end # pos /\ pos + end # last
        BY <1>10, <2>4, <3>1
      <3>3. ~Packet(q, pos + end).frag
        BY <1>11, <3>2
      <3>. QED  BY <2>3, <2>4, <2>5, <3>3
    <2>7. ~(pos + end > last)
      <3>1. SUFFICES ASSUME pos + end > last  PROVE FALSE
        OBVIOUS
      <3>2. PICK j \in Nat : j = last - pos
        BY <1>10
      <3>3. j \in 1 .. (end - 1) /\ j \in 0 .. end /\ pos + j = last
        BY <1>10, <1>14, <2>4, <3>1, <3>2
      <3>4. last \in pos .. last
        BY <1>10
      <3>5. Packet(q, last).frag
        BY <1>11, <1>14, <3>4
      <3>. QED  BY <2>3, <2>5, <3>3, <3>5
    <2>8. end = last - pos
      BY <1>10, <2>4, <2>6, <2>7
    <2>. QED  BY <1>2, <1>9, <1>10, <2>1, <2>8
  <1>. QED  BY <1>13, <1>14

\* The command that is released is dropped exactly if the server's command is one
\* the handler gives up on: what is measured is all of it.
LEMMA DropsExactly ==
    ASSUME IInv, NEW q \in Queues, NEW last \in Nat,
           Position(win[q]) <= last, last < Len(Stream[q]),
           IsCommand(q, Position(win[q]), last),
           CommandLength(q) = last - Position(win[q]) + 1
    PROVE  /\ queue[q][next[q]] = Position(win[q])
           /\ Discards(q) <=> Packet(q, Position(win[q])).cmd \in GivenUp(q)
  <1>1. /\ Position(win[q]) \in Nat /\ Len(Stream[q]) \in Nat
        /\ next[q] \in Ids /\ (next[q] + 0) % Mod = next[q]
    <2>1. next[q] \in Ids
      BY DEF IInv, TypeOK
    <2>2. (next[q] + 0) % Mod = next[q]
      BY <2>1, WindowAssumption DEF Ids
    <2>. QED  BY <2>1, <2>2, QueueFacts
  <1>2. PICK pos \in Nat : pos = Position(win[q])
    BY <1>1
  <1>3. PICK count \in Nat : count = last - pos + 1 /\ count = CommandLength(q) /\ count > 0
    BY <1>2
  <1>4. count <= Mod /\ \A k \in 0 .. (count - 1) : Held(q, (next[q] + k) % Mod)
    BY <1>1, <1>3, CommandIsHeld, WindowAssumption
  <1>5. \A k \in 0 .. (count - 1) : queue[q][(next[q] + k) % Mod] = pos + k
    BY <1>2, <1>4, HeldAt, WindowAssumption
  <1>6. queue[q][next[q]] = pos
    <2>1. 0 \in 0 .. (count - 1) /\ pos + 0 = pos
      BY <1>3
    <2>. QED  BY <1>1, <1>5, <2>1
  <1>7. HeldUnder(q, Front(q, count)) = {pos + k : k \in 0 .. (count - 1)}
    <2>1. HeldUnder(q, Front(q, count)) =
            {queue[q][(next[q] + k) % Mod] : k \in 0 .. (count - 1)}
      BY DEF HeldUnder, Front
    <2>. QED  BY <1>5, <2>1
  <1>8. {pos + k : k \in 0 .. (count - 1)} = pos .. last
    <2>1. ASSUME NEW n \in pos .. last  PROVE n \in {pos + k : k \in 0 .. (count - 1)}
      <3>1. n - pos \in 0 .. (count - 1) /\ n = pos + (n - pos)
        BY <1>3
      <3>. QED  BY <3>1
    <2>2. \A k \in 0 .. (count - 1) : pos + k \in pos .. last
      BY <1>3
    <2>. QED  BY <2>1, <2>2
  <1>. DEFINE c == Packet(q, pos).cmd
  <1>9. CommandPackets(q, c) = pos .. last
    BY <1>2 DEF IsCommand
  <1>10. Cardinality(CommandPackets(q, c)) = count
    <2>1. Cardinality(pos .. last) = last - pos + 1
      BY <1>2, FS_Interval
    <2>. QED  BY <1>3, <1>9, <2>1
  <1>11. HeldUnder(q, Front(q, CommandLength(q))) = CommandPackets(q, c)
    BY <1>3, <1>7, <1>8, <1>9
  <1>12. (\E n \in CommandPackets(q, c) : Packet(q, n).bad) <=> Packet(q, pos).bad
    <2>1. pos \in pos .. last
      BY <1>2
    <2>2. \A n \in pos .. last : Packet(q, n).bad = Packet(q, pos).bad
      BY <1>2 DEF IsCommand
    <2>. QED  BY <1>9, <2>1, <2>2
  <1>13. c \in {Packet(q, n).cmd : n \in Numbers(q)}
    BY <1>1, <1>2 DEF Numbers
  <1>14. c \in GivenUp(q) <=>
           \/ Packet(q, pos).bad
           \/ /\ Cardinality(CommandPackets(q, c)) > 1
              /\ SizeOf(q, CommandPackets(q, c)) > MaxReassembled
    BY <1>12, <1>13 DEF GivenUp
  <1>15. Discards(q) <=>
           \/ /\ count > 1
              /\ SizeOf(q, HeldUnder(q, Front(q, CommandLength(q)))) > MaxReassembled
           \/ Packet(q, pos).bad
    BY <1>3, <1>6 DEF Discards
  <1>16. SizeOf(q, HeldUnder(q, Front(q, CommandLength(q)))) = SizeOf(q, CommandPackets(q, c))
    BY <1>11
  <1>. QED  BY <1>2, <1>6, <1>10, <1>14, <1>15, <1>16

\* Where the window stands in the server's stream, as OrderedCommands counts it.
Taken(q) == IF Position(win[q]) < Len(Stream[q])
            THEN Packet(q, Position(win[q])).cmd - 1
            ELSE CommandCount(q)

\* Releasing a command deals with the next one of OrderedCommands.
LEMMA TakeSimulates ==
    ASSUME IInv, IInv', AlwaysAtStart, NEW q \in Queues, TakeCommand(q)
    PROVE  /\ AlwaysAtStart'
           /\ Taken(q) \in Nat /\ Taken(q) < CommandCount(q)
           /\ \A p \in Queues : Taken(p)' = IF p = q THEN Taken(q) + 1 ELSE Taken(p)
           /\ log' = IF Taken(q) + 1 \in GivenUp(q) THEN log
                     ELSE [log EXCEPT ![q] = Append(@, Taken(q) + 1)]
  <1>1. /\ CommandLength(q) > 0
        /\ win' = [win EXCEPT ![q] = Advance(win[q], CommandLength(q))]
        /\ log' = IF Discards(q) THEN log
                  ELSE [log EXCEPT ![q] = Append(log[q], Packet(q, queue[q][next[q]]).cmd)]
    BY DEF TakeCommand, Released
  <1>2. /\ win[q] \in WindowType /\ Position(win[q]) \in Nat
        /\ Len(Stream[q]) \in Nat /\ Len(Stream[q]) < MaxGen * Mod
    BY QueueFacts
  <1>3. PICK last \in Nat :
          /\ Position(win[q]) <= last /\ last < Len(Stream[q])
          /\ IsCommand(q, Position(win[q]), last)
          /\ CommandLength(q) = last - Position(win[q]) + 1
    BY <1>1, WholeCommand DEF AlwaysAtStart
  <1>4. PICK pos \in Nat : pos = Position(win[q])
    BY <1>2
  <1>5. /\ queue[q][next[q]] = pos
        /\ Discards(q) <=> Packet(q, pos).cmd \in GivenUp(q)
    BY <1>3, <1>4, DropsExactly
  <1>6. /\ CommandLength(q) \in Nat /\ pos + CommandLength(q) = last + 1
        /\ pos <= last /\ IsCommand(q, pos, last)
    BY <1>3, <1>4
  <1>7. Position(Advance(win[q], CommandLength(q))) = last + 1
    <2>1. last + 1 < MaxGen * Mod
      BY <1>2, <1>3, WindowAssumption
    <2>2. Position(win[q]) + CommandLength(q) < MaxGen * Mod
      BY <1>4, <1>6, <2>1
    <2>3. Position(Advance(win[q], CommandLength(q))) = Position(win[q]) + CommandLength(q)
      BY <1>2, <1>6, <2>2, AdvanceExact
    <2>. QED  BY <1>4, <1>6, <2>3
  <1>8. win \in [Queues -> WindowType]
    BY DEF IInv, TypeOK
  <1>9. \A p \in Queues : win'[p] = IF p = q THEN Advance(win[q], CommandLength(q)) ELSE win[p]
    BY <1>1, <1>8
  <1>10. Position(win'[q]) = last + 1 /\ \A p \in Queues \ {q} : win'[p] = win[p]
    BY <1>7, <1>9
  <1>. DEFINE c == Packet(q, pos).cmd
  <1>11. c \in Nat /\ c >= 1 /\ pos < Len(Stream[q])
    <2>1. pos < Len(Stream[q])
      BY <1>2, <1>3, <1>6
    <2>2. c \in Nat /\ c = IF pos = 0 THEN 1 ELSE Packet(q, pos - 1).cmd + 1
      BY <1>6, <2>1, PacketFacts DEF IsCommand
    <2>3. pos # 0 => Packet(q, pos - 1).cmd \in Nat
      <3>1. pos # 0 => pos - 1 \in Nat /\ pos - 1 < Len(Stream[q])
        BY <1>2, <2>1
      <3>. QED  BY <3>1, PacketFacts
    <2>. QED  BY <2>1, <2>2, <2>3
  <1>12. Packet(q, last).cmd = c
    <2>1. CommandPackets(q, c) = pos .. last /\ last \in pos .. last
      BY <1>6 DEF IsCommand
    <2>. QED  BY <2>1 DEF CommandPackets
  <1>13. last + 1 < Len(Stream[q]) =>
           Packet(q, last + 1).cmd # Packet(q, last).cmd /\ Packet(q, last + 1).cmd = c + 1
    BY <1>6, CommandAfter
  <1>14. CommandCount(q) = Packet(q, Len(Stream[q]) - 1).cmd
    <2>1. Stream[q] # <<>> /\ (Len(Stream[q]) - 1) + 1 = Len(Stream[q])
      BY <1>2, <1>11
    <2>. QED  BY <2>1 DEF CommandCount, Packet
  <1>15. CommandCount(q) \in Nat /\ c <= CommandCount(q)
    <2>1. Len(Stream[q]) - 1 \in Nat /\ Len(Stream[q]) - 1 < Len(Stream[q])
          /\ pos \in 0 .. (Len(Stream[q]) - 1)
      BY <1>2, <1>11
    <2>. QED  BY <1>14, <2>1, PacketFacts
  <1>16. Taken(q) = c - 1
    BY <1>4, <1>11 DEF Taken
  <1>17. Taken(q)' = c
    <2>1. Taken(q)' = IF last + 1 < Len(Stream[q]) THEN Packet(q, last + 1).cmd - 1
                      ELSE CommandCount(q)
      BY <1>10 DEF Taken, CommandCount
    <2>2. CASE last + 1 < Len(Stream[q])
      BY <1>11, <1>13, <2>1, <2>2
    <2>3. CASE ~(last + 1 < Len(Stream[q]))
      <3>1. last = Len(Stream[q]) - 1
        BY <1>2, <1>3, <2>3
      <3>. QED  BY <1>12, <1>14, <2>1, <2>3, <3>1
    <2>. QED  BY <2>2, <2>3
  <1>18. \A p \in Queues \ {q} : Taken(p)' = Taken(p)
    BY <1>10 DEF Taken, CommandCount
  <1>19. AlwaysAtStart'
    <2>. SUFFICES ASSUME NEW p \in Queues  PROVE AtStart(p)'
      BY DEF AlwaysAtStart
    <2>1. CASE p # q
      <3>1. AtStart(p) /\ win'[p] = win[p]
        BY <1>10, <2>1 DEF AlwaysAtStart
      <3>. QED  BY <3>1 DEF AtStart
    <2>2. CASE p = q
      <3>1. (last + 1) - 1 = last /\ (last + 1 < Len(Stream[q]) \/ last + 1 = Len(Stream[q]))
        BY <1>2, <1>3
      <3>2. AtStart(q)' <=>
              \/ last + 1 = Len(Stream[q])
              \/ /\ last + 1 < Len(Stream[q])
                 /\ last + 1 > 0 => Packet(q, (last + 1) - 1).cmd # Packet(q, last + 1).cmd
        BY <1>10 DEF AtStart
      <3>. QED  BY <1>13, <2>2, <3>1, <3>2
    <2>. QED  BY <2>1, <2>2
  <1>20. (c - 1) + 1 = c /\ c - 1 \in Nat /\ c - 1 < CommandCount(q)
    BY <1>11, <1>15
  <1>21. log' = IF c \in GivenUp(q) THEN log ELSE [log EXCEPT ![q] = Append(@, c)]
    BY <1>1, <1>5
  <1>. QED  BY <1>16, <1>17, <1>18, <1>19, <1>20, <1>21

\* A step that moves no window hands nothing over.
LEMMA WindowsKept ==
    ASSUME AlwaysAtStart, UNCHANGED <<win, log>>
    PROVE  AlwaysAtStart' /\ \A q \in Queues : Taken(q)' = Taken(q)
  BY DEF AlwaysAtStart, AtStart, Taken, CommandCount

\* Every step releases one command or moves no window.
LEMMA StepSimulates ==
    ASSUME IInv, IInv', AlwaysAtStart, [Next]_vars
    PROVE  AlwaysAtStart' /\ [Ordered!Next]_<<[q \in Queues |-> Taken(q)], log>>
  <1>. DEFINE taken == [q \in Queues |-> Taken(q)]
  <1>1. CASE UNCHANGED <<win, log>>
    <2>1. AlwaysAtStart' /\ \A q \in Queues : Taken(q)' = Taken(q)
      BY <1>1, WindowsKept
    <2>. QED  BY <1>1, <2>1
  <1>2. ASSUME NEW q \in Queues, TakeCommand(q)
        PROVE  AlwaysAtStart' /\ Ordered!Next
    <2>1. /\ AlwaysAtStart'
          /\ Taken(q) \in Nat /\ Taken(q) < CommandCount(q)
          /\ \A p \in Queues : Taken(p)' = IF p = q THEN Taken(q) + 1 ELSE Taken(p)
          /\ log' = IF Taken(q) + 1 \in GivenUp(q) THEN log
                    ELSE [log EXCEPT ![q] = Append(@, Taken(q) + 1)]
      BY <1>2, TakeSimulates
    <2>2. taken' = [taken EXCEPT ![q] = taken[q] + 1]
      BY <2>1
    <2>3. Ordered!Take(q)
      BY <2>1, <2>2 DEF Ordered!Take, Taken
    <2>. QED  BY <2>1, <2>3 DEF Ordered!Next
  <1>3. (\E q \in Queues : TakeCommand(q)) \/ UNCHANGED <<win, log>>
    BY DEF Next, vars, ServerSend, ReceiveOld, Receive, EndOfLoop, Tick, Close
  <1>. QED  BY <1>1, <1>2, <1>3

\* The handler implements OrderedCommands: whatever the network does, the commands
\* of each queue come out in the server's order, each whole and once, and those it
\* gives up on cost no other.
THEOREM HandlerImplementsOrderedCommands == Spec => ImplementsOrderedCommands
  <1>1. Init => AlwaysAtStart /\ Ordered!Init
    <2>. SUFFICES ASSUME Init  PROVE AlwaysAtStart /\ Ordered!Init
      OBVIOUS
    <2>1. \A q \in Queues : Position(win[q]) = 0
      BY WindowAssumption DEF Init, NewWindow, Position
    <2>2. \A q \in Queues : Len(Stream[q]) \in Nat
      BY StreamAssumption
    <2>3. AlwaysAtStart
      BY <2>1, <2>2 DEF AlwaysAtStart, AtStart
    <2>4. ASSUME NEW q \in Queues  PROVE Taken(q) = 0
      <3>1. CASE 0 < Len(Stream[q])
        <4>1. \E last \in 0 .. (Len(Stream[q]) - 1) : IsCommand(q, 0, last)
          BY <2>2, <3>1, CommandFrom
        <4>2. Packet(q, 0).cmd = 1
          BY <4>1 DEF IsCommand
        <4>. QED  BY <2>1, <3>1, <4>2 DEF Taken
      <3>2. CASE Len(Stream[q]) = 0
        <4>1. Stream[q] = <<>>
          BY <3>2, StreamAssumption
        <4>. QED  BY <2>1, <3>2, <4>1 DEF Taken, CommandCount
      <3>. QED  BY <2>2, <3>1, <3>2
    <2>5. [q \in Queues |-> Taken(q)] = [q \in Queues |-> 0]
      BY <2>4
    <2>. QED  BY <2>3, <2>5 DEF Init, Ordered!Init, Taken
  <1>2. IInv /\ IInv' /\ AlwaysAtStart /\ [Next]_vars
          => AlwaysAtStart' /\ [Ordered!Next]_<<[q \in Queues |-> Taken(q)], log>>
    BY StepSimulates
  <1>. QED  BY <1>1, <1>2, Inductive, PTL DEF Spec, ImplementsOrderedCommands, Ordered!Spec, Taken
-----------------------------------------------------------------------------
(* The byte limit.  The size of packets is the number of their bytes, so   *)
(* that sums are cardinalities: a packet put in a queue adds its bytes, no *)
(* two packets share one, and a command that is taken takes its own away.  *)

\* A finite union of finite sets is finite.
LEMMA FiniteUnion ==
    ASSUME NEW I, IsFiniteSet(I), NEW f, \A i \in I : IsFiniteSet(f[i])
    PROVE  IsFiniteSet(UNION {f[i] : i \in I})
  <1>. DEFINE g == [i \in I |-> f[i]]
              T == {f[i] : i \in I}
  <1>1. g \in Surjection(I, T)
    BY DEF Surjection
  <1>2. IsFiniteSet(T)
    BY <1>1, FS_Surjection
  <1>. QED  BY <1>2, FS_UNION

LEMMA OneByMany ==
    ASSUME NEW S, NEW T, IsFiniteSet(S), IsFiniteSet(T), Cardinality(S) = 1
    PROVE  IsFiniteSet(S \X T) /\ Cardinality(S \X T) = Cardinality(T)
  <1>1. Cardinality(S \X T) = 1 * Cardinality(T) /\ IsFiniteSet(S \X T)
    BY FS_Product
  <1>2. Cardinality(T) \in Nat
    BY FS_CardinalityType
  <1>. QED  BY <1>1, <1>2

\* A packet has as many bytes as its size says.
LEMMA PacketBytes ==
    ASSUME NEW q \in Queues, NEW n \in Numbers(q)
    PROVE  /\ Packet(q, n).size \in Nat
           /\ IsFiniteSet(BytesOf(q, {n}))
           /\ SizeOf(q, {n}) = Packet(q, n).size
  <1>. DEFINE k == Packet(q, n).size
  <1>1. k \in Nat
    <2>1. Stream[q] \in Seq(PacketType) /\ n + 1 \in 1 .. Len(Stream[q])
      BY StreamAssumption DEF Numbers
    <2>2. Stream[q][n + 1] \in PacketType
      BY <2>1
    <2>. QED  BY <2>2 DEF Packet, PacketType
  <1>2. BytesOf(q, {n}) = {<<q, n>>} \X (1 .. k)
    <2>. DEFINE Part(m) == {<<q, m>>} \X (1 .. Packet(q, m).size)
    <2>1. BytesOf(q, {n}) = UNION {Part(m) : m \in {n}}
      BY DEF BytesOf
    <2>2. Part(n) = {<<q, n>>} \X (1 .. k)
      OBVIOUS
    <2>. HIDE DEF Part, k
    <2>3. UNION {Part(m) : m \in {n}} = Part(n)
      OBVIOUS
    <2>. QED  BY <2>1, <2>2, <2>3
  <1>. HIDE DEF k
  <1>3. IsFiniteSet(1 .. k) /\ Cardinality(1 .. k) = k
    <2>1. IsFiniteSet(1 .. k) /\ Cardinality(1 .. k) = IF 1 > k THEN 0 ELSE (k - 1) + 1
      BY ONLY <1>1, FS_Interval
    <2>. QED  BY ONLY <1>1, <2>1
  <1>4. IsFiniteSet({<<q, n>>}) /\ Cardinality({<<q, n>>}) = 1
    BY FS_Singleton
  <1>5. /\ IsFiniteSet({<<q, n>>} \X (1 .. k))
        /\ Cardinality({<<q, n>>} \X (1 .. k)) = k
    BY <1>3, <1>4, OneByMany
  <1>. QED  BY <1>1, <1>2, <1>5 DEF SizeOf, k

LEMMA BytesFinite ==
    ASSUME NEW q \in Queues, NEW N \in SUBSET Numbers(q), IsFiniteSet(N)
    PROVE  IsFiniteSet(BytesOf(q, N))
  <1>. DEFINE f == [n \in N |-> BytesOf(q, {n})]
  <1>1. \A n \in N : IsFiniteSet(f[n])
    BY PacketBytes
  <1>2. BytesOf(q, N) = UNION {f[n] : n \in N}
    <2>1. \A n \in N : f[n] = {<<q, n>>} \X (1 .. Packet(q, n).size)
      BY DEF BytesOf
    <2>. QED  BY <2>1 DEF BytesOf
  <1>. HIDE DEF f
  <1>. QED  BY <1>1, <1>2, FiniteUnion

\* Which bytes are held, and which of them wait.
LEMMA ByteHeld ==
    \A b : b \in BytesHeld <=>
        \E q \in Queues : \E id \in HeldIds(q) : b \in BytesOf(q, {queue[q][id]})
  BY DEF BytesHeld, BytesOf, HeldUnder

LEMMA ByteWaits ==
    \A b : b \in BytesWaiting <=>
        \E q \in Queues : \E id \in OutOfOrder(q) : b \in BytesOf(q, {queue[q][id]})
  BY DEF BytesWaiting, BytesOf, HeldUnder

\* No byte belongs to two packets.
LEMMA BytesApart ==
    ASSUME NEW p, NEW q, NEW m, NEW n, NEW b, b \in BytesOf(p, {m}), b \in BytesOf(q, {n})
    PROVE  p = q /\ m = n
  BY DEF BytesOf

\* The packets held are of the stream, and their bytes can be counted.
LEMMA HeldIsCounted ==
    ASSUME IInv
    PROVE  /\ \A q \in Queues : \A id \in HeldIds(q) : queue[q][id] \in Numbers(q)
           /\ IsFiniteSet(BytesHeld) /\ Cardinality(BytesHeld) \in Nat
           /\ BytesWaiting \subseteq BytesHeld
           /\ IsFiniteSet(BytesWaiting) /\ Cardinality(BytesWaiting) \in Nat
           /\ Cardinality(BytesWaiting) <= Cardinality(BytesHeld)
  <1>1. ASSUME NEW q \in Queues, NEW id \in HeldIds(q)  PROVE queue[q][id] \in Numbers(q)
    <2>1. id \in Ids /\ Held(q, id)
      BY DEF HeldIds
    <2>2. /\ queue[q][id] \in Nat /\ queue[q][id] < sent[q]
          /\ sent[q] \in Nat /\ sent[q] <= Len(Stream[q]) /\ Len(Stream[q]) \in Nat
      BY <2>1, QueueFacts
    <2>. QED  BY <2>2 DEF Numbers
  <1>2. IsFiniteSet(Ids)
    BY WindowAssumption, FS_Interval DEF Ids
  <1>. DEFINE N(q) == HeldUnder(q, HeldIds(q))
              f    == [q \in Queues |-> BytesOf(q, N(q))]
  <1>3. ASSUME NEW q \in Queues  PROVE IsFiniteSet(f[q])
    <2>1. IsFiniteSet(HeldIds(q))
      BY <1>2, FS_Subset DEF HeldIds
    <2>. DEFINE g == [id \in HeldIds(q) |-> queue[q][id]]
    <2>2. g \in Surjection(HeldIds(q), N(q))
      BY DEF Surjection, HeldUnder
    <2>3. IsFiniteSet(N(q))
      BY <2>1, <2>2, FS_Surjection
    <2>4. N(q) \in SUBSET Numbers(q)
      BY <1>1 DEF HeldUnder
    <2>. HIDE DEF N
    <2>. QED  BY <2>3, <2>4, BytesFinite
  <1>4. IsFiniteSet(BytesHeld)
    <2>1. BytesHeld = UNION {f[q] : q \in Queues}
      BY DEF BytesHeld
    <2>. HIDE DEF f
    <2>. QED  BY <1>3, <2>1, FiniteUnion, StreamAssumption
  <1>5. BytesWaiting \subseteq BytesHeld
    BY ByteHeld, ByteWaits DEF OutOfOrder
  <1>6. IsFiniteSet(BytesWaiting) /\ Cardinality(BytesWaiting) <= Cardinality(BytesHeld)
    BY <1>4, <1>5, FS_Subset
  <1>. QED  BY <1>1, <1>4, <1>5, <1>6, FS_CardinalityType

\* A set of numbers that is not empty has a least one.
LEMMA MinimalIn ==
    ASSUME NEW R, IsWellFoundedOn(R, Nat), NEW S, S \subseteq Nat, S # {}
    PROVE  \E n \in S : \A m \in S : ~(<<m, n>> \in R)
  BY WFMin, Zenon

LEMMA NatOrder ==
    \E R : IsWellFoundedOn(R, Nat) /\ \A m, n \in Nat : m < n => <<m, n>> \in R
  <1>. DEFINE R == OpToRel(<, Nat)
  <1>1. IsWellFoundedOn(R, Nat)
    BY NatLessThanWellFounded
  <1>2. \A m, n \in Nat : m < n => <<m, n>> \in R
    BY DEF OpToRel
  <1>. WITNESS R
  <1>. QED  BY <1>1, <1>2

LEMMA LeastNumber ==
    ASSUME NEW S, S \subseteq Nat, S # {}
    PROVE  \E n \in S : \A m \in S : n <= m
  <1>1. PICK R : IsWellFoundedOn(R, Nat) /\ \A m, n \in Nat : m < n => <<m, n>> \in R
    BY NatOrder, Zenon
  <1>2. PICK n \in S : \A m \in S : ~(<<m, n>> \in R)
    BY <1>1, MinimalIn, Zenon
  <1>3. ASSUME NEW m \in S  PROVE n <= m
    <2>1. m \in Nat /\ n \in Nat
      OBVIOUS
    <2>2. ~(m < n)
      BY <1>1, <1>2, <2>1, Zenon
    <2>. QED  BY <2>1, <2>2, SMT
  <1>. QED  BY <1>3, Zenon

\* Everything before the packet the queue needs next is held.
LEMMA NeededIs ==
    ASSUME NEW q
    PROVE  \E k \in Nat : /\ Needed(q) = (next[q] + k) % Mod
                          /\ \A j \in 0 .. (k - 1) : Held(q, (next[q] + j) % Mod)
  <1>. DEFINE size  == Cardinality(HeldIds(q))
              At(k) == (next[q] + k) % Mod
              Fits(k) == /\ k = size \/ ~Held(q, At(k))
                         /\ \A j \in 0 .. (k - 1) : Held(q, At(j))
              S == {k \in 0 .. size : k = size \/ ~Held(q, At(k))}
  <1>1. size \in Nat
    <2>1. IsFiniteSet(Ids)
      BY WindowAssumption, FS_Interval DEF Ids
    <2>2. IsFiniteSet(HeldIds(q))
      BY <2>1, FS_Subset DEF HeldIds
    <2>. QED  BY <2>2, FS_CardinalityType
  <1>2. Needed(q) = At(CHOOSE k \in 0 .. size : Fits(k))
    BY DEF Needed
  <1>3. S \subseteq Nat /\ S # {}
    <2>. HIDE DEF size, At
    <2>1. size \in S
      BY <1>1
    <2>. QED  BY <1>1, <2>1
  <1>4. PICK n \in S : \A m \in S : n <= m
    <2>. HIDE DEF S
    <2>. QED  BY <1>3, LeastNumber
  <1>5. Fits(n) /\ n \in 0 .. size
    <2>. HIDE DEF size, At
    <2>. QED  BY <1>1, <1>4
  <1>6. PICK k \in 0 .. size : Fits(k) /\ Needed(q) = At(k)
    <2>. HIDE DEF size, At, Fits
    <2>. QED  BY <1>2, <1>5
  <1>. QED  BY <1>1, <1>6

\* Which packets wait, told by their numbers: one from the window's position on
\* and before them is missing.
WaitsByNumber ==
    \A q \in Queues : \A id \in Ids :
        id \in OutOfOrder(q) <=>
            /\ Held(q, id)
            /\ \E m \in Nat : m >= Position(win[q]) /\ m <= queue[q][id] /\ ~Held(q, Id(m))

LEMMA DistanceExact ==
    ASSUME NEW w \in WindowType, NEW d \in Nat, d < Mod
    PROVE  (Id(Position(w) + d) - w.base + Mod) % Mod = d
  <1>1. /\ w.base \in Nat /\ w.base < Mod /\ Position(w) \in Nat
        /\ Id(Position(w) + d) = (w.base + d) % Mod
    BY PositionType, IdFromBase
  <1>2. d \in Ids /\ Mod \in Nat
    BY WindowAssumption DEF Ids
  <1>3. CASE w.base + d < Mod
    <2>1. (w.base + d) % Mod = w.base + d
      <3>1. w.base + d = 0 * Mod + (w.base + d) /\ w.base + d \in Ids /\ w.base + d \in Nat
        BY <1>1, <1>2, <1>3 DEF Ids
      <3>2. Id(w.base + d) = w.base + d
        BY <3>1, SplitUnique
      <3>. QED  BY <3>2 DEF Id
    <2>2. d + Mod = 1 * Mod + d /\ d + Mod \in Nat /\ 1 \in Int
      BY <1>2
    <2>3. Id(d + Mod) = d
      BY <1>2, <2>2, SplitUnique
    <2>4. (w.base + d) - w.base + Mod = d + Mod
      BY <1>1, <1>2
    <2>. QED  BY <1>1, <2>1, <2>3, <2>4 DEF Id
  <1>4. CASE w.base + d >= Mod
    <2>1. w.base + d = 1 * Mod + (w.base + d - Mod) /\ w.base + d - Mod \in Ids
      BY <1>1, <1>2, <1>4, WindowAssumption DEF Ids
    <2>2. Id(w.base + d) = w.base + d - Mod
      BY <1>1, <2>1, SplitUnique
    <2>3. d % Mod = d
      BY <1>2 DEF Ids
    <2>4. (w.base + d - Mod) - w.base + Mod = d
      BY <1>1, <1>2
    <2>. QED  BY <1>1, <2>2, <2>3, <2>4 DEF Id
  <1>. QED  BY <1>1, <1>2, <1>3, <1>4

LEMMA WaitingIsByNumber == IInv => WaitsByNumber
  <1>. SUFFICES ASSUME IInv, NEW q \in Queues, NEW id \in Ids
                PROVE  id \in OutOfOrder(q) <=>
                         /\ Held(q, id)
                         /\ \E m \in Nat : /\ m >= Position(win[q]) /\ m <= queue[q][id]
                                           /\ ~Held(q, Id(m))
    BY DEF WaitsByNumber
  <1>1. CASE ~Held(q, id)
    BY <1>1 DEF OutOfOrder, HeldIds
  <1>2. CASE Held(q, id)
    <2>. DEFINE pos == Position(win[q])
                d   == queue[q][id] - pos
    <2>1. /\ win[q] \in WindowType /\ pos \in Nat /\ next[q] = win[q].base
          /\ queue[q][id] \in Nat /\ Id(queue[q][id]) = id
          /\ queue[q][id] >= pos /\ queue[q][id] < pos + Window
      BY <1>2, QueueFacts
    <2>2. d \in Nat /\ d < Mod /\ queue[q][id] = pos + d
      BY <2>1, WindowAssumption
    <2>. HIDE DEF d, pos
    <2>3. (id - next[q] + Mod) % Mod = d
      BY <2>1, <2>2, DistanceExact DEF pos
    <2>4. \A k \in Nat : Id(pos + k) = (next[q] + k) % Mod
      BY <2>1, IdFromBase DEF pos
    <2>5. id \in OutOfOrder(q) <=> \E k \in 0 .. d : ~Held(q, Id(pos + k))
      <3>1. id \in OutOfOrder(q) <=> \E k \in 0 .. d : ~Held(q, (next[q] + k) % Mod)
        BY <1>2, <2>3 DEF OutOfOrder, HeldIds
      <3>2. \A k \in 0 .. d : k \in Nat
        BY <2>2
      <3>. QED  BY <2>4, <3>1, <3>2
    <2>6. (\E k \in 0 .. d : ~Held(q, Id(pos + k)))
            <=> \E m \in Nat : m >= pos /\ m <= queue[q][id] /\ ~Held(q, Id(m))
      <3>1. ASSUME NEW k \in 0 .. d
            PROVE  pos + k \in Nat /\ pos + k >= pos /\ pos + k <= queue[q][id]
        BY <2>1, <2>2
      <3>2. ASSUME NEW m \in Nat, m >= pos, m <= queue[q][id]
            PROVE  m - pos \in 0 .. d /\ pos + (m - pos) = m
        BY <2>1, <2>2, <3>2
      <3>. HIDE DEF Id
      <3>3. ASSUME NEW k \in 0 .. d, ~Held(q, Id(pos + k))
            PROVE  \E m \in Nat : m >= pos /\ m <= queue[q][id] /\ ~Held(q, Id(m))
        BY <3>1, <3>3
      <3>4. ASSUME NEW m \in Nat, m >= pos, m <= queue[q][id], ~Held(q, Id(m))
            PROVE  \E k \in 0 .. d : ~Held(q, Id(pos + k))
        BY <3>2, <3>4
      <3>. QED  BY <3>3, <3>4
    <2>. QED  BY <1>2, <2>5, <2>6 DEF pos
  <1>. QED  BY <1>1, <1>2

LEMMA WaitingIsByNumberNext == IInv' => WaitsByNumber'
  BY WaitingIsByNumber, PTL

LEMMA ByteHeldNext ==
    \A b : b \in BytesHeld' <=>
        \E q \in Queues : \E id \in HeldIds(q)' : b \in BytesOf(q, {queue'[q][id]})
  BY DEF BytesHeld, BytesOf, HeldUnder

LEMMA ByteWaitsNext ==
    \A b : b \in BytesWaiting' <=>
        \E q \in Queues : \E id \in OutOfOrder(q)' : b \in BytesOf(q, {queue'[q][id]})
  BY DEF BytesWaiting, BytesOf, HeldUnder

\* While nothing is put in a queue but what does not wait, no more bytes wait.
LEMMA FewerWait ==
    ASSUME IInv, BytesAreBounded,
           \A q \in Queues : \A id \in OutOfOrder(q)' :
               id \in OutOfOrder(q) /\ queue'[q][id] = queue[q][id]
    PROVE  Cardinality(BytesWaiting') <= MaxQueuedBytes
  <1>1. BytesWaiting' \subseteq BytesWaiting
    BY ByteWaits, ByteWaitsNext
  <1>2. IsFiniteSet(BytesWaiting) /\ Cardinality(BytesWaiting) \in Nat
    BY HeldIsCounted
  <1>3. IsFiniteSet(BytesWaiting') /\ Cardinality(BytesWaiting') <= Cardinality(BytesWaiting)
    BY <1>1, <1>2, FS_Subset
  <1>4. Cardinality(BytesWaiting') \in Nat
    BY <1>3, FS_CardinalityType
  <1>5. Cardinality(BytesWaiting) <= MaxQueuedBytes /\ MaxQueuedBytes \in Nat
    BY StreamAssumption DEF BytesAreBounded
  <1>. QED  BY <1>2, <1>3, <1>4, <1>5

\* A packet that is put in a queue adds its bytes, unless it is there already.
LEMMA ReceiveCounts ==
    ASSUME IInv, BytesAreBounded, NEW q \in Queues, NEW n \in Numbers(q), NEW reaches \in BOOLEAN,
           Receive(q, n, reaches)
    PROVE  BytesAreBounded'
  <1>1. /\ UNCHANGED <<win, next>>
        /\ queue' = [queue EXCEPT ![q][Id(n)] = n]
        /\ queuedBytes' = queuedBytes - HeldSize(q, Id(n)) + Packet(q, n).size
        /\ ~NoRoom(q, n)
        /\ Decrypts(win[q], n) /\ IsInWindow(win[q], Id(n)) /\ n < sent[q]
    BY DEF Receive, Arrives
  <1>2. n \in Nat /\ Id(n) \in Ids
    BY IdAndGen, StreamAssumption DEF Numbers
  <1>3. n >= Position(win[q]) /\ n < Position(win[q]) + Window
    BY <1>1, <1>2, QueueFacts, InWindowExact
  <1>4. queue \in [Queues -> [Ids -> Nat \cup {NoPacket}]]
    BY DEF IInv, TypeOK
  <1>5. \A p \in Queues : \A id \in Ids :
          queue'[p][id] = IF p = q /\ id = Id(n) THEN n ELSE queue[p][id]
    BY <1>1, <1>2, <1>4
  <1>6. WaitsByNumber /\ WaitsByNumber'
    <2>1. IInv'
      BY <1>2, ReceiveStep
    <2>. QED  BY <2>1, WaitingIsByNumber, WaitingIsByNumberNext
  <1>7. /\ Packet(q, n).size \in Nat /\ IsFiniteSet(BytesOf(q, {n}))
        /\ Cardinality(BytesOf(q, {n})) = Packet(q, n).size
    BY PacketBytes DEF SizeOf
  <1>8. /\ IsFiniteSet(BytesHeld) /\ Cardinality(BytesHeld) \in Nat
        /\ queuedBytes = Cardinality(BytesHeld) /\ MaxQueuedBytes \in Nat
    BY HeldIsCounted, StreamAssumption DEF BytesAreBounded
  <1>9. CASE Held(q, Id(n))
    <2>1. queue[q][Id(n)] = n
      <3>1. /\ queue[q][Id(n)] \in Nat /\ Id(queue[q][Id(n)]) = Id(n)
            /\ queue[q][Id(n)] >= Position(win[q]) /\ queue[q][Id(n)] < Position(win[q]) + Window
            /\ Position(win[q]) \in Nat
        BY <1>2, <1>9, QueueFacts
      <3>2. queue[q][Id(n)] - n < Mod /\ n - queue[q][Id(n)] < Mod
        BY <1>2, <1>3, <3>1, WindowAssumption
      <3>. HIDE DEF Id
      <3>. QED  BY <1>2, <3>1, <3>2, SameId
    <2>2. queue' = queue
      BY <1>1, <1>2, <1>4, <2>1
    <2>3. \A p \in Queues : HeldIds(p)' = HeldIds(p) /\ OutOfOrder(p)' = OutOfOrder(p)
      BY <1>1, <2>2 DEF HeldIds, Held, OutOfOrder
    <2>4. BytesHeld' = BytesHeld
      BY <2>2, <2>3, ByteHeld, ByteHeldNext
    <2>5. HeldSize(q, Id(n)) = Packet(q, n).size
      BY <1>9, <2>1 DEF HeldSize
    <2>6. queuedBytes' = queuedBytes
      BY <1>1, <1>7, <1>8, <2>5
    <2>7. Cardinality(BytesWaiting') <= MaxQueuedBytes
      BY <2>2, <2>3, FewerWait
    <2>. QED  BY <1>8, <2>4, <2>6, <2>7 DEF BytesAreBounded
  <1>10. CASE ~Held(q, Id(n))
    <2>1. n # NoPacket
      BY <1>2 DEF NoPacket
    <2>2. \A p \in Queues : \A id \in Ids : Held(p, id)' <=> Held(p, id) \/ (p = q /\ id = Id(n))
      BY <1>5, <2>1 DEF Held
    <2>3. BytesHeld' = BytesHeld \cup BytesOf(q, {n})
      <3>1. \A p \in Queues : \A id \in HeldIds(p) : queue'[p][id] = queue[p][id]
        BY <1>5, <1>10 DEF HeldIds
      <3>2. queue'[q][Id(n)] = n
        BY <1>2, <1>5
      <3>3. \A p \in Queues : HeldIds(p) \subseteq HeldIds(p)'
        BY <2>2 DEF HeldIds
      <3>4. Id(n) \in HeldIds(q)'
        BY <1>2, <2>2 DEF HeldIds
      <3>5. \A p \in Queues : \A id \in HeldIds(p)' : id \in HeldIds(p) \/ (p = q /\ id = Id(n))
        BY <2>2 DEF HeldIds
      <3>6. ASSUME NEW b \in BytesHeld'  PROVE b \in BytesHeld \cup BytesOf(q, {n})
        <4>1. PICK p \in Queues : \E id \in HeldIds(p)' : b \in BytesOf(p, {queue'[p][id]})
          BY <3>6, ByteHeldNext
        <4>. QED  BY <3>1, <3>2, <3>5, <4>1, ByteHeld
      <3>7. ASSUME NEW b \in BytesHeld  PROVE b \in BytesHeld'
        <4>1. PICK p \in Queues : \E id \in HeldIds(p) : b \in BytesOf(p, {queue[p][id]})
          BY <3>7, ByteHeld
        <4>. QED  BY <3>1, <3>3, <4>1, ByteHeldNext
      <3>8. ASSUME NEW b \in BytesOf(q, {n})  PROVE b \in BytesHeld'
        BY <3>2, <3>4, <3>8, ByteHeldNext
      <3>. QED  BY <3>6, <3>7, <3>8
    <2>4. BytesHeld \cap BytesOf(q, {n}) = {}
      <3>. SUFFICES ASSUME NEW p \in Queues, NEW id \in HeldIds(p), NEW b,
                           b \in BytesOf(p, {queue[p][id]}), b \in BytesOf(q, {n})
                    PROVE  FALSE
        BY ByteHeld
      <3>1. p = q /\ queue[p][id] = n
        BY BytesApart
      <3>2. id \in Ids /\ Held(p, id)
        BY DEF HeldIds
      <3>3. Id(n) = id
        BY <3>1, <3>2, QueueFacts
      <3>. QED  BY <1>10, <3>1, <3>2, <3>3
    <2>5. /\ IsFiniteSet(BytesHeld')
          /\ Cardinality(BytesHeld') = Cardinality(BytesHeld) + Packet(q, n).size
      <3>1. /\ IsFiniteSet(BytesHeld \cup BytesOf(q, {n}))
            /\ Cardinality(BytesHeld \cup BytesOf(q, {n}))
                 = Cardinality(BytesHeld) + Cardinality(BytesOf(q, {n})) - Cardinality({})
        BY <1>7, <1>8, <2>4, FS_Union
      <3>2. Cardinality({}) = 0
        BY FS_EmptySet
      <3>. QED  BY <1>7, <1>8, <2>3, <3>1, <3>2
    <2>6. queuedBytes' = queuedBytes + Packet(q, n).size
      BY <1>1, <1>7, <1>8, <1>10 DEF HeldSize
    <2>7. CASE Id(n) # Needed(q)
      <3>1. queuedBytes' <= MaxQueuedBytes
        BY <1>1, <1>7, <1>8, <1>10, <2>6, <2>7 DEF NoRoom, HeldSize
      <3>2. \A p \in Queues : OutOfOrder(p)' \subseteq HeldIds(p)'
        BY DEF OutOfOrder
      <3>3. BytesWaiting' \subseteq BytesHeld'
        BY <3>2, ByteHeldNext, ByteWaitsNext
      <3>4. /\ IsFiniteSet(BytesWaiting')
            /\ Cardinality(BytesWaiting') <= Cardinality(BytesHeld')
        BY <2>5, <3>3, FS_Subset
      <3>5. Cardinality(BytesWaiting') \in Nat
        BY <3>4, FS_CardinalityType
      <3>. QED  BY <1>7, <1>8, <2>5, <2>6, <3>1, <3>4, <3>5 DEF BytesAreBounded
    <2>8. CASE Id(n) = Needed(q)
      <3>1. ASSUME NEW m \in Nat, m >= Position(win[q]), m < n  PROVE Held(q, Id(m))
        <4>. DEFINE pos == Position(win[q])
        <4>1. win[q] \in WindowType /\ pos \in Nat /\ next[q] = win[q].base
          BY QueueFacts
        <4>2. \A j \in Nat : Id(pos + j) = (next[q] + j) % Mod
          BY <4>1, IdFromBase
        <4>3. PICK k \in Nat : /\ Id(n) = (next[q] + k) % Mod
                               /\ \A j \in 0 .. (k - 1) : Held(q, (next[q] + j) % Mod)
          BY <2>8, NeededIs
        <4>. HIDE DEF pos, Id
        <4>4. m >= pos /\ n < pos + Window /\ Id(n) = Id(pos + k)
          BY <1>3, <3>1, <4>2, <4>3 DEF pos
        <4>5. CASE m - pos < k
          <5>1. m - pos \in Nat /\ m - pos \in 0 .. (k - 1) /\ pos + (m - pos) = m
            BY <4>1, <4>4, <4>5
          <5>. QED  BY <4>2, <4>3, <5>1
        <4>6. CASE m - pos >= k
          <5>1. pos + k \in Nat /\ pos + k <= m
            BY <4>1, <4>6
          <5>2. n - (pos + k) < Mod /\ (pos + k) - n < Mod
            BY <1>2, <3>1, <4>1, <4>4, <5>1, WindowAssumption
          <5>3. n = pos + k
            BY <1>2, <4>4, <5>1, <5>2, SameId
          <5>. QED  BY <1>2, <3>1, <5>1, <5>3
        <4>. QED  BY <4>1, <4>5, <4>6
      <3>2. ASSUME NEW p \in Queues, NEW id \in OutOfOrder(p)'
            PROVE  id \in OutOfOrder(p) /\ queue'[p][id] = queue[p][id]
        <4>1. id \in Ids /\ Held(p, id)'
          BY <3>2 DEF OutOfOrder, HeldIds
        <4>2. PICK m \in Nat : /\ m >= Position(win[p]) /\ m <= queue'[p][id]
                               /\ ~Held(p, Id(m))'
          <5>1. win'[p] = win[p]
            BY <1>1
          <5>. QED  BY <1>6, <3>2, <4>1, <5>1 DEF WaitsByNumber, Position, Id
        <4>3. Id(m) \in Ids /\ ~Held(p, Id(m))
          <5>1. Id(m) \in Ids
            BY IdAndGen
          <5>2. queue'[p][Id(m)] = NoPacket
            BY <4>2 DEF Held, Id
          <5>. QED  BY <1>5, <2>1, <5>1, <5>2 DEF Held
        <4>4. ~(p = q /\ id = Id(n))
          <5>. SUFFICES ASSUME p = q, id = Id(n)  PROVE FALSE
            OBVIOUS
          <5>1. m <= n
            BY <1>5, <4>1, <4>2
          <5>2. CASE m < n
            BY <3>1, <4>2, <4>3, <5>2
          <5>3. CASE m = n
            <6>1. queue'[q][Id(n)] = n
              BY <1>2, <1>5
            <6>2. queue'[q][Id(n)] = NoPacket
              BY <4>2, <5>3 DEF Held, Id
            <6>. QED  BY <2>1, <6>1, <6>2
          <5>. QED  BY <1>2, <5>1, <5>2, <5>3
        <4>5. queue'[p][id] = queue[p][id] /\ Held(p, id)
          BY <1>5, <2>2, <4>1, <4>4
        <4>. QED  BY <1>6, <4>1, <4>2, <4>3, <4>5 DEF WaitsByNumber
      <3>3. Cardinality(BytesWaiting') <= MaxQueuedBytes
        BY <3>2, FewerWait
      <3>. QED  BY <1>8, <2>5, <2>6, <3>3 DEF BytesAreBounded
    <2>. QED  BY <2>7, <2>8
  <1>. QED  BY <1>9, <1>10

\* A command that is taken takes its bytes with it, and nothing waits that did not.
LEMMA TakeCounts ==
    ASSUME IInv, BytesAreBounded, NEW q \in Queues, TakeCommand(q)
    PROVE  BytesAreBounded'
  <1>1. PICK count : count = CommandLength(q)
    OBVIOUS
  <1>. DEFINE ids   == Front(q, count)
              pos   == Position(win[q])
              taken == BytesOf(q, HeldUnder(q, ids))
  <1>2. queuedBytes' = queuedBytes - SizeOf(q, HeldUnder(q, ids))
    BY <1>1 DEF TakeCommand, Released
  <1>3. /\ count \in Nat /\ count <= Mod /\ pos \in Nat
        /\ \A k \in 0 .. (count - 1) :
             /\ Held(q, (next[q] + k) % Mod) /\ (next[q] + k) % Mod \in Ids
             /\ queue[q][(next[q] + k) % Mod] = pos + k
        /\ \A p \in Queues : \A id \in Ids :
             queue'[p][id] = IF p = q /\ id \in ids THEN NoPacket ELSE queue[p][id]
        /\ \A p \in Queues : Position(win'[p]) = Position(win[p]) + (IF p = q THEN count ELSE 0)
    BY <1>1, TakeMoves, QueueFacts
  <1>4. ids \subseteq HeldIds(q)
    BY <1>3 DEF Front, HeldIds
  <1>5. \A p \in Queues : \A id \in Ids :
          Held(p, id)' <=> Held(p, id) /\ ~(p = q /\ id \in ids)
    BY <1>3 DEF Held
  <1>6. /\ IsFiniteSet(BytesHeld) /\ Cardinality(BytesHeld) \in Nat
        /\ queuedBytes = Cardinality(BytesHeld)
    BY HeldIsCounted DEF BytesAreBounded
  <1>7. \A b : b \in taken <=> \E id \in ids : b \in BytesOf(q, {queue[q][id]})
    BY DEF BytesOf, HeldUnder
  <1>. HIDE DEF ids, taken
  <1>8. taken \subseteq BytesHeld
    BY <1>4, <1>7, ByteHeld
  <1>9. BytesHeld' = BytesHeld \ taken
    <2>1. \A p \in Queues : \A id \in HeldIds(p)' :
            id \in HeldIds(p) /\ queue'[p][id] = queue[p][id] /\ ~(p = q /\ id \in ids)
      BY <1>3, <1>5 DEF HeldIds
    <2>2. \A p \in Queues : \A id \in HeldIds(p) : ~(p = q /\ id \in ids) => id \in HeldIds(p)'
      BY <1>5 DEF HeldIds
    <2>3. ASSUME NEW b \in BytesHeld'  PROVE b \in BytesHeld \ taken
      <3>1. PICK p \in Queues : \E i \in HeldIds(p)' : b \in BytesOf(p, {queue'[p][i]})
        BY <2>3, ByteHeldNext
      <3>2. PICK id \in HeldIds(p)' : b \in BytesOf(p, {queue'[p][id]})
        BY <3>1
      <3>3. id \in HeldIds(p) /\ b \in BytesOf(p, {queue[p][id]}) /\ ~(p = q /\ id \in ids)
        BY <2>1, <3>2
      <3>4. b \in BytesHeld
        BY <3>3, ByteHeld
      <3>5. ASSUME b \in taken  PROVE FALSE
        <4>1. PICK j \in ids : b \in BytesOf(q, {queue[q][j]})
          BY <1>7, <3>5
        <4>2. p = q /\ queue[q][j] = queue[q][id]
          BY <3>3, <4>1, BytesApart
        <4>3. /\ j \in Ids /\ Held(q, j) /\ id \in Ids /\ Held(q, id)
          BY <1>4, <3>3, <4>1, <4>2 DEF HeldIds
        <4>4. Id(queue[q][j]) = j /\ Id(queue[q][id]) = id
          BY <4>3, QueueFacts
        <4>. QED  BY <3>3, <4>1, <4>2, <4>4
      <3>. QED  BY <3>4, <3>5
    <2>4. ASSUME NEW b \in BytesHeld, b \notin taken  PROVE b \in BytesHeld'
      <3>1. PICK p \in Queues : \E i \in HeldIds(p) : b \in BytesOf(p, {queue[p][i]})
        BY <2>4, ByteHeld
      <3>2. PICK id \in HeldIds(p) : b \in BytesOf(p, {queue[p][id]})
        BY <3>1
      <3>3. ~(p = q /\ id \in ids)
        BY <1>7, <2>4, <3>2
      <3>4. id \in HeldIds(p)' /\ queue'[p][id] = queue[p][id]
        BY <2>1, <2>2, <3>3
      <3>. QED  BY <3>2, <3>4, ByteHeldNext
    <2>. QED  BY <2>3, <2>4
  <1>10. Cardinality(BytesHeld') = queuedBytes'
    <2>1. BytesHeld \cap taken = taken
      BY <1>8
    <2>2. Cardinality(BytesHeld \ taken) = Cardinality(BytesHeld) - Cardinality(BytesHeld \cap taken)
      BY <1>6, FS_Difference
    <2>3. queuedBytes' = queuedBytes - Cardinality(taken)
      BY <1>2 DEF SizeOf, taken
    <2>. QED  BY <1>6, <1>9, <2>1, <2>2, <2>3
  <1>11. WaitsByNumber /\ WaitsByNumber'
    <2>1. IInv'
      BY TakeCommandStep
    <2>. QED  BY <2>1, WaitingIsByNumber, WaitingIsByNumberNext
  <1>12. ASSUME NEW p \in Queues, NEW id \in OutOfOrder(p)'
         PROVE  id \in OutOfOrder(p) /\ queue'[p][id] = queue[p][id]
    <2>1. id \in Ids /\ Held(p, id)'
      BY <1>12 DEF OutOfOrder, HeldIds
    <2>2. queue'[p][id] = queue[p][id] /\ Held(p, id)
      BY <1>3, <1>5, <2>1
    <2>3. PICK m \in Nat : /\ m >= Position(win'[p]) /\ m <= queue'[p][id]
                           /\ ~Held(p, Id(m))'
      BY <1>11, <1>12, <2>1 DEF WaitsByNumber, Position, Id
    <2>4. Id(m) \in Ids /\ queue'[p][Id(m)] = NoPacket
      BY <2>3, IdAndGen DEF Held, Id
    <2>5. /\ Position(win[p]) \in Nat /\ queue[p][id] \in Nat
          /\ queue[p][id] < Position(win[p]) + Window
      BY <2>1, <2>2, QueueFacts
    <2>6. m >= Position(win[p]) /\ (p = q => m >= pos + count)
      BY <1>3, <2>3, <2>5
    <2>7. ~Held(p, Id(m))
      <3>. SUFFICES ASSUME Held(p, Id(m))  PROVE FALSE
        OBVIOUS
      <3>1. p = q /\ Id(m) \in ids
        BY <1>3, <2>4 DEF Held
      <3>2. PICK k \in 0 .. (count - 1) : Id(m) = (next[q] + k) % Mod
        BY <3>1 DEF Front, ids
      <3>3. queue[q][Id(m)] = pos + k
        BY <1>3, <3>2
      <3>4. Id(pos + k) = Id(m)
        BY <2>4, <3>1, <3>3, QueueFacts
      <3>. HIDE DEF pos, Id
      <3>5. m < pos + Window /\ pos + k \in Nat
        BY <1>3, <2>2, <2>3, <2>5, <3>1, WindowAssumption DEF pos
      <3>6. m - (pos + k) < Mod /\ (pos + k) - m < Mod
        BY <1>3, <2>6, <3>1, <3>5, WindowAssumption
      <3>7. m = pos + k
        BY <3>4, <3>5, <3>6, SameId
      <3>. QED  BY <1>3, <2>6, <3>1, <3>7
    <2>. QED  BY <1>11, <2>1, <2>2, <2>3, <2>6, <2>7 DEF WaitsByNumber
  <1>13. Cardinality(BytesWaiting') <= MaxQueuedBytes
    BY <1>12, FewerWait
  <1>. QED  BY <1>10, <1>13 DEF BytesAreBounded

\* A step that leaves the queues alone leaves their bytes alone.
LEMMA BytesKept ==
    ASSUME IInv, BytesAreBounded, UNCHANGED <<next, queue, queuedBytes>>
    PROVE  BytesAreBounded'
  <1>1. \A p \in Queues : HeldIds(p)' = HeldIds(p) /\ OutOfOrder(p)' = OutOfOrder(p)
    BY DEF HeldIds, Held, OutOfOrder
  <1>2. BytesHeld' = BytesHeld
    BY <1>1, ByteHeld, ByteHeldNext
  <1>3. Cardinality(BytesWaiting') <= MaxQueuedBytes
    BY <1>1, FewerWait
  <1>. QED  BY <1>2, <1>3 DEF BytesAreBounded

\* #queuedBytes is exactly what the queues hold, and what waits for an earlier packet
\* stays within MAX_QUEUED_BYTES whatever arrives in whatever order: the packet the
\* queue needs next, taken whatever its size, is not one that waits.
THEOREM BytesAlwaysBounded == Spec => []BytesAreBounded
  <1>1. Init => BytesAreBounded
    <2>. SUFFICES ASSUME Init  PROVE BytesAreBounded
      OBVIOUS
    <2>1. \A q \in Queues : HeldIds(q) = {} /\ OutOfOrder(q) = {}
      BY DEF Init, HeldIds, Held, OutOfOrder
    <2>2. BytesHeld = {} /\ BytesWaiting = {}
      BY <2>1, ByteHeld, ByteWaits
    <2>. QED  BY <2>2, FS_EmptySet, StreamAssumption DEF Init, BytesAreBounded
  <1>2. IInv /\ BytesAreBounded /\ [Next]_vars => BytesAreBounded'
    <2>. SUFFICES ASSUME IInv, BytesAreBounded, [Next]_vars  PROVE BytesAreBounded'
      OBVIOUS
    <2>1. ASSUME NEW q \in Queues, ServerSend(q)  PROVE BytesAreBounded'
      BY <2>1, BytesKept DEF ServerSend
    <2>2. ASSUME NEW q \in Queues, NEW n \in Numbers(q), NEW reaches \in BOOLEAN,
                 ReceiveOld(q, n, reaches)
          PROVE  BytesAreBounded'
      BY <2>2, BytesKept DEF ReceiveOld
    <2>3. ASSUME NEW q \in Queues, NEW n \in Numbers(q), NEW reaches \in BOOLEAN,
                 Receive(q, n, reaches)
          PROVE  BytesAreBounded'
      BY <2>3, ReceiveCounts
    <2>4. ASSUME NEW q \in Queues, TakeCommand(q)  PROVE BytesAreBounded'
      BY <2>4, TakeCounts
    <2>5. ASSUME NEW q \in Queues, EndOfLoop(q)  PROVE BytesAreBounded'
      BY <2>5, BytesKept DEF EndOfLoop
    <2>6. CASE Tick
      BY <2>6, BytesKept DEF Tick
    <2>7. CASE Close
      BY <2>7, BytesKept DEF Close
    <2>8. CASE UNCHANGED vars
      BY <2>8, BytesKept DEF vars
    <2>. QED  BY <2>1, <2>2, <2>3, <2>4, <2>5, <2>6, <2>7, <2>8 DEF Next
  <1>. QED  BY <1>1, <1>2, Inductive, PTL DEF Spec

=============================================================================
