---------------------------- MODULE TransportProof ----------------------------
(***************************************************************************)
(* The transport beside the commands.  UnackedReceive keeps count for      *)
(* every number of ids and of packets.  In a Handshake, for any puzzles,   *)
(* any number of restarts and any time-out, both sides build their keys    *)
(* from one alpha (KeysAgree), and every command keeps the key it first    *)
(* went out under (ResendsKeepTheirKey).  The two share no state.          *)
(***************************************************************************)
EXTENDS UnackedReceive, Handshake, GenerationWindowProof, TLAPS

-----------------------------------------------------------------------------
(* Packets that are not acknowledged.  TypeOK and WindowFollows together   *)
(* are inductive: the window is only ever moved by the index of a packet   *)
(* whose place the lemmas of GenerationWindowProof give exactly.           *)

UnackedInv == TypeOK /\ WindowFollows

\* Taking a packet whose generation is the one getGeneration found moves the
\* window to just past it if it is new, and leaves it alone if it is stale.
LEMMA TakeKeepsCount ==
    ASSUME UnackedInv, NEW n \in Nat, n < sent, Decrypts(win, n), Take(n)
    PROVE  UnackedInv'
  <1>1. /\ win \in WindowType /\ sent \in Nat /\ sent <= MaxPackets
        /\ top \in Nat /\ top <= sent /\ Position(win) = top
    BY PacketsAssumption DEF UnackedInv, TypeOK, WindowFollows
  <1>2. MappedToIndex(win, Id(n)) = n - top
    BY <1>1, IndexExact
  <1>3. CASE n < top
    <2>1. win' = win /\ top' = top /\ sent' = sent
      BY <1>1, <1>2, <1>3 DEF Take, AdvanceAfter
    <2>. QED  BY <2>1 DEF UnackedInv, TypeOK, WindowFollows, Position
  <1>4. CASE n >= top
    <2>1. win' = Advance(win, n - top + 1) /\ top' = n + 1 /\ sent' = sent
      BY <1>1, <1>2, <1>4 DEF Take, AdvanceAfter
    <2>2. n - top + 1 \in Nat /\ Position(win) + (n - top + 1) < MaxGen * Mod
      BY <1>1, <1>4, PacketsAssumption, WindowAssumption
    <2>3. win' \in WindowType /\ Position(win') = n + 1
      BY <1>1, <1>4, <2>1, <2>2, AdvanceExact
    <2>. QED  BY <1>1, <2>1, <2>3 DEF UnackedInv, TypeOK, WindowFollows, Position
  <1>. QED  BY <1>1, <1>3, <1>4

\* The inductive invariant holds in every reachable state.
THEOREM WindowKeepsCount == UnackedSpec => []UnackedInv
  <1>1. UnackedInit => UnackedInv
    BY WindowAssumption, PacketsAssumption
    DEF UnackedInit, UnackedInv, TypeOK, WindowFollows, NewWindow, WindowType, Ids, Position
  <1>2. UnackedInv /\ [UnackedNext]_unackedVars => UnackedInv'
    <2>. SUFFICES ASSUME UnackedInv, [UnackedNext]_unackedVars  PROVE UnackedInv'
      OBVIOUS
    <2>1. CASE ServerSend
      BY <2>1, PacketsAssumption DEF UnackedInv, TypeOK, WindowFollows, ServerSend, Position
    <2>2. ASSUME NEW n \in 0 .. (MaxPackets - 1), ReceiveEncrypted(n)  PROVE UnackedInv'
      BY <2>2, TakeKeepsCount DEF ReceiveEncrypted
    <2>3. ASSUME NEW n \in 0 .. (MaxPackets - 1), ReceivePlain(n)  PROVE UnackedInv'
      <3>1. win \in WindowType /\ Position(win) = top
        BY DEF UnackedInv, TypeOK, WindowFollows
      <3>2. n \in Nat /\ n >= Position(win) - Window /\ n < Position(win) + Window
        BY <2>3, <3>1 DEF ReceivePlain
      <3>3. Decrypts(win, n)
        BY <3>1, <3>2, NearDecrypts
      <3>. QED  BY <2>3, <3>2, <3>3, TakeKeepsCount DEF ReceivePlain
    <2>4. CASE UNCHANGED unackedVars
      BY <2>4 DEF UnackedInv, TypeOK, WindowFollows, unackedVars, Position
    <2>. QED  BY <2>1, <2>2, <2>3, <2>4 DEF UnackedNext
  <1>. QED  BY <1>1, <1>2, PTL DEF UnackedSpec

\* The receive window of an unacknowledged kind stands exactly one past the
\* highest packet taken, however many wraps, losses and late packets there were.
THEOREM Follows == UnackedSpec => []WindowFollows
  <1>1. UnackedInv => WindowFollows
    BY DEF UnackedInv
  <1>. QED  BY <1>1, WindowKeepsCount, PTL

\* Every packet less than Window away from the newest one decrypts, and counts
\* as stale exactly when it is older: a loss of fewer packets than that, across
\* a wrap or not, never loses the session's key.
THEOREM NearPackets == UnackedSpec => []NearPacketsArePlaced
  <1>1. UnackedInv => NearPacketsArePlaced
    <2>. SUFFICES ASSUME UnackedInv, NEW n \in 0 .. MaxPackets,
                         n >= top - Window, n < top + Window
                  PROVE  Decrypts(win, n) /\ (IsOldPacket(win, Id(n)) <=> n < top)
      BY DEF NearPacketsArePlaced
    <2>1. win \in WindowType /\ Position(win) = top /\ n \in Nat
      BY PacketsAssumption DEF UnackedInv, TypeOK, WindowFollows
    <2>2. Decrypts(win, n)
      BY <2>1, NearDecrypts
    <2>. QED  BY <2>1, <2>2, OldExact
  <1>. QED  BY <1>1, WindowKeepsCount, PTL

-----------------------------------------------------------------------------
(* The handshake.  KeysAgree is not inductive: a step that builds the keys *)
(* needs that the alpha the client holds is the one the server answered.   *)
(* It is, because an attempt chooses one alpha only (OneAlpha), every      *)
(* answer on its way carries it (AnswersCarryIt), and every offer of keys  *)
(* is for the session made from it (OffersAreForIt).                       *)

\* A puzzle is never the absent one.
PuzzlesAreReal == \A m \in initIn : m.step = 3 => m.puzzle # None

\* One puzzle per attempt: alpha is chosen once, when its solving ends.
OneAlpha ==
    /\ alpha \in {0, 1}
    /\ alpha = 0 <=> answered = None
    /\ solving # None => alpha = 0

\* An answer, on its way or kept to be sent again, carries the one alpha.
AnswersCarryIt ==
    /\ \A m \in initOut : m.step = 4 => m.alpha = 1 /\ alpha = 1
    /\ initPending # None /\ initPending.step = 4 => initPending.alpha = 1 /\ alpha = 1

\* The server has no session before an answer, and offers keys only for it.
OffersAreForIt ==
    /\ phase = "init" => session = 0 /\ cmdIn = {}
    /\ phase # "init" => session = 1 /\ alpha = 1 /\ offer \in KeyOffers
    /\ \A m \in cmdIn : m.cmd \in KeyOffers => m.alpha = 1

\* Times are counted from the first send, and none runs before the keys are there
\* unless the attempt has failed.
TimesAreKept ==
    /\ ackManager \in [Commands -> Nat \cup {NotPending}]
    /\ ~crypto /\ ~closed => dummyIDs = {} /\ \A c \in Commands : ackManager[c] = NotPending

\* An acknowledgement comes under the key its command went out under.
AcksKeepTheirKey ==
    \A m \in cmdIn : m.cmd = "ack" => m.acks \in Commands /\ (m.dummy <=> m.acks = "clientek")

\* Of what is pending, exactly clientek was kept as sent under the dummy key.
KeptWithItsKey ==
    /\ keptDummy \subseteq {"clientek"}
    /\ ackManager["clientek"] # NotPending => "clientek" \in keptDummy

IInv ==
    /\ PuzzlesAreReal
    /\ OneAlpha
    /\ AnswersCarryIt
    /\ OffersAreForIt
    /\ TimesAreKept
    /\ AcksKeepTheirKey
    /\ KeptWithItsKey
    /\ KeysAgree
    /\ ResendsKeepTheirKey

-----------------------------------------------------------------------------

LEMMA InitHolds == Init => IInv
<1> SUFFICES ASSUME Init PROVE IInv
    OBVIOUS
<1>1. /\ initIn = {} /\ cmdIn = {} /\ cmdOut = {} /\ initOut = {Step(0)} /\ initPending = Step(0)
      /\ alpha = 0 /\ answered = None /\ solving = None /\ keys = 0
      /\ phase = "init" /\ session = 0 /\ dummyIDs = {} /\ keptDummy = {}
      /\ ackManager = [c \in Commands |-> NotPending]
    BY DEF Init
<1>2. Step(0).step = 0
    BY DEF Step
<1>3. TimesAreKept
    BY <1>1 DEF TimesAreKept
<1>4. KeptWithItsKey
    BY <1>1 DEF KeptWithItsKey, Commands
<1> QED
    BY <1>1, <1>2, <1>3, <1>4
    DEF IInv, PuzzlesAreReal, OneAlpha, AnswersCarryIt, OffersAreForIt, AcksKeepTheirKey,
        KeysAgree, ResendsKeepTheirKey, crypto

\* What only the commands decide: the times, the keys and the acknowledgements.
CommandsInv == TimesAreKept /\ AcksKeepTheirKey /\ KeptWithItsKey /\ ResendsKeepTheirKey

\* A step that leaves the commands, their times and the keys alone, and does not
\* open the handler again, leaves the facts about them alone.
LEMMA CommandsKept ==
    ASSUME IInv, UNCHANGED <<keys, ackManager, dummyIDs, keptDummy, cmdOut, cmdIn>>, closed => closed'
    PROVE  CommandsInv'
<1>1. TimesAreKept'
    BY DEF IInv, TimesAreKept, crypto
<1>2. AcksKeepTheirKey'
    BY DEF IInv, AcksKeepTheirKey
<1>3. ResendsKeepTheirKey'
    BY DEF IInv, ResendsKeepTheirKey, crypto
<1>4. KeptWithItsKey'
    BY DEF IInv, KeptWithItsKey
<1> QED
    BY <1>1, <1>2, <1>3, <1>4 DEF CommandsInv

\* Init1 steps that are answered at once (ReceiveStep): what goes out is no answer.
LEMMA ReceiveStepStep == ASSUME IInv, NEW m \in initIn, ReceiveStep(m) PROVE IInv'
<1>1. /\ UNCHANGED <<solving, answered, alpha, keys, ackManager, dummyIDs, keptDummy, closed, initIn, cmdOut, cmdIn>>
      /\ UNCHANGED <<session, offer, phase>>
      /\ initOut' = initOut \cup {initPending'}
      /\ initPending' = Step(Reply[m.step])
      /\ keys = 0
    BY DEF ReceiveStep, SendInit1, HearsInit1, crypt, server, crypto
<1>2. initPending'.step \in {0, 1, 2, 3}
    BY <1>1 DEF ReceiveStep, Reply, Restart, Step
<1>3. CommandsInv'
    BY <1>1, CommandsKept
<1>4. PuzzlesAreReal' /\ OneAlpha' /\ OffersAreForIt'
    BY <1>1 DEF IInv, PuzzlesAreReal, OneAlpha, OffersAreForIt
<1>5. AnswersCarryIt'
    BY <1>1, <1>2 DEF IInv, AnswersCarryIt
<1>6. KeysAgree'
    BY <1>1 DEF KeysAgree, crypto
<1> QED
    BY <1>3, <1>4, <1>5, <1>6 DEF IInv, CommandsInv

\* A puzzle: the answer given before goes out again, under the same alpha, or its
\* solving starts, which no answer has come before.
LEMMA ReceivePuzzleStep == ASSUME IInv, NEW m \in initIn, ReceivePuzzle(m) PROVE IInv'
<1>1. /\ UNCHANGED <<answered, alpha, keys, ackManager, dummyIDs, keptDummy, initIn, cmdOut, cmdIn>>
      /\ UNCHANGED <<session, offer, phase>>
      /\ keys = 0 /\ ~closed /\ m.puzzle # None
      /\ solving' = solving \/ (answered = None /\ solving = None)
    BY DEF ReceivePuzzle, HearsInit1, server, crypto, Solves, IInv, PuzzlesAreReal
<1>2. CommandsInv'
    BY <1>1, CommandsKept
<1>3. PuzzlesAreReal' /\ OneAlpha' /\ OffersAreForIt'
    BY <1>1 DEF IInv, PuzzlesAreReal, OneAlpha, OffersAreForIt
<1>4. AnswersCarryIt'
  <2>1. CASE Again(m.puzzle)
    <3>1. initOut' = initOut \cup {Answer(m.puzzle, alpha)} /\ initPending' = Answer(m.puzzle, alpha)
        BY <2>1 DEF ReceivePuzzle, SendInit1
    <3>2. alpha = 1 /\ alpha' = 1
        BY <2>1, <1>1 DEF Again, IInv, OneAlpha
    <3>3. Answer(m.puzzle, alpha).alpha = 1
        BY <3>2 DEF Answer
    <3> QED
        BY <3>1, <3>2, <3>3 DEF IInv, AnswersCarryIt
  <2>2. CASE ~Again(m.puzzle)
      BY <2>2, <1>1 DEF ReceivePuzzle, IInv, AnswersCarryIt
  <2> QED
      BY <2>1, <2>2
<1>5. KeysAgree'
    BY <1>1 DEF KeysAgree, crypto
<1> QED
    BY <1>2, <1>3, <1>4, <1>5 DEF IInv, CommandsInv

\* The solving ends: the attempt's one alpha is chosen, and its answer goes out.
LEMMA SolvedStep == IInv /\ Solved => IInv'
<1> SUFFICES ASSUME IInv, Solved PROVE IInv'
    OBVIOUS
<1>1. alpha = 0 /\ alpha' = 1 /\ solving # None /\ answered' # None /\ solving' = None
    BY DEF IInv, OneAlpha, Solved
<1>2. /\ UNCHANGED <<keys, ackManager, dummyIDs, keptDummy, closed, initIn, cmdOut, cmdIn, session, offer, phase>>
      /\ initOut' = initOut \cup {initPending'}
      /\ initPending' = Answer(solving, 1)
    BY <1>1 DEF Solved, SendInit1, server
<1>3. initPending'.step = 4 /\ initPending'.alpha = 1
    BY <1>2 DEF Answer
<1>4. keys = 0
    BY <1>1 DEF IInv, KeysAgree, crypto
<1>5. CommandsInv'
    BY <1>2, CommandsKept
<1>6. PuzzlesAreReal' /\ OneAlpha' /\ AnswersCarryIt'
    BY <1>1, <1>2, <1>3 DEF IInv, PuzzlesAreReal, OneAlpha, AnswersCarryIt
<1>7. OffersAreForIt'
    BY <1>1, <1>2 DEF IInv, OffersAreForIt
<1>8. KeysAgree'
    BY <1>2, <1>4 DEF KeysAgree, crypto
<1> QED
    BY <1>5, <1>6, <1>7, <1>8 DEF IInv, CommandsInv

\* The solving comes to nothing, or the owner gives the attempt up.
LEMMA GivenUpStep == IInv /\ (SolvingFails \/ Close) => IInv'
<1> SUFFICES ASSUME IInv, SolvingFails \/ Close PROVE IInv'
    OBVIOUS
<1>1. /\ UNCHANGED <<answered, alpha, keys, ackManager, dummyIDs, keptDummy, initPending, initOut, initIn, cmdOut, cmdIn>>
      /\ UNCHANGED <<session, offer, phase>>
      /\ closed' = TRUE /\ (solving' = None \/ solving' = solving)
    BY DEF SolvingFails, Close, network, server, crypt
<1>2. CommandsInv'
    BY <1>1, CommandsKept
<1>3. PuzzlesAreReal' /\ OneAlpha' /\ AnswersCarryIt' /\ OffersAreForIt' /\ KeysAgree'
    BY <1>1 DEF IInv, PuzzlesAreReal, OneAlpha, AnswersCarryIt, OffersAreForIt, KeysAgree, crypto
<1> QED
    BY <1>2, <1>3 DEF IInv, CommandsInv

-----------------------------------------------------------------------------
(* The client's commands.                                                  *)

\* What the commands the client sends say of their key.
LEMMA SentSays ==
    /\ Sent("clientek", TRUE).cmd = "clientek" /\ Sent("clientek", TRUE).dummy = TRUE
    /\ Sent("clientinit", FALSE).cmd = "clientinit" /\ Sent("clientinit", FALSE).dummy = FALSE
  BY DEF Sent

\* initivexpand2: the keys are built from the alpha of the session, clientek is
\* noted as sent under the dummy key, and nothing of Init1 is left to go on.
LEMMA Expand2Step ==
    ASSUME IInv, NEW m \in cmdIn, NEW fits \in BOOLEAN, ReceiveExpand2(m, fits)
    PROVE  IInv'
<1> DEFINE ok == fits /\ alpha # 0
<1>1. /\ UNCHANGED <<solving, answered, alpha, initOut, initIn, cmdIn, session, offer, phase>>
      /\ initPending' = None /\ closed' = ~ok /\ keys = 0 /\ ~closed
      /\ keys' = IF ok THEN alpha ELSE 0
      /\ cmdOut' = cmdOut \cup {Sent("clientek", TRUE)}
                          \cup (IF ok THEN {Sent("clientinit", FALSE)} ELSE {})
      /\ ackManager' = [c \in Commands |-> IF c = "clientek" \/ ok THEN 0 ELSE NotPending]
      /\ dummyIDs' = dummyIDs \cup {"clientek"} /\ keptDummy' = keptDummy \cup {"clientek"}
    BY DEF ReceiveExpand2, HearsCommand, AfterFinalAck, DummySent, crypto, server
<1>2. dummyIDs = {}
    BY <1>1 DEF IInv, TimesAreKept, crypto
<1>3. phase # "init" /\ session = 1 /\ alpha = 1 /\ solving = None
    BY DEF IInv, OffersAreForIt, OneAlpha
<1>4. PuzzlesAreReal' /\ OneAlpha' /\ AnswersCarryIt' /\ OffersAreForIt' /\ AcksKeepTheirKey'
    BY <1>1 DEF IInv, PuzzlesAreReal, OneAlpha, AnswersCarryIt, OffersAreForIt, AcksKeepTheirKey
<1>5. KeysAgree'
    BY <1>1, <1>3 DEF KeysAgree, crypto
<1>6. TimesAreKept'
  <2>1. ackManager' \in [Commands -> Nat \cup {NotPending}]
      BY <1>1
  <2>2. ~crypto' => closed'
      BY <1>1, <1>3 DEF crypto
  <2> QED
      BY <2>1, <2>2 DEF TimesAreKept
<1>7. ResendsKeepTheirKey'
  <2>1. \A s \in cmdOut' : s.dummy <=> s.cmd = "clientek"
      BY <1>1, SentSays DEF IInv, ResendsKeepTheirKey
  <2>2. dummyIDs' = {"clientek"} /\ "clientek" \in Commands /\ ackManager'["clientek"] # NotPending
      BY <1>1, <1>2 DEF Commands, NotPending
  <2> QED
      BY <2>1, <2>2 DEF ResendsKeepTheirKey
<1>8. KeptWithItsKey'
    BY <1>1 DEF IInv, KeptWithItsKey
<1> QED
    BY <1>4, <1>5, <1>6, <1>7, <1>8 DEF IInv

\* clientinitiv: the keys are built from the alpha the server sends back.
LEMMA InitIVStep ==
    ASSUME IInv, NEW m \in cmdIn, NEW fits \in BOOLEAN, ReceiveInitIV(m, fits)
    PROVE  IInv'
<1>1. /\ UNCHANGED <<solving, answered, alpha, dummyIDs, keptDummy, initOut, initIn, cmdIn>>
      /\ UNCHANGED <<session, offer, phase>>
      /\ initPending' = None /\ closed' = ~fits /\ keys = 0 /\ ~closed
      /\ keys' = IF fits THEN m.alpha ELSE 0
      /\ cmdOut' = IF fits THEN cmdOut \cup {Sent("clientinit", FALSE)} ELSE cmdOut
      /\ ackManager' = IF fits THEN [ackManager EXCEPT !["clientinit"] = 0] ELSE ackManager
    BY DEF ReceiveInitIV, HearsCommand, AfterFinalAck, crypto, server
<1>2. dummyIDs = {} /\ ackManager["clientek"] = NotPending /\ ackManager \in [Commands -> Nat \cup {NotPending}]
    BY <1>1 DEF IInv, TimesAreKept, crypto, Commands
<1>3. phase # "init" /\ session = 1 /\ alpha = 1 /\ solving = None /\ m.alpha = 1
    BY DEF IInv, OffersAreForIt, OneAlpha, ReceiveInitIV, KeyOffers
<1>4. PuzzlesAreReal' /\ OneAlpha' /\ AnswersCarryIt' /\ OffersAreForIt' /\ AcksKeepTheirKey'
    BY <1>1 DEF IInv, PuzzlesAreReal, OneAlpha, AnswersCarryIt, OffersAreForIt, AcksKeepTheirKey
<1>5. KeysAgree'
    BY <1>1, <1>3 DEF KeysAgree, crypto
<1>6. TimesAreKept'
  <2>1. ackManager' \in [Commands -> Nat \cup {NotPending}]
      BY <1>1, <1>2
  <2>2. ~crypto' => closed'
    <3>1. CASE fits
        BY <3>1, <1>1, <1>3 DEF crypto
    <3>2. CASE ~fits
        BY <3>2, <1>1
    <3> QED
        BY <3>1, <3>2
  <2> QED
      BY <2>1, <2>2 DEF TimesAreKept
<1>7. ResendsKeepTheirKey'
  <2>1. \A s \in cmdOut' : s.dummy <=> s.cmd = "clientek"
      BY <1>1, SentSays DEF IInv, ResendsKeepTheirKey
  <2>2. dummyIDs' = {} /\ ackManager'["clientek"] = NotPending
      BY <1>1, <1>2 DEF Commands
  <2> QED
      BY <2>1, <2>2 DEF ResendsKeepTheirKey
<1>8. KeptWithItsKey'
    BY <1>1, <1>2 DEF IInv, KeptWithItsKey, Commands
<1> QED
    BY <1>4, <1>5, <1>6, <1>7, <1>8 DEF IInv

\* An acknowledgement: one under the dummy key ends the only wait it is still
\* taken for.
LEMMA AckStep == ASSUME IInv, NEW m \in cmdIn, ReceiveAck(m) PROVE IInv'
<1>1. /\ UNCHANGED <<solving, answered, alpha, keys, initPending, keptDummy, closed>>
      /\ UNCHANGED <<initOut, initIn, cmdOut, cmdIn, session, offer, phase>>
      /\ crypto /\ crypto'
      /\ dummyIDs' = (IF m.dummy THEN dummyIDs \ {m.acks} ELSE dummyIDs)
      /\ ackManager' = [ackManager EXCEPT ![m.acks] = NotPending]
      /\ ackManager \in [Commands -> Nat \cup {NotPending}]
    BY DEF ReceiveAck, crypt, network, server, crypto, IInv, TimesAreKept
<1>2. m.acks \in Commands /\ (m.dummy <=> m.acks = "clientek")
    BY DEF ReceiveAck, IInv, AcksKeepTheirKey
<1>3. PuzzlesAreReal' /\ OneAlpha' /\ AnswersCarryIt' /\ OffersAreForIt' /\ AcksKeepTheirKey' /\ KeysAgree'
    BY <1>1 DEF IInv, PuzzlesAreReal, OneAlpha, AnswersCarryIt, OffersAreForIt, AcksKeepTheirKey,
                KeysAgree, crypto
<1>4. TimesAreKept'
    BY <1>1, <1>2 DEF TimesAreKept
<1>5. ResendsKeepTheirKey'
  <2>1. \A s \in cmdOut' : s.dummy <=> s.cmd = "clientek"
      BY <1>1 DEF IInv, ResendsKeepTheirKey
  <2>2. dummyIDs = {c \in Commands : c = "clientek" /\ ackManager[c] # NotPending}
      BY <1>1 DEF IInv, ResendsKeepTheirKey
  <2>3. dummyIDs' = {c \in Commands : c = "clientek" /\ ackManager'[c] # NotPending}
    <3>1. CASE m.dummy
        BY <3>1, <2>2, <1>1, <1>2
    <3>2. CASE ~m.dummy
        BY <3>2, <2>2, <1>1, <1>2
    <3> QED
        BY <3>1, <3>2
  <2> QED
      BY <2>1, <2>3 DEF ResendsKeepTheirKey
<1>6. KeptWithItsKey'
    BY <1>1, <1>2 DEF IInv, KeptWithItsKey, Commands
<1> QED
    BY <1>3, <1>4, <1>5, <1>6 DEF IInv

\* initserver touches nothing that is spoken of here.
LEMMA InitServerStep == ASSUME IInv, NEW m \in cmdIn, ReceiveInitServer(m) PROVE IInv'
<1>1. /\ UNCHANGED <<solving, answered, alpha, keys, initPending, ackManager, dummyIDs, keptDummy, closed>>
      /\ UNCHANGED <<initOut, initIn, cmdOut, cmdIn, session, offer, phase>>
    BY DEF ReceiveInitServer, crypt, network, server
<1>2. CommandsInv'
    BY <1>1, CommandsKept
<1>3. PuzzlesAreReal' /\ OneAlpha' /\ AnswersCarryIt' /\ OffersAreForIt' /\ KeysAgree'
    BY <1>1 DEF IInv, PuzzlesAreReal, OneAlpha, AnswersCarryIt, OffersAreForIt, KeysAgree, crypto
<1> QED
    BY <1>2, <1>3 DEF IInv, CommandsInv

\* A pass of the resend loop: what goes out again is what is kept, the answer with
\* its alpha and the commands under their first key.
LEMMA TickStep == IInv /\ Tick => IInv'
<1> SUFFICES ASSUME IInv, Tick PROVE IInv'
    OBVIOUS
<1> DEFINE pending == {c \in Commands : ackManager[c] # NotPending}
<1>1. /\ UNCHANGED <<solving, answered, alpha, keys, initPending, dummyIDs, keptDummy, initIn, cmdIn>>
      /\ UNCHANGED <<session, offer, phase>>
      /\ ~closed
      /\ initOut' = initOut \/ (initPending # None /\ initOut' = initOut \cup {initPending})
      /\ cmdOut' = cmdOut \/ cmdOut' = cmdOut \cup {Resent(c) : c \in pending}
      /\ ackManager' = [c \in Commands |-> Older(ackManager[c])]
      /\ ackManager \in [Commands -> Nat \cup {NotPending}]
    BY DEF Tick, crypt, server, IInv, TimesAreKept
<1>2. \A c \in Commands :
          /\ Older(ackManager[c]) \in Nat \cup {NotPending}
          /\ Older(ackManager[c]) = NotPending <=> ackManager[c] = NotPending
    BY <1>1 DEF Older, NotPending
<1>3. PuzzlesAreReal' /\ OneAlpha' /\ AnswersCarryIt' /\ OffersAreForIt' /\ AcksKeepTheirKey' /\ KeysAgree'
    BY <1>1 DEF IInv, PuzzlesAreReal, OneAlpha, AnswersCarryIt, OffersAreForIt, AcksKeepTheirKey,
                KeysAgree, crypto
<1>4. TimesAreKept'
    BY <1>1, <1>2 DEF IInv, TimesAreKept, crypto
<1>5. ResendsKeepTheirKey'
  <2>1. \A c \in pending : Resent(c).dummy <=> Resent(c).cmd = "clientek"
      BY DEF Resent, Sent, Commands, IInv, KeptWithItsKey
  <2>2. \A s \in cmdOut' : s.dummy <=> s.cmd = "clientek"
      BY <1>1, <2>1 DEF IInv, ResendsKeepTheirKey
  <2>3. crypto' => dummyIDs' = {c \in Commands : c = "clientek" /\ ackManager'[c] # NotPending}
      BY <1>1, <1>2 DEF IInv, ResendsKeepTheirKey, crypto
  <2> QED
      BY <2>2, <2>3 DEF ResendsKeepTheirKey
<1>6. KeptWithItsKey'
    BY <1>1, <1>2 DEF IInv, KeptWithItsKey, Commands
<1> QED
    BY <1>3, <1>4, <1>5, <1>6 DEF IInv

-----------------------------------------------------------------------------
(* The server and the network.                                             *)

\* The server makes its session from the first answer it hears, the only alpha
\* there is, and offers keys for that session, however often.
LEMMA EnvironmentStep == IInv /\ Environment => IInv'
<1> SUFFICES ASSUME IInv, Environment PROVE IInv'
    OBVIOUS
<1>1. /\ UNCHANGED <<initPending, ackManager, dummyIDs, keptDummy, closed, solving, answered, alpha, keys>>
    BY DEF Environment, ServerStep0, ServerStep2, ServerRestart, ServerStep4, ServerEk,
           ServerClientInit, ServerResend, LoseAny, handler, crypt
<1>2. OneAlpha'
    BY <1>1 DEF IInv, OneAlpha
<1>3. /\ initOut' \subseteq initOut
      /\ cmdOut' \subseteq cmdOut
    BY DEF Environment, ServerStep0, ServerStep2, ServerRestart, ServerStep4, ServerEk,
           ServerClientInit, ServerResend, LoseAny, Lose
<1>4. AnswersCarryIt' /\ TimesAreKept' /\ KeptWithItsKey' /\ ResendsKeepTheirKey'
    BY <1>1, <1>3 DEF IInv, AnswersCarryIt, TimesAreKept, KeptWithItsKey, ResendsKeepTheirKey, crypto
<1>5. PuzzlesAreReal'
  <2>1. \/ initIn' \subseteq initIn
        \/ initIn' = initIn \cup {Step(1)}
        \/ initIn' = initIn \cup {Step(Restart)}
        \/ \E c \in Challenges : initIn' = initIn \cup {Puzzle(c)}
      BY DEF Environment, ServerStep0, ServerStep2, ServerRestart, ServerStep4, ServerEk,
             ServerClientInit, ServerResend, LoseAny, Lose
  <2>2. /\ Step(1).step # 3 /\ Step(Restart).step # 3
        /\ \A c \in Challenges : Puzzle(c).puzzle # None
      BY HandshakeAssumption DEF Step, Puzzle, Restart
  <2> QED
      BY <2>1, <2>2 DEF IInv, PuzzlesAreReal
<1>6. OffersAreForIt' /\ AcksKeepTheirKey' /\ session' \in {session, 1} /\ (session # 0 => session' = session)
  <2>1. CASE UNCHANGED <<session, offer, phase>> /\ cmdIn' \subseteq cmdIn
      BY <2>1, <1>1 DEF IInv, OffersAreForIt, AcksKeepTheirKey
  <2>2. ASSUME NEW m \in initOut, NEW path \in KeyOffers, ServerStep4(m, path)
        PROVE  OffersAreForIt' /\ AcksKeepTheirKey' /\ session' = 1 /\ session = 0
    <3>1. /\ m.alpha = 1 /\ alpha = 1 /\ session = 0 /\ cmdIn = {}
        BY <2>2 DEF ServerStep4, IInv, AnswersCarryIt, OffersAreForIt
    <3>2. session' = 1 /\ offer' = path /\ phase' # "init" /\ cmdIn' = {[cmd |-> path, alpha |-> 1]}
        BY <2>2, <3>1 DEF ServerStep4
    <3>3. OffersAreForIt'
        BY <3>1, <3>2, <1>1 DEF OffersAreForIt
    <3>4. AcksKeepTheirKey'
        BY <3>2 DEF AcksKeepTheirKey, KeyOffers
    <3> QED
        BY <3>1, <3>2, <3>3, <3>4
  <2>3. ASSUME ServerEk \/ ServerClientInit \/ ServerResend
        PROVE  OffersAreForIt' /\ AcksKeepTheirKey' /\ session' = session
    <3>1. /\ phase # "init" /\ phase' # "init" /\ UNCHANGED <<session, offer>>
          /\ session = 1 /\ alpha = 1 /\ offer \in KeyOffers
        BY <2>3 DEF ServerEk, ServerClientInit, ServerResend, server, IInv, OffersAreForIt
    <3>2. \A m \in cmdIn' :
              \/ m \in cmdIn
              \/ m \in {Ack("clientek", TRUE), Ack("clientinit", FALSE)}
              \/ m \in {Command("initserver"), Command(offer)}
        BY <2>3 DEF ServerEk, ServerClientInit, ServerResend
    <3>3. /\ Ack("clientek", TRUE).cmd = "ack" /\ Ack("clientek", TRUE).acks = "clientek"
          /\ Ack("clientek", TRUE).dummy = TRUE
          /\ Ack("clientinit", FALSE).cmd = "ack" /\ Ack("clientinit", FALSE).acks = "clientinit"
          /\ Ack("clientinit", FALSE).dummy = FALSE
        BY DEF Ack
    <3>4. /\ Command("initserver").cmd = "initserver"
          /\ Command(offer).cmd \in KeyOffers /\ Command(offer).alpha = 1
        BY <3>1 DEF Command
    <3>5. OffersAreForIt'
        BY <3>1, <3>2, <3>3, <3>4, <1>1 DEF IInv, OffersAreForIt, KeyOffers
    <3>6. AcksKeepTheirKey'
        BY <3>1, <3>2, <3>3, <3>4 DEF IInv, AcksKeepTheirKey, KeyOffers, Commands
    <3> QED
        BY <3>1, <3>5, <3>6
  <2>4. ASSUME ServerStep0 \/ (\E c \in Challenges : ServerStep2(c)) \/ ServerRestart \/ LoseAny
        PROVE  UNCHANGED <<session, offer, phase>> /\ cmdIn' \subseteq cmdIn
      BY <2>4 DEF ServerStep0, ServerStep2, ServerRestart, LoseAny, Lose, server
  <2> QED
      BY <2>1, <2>2, <2>3, <2>4 DEF Environment
<1>7. KeysAgree'
    BY <1>1, <1>6 DEF IInv, KeysAgree, crypto
<1> QED
    BY <1>2, <1>4, <1>5, <1>6, <1>7 DEF IInv

-----------------------------------------------------------------------------

\* The inductive invariant holds in every state of an attempt.
THEOREM HandshakeInductive == Spec => []IInv
<1>1. IInv /\ UNCHANGED vars => IInv'
    BY DEF IInv, PuzzlesAreReal, OneAlpha, AnswersCarryIt, OffersAreForIt, TimesAreKept,
           AcksKeepTheirKey, KeptWithItsKey, KeysAgree, ResendsKeepTheirKey, crypto,
           vars, handler, crypt, network, server
<1>2. IInv /\ [Next]_vars => IInv'
    BY <1>1, ReceiveStepStep, ReceivePuzzleStep, SolvedStep, GivenUpStep, Expand2Step, InitIVStep,
       AckStep, InitServerStep, TickStep, EnvironmentStep
    DEF Next
<1> QED
    BY <1>2, InitHolds, PTL DEF Spec

\* Whatever the network does to the puzzle, its answer and the offer of keys, the
\* keys the client builds (handleHandshakeExpand2, handleHandshakeInitIV) are the
\* server's, and nothing of Init1 goes on behind them.
THEOREM KeysAlwaysAgree == Spec => []KeysAgree
<1>1. IInv => KeysAgree
    BY DEF IInv
<1> QED
    BY <1>1, HandshakeInductive, PTL

\* A command is sent again under the key it first went out under (doResend), and
\* the dummy key stays acceptable for exactly the acknowledgement still due.
THEOREM CommandsKeepTheirKey == Spec => []ResendsKeepTheirKey
<1>1. IInv => ResendsKeepTheirKey
    BY DEF IInv
<1> QED
    BY <1>1, HandshakeInductive, PTL
=============================================================================
