----------------------------- MODULE Handshake -----------------------------
(***************************************************************************)
(* How a connection attempt gets from its first datagram to initserver:    *)
(* the Init1 steps with the server's puzzle (handshake/crypt-handshake.ts),*)
(* the two ways to the session keys (handshake.ts, handshake/crypt-init2.ts*)
(* and crypto/crypt.ts), and the resending of what is unanswered           *)
(* (transport/handler.ts), over a network that loses, duplicates, delays   *)
(* and reorders.                                                           *)
(*                                                                         *)
(* The client sends step 0, the server 1, the client 2, the server 3 (the  *)
(* puzzle), the client 4 (the answer, with its random alpha).  The server  *)
(* then sends initivexpand2, or clientinitiv on the older path, as a       *)
(* command under the public dummy key.  The client answers with clientek   *)
(* under the dummy key (initivexpand2 only), has its keys, and sends       *)
(* clientinit under them; the server answers initserver.  Init1 packets    *)
(* are not acknowledged: the last one sent is sent again until the         *)
(* server's command comes.  Commands are acknowledged one by one.          *)
(***************************************************************************)
EXTENDS Integers, FiniteSets

CONSTANTS
    Challenges,   \* the puzzles the server may set
    TooHard,      \* the ones over MAX_RSA_CHALLENGE_LEVEL
    Fresh,        \* whether the server sets a new puzzle each time it is asked
    MaxRestarts,  \* how often the server answers a step with the restart step
    TimeoutTicks, \* PACKET_TIMEOUT_MS
    None

ASSUME HandshakeAssumption ==
    /\ TooHard \subseteq Challenges
    /\ Fresh \in BOOLEAN
    /\ MaxRestarts \in Nat
    /\ TimeoutTicks \in Nat \ {0}
    /\ None \notin Challenges

Restart  == 127   \* the step 0x7f
Commands == {"clientek", "clientinit"}
KeyOffers == {"initivexpand2", "clientinitiv"}
NotPending == -1

\* An Init1 packet: its step, and for 3 and 4 the puzzle, for 4 the alpha.
Step(s)          == [step |-> s, puzzle |-> None, alpha |-> 0]
Puzzle(c)        == [step |-> 3, puzzle |-> c, alpha |-> 0]
Answer(c, a)     == [step |-> 4, puzzle |-> c, alpha |-> a]

VARIABLES
    initPending,  \* #initPacketCheck: the Init1 packet to send again, or None
    solving,      \* solvingChallenges: the puzzle being solved, or None
    answered,     \* answeredChallenges: the puzzle answered, or None
    alpha,        \* Crypt.#alpha: how many have been chosen; 0 is none
    keys,         \* the alpha the session keys were built from; 0 before crypto init
    ackManager,   \* #ackManager: ticks since each pending command's firstSend
    dummyIDs,     \* #dummyCommandIDs
    keptDummy,    \* the commands whose ResendPacket.dummy was set at the first send
    idle,         \* ticks since #lastMessageReceived
    connected,    \* initserver was handled
    closed,       \* #closed
    initOut, initIn,   \* network: Init1 packets on their way to and from the server
    cmdOut, cmdIn,     \* network: commands and acknowledgements on their way
    session,      \* server: the alpha it built its keys from; 0 before
    offer,        \* server: the command it sends for the session, or None
    phase,        \* server: "init", then "offered", "keyed", "welcomed"
    restarts      \* server: restart steps sent

handler == <<initPending, ackManager, dummyIDs, keptDummy, idle, closed>>
crypt   == <<solving, answered, alpha, keys>>
network == <<initOut, initIn, cmdOut, cmdIn>>
server  == <<session, offer, phase, restarts>>
vars    == <<handler, crypt, connected, network, server>>

\* Crypt.cryptoInitComplete
crypto == keys # 0

\* start(): the first step goes out.
Init ==
    /\ initPending = Step(0)
    /\ solving = None
    /\ answered = None
    /\ alpha = 0
    /\ keys = 0
    /\ ackManager = [c \in Commands |-> NotPending]
    /\ dummyIDs = {}
    /\ keptDummy = {}
    /\ idle = 0
    /\ connected = FALSE
    /\ closed = FALSE
    /\ initOut = {Step(0)}
    /\ initIn = {}
    /\ cmdOut = {}
    /\ cmdIn = {}
    /\ session = 0
    /\ offer = None
    /\ phase = "init"
    /\ restarts = 0

-----------------------------------------------------------------------------
(* The client: Init1.  Once crypto init is complete every Init1 is dropped,*)
(* before it counts as heard.                                              *)

\* sendPacket of an Init1: it goes out and takes the place of the one before.
SendInit1(m) ==
    /\ initOut' = initOut \cup {m}
    /\ initPending' = m

HearsInit1(m) ==
    /\ ~closed
    /\ ~crypto
    /\ m \in initIn
    /\ idle' = 0

\* The steps answered at once, each with the next (the client answers a
\* client's steps 0 and 2 as well; no server sends them).
Reply == [s \in {Restart, 0, 1, 2} |-> IF s = Restart THEN 0 ELSE s + 1]

ReceiveStep(m) ==
    /\ HearsInit1(m)
    /\ m.step \in DOMAIN Reply
    /\ SendInit1(Step(Reply[m.step]))
    /\ UNCHANGED <<crypt, ackManager, dummyIDs, keptDummy, closed, connected, initIn, cmdOut, cmdIn, server>>

\* Mutant: the puzzle that was answered is not answered again.
Again_Never(c) == FALSE

\* The puzzle answered before: the server did not get the answer.
Again(c) == answered = c

\* Mutant: another puzzle than the one answered is solved too.
Solves_EachNew(c) == solving = None /\ answered # c

\* One puzzle per attempt: none other is solved during it or after it.
Solves(c) == solving = None /\ answered = None

\* buildInit1Step4Packet: the answer given before goes out again, or the
\* solving starts, or nothing happens; a puzzle too hard fails the attempt.
ReceivePuzzle(m) ==
    LET c == m.puzzle
    IN  /\ HearsInit1(m)
        /\ m.step = 3
        /\ IF Again(c) THEN SendInit1(Answer(c, alpha)) ELSE UNCHANGED <<initOut, initPending>>
        /\ solving' = IF Solves(c) /\ c \notin TooHard THEN c ELSE solving
        /\ closed' = (Solves(c) /\ c \in TooHard)
        /\ UNCHANGED <<answered, alpha, keys, ackManager, dummyIDs, keptDummy, connected, initIn, cmdOut, cmdIn, server>>

\* solveInit1Challenge ends: alpha is chosen, and the answer goes out and is
\* kept.  The solving yields to the event loop between its slices.
Solved ==
    /\ solving # None
    /\ ~closed
    /\ alpha' = alpha + 1
    /\ answered' = solving
    /\ solving' = None
    /\ SendInit1(Answer(solving, alpha + 1))
    /\ UNCHANGED <<keys, ackManager, dummyIDs, keptDummy, idle, closed, connected, initIn, cmdOut, cmdIn, server>>

\* The attempt ended meanwhile (its signal aborted), or the puzzle is none:
\* nothing is sent, and in the second case the attempt fails.
SolvingFails ==
    /\ solving # None
    /\ solving' = None
    /\ closed' = TRUE
    /\ UNCHANGED <<answered, alpha, keys, initPending, ackManager, dummyIDs, keptDummy, idle, connected, network, server>>

-----------------------------------------------------------------------------
(* The client: commands.                                                   *)

Sent(c, dummy) == [cmd |-> c, dummy |-> dummy]

HearsCommand(m) ==
    /\ ~closed
    /\ m \in cmdIn
    /\ idle' = 0

\* receivedFinalInitAck
AfterFinalAck == None

\* The commands sent before the keys were there.
DummySent == {"clientek"}

\* handleHandshakeExpand2.  clientek goes out first, under the dummy key; then
\* the license and the proof are checked, and clientinit goes out under the
\* keys.  When they do not fit, or no alpha was ever sent, the attempt fails.
ReceiveExpand2(m, fits) ==
    LET ok == fits /\ alpha # 0
    IN  /\ HearsCommand(m)
        /\ m.cmd = "initivexpand2"
        /\ ~crypto
        /\ initPending' = AfterFinalAck
        /\ dummyIDs' = dummyIDs \cup DummySent
        /\ keptDummy' = keptDummy \cup DummySent
        /\ keys' = IF ok THEN alpha ELSE 0
        /\ cmdOut' = cmdOut \cup {Sent("clientek", TRUE)}
                            \cup (IF ok THEN {Sent("clientinit", FALSE)} ELSE {})
        /\ ackManager' = [c \in Commands |-> IF c = "clientek" \/ ok THEN 0 ELSE NotPending]
        /\ closed' = ~ok
        /\ UNCHANGED <<solving, answered, alpha, connected, initOut, initIn, cmdIn, server>>

\* handleHandshakeInitIV: the alpha is the one the server sends back.
ReceiveInitIV(m, fits) ==
    /\ HearsCommand(m)
    /\ m.cmd = "clientinitiv"
    /\ ~crypto
    /\ initPending' = AfterFinalAck
    /\ keys' = IF fits THEN m.alpha ELSE 0
    /\ cmdOut' = IF fits THEN cmdOut \cup {Sent("clientinit", FALSE)} ELSE cmdOut
    /\ ackManager' = IF fits THEN [ackManager EXCEPT !["clientinit"] = 0] ELSE ackManager
    /\ closed' = ~fits
    /\ UNCHANGED <<solving, answered, alpha, dummyIDs, keptDummy, connected, initOut, initIn, cmdIn, server>>

\* An acknowledgement.  After crypto init one under the dummy key is taken only
\* for a command that went out under it, once.
ReceiveAck(m) ==
    /\ HearsCommand(m)
    /\ m.cmd = "ack"
    /\ crypto
    /\ m.dummy => m.acks \in dummyIDs
    /\ dummyIDs' = IF m.dummy THEN dummyIDs \ {m.acks} ELSE dummyIDs
    /\ ackManager' = [ackManager EXCEPT ![m.acks] = NotPending]
    /\ UNCHANGED <<crypt, initPending, keptDummy, closed, connected, network, server>>

\* handleInitServer
ReceiveInitServer(m) ==
    /\ HearsCommand(m)
    /\ m.cmd = "initserver"
    /\ crypto
    /\ connected' = TRUE
    /\ UNCHANGED <<crypt, initPending, ackManager, dummyIDs, keptDummy, closed, network, server>>

-----------------------------------------------------------------------------
(* The client: time.  A tick is the longest time within which the resend   *)
(* loop sends all that is pending again: MAX_RETRY_INTERVAL_MS.            *)

\* Mutant: a command sent again goes out under the key in use now.
Resent_KeyInUse(c) == Sent(c, ~crypto)

\* doResend: under the key of the first time (ResendPacket.dummy).
Resent(c) == Sent(c, c \in keptDummy)

Older(t) == IF t = NotPending THEN t ELSE t + 1

\* #checkResends, and triggerClose
Tick ==
    LET pending == {c \in Commands : ackManager[c] # NotPending}
        over    == idle + 1 > TimeoutTicks \/ \E c \in pending : ackManager[c] + 1 > TimeoutTicks
    IN  /\ ~closed
        /\ closed' = over
        /\ idle' = idle + 1
        /\ ackManager' = [c \in Commands |-> Older(ackManager[c])]
        /\ initOut' = IF over \/ initPending = None THEN initOut ELSE initOut \cup {initPending}
        /\ cmdOut' = IF over THEN cmdOut ELSE cmdOut \cup {Resent(c) : c \in pending}
        /\ UNCHANGED <<crypt, initPending, dummyIDs, keptDummy, connected, initIn, cmdIn, server>>

\* The owner gives the attempt up.
Close ==
    /\ ~closed
    /\ closed' = TRUE
    /\ UNCHANGED <<initPending, ackManager, dummyIDs, keptDummy, idle, crypt, connected, network, server>>

-----------------------------------------------------------------------------
(* The server, as the client's code expects it, and the network.           *)

Command(c) == [cmd |-> c, alpha |-> session]
Ack(c, dummy) == [cmd |-> "ack", acks |-> c, dummy |-> dummy]

Offered == {m.puzzle : m \in {i \in initIn : i.step = 3}}

ServerStep0 ==
    /\ Step(0) \in initOut
    /\ initIn' = initIn \cup {Step(1)}
    /\ UNCHANGED <<handler, crypt, connected, initOut, cmdOut, cmdIn, server>>

\* The server keeps nothing between these steps: whether it sets the same puzzle
\* again is up to it.
ServerStep2(c) ==
    /\ Step(2) \in initOut
    /\ Fresh \/ c = CHOOSE d \in Challenges : TRUE
    /\ initIn' = initIn \cup {Puzzle(c)}
    /\ UNCHANGED <<handler, crypt, connected, initOut, cmdOut, cmdIn, server>>

ServerRestart ==
    /\ restarts < MaxRestarts
    /\ Step(0) \in initOut \/ Step(2) \in initOut
    /\ restarts' = restarts + 1
    /\ initIn' = initIn \cup {Step(Restart)}
    /\ UNCHANGED <<handler, crypt, connected, initOut, cmdOut, cmdIn, session, offer, phase>>

\* The first answer makes the session; the server offers keys on one of the paths.
\* On the older one it has its own already.
ServerStep4(m, path) ==
    /\ m \in initOut
    /\ m.step = 4
    /\ phase = "init"
    /\ session' = m.alpha
    /\ offer' = path
    /\ phase' = IF path = "clientinitiv" THEN "keyed" ELSE "offered"
    /\ cmdIn' = cmdIn \cup {[cmd |-> path, alpha |-> m.alpha]}
    /\ UNCHANGED <<handler, crypt, connected, initOut, initIn, cmdOut, restarts>>

\* clientek: the server builds its keys, and acknowledges under the dummy key.
ServerEk ==
    /\ Sent("clientek", TRUE) \in cmdOut
    /\ phase # "init"
    /\ phase' = IF phase = "offered" THEN "keyed" ELSE phase
    /\ cmdIn' = cmdIn \cup {Ack("clientek", TRUE)}
    /\ UNCHANGED <<handler, crypt, connected, initOut, initIn, cmdOut, session, offer, restarts>>

\* clientinit can be read only with the keys.
ServerClientInit ==
    /\ Sent("clientinit", FALSE) \in cmdOut
    /\ phase \in {"keyed", "welcomed"}
    /\ phase' = "welcomed"
    /\ cmdIn' = cmdIn \cup {Ack("clientinit", FALSE), Command("initserver")}
    /\ UNCHANGED <<handler, crypt, connected, initOut, initIn, cmdOut, session, offer, restarts>>

\* The server's own commands go out again, as the handler's do.
ServerResend ==
    /\ phase # "init"
    /\ cmdIn' = cmdIn \cup {Command(IF phase = "welcomed" THEN "initserver" ELSE offer)}
    /\ UNCHANGED <<handler, crypt, connected, initOut, initIn, cmdOut, server>>

\* A datagram arrives any number of times until it is gone.
Lose(wire) == \E m \in wire : wire' = wire \ {m}

LoseAny ==
    /\ \/ Lose(initOut) /\ UNCHANGED <<initIn, cmdOut, cmdIn>>
       \/ Lose(initIn) /\ UNCHANGED <<initOut, cmdOut, cmdIn>>
       \/ Lose(cmdOut) /\ UNCHANGED <<initOut, initIn, cmdIn>>
       \/ Lose(cmdIn) /\ UNCHANGED <<initOut, initIn, cmdOut>>
    /\ UNCHANGED <<handler, crypt, connected, server>>

Environment ==
    \/ ServerStep0
    \/ \E c \in Challenges : ServerStep2(c)
    \/ ServerRestart
    \/ \E m \in initOut, path \in KeyOffers : ServerStep4(m, path)
    \/ ServerEk
    \/ ServerClientInit
    \/ ServerResend
    \/ LoseAny

\* Nobody sees what the network does once the handler is closed.
Next ==
    \/ \E m \in initIn : ReceiveStep(m) \/ ReceivePuzzle(m)
    \/ Solved
    \/ SolvingFails
    \/ \E m \in cmdIn :
        \/ \E fits \in BOOLEAN : ReceiveExpand2(m, fits) \/ ReceiveInitIV(m, fits)
        \/ ReceiveAck(m)
        \/ ReceiveInitServer(m)
    \/ Tick
    \/ Close
    \/ ~closed /\ Environment

Spec == Init /\ [][Next]_vars

\* The resend loop runs, a puzzle is solved, the server answers what it hears,
\* and no datagram that is sent again and again is lost every time.
Fairness ==
    /\ WF_vars(Tick)
    /\ WF_vars(Solved)
    /\ WF_vars(~closed /\ ServerResend)
    /\ SF_vars(~closed /\ ServerStep0)
    /\ \A c \in Challenges : SF_vars(~closed /\ ServerStep2(c))
    /\ SF_vars(~closed /\ \E m \in initOut, path \in KeyOffers : ServerStep4(m, path))
    /\ SF_vars(~closed /\ ServerEk)
    /\ SF_vars(~closed /\ ServerClientInit)
    /\ SF_vars(ReceiveStep(Step(1)))
    /\ \A c \in Challenges : SF_vars(ReceivePuzzle(Puzzle(c)))
    /\ SF_vars(\E m \in cmdIn, fits \in BOOLEAN : ReceiveExpand2(m, fits) \/ ReceiveInitIV(m, fits))
    /\ SF_vars(\E m \in cmdIn : ReceiveInitServer(m))

FairSpec == Spec /\ Fairness

-----------------------------------------------------------------------------

\* Both sides build their keys from the same alpha, although the puzzle and its
\* answer may cross, be repeated, and be followed by other puzzles: a second
\* answer would choose a new alpha behind the clientinitiv already sent.  Once the
\* keys are there nothing of Init1 goes on that could: no packet of it is sent
\* again, and no puzzle is being solved.
KeysAgree == crypto => keys = session /\ initPending = None /\ solving = None

\* The keys change under clientek: it goes out under the dummy key, the one the
\* server can read it with, also when it is sent again after the keys are there,
\* and nothing else ever does.  And the dummy key stays acceptable for exactly the
\* acknowledgement that is still due under it, for none once that has come.
ResendsKeepTheirKey ==
    /\ \A m \in cmdOut : m.dummy <=> m.cmd = "clientek"
    /\ crypto => dummyIDs = {c \in Commands : c = "clientek" /\ ackManager[c] # NotPending}

\* Whatever is lost, repeated or overtaken, the attempt comes to an end: the
\* server keeps talking, so the idle time-out alone would not see to it.
HandshakeEnds == <>(connected \/ closed)

=============================================================================
