------------------------ MODULE QueryLifecycleProof ------------------------
(***************************************************************************)
(* Proofs about the life of a ServerQuery client, for any callers, any     *)
(* number of attempts and of disconnect()s, and any backoff: a connected   *)
(* client has its open transport and nothing else stays open               *)
(* (NothingLeftOpen), and disconnect() stops the reconnect loop            *)
(* (DisconnectStopsTheLoop).                                               *)
(*                                                                         *)
(* #connect looks for a disconnect() under way only when it is called, not *)
(* after its waits, so an attempt may start while #teardown runs, and      *)
(* #handleClose and #failConnection end whatever attempt is the current    *)
(* one.  What saves the transport is order: between the end of a session   *)
(* and the last call it wakes no turn of the event loop passes, so nothing *)
(* is installed (NothingInstalled) and a teardown that finds callers awake *)
(* has nothing to wait for (WaitersAreInPlace); its own end is over before *)
(* the attempt that slipped past it opens anything (TeardownIsInPlace).    *)
(***************************************************************************)
EXTENDS QueryLifecycle, TLAPS

Bodies == {"none", "opening", "setup", "setUp", "handback", "failing", "done"}
Lines  == {"none", "open", "closing", "closed", "handback"}
Places == {"none", "waitStopping", "waitDelivered", "woken", "heard", "attempt"}

TypeOK ==
    /\ link \in {"stream", "web"}
    /\ status \in {"disconnected", "connecting", "connected"}
    /\ stopped \in BOOLEAN
    /\ attempt \in 0 .. MaxConnects
    /\ current \in 0 .. MaxConnects
    /\ installed \in 0 .. MaxConnects
    /\ body \in [Attempts -> Bodies]
    /\ line \in [Attempts -> Lines]
    /\ calls \in [Callers \cup {Loop} -> [at: Places, n: 0 .. MaxConnects]]
    /\ stopping \in {"none", "closing", "announcing", "announced"}
    /\ closes \in 0 .. MaxConnects
    /\ emitting \in {"nobody", "attempt", "drop", "teardown"}
    /\ delivered \in BOOLEAN
    /\ cancelled \in BOOLEAN

\* Nothing is known of an attempt before it starts.
NoneAhead ==
    /\ current <= attempt
    /\ \A n \in Attempts : n > attempt => body[n] = "none" /\ line[n] = "none"
    /\ \A c \in DOMAIN calls : calls[c].n <= attempt

\* An attempt that sets its session up is the current one and has its transport; once the
\* setup is answered, nothing that fails can come in between.
Holds(n) == n = current /\ status = "connecting" /\ installed = n /\ line[n] = "open"

SetupIsCurrent ==
    \A n \in Attempts :
        /\ body[n] = "setup" => Holds(n)
        /\ body[n] = "setUp" /\ n = current => Holds(n) /\ \A m \in Attempts : body[m] # "failing"

\* A connected client has the open transport of the attempt that connected.
ConnectedHasItsLine ==
    status = "connected" =>
        /\ current # 0 /\ installed = current
        /\ line[current] = "open" /\ body[current] = "done"

Awake == \E c \in DOMAIN calls : calls[c].at \in {"woken", "heard"}

\* When no transport is installed.
NothingInstalled ==
    \/ status = "disconnected"
    \/ status = "connecting" /\ current # 0 /\ body[current] = "opening"
    \/ stopping # "none"
    \/ emitting # "nobody" \/ delivered \/ Awake
    => installed = 0

\* An attempt that started while disconnect() was running finds the rest of #teardown
\* due: no turn starts before that is over.
TeardownIsInPlace ==
    /\ stopping = "announcing" => emitting = "teardown"
    /\ stopping = "announced" => delivered
    /\ stopping = "closing" /\ status # "disconnected" => closes = 0

\* A call waits for a `disconnected` only while one is on its way, and a teardown that
\* comes before it goes on has no transport to close.
WaitersAreInPlace ==
    \A c \in DOMAIN calls :
        /\ calls[c].at = "waitDelivered" => delivered
        /\ calls[c].at \in {"waitDelivered", "woken", "heard"} /\ stopping = "closing" => closes = 0

\* A transport that closes at once is installed or closed.
WebLines ==
    link = "web" => \A n \in Attempts : /\ line[n] = "open" => n = installed
                                        /\ line[n] \notin {"closing", "handback"}

\* The loop that disconnect() cancelled is not waiting in #connect.
CancelIsSeen == cancelled => stopped /\ calls[Loop].at \in {"none", "attempt"}

IInv ==
    /\ TypeOK
    /\ NoneAhead
    /\ SetupIsCurrent
    /\ ConnectedHasItsLine
    /\ NothingInstalled
    /\ TeardownIsInPlace
    /\ WaitersAreInPlace
    /\ WebLines
    /\ CancelIsSeen

----------------------------------------------------------------------------

LEMMA InitHolds == Init => IInv
<1> SUFFICES ASSUME Init PROVE IInv
    OBVIOUS
<1> USE LifecycleAssumption DEF Init
<1>1. TypeOK
  <2>1. calls \in [Callers \cup {Loop} -> [at: Places, n: 0 .. MaxConnects]]
      BY DEF Places
  <2>2. body \in [Attempts -> Bodies] /\ line \in [Attempts -> Lines]
      BY DEF Bodies, Lines
  <2> QED
      BY <2>1, <2>2 DEF TypeOK
<1>2. NoneAhead /\ SetupIsCurrent /\ ConnectedHasItsLine
    BY DEF NoneAhead, SetupIsCurrent, ConnectedHasItsLine, Attempts
<1>3. NothingInstalled /\ TeardownIsInPlace /\ WaitersAreInPlace /\ WebLines /\ CancelIsSeen
    BY DEF NothingInstalled, TeardownIsInPlace, WaitersAreInPlace, WebLines, CancelIsSeen
<1> QED
    BY <1>1, <1>2, <1>3 DEF IInv

----------------------------------------------------------------------------
(* Calls and the loop.                                                     *)

\* What the invariant speaks of, but for the calls and the history of the loop.
Session == <<link, status, current, attempt, body, line, installed, stopping, closes, emitting, delivered>>

\* A step that changes nothing but the loop, or that starts it or ends it.
LEMMA LoopMoves ==
    ASSUME IInv, UNCHANGED Session, UNCHANGED <<stopped, calls>>, cancelled' = cancelled \/ cancelled' = FALSE
    PROVE  IInv'
<1>1. TypeOK'
    BY DEF IInv, TypeOK, Session
<1>2. NoneAhead' /\ SetupIsCurrent' /\ ConnectedHasItsLine' /\ WebLines'
    BY DEF IInv, NoneAhead, SetupIsCurrent, Holds, ConnectedHasItsLine, WebLines, Session
<1>3. NothingInstalled' /\ TeardownIsInPlace' /\ WaitersAreInPlace'
    BY DEF IInv, NothingInstalled, Awake, TeardownIsInPlace, WaitersAreInPlace, Session
<1>4. CancelIsSeen'
    BY DEF IInv, CancelIsSeen
<1> QED
    BY <1>1, <1>2, <1>3, <1>4 DEF IInv

\* A call returns, or starts to wait for a disconnect() or a `disconnected`.
LEMMA CallMoves ==
    ASSUME IInv, UNCHANGED Session, UNCHANGED <<stopped, cancelled>>,
           NEW c \in DOMAIN calls, NEW what \in {"none", "waitStopping", "waitDelivered"},
           calls' = [calls EXCEPT ![c] = [at |-> what, n |-> 0]],
           what = "waitDelivered" => delivered /\ (stopping = "closing" => closes = 0),
           c = Loop => what = "none" \/ ~cancelled
    PROVE  IInv'
<1>0. /\ MaxConnects \in Nat /\ DOMAIN calls = Callers \cup {Loop} /\ DOMAIN calls' = DOMAIN calls
      /\ attempt \in 0 .. MaxConnects /\ Loop \in DOMAIN calls
    BY LifecycleAssumption DEF IInv, TypeOK
<1>1. /\ calls' \in [Callers \cup {Loop} -> [at: Places, n: 0 .. MaxConnects]]
      /\ calls'[c].at = what /\ calls'[c].n = 0
      /\ \A d \in DOMAIN calls : d # c => calls'[d] = calls[d]
    BY <1>0 DEF IInv, TypeOK, Places
<1>2. TypeOK'
    BY <1>1 DEF IInv, TypeOK, Session
<1>3. SetupIsCurrent' /\ ConnectedHasItsLine' /\ WebLines' /\ TeardownIsInPlace'
    BY DEF IInv, SetupIsCurrent, Holds, ConnectedHasItsLine, WebLines, TeardownIsInPlace, Session
<1>4. NoneAhead' /\ NothingInstalled'
    BY <1>0, <1>1 DEF IInv, NoneAhead, NothingInstalled, Awake, Session
<1>5. WaitersAreInPlace'
    BY <1>0, <1>1 DEF IInv, WaitersAreInPlace, Session
<1>6. CancelIsSeen'
    BY <1>0, <1>1 DEF IInv, CancelIsSeen
<1> QED
    BY <1>2, <1>3, <1>4, <1>5, <1>6 DEF IInv

\* #connect starts an attempt: nothing is installed, and a teardown that goes on has no
\* transport to wait for.
LEMMA BeginStep ==
    ASSUME IInv, NEW c \in DOMAIN calls, Begin(c), status = "disconnected",
           stopping = "closing" => closes = 0, c = Loop => ~cancelled,
           UNCHANGED <<link, line, installed, stopping, closes, emitting, delivered>>
    PROVE  IInv'
<1>0. /\ MaxConnects \in Nat /\ DOMAIN calls = Callers \cup {Loop} /\ DOMAIN calls' = DOMAIN calls
      /\ attempt \in 0 .. MaxConnects /\ attempt + 1 \in Attempts /\ Loop \in DOMAIN calls
      /\ attempt' = attempt + 1 /\ current' = attempt + 1 /\ status' = "connecting" /\ stopped' = FALSE
      /\ body' = [body EXCEPT ![attempt + 1] = "opening"]
      /\ calls' = [calls EXCEPT ![c] = [at |-> "attempt", n |-> attempt + 1]]
    BY LifecycleAssumption DEF IInv, TypeOK, Begin, Attempts
<1>1. /\ calls' \in [Callers \cup {Loop} -> [at: Places, n: 0 .. MaxConnects]]
      /\ calls'[c].at = "attempt" /\ calls'[c].n = attempt + 1
      /\ \A d \in DOMAIN calls : d # c => calls'[d] = calls[d]
    BY <1>0 DEF IInv, TypeOK, Places, Attempts
<1>2. cancelled' = FALSE
    BY DEF Begin, IInv, TypeOK
<1>3. body' \in [Attempts -> Bodies] /\ body'[attempt + 1] = "opening"
      /\ \A n \in Attempts : n # attempt + 1 => body'[n] = body[n]
    BY <1>0 DEF IInv, TypeOK, Bodies
<1>4. installed = 0 /\ \A n \in Attempts : body[n] # "setup"
    BY DEF IInv, NothingInstalled, SetupIsCurrent, Holds
<1>5. TypeOK'
    BY <1>0, <1>1, <1>2, <1>3 DEF IInv, TypeOK, Attempts
<1>6. NoneAhead'
    BY <1>0, <1>1, <1>3 DEF IInv, TypeOK, NoneAhead, Attempts
<1>7. SetupIsCurrent'
    BY <1>0, <1>3, <1>4 DEF SetupIsCurrent
<1>8. ConnectedHasItsLine' /\ WebLines' /\ TeardownIsInPlace' /\ NothingInstalled'
    BY <1>0, <1>4 DEF IInv, ConnectedHasItsLine, WebLines, TeardownIsInPlace, NothingInstalled
<1>9. WaitersAreInPlace'
    BY <1>0, <1>1 DEF IInv, WaitersAreInPlace
<1>10. CancelIsSeen'
    BY <1>2 DEF CancelIsSeen
<1> QED
    BY <1>5, <1>6, <1>7, <1>8, <1>9, <1>10 DEF IInv

\* The first half of #connect.
LEMMA EnterStep ==
    ASSUME IInv, NEW c \in DOMAIN calls, Enter(c), c = Loop => ~cancelled,
           UNCHANGED <<link, line, installed, stopping, closes, emitting, delivered>>
    PROVE  IInv'
<1>1. CASE stopping # "none"
  <2>1. UNCHANGED Session /\ UNCHANGED <<stopped, cancelled>> /\ WaitFor(c, "waitStopping")
      BY <1>1 DEF Enter, Session
  <2> QED
      BY <2>1, CallMoves DEF WaitFor
<1>2. CASE stopping = "none" /\ delivered
  <2>1. UNCHANGED Session /\ UNCHANGED <<stopped, cancelled>> /\ WaitFor(c, "waitDelivered")
      BY <1>2 DEF Enter, Session
  <2> QED
      BY <2>1, <1>2, CallMoves DEF WaitFor
<1>3. CASE stopping = "none" /\ ~delivered
  <2>1. Begin(c) /\ status = "disconnected"
      BY <1>3 DEF Enter
  <2> QED
      BY <2>1, <1>3, BeginStep
<1> QED
    BY <1>1, <1>2, <1>3 DEF IInv, TypeOK

LEMMA ConnectStep == IInv /\ (\E c \in Callers : Connect(c)) => IInv'
<1> SUFFICES ASSUME IInv, NEW c \in Callers, Connect(c) PROVE IInv'
    OBVIOUS
<1>1. c \in DOMAIN calls /\ c # Loop
    BY LifecycleAssumption DEF IInv, TypeOK, Loop
<1> QED
    BY <1>1, EnterStep DEF Connect, endVars

\* A call that was woken goes on.
LEMMA WokenStep == IInv /\ (\E c \in DOMAIN calls : Woken(c)) => IInv'
<1> SUFFICES ASSUME IInv, NEW c \in DOMAIN calls, Woken(c) PROVE IInv'
    OBVIOUS
<1>1. /\ UNCHANGED <<link, line, installed, stopping, closes, emitting, delivered>>
      /\ calls[c].at \in {"woken", "heard"} /\ (stopping = "closing" => closes = 0)
    BY DEF Woken, endVars, IInv, WaitersAreInPlace
<1>2. c = Loop => ~cancelled
    BY <1>1 DEF IInv, CancelIsSeen
<1>6. CASE c \in Callers /\ Return(c) /\ UNCHANGED <<stopped, attempt, current, status, body, cancelled, loop>>
  <2>1. UNCHANGED Session /\ WaitFor(c, "none")
      BY <1>1, <1>6 DEF Session, Return
  <2> QED
      BY <2>1, <1>6, CallMoves DEF WaitFor
<1> DEFINE GoesOn == ~(c \in Callers /\ Return(c)
                       /\ UNCHANGED <<stopped, attempt, current, status, body, cancelled, loop>>)
<1>3. CASE GoesOn /\ delivered
  <2>1. UNCHANGED Session /\ UNCHANGED <<stopped, cancelled>> /\ WaitFor(c, "waitDelivered")
      BY <1>1, <1>3 DEF Woken, Session
  <2> QED
      BY <2>1, <1>1, <1>2, <1>3, CallMoves DEF WaitFor
<1>4. CASE GoesOn /\ ~delivered /\ status # "disconnected"
  <2>1. UNCHANGED Session /\ UNCHANGED <<stopped, cancelled>> /\ WaitFor(c, "none")
      BY <1>1, <1>4 DEF Woken, Session, Return
  <2> QED
      BY <2>1, CallMoves DEF WaitFor
<1>5. CASE GoesOn /\ ~delivered /\ status = "disconnected"
    BY <1>1, <1>2, <1>5, BeginStep DEF Woken
<1> QED
    BY <1>3, <1>4, <1>5, <1>6 DEF IInv, TypeOK

\* The loop wakes: it ends, or calls #connect; stopped, it does not.
LEMMA LoopWokenStep == IInv /\ LoopWoken => IInv'
<1> SUFFICES ASSUME IInv, LoopWoken PROVE IInv'
    OBVIOUS
<1>1. UNCHANGED <<link, line, installed, stopping, closes, emitting, delivered>> /\ Loop \in DOMAIN calls
    BY DEF LoopWoken, endVars, IInv, TypeOK
<1>2. CASE stopped \/ status # "disconnected"
  <2>1. UNCHANGED Session /\ UNCHANGED <<stopped, calls>> /\ cancelled' = FALSE
      BY <1>1, <1>2 DEF LoopWoken, LoopEnds, Session
  <2> QED
      BY <2>1, LoopMoves
<1>3. CASE ~stopped /\ status = "disconnected"
  <2>1. Enter(Loop) /\ ~cancelled
      BY <1>3 DEF LoopWoken, IInv, CancelIsSeen
  <2> QED
      BY <2>1, <1>1, EnterStep
<1> QED
    BY <1>2, <1>3

LEMMA LoopStep == IInv /\ (LoopTimer \/ \E answer \in BOOLEAN : LoopNext(answer)) => IInv'
<1> SUFFICES ASSUME IInv, LoopTimer \/ \E answer \in BOOLEAN : LoopNext(answer) PROVE IInv'
    OBVIOUS
<1>1. UNCHANGED Session /\ UNCHANGED <<stopped, calls>> /\ (cancelled' = cancelled \/ cancelled' = FALSE)
    BY DEF LoopTimer, LoopNext, LoopEnds, Session, attemptVars, endVars
<1> QED
    BY <1>1, LoopMoves

----------------------------------------------------------------------------
(* Ends are announced and delivered.                                       *)

\* The listeners have heard: the end counts as delivered, and a drop may start the loop.
LEMMA AnnouncedStep == IInv /\ Announced => IInv'
<1> SUFFICES ASSUME IInv, Announced PROVE IInv'
    OBVIOUS
<1>1. /\ UNCHANGED <<link, status, stopped, current, attempt, body, line, installed, calls, closes>>
      /\ emitting # "nobody" /\ emitting' = "nobody" /\ delivered' = TRUE
      /\ stopping' = (IF emitting = "teardown" THEN "announced" ELSE stopping)
      /\ cancelled' = cancelled \/ cancelled' = FALSE
    BY DEF Announced, attemptVars
<1>2. TypeOK'
    BY <1>1 DEF IInv, TypeOK
<1>3. NoneAhead' /\ SetupIsCurrent' /\ ConnectedHasItsLine' /\ WebLines' /\ CancelIsSeen'
    BY <1>1 DEF IInv, NoneAhead, SetupIsCurrent, Holds, ConnectedHasItsLine, WebLines, CancelIsSeen
<1>4. NothingInstalled' /\ TeardownIsInPlace' /\ WaitersAreInPlace'
    BY <1>1 DEF IInv, NothingInstalled, TeardownIsInPlace, WaitersAreInPlace
<1> QED
    BY <1>2, <1>3, <1>4 DEF IInv

\* #disconnectedDelivered is cleared, and the calls that waited go on.
LEMMA DeliveredStep == IInv /\ Delivered => IInv'
<1> SUFFICES ASSUME IInv, Delivered PROVE IInv'
    OBVIOUS
<1>0. DOMAIN calls = Callers \cup {Loop} /\ Loop \in DOMAIN calls
    BY DEF IInv, TypeOK
<1>1. /\ UNCHANGED <<link, status, stopped, current, attempt, body, line, installed, closes, emitting, cancelled>>
      /\ delivered /\ delivered' = FALSE
      /\ stopping' = (IF stopping = "announced" THEN "none" ELSE stopping)
      /\ calls' = [c \in DOMAIN calls |->
                     CASE calls[c].at = "waitDelivered" -> [calls[c] EXCEPT !.at = "heard"]
                       [] stopping = "announced" /\ calls[c].at = "waitStopping"
                            -> [calls[c] EXCEPT !.at = "woken"]
                       [] OTHER -> calls[c]]
    BY DEF Delivered, attemptVars, loopVars
<1>2. /\ calls' \in [Callers \cup {Loop} -> [at: Places, n: 0 .. MaxConnects]] /\ DOMAIN calls' = DOMAIN calls
      /\ \A c \in DOMAIN calls :
            /\ calls'[c].n = calls[c].n /\ calls'[c].at # "waitDelivered"
            /\ calls[c].at \in {"none", "attempt"} => calls'[c].at = calls[c].at
            /\ calls'[c].at \in {"woken", "heard"} =>
                   calls[c].at \in {"waitDelivered", "woken", "heard"} \/ stopping = "announced"
  <2>1. \A c \in DOMAIN calls : calls[c] \in [at: Places, n: 0 .. MaxConnects]
      BY <1>0 DEF IInv, TypeOK
  <2>2. ASSUME NEW c \in DOMAIN calls
        PROVE  /\ calls'[c] \in [at: Places, n: 0 .. MaxConnects]
               /\ calls'[c].n = calls[c].n /\ calls'[c].at # "waitDelivered"
               /\ calls[c].at \in {"none", "attempt"} => calls'[c].at = calls[c].at
               /\ calls'[c].at \in {"woken", "heard"} =>
                      calls[c].at \in {"waitDelivered", "woken", "heard"} \/ stopping = "announced"
      BY <2>1, <1>1 DEF Places
  <2> QED
      BY <2>2, <1>0, <1>1
<1>3. installed = 0 /\ stopping' # "announced" /\ (stopping' = "closing" => stopping = "closing")
    BY <1>1 DEF IInv, NothingInstalled
<1>4. TypeOK'
  <2>1. /\ UNCHANGED <<link, status, stopped, current, attempt, body, line, installed, closes, emitting, cancelled>>
        /\ delivered' \in BOOLEAN /\ stopping' \in {"none", "closing", "announcing", "announced"}
      BY <1>1 DEF IInv, TypeOK
  <2> QED
      BY <2>1, <1>2 DEF IInv, TypeOK
<1>5. NoneAhead' /\ CancelIsSeen'
    BY <1>0, <1>1, <1>2 DEF IInv, NoneAhead, CancelIsSeen
<1>6. SetupIsCurrent' /\ ConnectedHasItsLine' /\ WebLines' /\ TeardownIsInPlace' /\ NothingInstalled'
    BY <1>1, <1>3 DEF IInv, SetupIsCurrent, Holds, ConnectedHasItsLine, WebLines, TeardownIsInPlace,
                      NothingInstalled
<1>7. WaitersAreInPlace'
    BY <1>1, <1>2, <1>3 DEF IInv, WaitersAreInPlace
<1> QED
    BY <1>4, <1>5, <1>6, <1>7 DEF IInv

\* #teardown has closed its transport and announces the end.
LEMMA TeardownEndsStep == IInv /\ TeardownEnds => IInv'
<1> SUFFICES ASSUME IInv, TeardownEnds PROVE IInv'
    OBVIOUS
<1>1. /\ UNCHANGED <<link, status, stopped, current, attempt, body, line, installed, calls, delivered, cancelled>>
      /\ emitting' = "teardown" /\ stopping = "closing" /\ stopping' = "announcing" /\ closes' = 0
    BY DEF TeardownEnds, TeardownClosed, Announce, attemptVars, loopVars
<1>2. TypeOK'
    BY <1>1, LifecycleAssumption DEF IInv, TypeOK
<1>3. NoneAhead' /\ SetupIsCurrent' /\ ConnectedHasItsLine' /\ WebLines' /\ CancelIsSeen'
    BY <1>1 DEF IInv, NoneAhead, SetupIsCurrent, Holds, ConnectedHasItsLine, WebLines, CancelIsSeen
<1>4. NothingInstalled' /\ TeardownIsInPlace' /\ WaitersAreInPlace'
    BY <1>1 DEF IInv, NothingInstalled, TeardownIsInPlace, WaitersAreInPlace
<1> QED
    BY <1>2, <1>3, <1>4 DEF IInv

----------------------------------------------------------------------------
(* Attempts.                                                               *)

\* When a turn starts: nothing is being delivered, no attempt is about to go on, and a
\* teardown that is not over found no later attempt.
LEMMA TurnStarts ==
    ASSUME IInv, NewTurn
    PROVE  /\ emitting = "nobody" /\ ~delivered /\ ~Awake
           /\ \A n \in Attempts : body[n] \notin {"setUp", "failing"}
           /\ stopping # "none" => status = "disconnected"
<1>1. /\ emitting = "nobody" /\ ~delivered /\ ~Awake /\ ~TeardownClosed
      /\ \A n \in Attempts : body[n] \notin {"setUp", "failing"}
    BY DEF NewTurn, Micro, Awake
<1> QED
    BY <1>1 DEF TeardownClosed, IInv, TypeOK, TeardownIsInPlace

\* What transport.close() does to the transports.
LEMMA ClosingIs ==
    ASSUME IInv, NEW n \in 0 .. MaxConnects
    PROVE  /\ Closing(n) \in [Attempts -> Lines]
           /\ \A m \in Attempts : \/ Closing(n)[m] = line[m] /\ (m = n => line[m] # "open")
                                  \/ m = n /\ line[m] = "open" /\ Closing(n)[m] = "closed"
                                  \/ m = n /\ line[m] = "open" /\ Closing(n)[m] = "closing" /\ link = "stream"
<1>1. MaxConnects \in Nat /\ line \in [Attempts -> Lines] /\ link \in {"stream", "web"}
    BY LifecycleAssumption DEF IInv, TypeOK
<1>2. CASE n = 0
    BY <1>1, <1>2 DEF Closing, Attempts
<1>3. CASE n # 0
  <2>1. n \in Attempts
      BY <1>1, <1>3 DEF Attempts
  <2>2. Closing(n) = [line EXCEPT ![n] = IF line[n] = "open" THEN (IF link = "web" THEN "closed" ELSE "closing")
                                                             ELSE line[n]]
      BY <1>3 DEF Closing
  <2> QED
      BY <1>1, <2>1, <2>2 DEF Lines
<1> QED
    BY <1>2, <1>3

\* The attempts whose setup was under way fail.
LEMMA DoomedIs ==
    ASSUME NEW b \in [Attempts -> Bodies]
    PROVE  /\ Doomed(b) \in [Attempts -> Bodies]
           /\ \A n \in Attempts : \/ Doomed(b)[n] = b[n] /\ b[n] # "setup"
                                  \/ Doomed(b)[n] = "failing" /\ b[n] = "setup"
  BY DEF Doomed, Bodies

\* The call of an attempt is over; nobody else moves.
LEMMA CallEndsIs ==
    ASSUME IInv, NEW n, NEW err, CallEnds(n, err)
    PROVE  /\ calls' \in [Callers \cup {Loop} -> [at: Places, n: 0 .. MaxConnects]] /\ DOMAIN calls' = DOMAIN calls
           /\ \A c \in DOMAIN calls : \/ calls'[c] = calls[c]
                                      \/ calls[c].at = "attempt" /\ calls'[c].at = "none" /\ calls'[c].n = 0
<1>1. /\ MaxConnects \in Nat /\ calls \in [Callers \cup {Loop} -> [at: Places, n: 0 .. MaxConnects]]
      /\ [at |-> "none", n |-> 0] \in [at: Places, n: 0 .. MaxConnects]
    BY LifecycleAssumption DEF IInv, TypeOK, Places
<1> QED
    BY <1>1 DEF CallEnds

\* The transport of an attempt opens, is handed back, or fails; a setup fails or is over.
LEMMA AttemptStep ==
    IInv /\ (\E n \in Attempts : HandedBack(n) \/ Fails(n) \/ SetupDone(n)) => IInv'
<1> SUFFICES ASSUME IInv, NEW n \in Attempts, HandedBack(n) \/ Fails(n) \/ SetupDone(n) PROVE IInv'
    OBVIOUS
<1>1. /\ UNCHANGED <<link, status, stopped, current, attempt, installed, calls, stopping, closes, emitting,
                     delivered, cancelled>>
      /\ NewTurn
    BY DEF HandedBack, Fails, SetupDone, endVars, loopVars
<1>2. /\ body[n] \in {"handback", "opening", "setup"}
      /\ \/ body' = [body EXCEPT ![n] = "failing"]
         \/ body[n] = "setup" /\ body' = [body EXCEPT ![n] = "setUp"]
      /\ \/ line' = line
         \/ body[n] = "handback" /\ line' = [line EXCEPT ![n] = "closed"]
    BY DEF HandedBack, Fails, SetupDone
<1>3. \A m \in Attempts : body[m] \notin {"setUp", "failing"}
    BY <1>1, TurnStarts
<1>4. /\ body' \in [Attempts -> Bodies] /\ line' \in [Attempts -> Lines]
      /\ \A m \in Attempts : m # n => body'[m] = body[m] /\ line'[m] = line[m]
      /\ body'[n] = "failing" \/ (body'[n] = "setUp" /\ body[n] = "setup" /\ line'[n] = line[n])
      /\ line'[n] = line[n] \/ (line'[n] = "closed" /\ body[n] = "handback")
    BY <1>2 DEF IInv, TypeOK, Bodies, Lines
<1>5. TypeOK'
    BY <1>1, <1>4 DEF IInv, TypeOK
<1>6. NoneAhead'
    BY <1>1, <1>2, <1>4 DEF IInv, NoneAhead
<1>7. SetupIsCurrent'
  <2> SUFFICES ASSUME NEW m \in Attempts
               PROVE  /\ body'[m] = "setup" => Holds(m)'
                      /\ body'[m] = "setUp" /\ m = current' => Holds(m)' /\ \A k \in Attempts : body'[k] # "failing"
      BY DEF SetupIsCurrent
  <2>1. CASE m = n
      BY <2>1, <1>1, <1>3, <1>4 DEF IInv, SetupIsCurrent, Holds
  <2>2. CASE m # n
      BY <2>2, <1>1, <1>3, <1>4 DEF IInv, SetupIsCurrent, Holds
  <2> QED
      BY <2>1, <2>2
<1>8. ConnectedHasItsLine'
  <2> SUFFICES ASSUME status = "connected"
               PROVE  current # 0 /\ installed = current /\ line'[current] = "open" /\ body'[current] = "done"
      BY <1>1 DEF ConnectedHasItsLine
  <2>1. current # 0 /\ installed = current /\ line[current] = "open" /\ body[current] = "done" /\ current # n
      BY <1>2 DEF IInv, ConnectedHasItsLine
  <2>2. current \in Attempts
      BY <2>1, LifecycleAssumption DEF IInv, TypeOK, Attempts
  <2> QED
      BY <2>1, <2>2, <1>4
<1>9. NothingInstalled'
  <2>1. current # 0 => current \in Attempts
      BY LifecycleAssumption DEF IInv, TypeOK, Attempts
  <2>2. Awake' = Awake
      BY <1>1 DEF Awake
  <2> QED
      BY <2>1, <2>2, <1>1, <1>4 DEF IInv, NothingInstalled
<1>10. TeardownIsInPlace' /\ WaitersAreInPlace' /\ CancelIsSeen'
    BY <1>1 DEF IInv, TeardownIsInPlace, WaitersAreInPlace, CancelIsSeen
<1>11. WebLines'
    BY <1>1, <1>4 DEF IInv, WebLines
<1> QED
    BY <1>5, <1>6, <1>7, <1>8, <1>9, <1>10, <1>11 DEF IInv

\* The transport of an attempt is open: the current attempt installs it where none was,
\* any other closes it.
LEMMA OpenedStep == IInv /\ (\E n \in Attempts : Opened(n)) => IInv'
<1> SUFFICES ASSUME IInv, NEW n \in Attempts, Opened(n) PROVE IInv'
    OBVIOUS
<1>0. /\ UNCHANGED <<link, status, stopped, current, attempt, calls, stopping, closes, emitting, delivered, cancelled>>
      /\ NewTurn /\ body[n] = "opening" /\ n # 0 /\ MaxConnects \in Nat
      /\ \A m \in Attempts : m \in 0 .. MaxConnects /\ m # 0
    BY LifecycleAssumption DEF Opened, endVars, loopVars, Attempts
<1>1. /\ emitting = "nobody" /\ ~delivered /\ ~Awake
      /\ \A m \in Attempts : body[m] \notin {"setUp", "failing"}
      /\ stopping # "none" => status = "disconnected"
    BY <1>0, TurnStarts
<1>2. TeardownIsInPlace' /\ WaitersAreInPlace' /\ CancelIsSeen' /\ Awake' = Awake
    BY <1>0 DEF IInv, TeardownIsInPlace, WaitersAreInPlace, CancelIsSeen, Awake
<1>3. status = "connected" => current # n /\ current \in Attempts
    BY <1>0 DEF IInv, TypeOK, ConnectedHasItsLine, Attempts
<1>4. CASE /\ n = current /\ status = "connecting" /\ installed' = n
           /\ body' = [body EXCEPT ![n] = "setup"] /\ line' = [line EXCEPT ![n] = "open"]
  <2>1. installed = 0 /\ stopping = "none" /\ \A m \in Attempts : body[m] # "setup"
      BY <1>0, <1>1, <1>4 DEF IInv, NothingInstalled, SetupIsCurrent, Holds
  <2>2. /\ body' \in [Attempts -> Bodies] /\ line' \in [Attempts -> Lines]
        /\ body'[n] = "setup" /\ line'[n] = "open"
        /\ \A m \in Attempts : m # n => body'[m] = body[m] /\ line'[m] = line[m]
      BY <1>4 DEF IInv, TypeOK, Bodies, Lines
  <2>3. TypeOK'
      BY <2>2, <1>0, <1>4 DEF IInv, TypeOK
  <2>4. NoneAhead'
      BY <2>2, <1>0 DEF IInv, NoneAhead
  <2>5. SetupIsCurrent'
      BY <2>1, <2>2, <1>0, <1>1, <1>4 DEF SetupIsCurrent, Holds
  <2>6. ConnectedHasItsLine' /\ NothingInstalled'
      BY <2>1, <2>2, <1>0, <1>1, <1>2, <1>4 DEF ConnectedHasItsLine, NothingInstalled
  <2>7. WebLines'
      BY <2>1, <2>2, <1>0, <1>4 DEF IInv, WebLines
  <2> QED
      BY <2>3, <2>4, <2>5, <2>6, <2>7, <1>2 DEF IInv
<1>5. CASE /\ body' = [body EXCEPT ![n] = IF link = "web" THEN "failing" ELSE "handback"]
           /\ line' = [line EXCEPT ![n] = IF link = "web" THEN "closed" ELSE "handback"]
           /\ installed' = installed
  <2>1. /\ body' \in [Attempts -> Bodies] /\ line' \in [Attempts -> Lines]
        /\ body'[n] \in {"failing", "handback"} /\ line'[n] \in {"closed", "handback"}
        /\ link = "web" => line'[n] = "closed"
        /\ \A m \in Attempts : m # n => body'[m] = body[m] /\ line'[m] = line[m]
      BY <1>5 DEF IInv, TypeOK, Bodies, Lines
  <2>2. TypeOK'
      BY <2>1, <1>0, <1>5 DEF IInv, TypeOK
  <2>3. NoneAhead'
      BY <2>1, <1>0 DEF IInv, NoneAhead
  <2>4. SetupIsCurrent'
      BY <2>1, <1>0, <1>1, <1>5 DEF IInv, SetupIsCurrent, Holds
  <2>5. ConnectedHasItsLine'
      BY <2>1, <1>0, <1>3, <1>5 DEF IInv, ConnectedHasItsLine
  <2>6. NothingInstalled'
    <3>1. current # 0 => current \in Attempts
        BY <1>0 DEF IInv, TypeOK, Attempts
    <3> QED
        BY <3>1, <2>1, <1>0, <1>2, <1>5 DEF IInv, NothingInstalled
  <2>7. WebLines'
      BY <2>1, <1>0, <1>5 DEF IInv, WebLines
  <2> QED
      BY <2>2, <2>3, <2>4, <2>5, <2>6, <2>7, <1>2 DEF IInv
<1> QED
    BY <1>4, <1>5 DEF Opened

\* The setup is over: the current attempt has what a connected client has.
LEMMA EstablishedStep == IInv /\ (\E n \in Attempts : Established(n)) => IInv'
<1> SUFFICES ASSUME IInv, NEW n \in Attempts, Established(n) PROVE IInv'
    OBVIOUS
<1>1. /\ UNCHANGED <<link, stopped, current, attempt, line, installed, stopping, closes, emitting, delivered, cancelled>>
      /\ body[n] = "setUp" /\ body' = [body EXCEPT ![n] = "done"]
      /\ status' = (IF n = current THEN "connected" ELSE status)
      /\ CallEnds(n, Resolved) \/ CallEnds(n, FailureOf(n))
    BY DEF Established, endVars
<1>2. /\ calls' \in [Callers \cup {Loop} -> [at: Places, n: 0 .. MaxConnects]] /\ DOMAIN calls' = DOMAIN calls
      /\ \A c \in DOMAIN calls : \/ calls'[c] = calls[c]
                                 \/ calls[c].at = "attempt" /\ calls'[c].at = "none" /\ calls'[c].n = 0
    BY <1>1, CallEndsIs
<1>3. /\ body' \in [Attempts -> Bodies] /\ body'[n] = "done"
      /\ \A m \in Attempts : m # n => body'[m] = body[m]
    BY <1>1 DEF IInv, TypeOK, Bodies
<1>4. n # 0 /\ MaxConnects \in Nat /\ Loop \in DOMAIN calls /\ (current # 0 => current \in Attempts)
    BY LifecycleAssumption DEF IInv, TypeOK, Attempts
<1>5. n = current => Holds(n)
    BY <1>1 DEF IInv, SetupIsCurrent
<1>6. TypeOK'
    BY <1>1, <1>2, <1>3 DEF IInv, TypeOK
<1>7. NoneAhead'
    BY <1>1, <1>2, <1>3 DEF IInv, TypeOK, NoneAhead
<1>8. SetupIsCurrent'
  <2>1. CASE n = current
      BY <2>1, <1>1, <1>3, <1>5 DEF IInv, SetupIsCurrent, Holds
  <2>2. CASE n # current
      BY <2>2, <1>1, <1>3 DEF IInv, SetupIsCurrent, Holds
  <2> QED
      BY <2>1, <2>2
<1>9. ConnectedHasItsLine'
  <2>1. CASE n = current
      BY <2>1, <1>1, <1>3, <1>4, <1>5 DEF ConnectedHasItsLine, Holds
  <2>2. CASE n # current
      BY <2>2, <1>1, <1>3, <1>4 DEF IInv, ConnectedHasItsLine
  <2> QED
      BY <2>1, <2>2
<1>10. NothingInstalled' /\ TeardownIsInPlace'
  <2>1. Awake' => Awake
      BY <1>2 DEF Awake
  <2>2. CASE n = current
    <3>1. installed # 0
        BY <2>2, <1>4, <1>5 DEF Holds
    <3>2. stopping = "none" /\ emitting = "nobody" /\ ~delivered /\ ~Awake
        BY <3>1 DEF IInv, NothingInstalled
    <3> QED
        BY <3>2, <2>1, <2>2, <1>1 DEF NothingInstalled, TeardownIsInPlace
  <2>3. CASE n # current
      BY <2>1, <2>3, <1>1, <1>3, <1>4 DEF IInv, NothingInstalled, TeardownIsInPlace
  <2> QED
      BY <2>2, <2>3
<1>11. WaitersAreInPlace' /\ WebLines' /\ CancelIsSeen'
    BY <1>1, <1>2, <1>4 DEF IInv, WaitersAreInPlace, WebLines, CancelIsSeen
<1> QED
    BY <1>6, <1>7, <1>8, <1>9, <1>10, <1>11 DEF IInv

----------------------------------------------------------------------------
(* Ends.                                                                   *)

\* The end of whatever was under way: the attempts that set up fail, the status says
\* disconnected, and nothing is installed.
LEMMA EndsAll ==
    ASSUME IInv, NEW b \in [Attempts -> Bodies], body' = Doomed(b),
           \A n \in Attempts : b[n] = body[n] \/ (b[n] = "done" /\ body[n] # "none"),
           status' = "disconnected", installed' = 0, UNCHANGED <<link, attempt>>,
           current' = 0 \/ (current' = current /\ \A n \in Attempts : body[n] = "setUp" => n # current),
           line' \in [Attempts -> Lines],
           \A n \in Attempts : \/ line'[n] = line[n] /\ (link = "web" => line[n] # "open")
                               \/ line[n] # "none" /\ line'[n] = "closed"
                               \/ line[n] # "none" /\ line'[n] = "closing" /\ link = "stream",
           calls' \in [Callers \cup {Loop} -> [at: Places, n: 0 .. MaxConnects]], DOMAIN calls' = DOMAIN calls,
           \A c \in DOMAIN calls : \/ calls'[c] = calls[c]
                                   \/ calls[c].at = "attempt" /\ calls'[c].at = "none" /\ calls'[c].n = 0
    PROVE  /\ NoneAhead' /\ SetupIsCurrent' /\ ConnectedHasItsLine' /\ NothingInstalled' /\ WebLines'
           /\ body' \in [Attempts -> Bodies]
<1>0. MaxConnects \in Nat /\ attempt \in 0 .. MaxConnects
    BY LifecycleAssumption DEF IInv, TypeOK
<1>1. /\ body' \in [Attempts -> Bodies]
      /\ \A n \in Attempts : body'[n] # "setup"
      /\ \A n \in Attempts : body'[n] = "setUp" => body[n] = "setUp" /\ n # 0
      /\ \A n \in Attempts : body[n] = "none" => body'[n] = "none"
  <2>1. body' \in [Attempts -> Bodies]
      BY DoomedIs
  <2>2. \A n \in Attempts : \/ body'[n] = b[n] /\ b[n] # "setup"
                            \/ body'[n] = "failing" /\ b[n] = "setup"
      BY DoomedIs
  <2>3. \A n \in Attempts : n # 0
      BY <1>0 DEF Attempts
  <2> QED
      BY <2>1, <2>2, <2>3
<1>2. NoneAhead'
    BY <1>0, <1>1 DEF IInv, TypeOK, NoneAhead
<1>3. SetupIsCurrent'
    BY <1>1 DEF SetupIsCurrent
<1>4. ConnectedHasItsLine' /\ NothingInstalled'
    BY DEF ConnectedHasItsLine, NothingInstalled
<1>5. WebLines'
    BY DEF IInv, WebLines
<1> QED
    BY <1>1, <1>2, <1>3, <1>4, <1>5

\* #failConnection: of an attempt that is over while the client is connected, it does
\* nothing; else it ends the current one.
LEMMA FailedStep == IInv /\ (\E n \in Attempts, answer \in BOOLEAN : Failed(n, answer)) => IInv'
<1> SUFFICES ASSUME IInv, NEW n \in Attempts, NEW answer \in BOOLEAN, Failed(n, answer) PROVE IInv'
    OBVIOUS
<1>0. MaxConnects \in Nat /\ Loop \in DOMAIN calls /\ (current # 0 => current \in Attempts)
    BY LifecycleAssumption DEF IInv, TypeOK, Attempts
<1>1. /\ UNCHANGED <<link, stopped, current, attempt, stopping, closes, delivered, cancelled>>
      /\ emitting = "nobody" /\ body[n] = "failing" /\ CallEnds(n, FailureOf(n))
    BY DEF Failed, InContinuation
<1>2. /\ calls' \in [Callers \cup {Loop} -> [at: Places, n: 0 .. MaxConnects]] /\ DOMAIN calls' = DOMAIN calls
      /\ \A c \in DOMAIN calls : \/ calls'[c] = calls[c]
                                 \/ calls[c].at = "attempt" /\ calls'[c].at = "none" /\ calls'[c].n = 0
    BY <1>1, CallEndsIs
<1>3. WaitersAreInPlace' /\ CancelIsSeen' /\ (Awake' => Awake)
    BY <1>0, <1>1, <1>2 DEF IInv, WaitersAreInPlace, CancelIsSeen, Awake
<1>4. CASE status = "connected"
  <2>1. body' = [body EXCEPT ![n] = "done"] /\ UNCHANGED <<status, line, installed, emitting>>
      BY <1>4 DEF Failed
  <2>2. /\ body' \in [Attempts -> Bodies] /\ body'[n] = "done"
        /\ \A m \in Attempts : m # n => body'[m] = body[m]
      BY <2>1 DEF IInv, TypeOK, Bodies
  <2>3. TypeOK'
      BY <2>1, <2>2, <1>1, <1>2 DEF IInv, TypeOK
  <2>4. NoneAhead'
      BY <2>1, <2>2, <1>1, <1>2 DEF IInv, TypeOK, NoneAhead
  <2>5. SetupIsCurrent' /\ ConnectedHasItsLine'
      BY <2>1, <2>2, <1>0, <1>1, <1>4 DEF IInv, SetupIsCurrent, Holds, ConnectedHasItsLine
  <2>6. NothingInstalled' /\ TeardownIsInPlace' /\ WebLines'
      BY <2>1, <2>2, <1>0, <1>1, <1>3, <1>4 DEF IInv, NothingInstalled, TeardownIsInPlace, WebLines
  <2> QED
      BY <2>3, <2>4, <2>5, <2>6, <1>3 DEF IInv
<1>5. CASE status # "connected"
  <2> DEFINE b == [body EXCEPT ![n] = "done"]
  <2>1. /\ status' = "disconnected" /\ body' = Doomed(b) /\ line' = Closing(installed) /\ installed' = 0
        /\ emitting' = emitting \/ emitting' = "attempt"
      BY <1>5 DEF Failed, Announce
  <2>2. b \in [Attempts -> Bodies] /\ \A m \in Attempts : b[m] = body[m] \/ (b[m] = "done" /\ body[m] # "none")
      BY <1>1 DEF IInv, TypeOK, Bodies
  <2>3. \A m \in Attempts : body[m] = "setUp" => m # current
      BY <1>1 DEF IInv, SetupIsCurrent
  <2>4. /\ line' \in [Attempts -> Lines]
        /\ \A m \in Attempts : \/ line'[m] = line[m] /\ (link = "web" => line[m] # "open")
                               \/ line[m] # "none" /\ line'[m] = "closed"
                               \/ line[m] # "none" /\ line'[m] = "closing" /\ link = "stream"
    <3>1. installed \in 0 .. MaxConnects /\ \A m \in Attempts : link = "web" /\ line[m] = "open" => m = installed
        BY DEF IInv, TypeOK, WebLines
    <3> QED
        BY <3>1, <2>1, ClosingIs
  <2>5. /\ NoneAhead' /\ SetupIsCurrent' /\ ConnectedHasItsLine' /\ NothingInstalled' /\ WebLines'
        /\ body' \in [Attempts -> Bodies]
      BY <2>1, <2>2, <2>3, <2>4, <1>1, <1>2, EndsAll
  <2>6. TypeOK'
    <3>1. /\ status' = "disconnected" /\ installed' \in 0 .. MaxConnects
          /\ emitting' \in {"nobody", "attempt", "drop", "teardown"}
        BY <2>1, <1>0, <1>1
    <3> QED
        BY <3>1, <2>4, <2>5, <1>1, <1>2 DEF IInv, TypeOK
  <2>7. TeardownIsInPlace'
      BY <2>1, <1>1 DEF IInv, TeardownIsInPlace
  <2> QED
      BY <2>5, <2>6, <2>7, <1>3 DEF IInv
<1> QED
    BY <1>4, <1>5

\* A transport ends: #handleClose ends whatever is under way.
LEMMA LineEndsStep == IInv /\ (\E n \in Attempts, answer \in BOOLEAN : LineEnds(n, answer)) => IInv'
<1> SUFFICES ASSUME IInv, NEW n \in Attempts, NEW answer \in BOOLEAN, LineEnds(n, answer) PROVE IInv'
    OBVIOUS
<1>0. MaxConnects \in Nat
    BY LifecycleAssumption
<1>1. /\ UNCHANGED <<link, stopped, current, attempt, calls, stopping, closes, delivered, cancelled>>
      /\ NewTurn /\ line[n] \in {"open", "closing"} /\ line' = [line EXCEPT ![n] = "closed"]
    BY DEF LineEnds, loopVars
<1>2. /\ emitting = "nobody" /\ ~delivered /\ ~Awake
      /\ \A m \in Attempts : body[m] \notin {"setUp", "failing"}
      /\ stopping # "none" => status = "disconnected"
    BY <1>1, TurnStarts
<1>3. /\ line' \in [Attempts -> Lines] /\ line'[n] = "closed"
      /\ \A m \in Attempts : m # n => line'[m] = line[m]
    BY <1>1 DEF IInv, TypeOK, Lines
<1>4. WaitersAreInPlace' /\ CancelIsSeen' /\ Awake' = Awake
    BY <1>1 DEF IInv, WaitersAreInPlace, CancelIsSeen, Awake
<1>5. CASE status = "disconnected"
  <2>1. UNCHANGED <<status, body, installed, emitting>>
      BY <1>5 DEF LineEnds, HandleClose
  <2>2. TypeOK'
      BY <2>1, <1>1, <1>3 DEF IInv, TypeOK
  <2>3. NoneAhead' /\ SetupIsCurrent' /\ ConnectedHasItsLine'
      BY <2>1, <1>1, <1>2, <1>3, <1>5 DEF IInv, NoneAhead, SetupIsCurrent, Holds, ConnectedHasItsLine
  <2>4. NothingInstalled' /\ TeardownIsInPlace' /\ WebLines'
      BY <2>1, <1>1, <1>3, <1>4 DEF IInv, NothingInstalled, TeardownIsInPlace, WebLines
  <2> QED
      BY <2>2, <2>3, <2>4, <1>4 DEF IInv
<1>6. CASE status # "disconnected"
  <2>1. /\ status' = "disconnected" /\ body' = Doomed(body) /\ installed' = 0
        /\ emitting' = emitting \/ emitting' = "drop"
      BY <1>6 DEF LineEnds, HandleClose, Announce
  <2>2. \A m \in Attempts : \/ line'[m] = line[m] /\ (link = "web" => line[m] # "open")
                            \/ line[m] # "none" /\ line'[m] = "closed"
    <3>1. link = "web" => n = installed /\ \A m \in Attempts : line[m] = "open" => m = installed
        BY <1>1 DEF IInv, WebLines
    <3> QED
        BY <3>1, <1>1, <1>3
  <2>3. body \in [Attempts -> Bodies] /\ calls \in [Callers \cup {Loop} -> [at: Places, n: 0 .. MaxConnects]]
      BY DEF IInv, TypeOK
  <2>4. /\ NoneAhead' /\ SetupIsCurrent' /\ ConnectedHasItsLine' /\ NothingInstalled' /\ WebLines'
        /\ body' \in [Attempts -> Bodies]
      BY <2>1, <2>2, <2>3, <1>1, <1>2, <1>3, EndsAll
  <2>5. TypeOK'
      BY <2>1, <2>4, <1>0, <1>1, <1>3 DEF IInv, TypeOK
  <2>6. TeardownIsInPlace'
      BY <2>1, <1>1, <1>2, <1>6 DEF IInv, TeardownIsInPlace
  <2> QED
      BY <2>4, <2>5, <2>6, <1>4 DEF IInv
<1> QED
    BY <1>5, <1>6

\* disconnect(): the loop is told, and what is under way ends, once.
LEMMA DisconnectStep == IInv /\ Disconnect => IInv'
<1> SUFFICES ASSUME IInv, Disconnect PROVE IInv'
    OBVIOUS
<1>0. MaxConnects \in Nat /\ \A n \in Attempts : n # 0
    BY LifecycleAssumption DEF Attempts
<1>1. /\ UNCHANGED <<link, attempt, calls, emitting, delivered>> /\ stopped' = TRUE /\ current' = 0
      /\ cancelled' = (cancelled \/ (loop.at # "none" /\ calls[Loop].at \in {"none", "attempt"}))
    BY DEF Disconnect
<1>2. CancelIsSeen' /\ cancelled' \in BOOLEAN
    BY <1>1 DEF IInv, TypeOK, CancelIsSeen
<1>3. CASE stopping # "none" \/ status = "disconnected"
  <2>1. UNCHANGED <<status, stopping, closes, installed, body, line>>
      BY <1>3 DEF Disconnect
  <2>2. installed = 0 /\ status # "connected" /\ \A n \in Attempts : body[n] # "setup"
      BY <1>0, <1>3 DEF IInv, NothingInstalled, ConnectedHasItsLine, SetupIsCurrent, Holds
  <2>3. TypeOK'
      BY <2>1, <1>0, <1>1, <1>2 DEF IInv, TypeOK
  <2>4. NoneAhead'
      BY <2>1, <1>0, <1>1 DEF IInv, TypeOK, NoneAhead
  <2>5. SetupIsCurrent' /\ ConnectedHasItsLine' /\ NothingInstalled'
      BY <2>1, <2>2, <1>0, <1>1 DEF SetupIsCurrent, ConnectedHasItsLine, NothingInstalled
  <2>6. TeardownIsInPlace' /\ WaitersAreInPlace' /\ WebLines'
      BY <2>1, <1>1 DEF IInv, TeardownIsInPlace, WaitersAreInPlace, WebLines
  <2> QED
      BY <2>3, <2>4, <2>5, <2>6, <1>2 DEF IInv
<1>4. CASE stopping = "none" /\ status # "disconnected"
  <2>1. /\ status' = "disconnected" /\ stopping' = "closing" /\ closes' = installed /\ installed' = 0
        /\ body' = Doomed(body) /\ line' = Closing(installed)
      BY <1>4 DEF Disconnect
  <2>2. /\ line' \in [Attempts -> Lines]
        /\ \A m \in Attempts : \/ line'[m] = line[m] /\ (link = "web" => line[m] # "open")
                               \/ line[m] # "none" /\ line'[m] = "closed"
                               \/ line[m] # "none" /\ line'[m] = "closing" /\ link = "stream"
    <3>1. installed \in 0 .. MaxConnects /\ \A m \in Attempts : link = "web" /\ line[m] = "open" => m = installed
        BY DEF IInv, TypeOK, WebLines
    <3> QED
        BY <3>1, <2>1, ClosingIs
  <2>3. body \in [Attempts -> Bodies] /\ calls \in [Callers \cup {Loop} -> [at: Places, n: 0 .. MaxConnects]]
      BY DEF IInv, TypeOK
  <2>4. /\ NoneAhead' /\ SetupIsCurrent' /\ ConnectedHasItsLine' /\ NothingInstalled' /\ WebLines'
        /\ body' \in [Attempts -> Bodies]
      BY <2>1, <2>2, <2>3, <1>1, EndsAll
  <2>5. TypeOK'
      BY <2>1, <2>2, <2>4, <1>0, <1>1, <1>2 DEF IInv, TypeOK
  <2>6. TeardownIsInPlace'
      BY <2>1 DEF TeardownIsInPlace
  <2>7. WaitersAreInPlace'
      BY <2>1, <1>1 DEF IInv, WaitersAreInPlace, NothingInstalled, Awake
  <2> QED
      BY <2>4, <2>5, <2>6, <2>7, <1>2 DEF IInv
<1> QED
    BY <1>3, <1>4 DEF IInv, TypeOK

----------------------------------------------------------------------------
(* The theorems.                                                           *)

\* The invariant holds of every reachable state of the client: connect(), disconnect(),
\* #establish, #failConnection, #handleClose, #teardown and #scheduleReconnect preserve it.
THEOREM QueryLifecycleInductive == Spec => []IInv
<1>1. Init => IInv
    BY InitHolds
<1>2. IInv /\ [Next]_vars => IInv'
  <2> SUFFICES ASSUME IInv, [Next]_vars PROVE IInv'
      OBVIOUS
  <2>1. CASE Announced \/ Delivered \/ TeardownEnds
      BY <2>1, AnnouncedStep, DeliveredStep, TeardownEndsStep
  <2>2. CASE LoopTimer \/ LoopWoken \/ \E answer \in BOOLEAN : LoopNext(answer)
      BY <2>2, LoopStep, LoopWokenStep
  <2>3. CASE \E c \in DOMAIN calls : Woken(c)
      BY <2>3, WokenStep
  <2>4. CASE \E n \in Attempts : Opened(n)
      BY <2>4, OpenedStep
  <2>5. CASE \E n \in Attempts : HandedBack(n) \/ Fails(n) \/ SetupDone(n)
      BY <2>5, AttemptStep
  <2>6. CASE \E n \in Attempts : Established(n)
      BY <2>6, EstablishedStep
  <2>7. CASE \E n \in Attempts, answer \in BOOLEAN : Failed(n, answer)
      BY <2>7, FailedStep
  <2>8. CASE \E n \in Attempts, answer \in BOOLEAN : LineEnds(n, answer)
      BY <2>8, LineEndsStep
  <2>9. CASE Disconnect
      BY <2>9, DisconnectStep
  <2>10. CASE \E c \in Callers : Connect(c)
      BY <2>10, ConnectStep
  <2>11. CASE UNCHANGED vars
      BY <2>11, LoopMoves DEF vars, Session, attemptVars, endVars, loopVars
  <2> QED
      BY <2>1, <2>2, <2>3, <2>4, <2>5, <2>6, <2>7, <2>8, <2>9, <2>10, <2>11 DEF Next, Progress
<1> QED
    BY <1>1, <1>2, PTL DEF Spec

\* A connected client has the open transport of the attempt that connected, and with a
\* transport that closes at once no other stays open, however #connect, #failConnection,
\* #handleClose and disconnect() interleave, for any callers and any number of them.
THEOREM NothingIsLeftOpen == Spec => []NothingLeftOpen
<1>1. IInv => NothingLeftOpen
    BY DEF IInv, ConnectedHasItsLine, WebLines, NothingLeftOpen, OpenLines
<1> QED
    BY <1>1, QueryLifecycleInductive, PTL

\* The loop that disconnect() found asleep or in an attempt starts no attempt any more:
\* #scheduleReconnect looks at #stopped after its delay and #willReconnect after an attempt.
THEOREM DisconnectAlwaysStopsTheLoop == Spec => DisconnectStopsTheLoop
<1>1. IInv /\ [Next]_vars => [LoopStarts => ~cancelled]_vars
  <2> SUFFICES ASSUME IInv, [Next]_vars, LoopStarts PROVE ~cancelled
      OBVIOUS
  <2>1. /\ attempt \in Nat /\ Loop \in DOMAIN calls /\ calls[Loop].n \in Nat /\ calls[Loop].n <= attempt
        /\ DOMAIN calls = Callers \cup {Loop} /\ \A c \in Callers : c # Loop
      BY LifecycleAssumption DEF IInv, TypeOK, NoneAhead, Loop
  <2>2. ASSUME NEW c \in DOMAIN calls, c # Loop, Begin(c)
        PROVE  FALSE
    <3>1. calls'[Loop] = calls[Loop] /\ attempt' = attempt + 1 /\ calls'[Loop].n = attempt'
        BY <2>1, <2>2 DEF Begin, LoopStarts
    <3> QED
        BY <3>1, <2>1
  <2>3. CASE \E c \in Callers : Connect(c)
    <3>1. PICK c \in Callers : Connect(c)
        BY <2>3
    <3>2. Begin(c)
        BY <3>1 DEF Connect, Enter, LoopStarts
    <3> QED
        BY <3>2, <2>1, <2>2
  <2>4. CASE \E c \in DOMAIN calls : Woken(c)
    <3>1. PICK c \in DOMAIN calls : Woken(c)
        BY <2>4
    <3>2. Begin(c) /\ calls[c].at \in {"woken", "heard"}
        BY <3>1 DEF Woken, LoopStarts
    <3> QED
        BY <3>2, <2>2 DEF IInv, CancelIsSeen
  <2>5. CASE LoopWoken
      BY <2>5 DEF LoopWoken, LoopStarts, IInv, CancelIsSeen
  <2>6. ~(Announced \/ Delivered \/ TeardownEnds \/ LoopTimer \/ (\E answer \in BOOLEAN : LoopNext(answer)))
      BY DEF Announced, Delivered, TeardownEnds, LoopTimer, LoopNext, LoopStarts, attemptVars
  <2>7. ~\E n \in Attempts : Opened(n) \/ HandedBack(n) \/ Fails(n) \/ SetupDone(n) \/ Established(n)
      BY DEF Opened, HandedBack, Fails, SetupDone, Established, LoopStarts
  <2>8. /\ ~\E n \in Attempts, answer \in BOOLEAN : Failed(n, answer) \/ LineEnds(n, answer)
        /\ ~Disconnect /\ ~UNCHANGED vars
      BY DEF Failed, LineEnds, Disconnect, LoopStarts, vars, attemptVars
  <2> QED
      BY <2>3, <2>4, <2>5, <2>6, <2>7, <2>8 DEF Next, Progress
<1> QED
    BY <1>1, QueryLifecycleInductive, PTL DEF Spec, DisconnectStopsTheLoop
=============================================================================
