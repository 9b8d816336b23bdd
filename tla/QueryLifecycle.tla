--------------------------- MODULE QueryLifecycle ---------------------------
(***************************************************************************)
(* The life of a ServerQuery client (src/src/query/client.ts): connect(),  *)
(* disconnect(), the transports they open and close, and the reconnect     *)
(* loop.  Events are delivered where they are emitted, inside the step     *)
(* that emits them, so a listener of `disconnected` runs in the middle of  *)
(* #announceDisconnected; `emitting` says that one does.                   *)
(*                                                                         *)
(* As in the program, a turn of the event loop starts only when every      *)
(* continuation whose promise has settled has run (Micro), and the         *)
(* application calls whenever its code runs.  Attempts are numbered in the *)
(* order #connect starts them, and the transport an attempt opens goes by  *)
(* its number.                                                             *)
(***************************************************************************)
EXTENDS Naturals

CONSTANTS
    Callers,         \* who calls connect() in the application
    MaxConnects,     \* bound: attempts ever started
    MaxDisconnects,  \* bound: calls of disconnect()
    MaxAttempts      \* backoff.maxAttempts; 0 never gives up

ASSUME LifecycleAssumption ==
    /\ "loop" \notin Callers
    /\ MaxConnects \in Nat \ {0}
    /\ MaxDisconnects \in Nat /\ MaxAttempts \in Nat

Loop     == "loop"
Attempts == 1 .. MaxConnects

VARIABLES
    link,         \* "stream" says quit and waits to close, "web" closes at once
    status,       \* #status
    stopped,      \* #stopped
    current,      \* the attempt whose generation is #generation, 0 after disconnect()
    attempt,      \* attempts started
    body,         \* per attempt: the await of #connect that is running
    line,         \* per attempt: its transport
    installed,    \* #transport, 0 for null
    calls,        \* per caller: where its call of #connect is
    stopping,     \* #stopping: the phase of #teardown
    closes,       \* the transport #teardown waits for, or 0
    disconnects,  \* calls of disconnect() so far
    emitting,     \* whose `disconnected` the listeners are hearing
    delivered,    \* #disconnectedDelivered is set
    loop,         \* the reconnect loop: its phase, attempt number and reason
    loopAttempt,  \* #loopAttempt
    stopLoop,     \* the loop's AbortController has been aborted
    retryAnswer,  \* #retryAnswer
    lastDrop,     \* #lastDrop
    promised,     \* history: the last `disconnected` said willReconnect
    cancelled     \* history: disconnect() was called while the loop slept or was connecting

attemptVars == <<current, attempt, body, line, installed>>
endVars     == <<stopping, closes, disconnects, emitting, delivered, promised>>
retryVars   == <<retryAnswer, lastDrop>>
loopVars    == <<loop, loopAttempt, stopLoop, cancelled>>
vars == <<link, status, stopped, attemptVars, calls, endVars, retryVars, loopVars>>

NoError      == <<"none", 0>>
FailureOf(n) == <<"failed", n>>
DropOf(n)    == <<"dropped", n>>
Already      == <<"already", 0>>
Resolved     == <<"resolved", 0>>

----------------------------------------------------------------------------
(* The scheduler.                                                          *)

TeardownClosed == stopping = "closing" /\ (closes # 0 => line[closes] = "closed")

\* A continuation is due.
Micro ==
    \/ \E n \in Attempts : body[n] \in {"setUp", "failing"}
    \/ \E c \in DOMAIN calls : calls[c].at \in {"woken", "heard"}
    \/ delivered \/ TeardownClosed
    \/ loop.at \in {"woken", "ended"}

NewTurn        == emitting = "nobody" /\ ~Micro
InContinuation == emitting = "nobody"

----------------------------------------------------------------------------
(* Ends.                                                                   *)

\* A mutant: the answer is not kept, and the loop asks again.
Asked_Never(err, k) == FALSE

\* #willReconnect: the answer of shouldRetry is kept, so that a failure asks once.
Refused(k)    == stopped \/ (MaxAttempts # 0 /\ k > MaxAttempts)
Asked(err, k) == retryAnswer.err = err /\ retryAnswer.k = k

WillReconnect(err, k, answer) ==
    ~Refused(k) /\ (IF Asked(err, k) THEN retryAnswer.retry ELSE answer)

AskRetry(err, k, answer) ==
    retryAnswer' = IF Refused(k) \/ Asked(err, k) THEN retryAnswer
                   ELSE [err |-> err, k |-> k, retry |-> answer]

\* #fail: the command of an attempt that is setting its session up rejects.
Doomed(b) == [n \in Attempts |-> IF b[n] = "setup" THEN "failing" ELSE b[n]]

\* A mutant: the transport of a failed attempt is forgotten, not closed.
Closing_Never(n) == line

\* transport.close(): a stream says quit and waits for the server.
Closing(n) == IF n = 0 THEN line
              ELSE [line EXCEPT ![n] = IF @ = "open" THEN (IF link = "web" THEN "closed" ELSE "closing")
                                                     ELSE @]

\* #announceDisconnected: the listeners hear it before anything else happens.
Announce(whose, will) == emitting' = whose /\ promised' = will

\* ... and then it counts as delivered, and a drop starts the loop.
Announced ==
    /\ emitting # "nobody"
    /\ emitting' = "nobody"
    /\ delivered' = TRUE
    /\ stopping' = IF emitting = "teardown" THEN "announced" ELSE stopping
    /\ IF emitting = "drop" /\ loop.at = "none" /\ WillReconnect(lastDrop, 1, FALSE)
       THEN /\ loop' = [at |-> "sleep", k |-> 1, err |-> lastDrop]
            /\ stopLoop' = FALSE
            /\ cancelled' = FALSE
       ELSE UNCHANGED <<loop, stopLoop, cancelled>>
    /\ UNCHANGED <<link, status, stopped, attemptVars, calls, closes, disconnects, promised,
                   retryVars, loopAttempt>>

\* A mutant: #stopping is not cleared.
Delivered_StillStopping ==
    /\ InContinuation /\ delivered
    /\ delivered' = FALSE
    /\ calls' = [c \in DOMAIN calls |->
                   IF calls[c].at = "waitDelivered" THEN [calls[c] EXCEPT !.at = "heard"] ELSE calls[c]]
    /\ UNCHANGED <<link, status, stopped, attemptVars, stopping, closes, disconnects, emitting, promised,
                   retryVars, loopVars>>

\* #disconnectedDelivered is cleared, and who waited for it or for disconnect() wakes.
Delivered ==
    /\ InContinuation /\ delivered
    /\ delivered' = FALSE
    /\ stopping' = IF stopping = "announced" THEN "none" ELSE stopping
    /\ calls' = [c \in DOMAIN calls |->
                   CASE calls[c].at = "waitDelivered" -> [calls[c] EXCEPT !.at = "heard"]
                     [] stopping = "announced" /\ calls[c].at = "waitStopping"
                          -> [calls[c] EXCEPT !.at = "woken"]
                     [] OTHER -> calls[c]]
    /\ UNCHANGED <<link, status, stopped, attemptVars, closes, disconnects, emitting, promised,
                   retryVars, loopVars>>

----------------------------------------------------------------------------
(* #connect.                                                               *)

WaitFor(c, what) == calls' = [calls EXCEPT ![c] = [at |-> what, n |-> 0]]
Return(c)        == WaitFor(c, "none")

Begin(c) ==
    /\ attempt < MaxConnects
    /\ stopped' = FALSE
    /\ attempt' = attempt + 1
    /\ current' = attempt + 1
    /\ status' = "connecting"
    /\ body' = [body EXCEPT ![attempt + 1] = "opening"]
    /\ calls' = [calls EXCEPT ![c] = [at |-> "attempt", n |-> attempt + 1]]
    /\ cancelled' = (cancelled /\ c = Loop)

\* A disconnect() that is not over and a `disconnected` on its way are waited for.
Enter(c) ==
    \/ /\ stopping # "none"
       /\ WaitFor(c, "waitStopping")
       /\ UNCHANGED <<stopped, attempt, current, status, body, cancelled>>
    \/ /\ stopping = "none" /\ delivered
       /\ WaitFor(c, "waitDelivered")
       /\ UNCHANGED <<stopped, attempt, current, status, body, cancelled>>
    \/ /\ stopping = "none" /\ ~delivered
       /\ status = "disconnected"                \* else AlreadyConnectedError
       /\ Begin(c)

\* connect()
Connect(c) ==
    /\ c \in Callers /\ calls[c].at = "none"
    /\ attempt < MaxConnects
    /\ Enter(c)
    /\ UNCHANGED <<link, line, installed, endVars, retryVars, loop, loopAttempt, stopLoop>>

\* #connect goes on after its wait.  It does not look whether disconnect() was called;
\* after the wait for a `disconnected` it looks whether the caller's signal aborted.
Woken(c) ==
    /\ InContinuation /\ calls[c].at \in {"woken", "heard"}
    /\ \/ /\ calls[c].at = "heard" /\ c \in Callers
          /\ Return(c)
          /\ UNCHANGED <<stopped, attempt, current, status, body, cancelled, loop>>
       \/ /\ delivered
          /\ WaitFor(c, "waitDelivered")
          /\ UNCHANGED <<stopped, attempt, current, status, body, cancelled, loop>>
       \/ /\ ~delivered /\ status # "disconnected"
          /\ Return(c)
          /\ loop' = IF c = Loop THEN [loop EXCEPT !.at = "ended", !.err = Already] ELSE loop
          /\ UNCHANGED <<stopped, attempt, current, status, body, cancelled>>
       \/ /\ ~delivered /\ status = "disconnected"
          /\ Begin(c)
          /\ UNCHANGED loop
    /\ UNCHANGED <<link, line, installed, endVars, retryVars, loopAttempt, stopLoop>>

\* The transport is open: it is installed, or closed again when the attempt was given
\* up meanwhile or the transport cannot deliver the events asked for.
Opened(n) ==
    /\ NewTurn /\ body[n] = "opening"
    /\ \/ /\ n = current /\ status = "connecting"
          /\ body' = [body EXCEPT ![n] = "setup"]
          /\ line' = [line EXCEPT ![n] = "open"]
          /\ installed' = n
       \/ /\ body' = [body EXCEPT ![n] = IF link = "web" THEN "failing" ELSE "handback"]
          /\ line' = [line EXCEPT ![n] = IF link = "web" THEN "closed" ELSE "handback"]
          /\ UNCHANGED installed
    /\ UNCHANGED <<link, status, stopped, current, attempt, calls, endVars, retryVars, loopVars>>

\* A transport that was never installed has closed.
HandedBack(n) ==
    /\ NewTurn /\ body[n] = "handback"
    /\ body' = [body EXCEPT ![n] = "failing"]
    /\ line' = [line EXCEPT ![n] = "closed"]
    /\ UNCHANGED <<link, status, stopped, current, attempt, installed, calls, endVars, retryVars, loopVars>>

\* The transport cannot be opened, a command of the setup is refused or times out, or
\* the caller's signal aborts.
Fails(n) ==
    /\ NewTurn /\ body[n] \in {"opening", "setup"}
    /\ body' = [body EXCEPT ![n] = "failing"]
    /\ UNCHANGED <<link, status, stopped, current, attempt, line, installed, calls, endVars,
                   retryVars, loopVars>>

\* The last command of the setup is answered.
SetupDone(n) ==
    /\ NewTurn /\ body[n] = "setup"
    /\ body' = [body EXCEPT ![n] = "setUp"]
    /\ UNCHANGED <<link, status, stopped, current, attempt, line, installed, calls, endVars,
                   retryVars, loopVars>>

\* The call of an attempt returns or throws.
CallEnds(n, err) ==
    /\ calls' = [c \in DOMAIN calls |->
                   IF calls[c].at = "attempt" /\ calls[c].n = n THEN [at |-> "none", n |-> 0] ELSE calls[c]]
    /\ loop' = IF calls[Loop].at = "attempt" /\ calls[Loop].n = n
               THEN [loop EXCEPT !.at = "ended", !.err = err] ELSE loop

\* The session is set up: `connected`, or the attempt was given up meanwhile.
Established(n) ==
    /\ InContinuation /\ body[n] = "setUp"
    /\ body' = [body EXCEPT ![n] = "done"]
    /\ IF n = current THEN status' = "connected" /\ CallEnds(n, Resolved)
                      ELSE UNCHANGED status /\ CallEnds(n, FailureOf(n))
    /\ UNCHANGED <<link, stopped, current, attempt, line, installed, endVars, retryVars, loopAttempt,
                   stopLoop, cancelled>>

\* #failConnection, whichever attempt it is that failed, and #connect throws.  The loop
\* goes on in the tick after its attempt; the rejection of a command takes several.
Failed(n, answer) ==
    /\ InContinuation /\ body[n] = "failing" /\ loop.at # "ended"
    /\ IF status = "connected"
       THEN /\ body' = [body EXCEPT ![n] = "done"]
            /\ UNCHANGED <<status, line, installed, emitting, promised, retryAnswer>>
       ELSE /\ status' = "disconnected"
            /\ body' = Doomed([body EXCEPT ![n] = "done"])
            /\ line' = Closing(installed)
            /\ installed' = 0
            /\ IF loop.at = "none" THEN UNCHANGED <<emitting, promised, retryAnswer>>
               ELSE /\ Announce("attempt", WillReconnect(FailureOf(n), loopAttempt + 1, answer))
                    /\ AskRetry(FailureOf(n), loopAttempt + 1, answer)
    /\ CallEnds(n, FailureOf(n))
    /\ UNCHANGED <<link, stopped, current, attempt, stopping, closes, disconnects, delivered, lastDrop,
                   loopAttempt, stopLoop, cancelled>>

----------------------------------------------------------------------------
(* The transport ends.                                                     *)

\* #handleClose, which does not know whose close it is told of.
HandleClose(n, answer) ==
    IF status = "disconnected"
    THEN UNCHANGED <<status, body, installed, emitting, promised, retryVars>>
    ELSE /\ installed' = 0
         /\ body' = Doomed(body)
         /\ status' = "disconnected"
         /\ IF status = "connected"
            THEN /\ lastDrop' = DropOf(n)
                 /\ Announce("drop", WillReconnect(DropOf(n), loopAttempt + 1, answer))
                 /\ AskRetry(DropOf(n), loopAttempt + 1, answer)
            ELSE UNCHANGED <<emitting, promised, retryVars>>

\* A transport drops, or one that is being closed has closed.
LineEnds(n, answer) ==
    /\ NewTurn /\ line[n] \in {"open", "closing"}
    /\ line' = [line EXCEPT ![n] = "closed"]
    /\ HandleClose(n, answer)
    /\ UNCHANGED <<link, stopped, current, attempt, calls, stopping, closes, disconnects, delivered, loopVars>>

\* disconnect(), up to the first await of #teardown.
Disconnect ==
    /\ disconnects < MaxDisconnects
    /\ disconnects' = disconnects + 1
    /\ stopped' = TRUE
    /\ current' = 0
    /\ stopLoop' = (stopLoop \/ loop.at # "none")
    /\ cancelled' = (cancelled \/ (loop.at # "none" /\ calls[Loop].at \in {"none", "attempt"}))
    /\ loop' = IF loop.at = "sleep" THEN [loop EXCEPT !.at = "woken"] ELSE loop
    /\ IF stopping # "none" \/ status = "disconnected"
       THEN UNCHANGED <<status, stopping, closes, installed, body, line>>
       ELSE /\ status' = "disconnected"
            /\ stopping' = "closing"
            /\ closes' = installed
            /\ installed' = 0
            /\ body' = Doomed(body)
            /\ line' = Closing(installed)
    /\ UNCHANGED <<link, attempt, calls, emitting, delivered, promised, retryVars, loopAttempt>>

\* The rest of #teardown.
TeardownEnds ==
    /\ InContinuation /\ TeardownClosed
    /\ Announce("teardown", FALSE)
    /\ stopping' = "announcing"
    /\ closes' = 0
    /\ UNCHANGED <<link, status, stopped, attemptVars, calls, disconnects, delivered, retryVars, loopVars>>

----------------------------------------------------------------------------
(* #scheduleReconnect.                                                     *)

LoopEnds ==
    /\ loop' = [at |-> "none", k |-> 0, err |-> NoError]
    /\ loopAttempt' = 0
    /\ stopLoop' = FALSE
    /\ cancelled' = FALSE

LoopTimer ==
    /\ NewTurn /\ loop.at = "sleep"
    /\ loop' = [loop EXCEPT !.at = "woken"]
    /\ UNCHANGED <<link, status, stopped, attemptVars, calls, endVars, retryVars, loopAttempt,
                   stopLoop, cancelled>>

\* A mutant: the loop does not look whether it was stopped.
LoopWoken_NotStopped ==
    /\ InContinuation /\ loop.at = "woken"
    /\ status = "disconnected"
    /\ loopAttempt' = loop.k
    /\ loop' = [loop EXCEPT !.at = "calling"]
    /\ Enter(Loop)
    /\ UNCHANGED <<link, line, installed, endVars, retryVars, stopLoop>>

\* After the delay: stopped, or connected by hand, or the next attempt.
LoopWoken ==
    /\ InContinuation /\ loop.at = "woken"
    /\ \/ /\ stopped \/ status # "disconnected"
          /\ LoopEnds
          /\ UNCHANGED <<stopped, attempt, current, status, body, calls>>
       \/ /\ ~stopped /\ status = "disconnected"
          /\ loopAttempt' = loop.k
          /\ loop' = [loop EXCEPT !.at = "calling"]
          /\ Enter(Loop)
          /\ UNCHANGED stopLoop
    /\ UNCHANGED <<link, line, installed, endVars, retryVars>>

\* Nothing is left to retry; the session may have dropped before the loop resumed.
LoopDone == loop.err = Already \/ (loop.err = Resolved /\ status = "connected")

\* The attempt has ended: the loop is done, or goes round again.
LoopNext(answer) ==
    LET k      == loop.k + 1
        cause  == IF loop.err = Resolved THEN lastDrop ELSE loop.err
        goesOn == ~LoopDone /\ WillReconnect(cause, k, answer)
    IN  /\ InContinuation /\ loop.at = "ended"
        /\ IF goesOn
           THEN /\ loop' = [at |-> IF stopLoop THEN "woken" ELSE "sleep", k |-> k, err |-> cause]
                /\ UNCHANGED <<loopAttempt, stopLoop, cancelled>>
           ELSE LoopEnds
        /\ IF LoopDone THEN UNCHANGED retryAnswer ELSE AskRetry(cause, k, answer)
        /\ UNCHANGED <<link, status, stopped, attemptVars, calls, endVars, lastDrop>>

----------------------------------------------------------------------------
Init ==
    /\ link \in {"stream", "web"}
    /\ status = "disconnected" /\ stopped = FALSE
    /\ current = 0 /\ attempt = 0 /\ installed = 0
    /\ body = [n \in Attempts |-> "none"] /\ line = [n \in Attempts |-> "none"]
    /\ calls = [c \in Callers \cup {Loop} |-> [at |-> "none", n |-> 0]]
    /\ stopping = "none" /\ closes = 0 /\ disconnects = 0
    /\ emitting = "nobody" /\ delivered = FALSE
    /\ loop = [at |-> "none", k |-> 0, err |-> NoError]
    /\ loopAttempt = 0 /\ stopLoop = FALSE
    /\ retryAnswer = [err |-> NoError, k |-> 0, retry |-> FALSE] /\ lastDrop = NoError
    /\ promised = FALSE /\ cancelled = FALSE

\* What goes on by itself: continuations, listeners that return, timers, a transport
\* that opens or fails to, a setup that is answered or times out, a close that ends.
Progress ==
    \/ Announced \/ Delivered \/ TeardownEnds \/ LoopTimer \/ LoopWoken
    \/ \E c \in DOMAIN calls : Woken(c)
    \/ \E n \in Attempts : \/ Opened(n) \/ HandedBack(n) \/ Fails(n) \/ SetupDone(n) \/ Established(n)
                           \/ \E answer \in BOOLEAN : \/ Failed(n, answer)
                                                      \/ line[n] = "closing" /\ LineEnds(n, answer)
    \/ \E answer \in BOOLEAN : LoopNext(answer)

Next ==
    \/ Progress
    \/ Disconnect
    \/ \E c \in Callers : Connect(c)
    \/ \E n \in Attempts, answer \in BOOLEAN : LineEnds(n, answer)

Spec == Init /\ [][Next]_vars

FairSpec == Spec /\ WF_vars(Progress)

----------------------------------------------------------------------------
(* Properties.                                                             *)

OpenLines == {n \in Attempts : line[n] = "open"}

\* A client that says it is connected has a transport, the one of the attempt that
\* connected, and it is open, however the ends of earlier attempts, the closing of
\* their transports and disconnect() interleave (client.ts:434).  And with a transport
\* that closes at once nothing stays open behind the client: an open transport is the
\* one that is installed (client.ts:1375).
NothingLeftOpen ==
    /\ status = "connected" => current # 0 /\ installed = current /\ line[current] = "open"
    /\ link = "web" => OpenLines \subseteq {installed}

LoopStarts == attempt' # attempt /\ calls'[Loop].n = attempt'

\* The loop that disconnect() found asleep or in an attempt starts no attempt any more,
\* unless connect() is called again (client.ts:563 and 1473).  One that #connect keeps
\* waiting for an earlier `disconnected` is not stopped: #connect does not look again.
DisconnectStopsTheLoop == [][LoopStarts => ~cancelled]_vars

\* Every call of connect() returns, and every disconnect() is over some time.
CallsReturn ==
    /\ \A c \in Callers : calls[c].at # "none" ~> calls[c].at = "none" \/ attempt = MaxConnects
    /\ stopping # "none" ~> stopping = "none"

\* A `disconnected` that says willReconnect is followed by an attempt, unless
\* disconnect() is called or another `disconnected` takes it back (client.ts:1413).
PromiseIsKept ==
    (promised /\ delivered)
        ~> (status # "disconnected" \/ stopped \/ ~promised \/ attempt = MaxConnects)
============================================================================
