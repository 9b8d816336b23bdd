--------------------------- MODULE ClientLifecycle ---------------------------
(***************************************************************************)
(* The life of a voice client (client/client.ts): connect(), disconnect(), *)
(* the connection attempt and the session, the reconnect loop, and the     *)
(* queue that delivers `connected` and `disconnected`.                     *)
(*                                                                         *)
(* The program is single threaded, but every await lets others in, so the  *)
(* model keeps JavaScript's order: a turn of the event loop (a datagram, a *)
(* timer, the delivery of events) runs to its end, then every continuation *)
(* whose promise has settled runs, and only then the next turn starts.     *)
(* `turn` says which turn is running; Micro says that a continuation is    *)
(* due.  The application calls in between turns, from a continuation or    *)
(* from a listener.                                                        *)
(*                                                                         *)
(* Attempts are numbered in the order #connect starts them; the handler,   *)
(* the keys and the session of an attempt go by its number.                *)
(***************************************************************************)
EXTENDS Naturals, Sequences, FiniteSets

CONSTANTS Callers,         \* who calls connect() in the application
          MaxConnects,     \* bound: attempts ever started
          MaxDisconnects,  \* bound: calls of disconnect()
          MaxAttempts      \* backoff.maxAttempts; 0 never gives up

ASSUME LifecycleAssumption ==
    /\ "loop" \notin Callers
    /\ MaxConnects \in Nat \ {0}
    /\ MaxDisconnects \in Nat
    /\ MaxAttempts \in Nat

Loop     == "loop"        \* the reconnect loop, as a caller of #connect
Attempts == 1 .. MaxConnects
NoAnswer == [err |-> <<"none", 0>>, k |-> 0, retry |-> FALSE]

VARIABLES
    status,       \* #status
    stopped,      \* #stopped
    disconnects,  \* #disconnects
    attempt,      \* the number of #attempt (and of #handler, #crypt); 0 before the first
    settled,      \* per attempt: "no", "resolved", "rejected", or "held" (rejectAfter)
    body,         \* per attempt: the await of #connect that is running
    handler,      \* the current handler: "new", "open" or "closed"
    crypto,       \* cryptoInitComplete of the current attempt
    session,      \* #session: the attempt whose session has no sessionEnd yet, or 0
    calls,        \* per caller: where its call of #connect is
    leaving,      \* #leaving: the phase of #leave
    delivery,     \* #disconnectedDelivered: "none", "queued", or "delivered", to be cleared
    queue,        \* #queue: the lifecycle events to deliver
    loop,         \* the reconnect loop: its phase, attempt number and reason
    loopAttempt,  \* #loopAttempt
    stopLoop,     \* the loop's AbortController has been aborted
    retryAnswer,  \* #retryAnswer
    lastDrop,     \* #lastDrop
    turn,         \* "idle", "packet" or "drain"
    announced,    \* history: per attempt, how many `disconnected` were queued for it
    lastEnd,      \* history: what the last `disconnected` said, and what had ended
    cancelled     \* history: disconnect() was called while the loop ran ("yes"), and
                  \* connect() after it ("retaken")

attemptVars == <<attempt, settled, body, handler, crypto, session>>
loopVars    == <<loop, loopAttempt, stopLoop, cancelled>>
retryVars   == <<retryAnswer, lastDrop>>
eventVars   == <<delivery, queue, announced, lastEnd>>
vars == <<status, stopped, disconnects, attemptVars, calls, leaving, eventVars,
          loopVars, retryVars, turn>>

Init ==
    /\ status = "disconnected"
    /\ stopped = FALSE
    /\ disconnects = 0
    /\ attempt = 0
    /\ settled = [n \in Attempts |-> "no"]
    /\ body = [n \in Attempts |-> "none"]
    /\ handler = "closed"
    /\ crypto = FALSE
    /\ session = 0
    /\ calls = [c \in Callers \cup {Loop} |-> [at |-> "none", saw |-> 0, n |-> 0]]
    /\ leaving = "none"
    /\ delivery = "none"
    /\ queue = <<>>
    /\ loop = [at |-> "none", k |-> 0, err |-> <<"none", 0>>]
    /\ loopAttempt = 0
    /\ stopLoop = FALSE
    /\ retryAnswer = NoAnswer
    /\ lastDrop = <<"none", 0>>
    /\ turn = "idle"
    /\ announced = [n \in Attempts |-> 0]
    /\ lastEnd = [will |-> FALSE, of |-> "none"]
    /\ cancelled = "no"

-----------------------------------------------------------------------------
(* The scheduler.                                                          *)

\* A call of #connect whose attempt has ended goes on.
Resumes(c) ==
    /\ calls[c].at = "attempt"
    /\ settled[calls[c].n] \in {"resolved", "rejected"}
    /\ body[calls[c].n] = "waiting"

\* A continuation is due: its promise has settled.
Micro ==
    \/ \E c \in DOMAIN calls : Resumes(c) \/ calls[c].at = "woken"
    \/ \E n \in Attempts : body[n] = "aborted"
    \/ delivery = "delivered"
    \/ loop.at \in {"woken", "returned", "threw"}

\* A new turn of the event loop may start.
NewTurn == turn = "idle" /\ ~Micro

\* A timer or a promise of the platform: one callback is the whole turn.
InTimer == NewTurn /\ UNCHANGED turn

\* A datagram or a socket event: several commands may come in one.
InPacket == (NewTurn \/ turn = "packet") /\ turn' = "packet"

\* The application's code runs: between turns, in a continuation or a listener.
InApplication == turn \in {"idle", "drain"} /\ UNCHANGED turn

\* A continuation runs.
InContinuation == turn = "idle" /\ UNCHANGED turn

EndPacket ==
    /\ turn = "packet"
    /\ turn' = "idle"
    /\ UNCHANGED <<status, stopped, disconnects, attemptVars, calls, leaving, eventVars, loopVars, retryVars>>

-----------------------------------------------------------------------------
(* Reconnecting: the decision.                                             *)

\* #willReconnect(err, k): the answer of shouldRetry is kept, so that one
\* failure asks it once; answer is what the caller's shouldRetry says if asked.
Refused(k)    == stopped \/ (MaxAttempts # 0 /\ k > MaxAttempts)
Asked(err, k) == retryAnswer.err = err /\ retryAnswer.k = k

WillReconnect(err, k, answer) ==
    ~Refused(k) /\ (IF Asked(err, k) THEN retryAnswer.retry ELSE answer)

AskRetry(err, k, answer) ==
    retryAnswer' = IF Refused(k) \/ Asked(err, k) THEN retryAnswer
                   ELSE [err |-> err, k |-> k, retry |-> answer]

\* What is about to end: a session, or an attempt of the loop's or of a caller's.
Ending ==
    CASE status = "connected" \/ leaving = "goodbye" -> "session"
      [] status = "connecting" /\ calls[Loop].n = attempt -> "loop"
      [] OTHER -> "caller"

\* #announceDisconnected
Announce(will) ==
    /\ queue' = Append(queue, [event |-> "disconnected", n |-> attempt, will |-> will])
    /\ delivery' = "queued"
    /\ announced' = [announced EXCEPT ![attempt] = @ + 1]
    /\ lastEnd' = [will |-> will, of |-> Ending]

-----------------------------------------------------------------------------
(* The connection attempt.                                                 *)

\* Mutant: disconnect() leaves the attempt unsettled.
Settle_NotByDisconnect(how, b) ==
    IF attempt = 0 \/ settled[attempt] # "no" \/ how = "held"
    THEN body' = b /\ UNCHANGED settled
    ELSE /\ settled' = [settled EXCEPT ![attempt] = how]
         /\ body' = [b EXCEPT ![attempt] = IF @ = "opening" THEN "aborted" ELSE @]

\* attempt.reject / rejectAfter: settles once, and aborts the lookup or the
\* socket the attempt still waits for (b is what each attempt waits for).
Settle(how, b) ==
    IF attempt = 0 \/ settled[attempt] # "no"
    THEN body' = b /\ UNCHANGED settled
    ELSE /\ settled' = [settled EXCEPT ![attempt] = how]
         /\ body' = [b EXCEPT ![attempt] = IF @ = "opening" THEN "aborted" ELSE @]

\* Whether the end of an attempt says that the loop goes on.
LoopGoesOn(err, answer) == loop.at # "none" /\ WillReconnect(err, loopAttempt + 1, answer)

\* Mutant: an attempt that has already ended is announced again.
FailConnection_Twice(err, answer, b) ==
    IF status = "connected"
    THEN body' = b /\ UNCHANGED <<status, settled, handler, eventVars, retryAnswer>>
    ELSE /\ Settle("rejected", b)
         /\ status' = "disconnected"
         /\ handler' = "closed"
         /\ Announce(FALSE)
         /\ UNCHANGED retryAnswer

\* #failConnection
FailConnection(err, answer, b) ==
    IF status = "connected"
    THEN body' = b /\ UNCHANGED <<status, settled, handler, eventVars, retryAnswer>>
    ELSE /\ Settle("rejected", b)
         /\ IF status = "disconnected"
            THEN UNCHANGED <<status, handler, eventVars, retryAnswer>>
            ELSE /\ status' = "disconnected"
                 /\ handler' = "closed"
                 /\ Announce(LoopGoesOn(err, answer))
                 /\ IF loop.at # "none" THEN AskRetry(err, loopAttempt + 1, answer)
                                         ELSE UNCHANGED retryAnswer

FailureOf(n) == <<"failed", n>>
DropOf(n)    == <<"dropped", n>>
LeftBy(d)    == <<"left", d>>         \* NotConnectedError of the d-th disconnect()
Already      == <<"already", 0>>      \* AlreadyConnectedError
Resolved     == <<"resolved", 0>>     \* no error: the loop's connect resolved

\* #connect past its waits: either the call is refused, or an attempt starts.
Begin(c) ==
    /\ attempt < MaxConnects
    /\ attempt' = attempt + 1
    /\ body' = [body EXCEPT ![attempt + 1] = "opening"]
    /\ handler' = "new"
    /\ crypto' = FALSE
    /\ stopped' = FALSE
    /\ status' = "connecting"
    /\ calls' = [calls EXCEPT ![c] = [at |-> "attempt", saw |-> 0, n |-> attempt + 1]]
    /\ cancelled' = IF c # Loop /\ cancelled = "yes" THEN "retaken" ELSE cancelled

WaitFor(c, what, saw) == calls' = [calls EXCEPT ![c] = [at |-> what, saw |-> saw, n |-> 0]]
Return(c)             == WaitFor(c, "none", 0)

\* The first half of #connect, up to its first await: a goodbye being said and
\* a `disconnected` on its way are waited for.
Enter(c) ==
    \/ /\ leaving # "none"
       /\ WaitFor(c, "waitLeaving", disconnects)
       /\ UNCHANGED <<status, stopped, attempt, body, handler, crypto, cancelled>>
    \/ /\ leaving = "none" /\ delivery # "none"
       /\ WaitFor(c, "waitDelivered", disconnects)
       /\ UNCHANGED <<status, stopped, attempt, body, handler, crypto, cancelled>>
    \/ /\ leaving = "none" /\ delivery = "none"
       /\ status = "disconnected"                \* else AlreadyConnectedError
       /\ Begin(c)

\* connect()
Connect(c) ==
    /\ c \in Callers
    /\ InApplication
    /\ calls[c].at = "none"
    /\ attempt < MaxConnects
    /\ Enter(c)
    /\ UNCHANGED <<disconnects, settled, session, leaving, eventVars, loop, loopAttempt, stopLoop,
                   retryVars>>

\* Mutant: a disconnect() during the wait goes unnoticed.
Woken_NoSnapshot(c) ==
    /\ InContinuation
    /\ calls[c].at = "woken"
    /\ loop.at # "returned"
    /\ delivery = "none"
    /\ IF status = "disconnected" THEN Begin(c) /\ UNCHANGED loop
       ELSE /\ Return(c)
            /\ loop' = IF c = Loop THEN [loop EXCEPT !.at = "threw", !.err = Already] ELSE loop
            /\ UNCHANGED <<status, stopped, attempt, body, handler, crypto, cancelled>>
    /\ UNCHANGED <<disconnects, settled, session, leaving, eventVars, loopAttempt, stopLoop,
                   retryVars>>

\* #connect goes on after its wait.  The loop and the callers are woken in an
\* order that depends on which of them passed a signal; a call whose attempt
\* has just been rejected goes on before them.
Woken(c) ==
    /\ InContinuation
    /\ calls[c].at = "woken"
    /\ loop.at # "returned"
    /\ \A d \in DOMAIN calls : ~Resumes(d)
    /\ \/ /\ delivery # "none"
          /\ WaitFor(c, "waitDelivered", calls[c].saw)
          /\ UNCHANGED <<status, stopped, attempt, body, handler, crypto, cancelled, loop>>
       \/ /\ delivery = "none"
          /\ disconnects # calls[c].saw         \* NotConnectedError
          /\ Return(c)
          /\ loop' = IF c = Loop THEN [loop EXCEPT !.at = "threw", !.err = LeftBy(disconnects)]
                                 ELSE loop
          /\ UNCHANGED <<status, stopped, attempt, body, handler, crypto, cancelled>>
       \/ /\ delivery = "none"
          /\ disconnects = calls[c].saw
          /\ status # "disconnected"            \* AlreadyConnectedError
          /\ Return(c)
          /\ loop' = IF c = Loop THEN [loop EXCEPT !.at = "threw", !.err = Already]
                                 ELSE loop
          /\ UNCHANGED <<status, stopped, attempt, body, handler, crypto, cancelled>>
       \/ /\ delivery = "none"
          /\ disconnects = calls[c].saw
          /\ status = "disconnected"
          /\ Begin(c)
          /\ UNCHANGED loop
    /\ UNCHANGED <<disconnects, settled, session, leaving, eventVars, loopAttempt, stopLoop,
                   retryVars>>

\* The lookup and the socket are done: the handler starts, and #connect waits
\* for the attempt.
OpenDone ==
    /\ InPacket
    /\ attempt # 0 /\ body[attempt] = "opening"
    /\ body' = [body EXCEPT ![attempt] = "waiting"]
    /\ handler' = "open"
    /\ UNCHANGED <<status, stopped, disconnects, attempt, settled, crypto, session, calls,
                   leaving, eventVars, loopVars, retryVars>>

\* The socket fails to open: #connect catches it.
OpenFails(answer) ==
    /\ InPacket
    /\ attempt # 0 /\ body[attempt] = "opening"
    /\ FailConnection(FailureOf(attempt), answer, [body EXCEPT ![attempt] = "waiting"])
    /\ UNCHANGED <<stopped, disconnects, attempt, crypto, session, calls, leaving, loopVars, lastDrop>>

\* The lookup or the socket was aborted: #connect catches that too, and fails
\* whatever attempt is the current one by then.
BodyAborted(n, answer) ==
    /\ InContinuation
    /\ body[n] = "aborted"
    /\ FailConnection(FailureOf(n), answer, [body EXCEPT ![n] = "waiting"])
    /\ UNCHANGED <<stopped, disconnects, attempt, crypto, session, calls, leaving, loopVars, lastDrop>>

\* The signal of a call aborts: a wait of a caller's rejects, an attempt fails.
\* The loop's signal is a timeout, too long for anything but its attempt.
Abort(c, answer) ==
    /\ IF c = Loop THEN InTimer ELSE InApplication
    /\ \/ /\ c # Loop /\ calls[c].at \in {"waitLeaving", "waitDelivered"}
          /\ Return(c)
          /\ UNCHANGED <<status, settled, body, handler, eventVars, retryAnswer>>
       \/ /\ calls[c].at = "attempt"
          /\ FailConnection(FailureOf(calls[c].n), answer, body)
          /\ UNCHANGED calls
    /\ UNCHANGED <<stopped, disconnects, attempt, crypto, session, leaving, loopVars, lastDrop>>

-----------------------------------------------------------------------------
(* What the server and the transport do.                                   *)

\* The shared secret exists and clientinit is out.
CryptoDone ==
    /\ InPacket
    /\ handler = "open" /\ status = "connecting" /\ ~crypto
    /\ crypto' = TRUE
    /\ UNCHANGED <<status, stopped, disconnects, attempt, settled, body, handler, session, calls,
                   leaving, eventVars, loopVars, retryVars>>

\* initserver: #markConnected
InitServer ==
    /\ InPacket
    /\ handler = "open" /\ crypto
    /\ status = "connecting" /\ settled[attempt] = "no"
    /\ status' = "connected"
    /\ settled' = [settled EXCEPT ![attempt] = "resolved"]
    /\ session' = attempt
    /\ queue' = Append(queue, [event |-> "connected", n |-> attempt, will |-> FALSE])
    /\ UNCHANGED <<stopped, disconnects, attempt, body, handler, crypto, calls, leaving, delivery,
                   announced, lastEnd, loopVars, retryVars>>

\* An error line or a malformed packet before `connected`: the attempt fails
\* (#handleError, #handleReceiveError; during a goodbye neither changes anything).
Refuse(answer) ==
    /\ InPacket
    /\ handler = "open" /\ status = "connecting"
    /\ FailConnection(FailureOf(attempt), answer, body)
    /\ UNCHANGED <<stopped, disconnects, attempt, crypto, session, calls, leaving, loopVars, lastDrop>>

\* The transport closes, or the server removes the client: #handleConnectionClosed
\* and, of a live session, the start of the loop.
Drop(answer) ==
    /\ InPacket
    /\ handler = "open"
    /\ handler' = "closed"
    /\ CASE status = "disconnected" ->
              UNCHANGED <<status, settled, body, session, eventVars, loop, stopLoop, cancelled, retryVars>>
         [] status = "connecting" ->
              /\ FailConnection(FailureOf(attempt), answer, body)
              /\ UNCHANGED <<session, loop, stopLoop, cancelled, lastDrop>>
         [] status = "connected" ->
              LET will == WillReconnect(DropOf(attempt), loopAttempt + 1, answer) IN
              /\ status' = "disconnected"
              /\ lastDrop' = DropOf(attempt)
              /\ session' = 0
              /\ Announce(will)
              /\ AskRetry(DropOf(attempt), loopAttempt + 1, answer)
              /\ IF loop.at = "none" /\ will
                 THEN /\ loop' = [at |-> "sleep", k |-> 1, err |-> DropOf(attempt)]
                      /\ stopLoop' = FALSE
                      /\ cancelled' = "no"
                 ELSE UNCHANGED <<loop, stopLoop, cancelled>>
              /\ UNCHANGED <<settled, body>>
    /\ UNCHANGED <<stopped, disconnects, attempt, crypto, calls, leaving, loopAttempt>>

-----------------------------------------------------------------------------
(* disconnect() and the delivery of events.                                *)

\* The server may hold a session once clientinit is out.
HoldsSession == status = "connected" \/ (status = "connecting" /\ crypto)

\* disconnect(), called by the application or by the client itself once the
\* server has answered that it is banned.  Up to the first await of #leave.
Disconnect ==
    /\ InApplication
    /\ disconnects < MaxDisconnects
    /\ stopped' = TRUE
    /\ disconnects' = disconnects + 1
    /\ stopLoop' = (stopLoop \/ loop.at # "none")
    /\ cancelled' = IF loop.at # "none" THEN "yes" ELSE cancelled
    /\ loop' = IF loop.at = "sleep" THEN [loop EXCEPT !.at = "woken"] ELSE loop
    /\ IF leaving # "none" \/ status = "disconnected"
       THEN UNCHANGED <<status, settled, body, handler, session, leaving, eventVars>>
       ELSE /\ status' = "disconnected"
            /\ Settle("held", body)
            /\ IF HoldsSession
               THEN leaving' = "goodbye" /\ UNCHANGED <<handler, session, eventVars>>
               ELSE /\ leaving' = "announced"
                    /\ handler' = "closed"
                    /\ session' = 0
                    /\ Announce(FALSE)
    /\ UNCHANGED <<attempt, crypto, calls, loopAttempt, retryVars, turn>>

\* The goodbye is answered, times out, or its signal aborts: the rest of #leave.
GoodbyeOver ==
    /\ InTimer
    /\ leaving = "goodbye"
    /\ leaving' = "announced"
    /\ handler' = "closed"
    /\ session' = 0
    /\ Announce(FALSE)
    /\ UNCHANGED <<status, stopped, disconnects, attempt, settled, body, crypto, calls, loopVars,
                   retryVars>>

\* #drain: a turn of its own, which delivers until the queue is empty.
StartDrain ==
    /\ NewTurn
    /\ queue # <<>>
    /\ turn' = "drain"
    /\ UNCHANGED <<status, stopped, disconnects, attemptVars, calls, leaving, eventVars, loopVars, retryVars>>

Deliver ==
    /\ turn = "drain"
    /\ queue # <<>>
    /\ queue' = Tail(queue)
    /\ delivery' = IF Head(queue).event = "disconnected" THEN "delivered" ELSE delivery
    /\ UNCHANGED <<status, stopped, disconnects, attemptVars, calls, leaving, announced, lastEnd,
                   loopVars, retryVars, turn>>

EndDrain ==
    /\ turn = "drain"
    /\ queue = <<>>
    /\ turn' = "idle"
    /\ UNCHANGED <<status, stopped, disconnects, attemptVars, calls, leaving, eventVars, loopVars, retryVars>>

\* Mutant: #leaving is never cleared.
Delivered_StillLeaving ==
    /\ InContinuation
    /\ delivery = "delivered"
    /\ delivery' = "none"
    /\ calls' = [c \in DOMAIN calls |->
                   IF calls[c].at = "waitDelivered" THEN [calls[c] EXCEPT !.at = "woken"] ELSE calls[c]]
    /\ UNCHANGED <<status, stopped, disconnects, attemptVars, leaving, queue, announced, lastEnd,
                   loopVars, retryVars>>

\* `disconnected` has been delivered: #disconnectedDelivered is cleared, and
\* the calls that wait for it, or for the disconnect() that announced it, wake.
\* A disconnect() lets the connect() it interrupted reject now.
Delivered ==
    LET left == leaving = "announced" IN
    /\ InContinuation
    /\ delivery = "delivered"
    /\ delivery' = "none"
    /\ leaving' = IF left THEN "none" ELSE leaving
    /\ settled' = [n \in Attempts |->
                     IF left /\ settled[n] = "held" THEN "rejected" ELSE settled[n]]
    /\ calls' = [c \in DOMAIN calls |->
                   IF calls[c].at = "waitDelivered" \/ (left /\ calls[c].at = "waitLeaving")
                   THEN [calls[c] EXCEPT !.at = "woken"] ELSE calls[c]]
    /\ UNCHANGED <<status, stopped, disconnects, attempt, body, handler, crypto, session, queue,
                   announced, lastEnd, loopVars, retryVars>>

\* The attempt has settled: #connect returns, or throws what it was rejected with.
Resume(c) ==
    /\ InContinuation
    /\ Resumes(c)
    /\ Return(c)
    /\ loop' = IF c # Loop THEN loop
               ELSE [loop EXCEPT !.at = "returned",
                                 !.err = IF settled[calls[c].n] = "resolved" THEN Resolved
                                                                             ELSE FailureOf(calls[c].n)]
    /\ UNCHANGED <<status, stopped, disconnects, attemptVars, leaving, eventVars, loopAttempt,
                   stopLoop, cancelled, retryVars>>

-----------------------------------------------------------------------------
(* #scheduleReconnect.                                                     *)

LoopEnds ==
    /\ loop' = [at |-> "none", k |-> 0, err |-> <<"none", 0>>]
    /\ loopAttempt' = 0
    /\ stopLoop' = FALSE
    /\ cancelled' = "no"

\* The delay is over.
LoopTimer ==
    /\ InTimer
    /\ loop.at = "sleep"
    /\ loop' = [loop EXCEPT !.at = "woken"]
    /\ UNCHANGED <<status, stopped, disconnects, attemptVars, calls, leaving, eventVars,
                   loopAttempt, stopLoop, cancelled, retryVars>>

\* After the delay: stopped, or connected by other means, or the next attempt.
LoopWoken ==
    /\ InContinuation
    /\ loop.at = "woken"
    /\ \/ /\ stopped \/ status # "disconnected"
          /\ LoopEnds
          /\ UNCHANGED <<status, stopped, attempt, body, handler, crypto, calls>>
       \/ /\ ~stopped /\ status = "disconnected"
          /\ loopAttempt' = loop.k
          /\ loop' = [loop EXCEPT !.at = "calling"]
          /\ Enter(Loop)
          /\ UNCHANGED stopLoop
    /\ UNCHANGED <<disconnects, settled, session, leaving, eventVars, retryVars>>

\* Mutant: a connect() that resolved is a session that is there.
LoopDone_Trusting == loop.err \in {Already, Resolved}

\* Nothing is left to retry; the session may have dropped before the loop resumed.
LoopDone == loop.err = Already \/ (loop.err = Resolved /\ status = "connected")

\* The attempt has ended: the loop's work is done, or it goes round again.
LoopNext(answer) ==
    LET k      == loop.k + 1
        cause  == IF loop.err = Resolved THEN lastDrop ELSE loop.err
        goesOn == ~LoopDone /\ WillReconnect(cause, k, answer)
    IN  /\ InContinuation
        /\ \/ loop.at = "returned"
           \/ loop.at = "threw" /\ \A c \in DOMAIN calls : calls[c].at # "woken"
        /\ IF goesOn
           THEN /\ loop' = [loop EXCEPT !.at = IF stopLoop THEN "woken" ELSE "sleep",
                                     !.k = k, !.err = cause]
                /\ UNCHANGED <<loopAttempt, stopLoop, cancelled>>
           ELSE LoopEnds
        /\ IF LoopDone THEN UNCHANGED retryAnswer ELSE AskRetry(cause, k, answer)
        /\ UNCHANGED <<status, stopped, disconnects, attemptVars, calls, leaving, eventVars, lastDrop>>

-----------------------------------------------------------------------------
Next ==
    \/ \E c \in Callers : Connect(c)
    \/ \E c \in DOMAIN calls : Woken(c) \/ Resume(c)
    \/ \E c \in DOMAIN calls, answer \in BOOLEAN : Abort(c, answer)
    \/ OpenDone
    \/ \E answer \in BOOLEAN : OpenFails(answer) \/ Refuse(answer) \/ Drop(answer) \/ LoopNext(answer)
    \/ \E n \in Attempts, answer \in BOOLEAN : BodyAborted(n, answer)
    \/ CryptoDone \/ InitServer \/ EndPacket
    \/ Disconnect \/ GoodbyeOver
    \/ StartDrain \/ Deliver \/ EndDrain \/ Delivered
    \/ LoopTimer \/ LoopWoken

Spec == Init /\ [][Next]_vars

\* The timers and the queues of the platform run: a continuation, a delivery and
\* the end of a turn come; a lookup and a socket answer or fail; a goodbye and a
\* delay are timed.  The server need not do anything, and the transport need not
\* give up a handshake: it does when nothing is received, not when nothing moves.
Fairness ==
    /\ WF_vars(EndPacket) /\ WF_vars(StartDrain) /\ WF_vars(Deliver) /\ WF_vars(EndDrain)
    /\ WF_vars(Delivered)
    /\ \A c \in Callers \cup {Loop} : WF_vars(Woken(c)) /\ WF_vars(Resume(c))
    /\ \A n \in Attempts : WF_vars(\E answer \in BOOLEAN : BodyAborted(n, answer))
    /\ WF_vars(LoopWoken) /\ WF_vars(\E answer \in BOOLEAN : LoopNext(answer))
    /\ WF_vars(LoopTimer) /\ WF_vars(GoodbyeOver)
    /\ WF_vars(OpenDone \/ \E answer \in BOOLEAN : OpenFails(answer))

FairSpec == Spec /\ Fairness

-----------------------------------------------------------------------------
(* Properties.                                                             *)

Started == 1 .. attempt

\* Every attempt, whether it became a session or not, ends with exactly one
\* `disconnected`, however a drop, a failure, an abort and disconnect() race:
\* none for the attempt in progress or the session whose goodbye is being said.
EndIsAnnouncedOnce ==
    \A n \in Started :
        announced[n] = IF n = attempt /\ (status # "disconnected" \/ leaving = "goodbye")
                       THEN 0 ELSE 1

\* A connect() waits for an earlier session's `disconnected` to be delivered
\* before it starts: no listener hears it during the next attempt.
EndHeardBeforeNextStarts ==
    status # "disconnected" =>
        /\ delivery = "none"
        /\ \A i \in 1 .. Len(queue) : queue[i].event = "connected" /\ queue[i].n = attempt

\* At most one attempt is unsettled, the current one, and only while the status
\* says connecting; what an attempt leaves behind (an aborted lookup or socket,
\* about to be caught by #connect) finds no later attempt to fail.  The socket is
\* closed, and the session reported as ended, exactly when the client is
\* disconnected and says no goodbye.
OnlyCurrentAttemptLives ==
    LET up == status # "disconnected" \/ leaving = "goodbye" IN
    /\ \A n \in Started : settled[n] = "no" <=> n = attempt /\ status = "connecting"
    /\ \A n \in Started : body[n] = "aborted" => n = attempt /\ status = "disconnected"
    /\ handler # "closed" => up
    /\ session # 0 => up /\ session = attempt
    /\ status = "connected" => session = attempt /\ handler = "open"
    /\ status = "connecting" => session = 0 /\ handler # "closed"

\* connect() has returned when `connected` is delivered, so a listener added
\* after `await client.connect()` still hears it.
ConnectReturnsBeforeConnected ==
    turn = "drain" /\ queue # <<>> /\ Head(queue).event = "connected"
        => \A c \in DOMAIN calls : calls[c].at = "attempt" => calls[c].n # Head(queue).n

\* The events of a session come once and in their place, however a drop, a failure,
\* an abort and disconnect() race: one end for each attempt, heard before the next
\* attempt starts, and `connected` after connect() has returned.
EventsAreInPlace ==
    /\ EndIsAnnouncedOnce
    /\ EndHeardBeforeNextStarts
    /\ ConnectReturnsBeforeConnected

\* A step in which the loop starts an attempt.
LoopStarts == attempt' # attempt /\ calls'[Loop].n = attempt'

\* The loop that disconnect() found running, asleep, waiting in #connect or in an
\* attempt, starts no attempt any more, unless connect() is called again.  And an
\* attempt of the loop's whose end was announced with willReconnect false is its
\* last: the announcement and the loop act on one answer.
LoopKeepsItsWord ==
    [][LoopStarts => /\ cancelled # "yes"
                     /\ lastEnd.of = "loop" => lastEnd.will]_vars

\* The call waits in an attempt that lives: the current one, its handler open and
\* connecting.  A caller without a signal waits there as long as the server answers.
InLiveAttempt(c) ==
    /\ calls[c].at = "attempt" /\ calls[c].n = attempt
    /\ status = "connecting" /\ handler = "open"

\* Every call of connect() returns, except one whose attempt lives on for good: none
\* waits for an attempt that has ended, for a `disconnected` that has been delivered
\* or for a disconnect() that is over.  And every disconnect() ends with its
\* `disconnected` delivered.
CallsReturn ==
    /\ \A c \in Callers :
        \/ []<>(calls[c].at = "none" \/ attempt = MaxConnects)
        \/ <>[]InLiveAttempt(c)
    /\ leaving # "none" ~> leaving = "none" /\ queue = <<>>

\* A `disconnected` of a session or of the loop's attempt that promises another
\* attempt is followed by one, unless disconnect() is called.
PromiseIsKept ==
    (lastEnd.will /\ lastEnd.of # "caller" /\ delivery # "none")
        ~> (status # "disconnected" \/ stopped \/ attempt = MaxConnects)
=============================================================================
