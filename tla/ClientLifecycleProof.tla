------------------------ MODULE ClientLifecycleProof ------------------------
(***************************************************************************)
(* Proofs about the life of a voice client, for any callers, any number of *)
(* attempts and of disconnect()s, and any backoff: the events of a session *)
(* come once and in their place (EventsAreInPlace), only the current       *)
(* attempt lives (OnlyCurrentAttemptLives), and the reconnect loop keeps   *)
(* its word (LoopKeepsItsWord).                                            *)
(*                                                                         *)
(* None of the three is inductive.  The argument is about order: an end    *)
(* queues one `disconnected` (QueueShape), the queue is drained only in a  *)
(* turn in which no continuation is due, and the next attempt starts only  *)
(* when it has been drained.  So whatever an ended attempt left behind,    *)
(* its aborted socket (BodiesAreInPlace), its call (CallsGoOn) and the     *)
(* loop's decision (WordIsKept), is dealt with before the next one starts. *)
(***************************************************************************)
EXTENDS ClientLifecycle, SequenceTheorems, TLAPS

Errors == {"none", "failed", "dropped", "left", "already", "resolved"} \X Nat

TypeOK ==
    /\ status \in {"disconnected", "connecting", "connected"}
    /\ stopped \in BOOLEAN
    /\ disconnects \in Nat
    /\ attempt \in 0 .. MaxConnects
    /\ settled \in [Attempts -> {"no", "resolved", "rejected", "held"}]
    /\ body \in [Attempts -> {"none", "opening", "waiting", "aborted"}]
    /\ handler \in {"new", "open", "closed"}
    /\ crypto \in BOOLEAN
    /\ session \in 0 .. MaxConnects
    /\ calls \in [Callers \cup {Loop} ->
                    [at: {"none", "waitLeaving", "waitDelivered", "woken", "attempt"},
                     saw: Nat, n: 0 .. MaxConnects]]
    /\ leaving \in {"none", "goodbye", "announced"}
    /\ delivery \in {"none", "queued", "delivered"}
    /\ loop \in [at: {"none", "sleep", "woken", "calling", "returned", "threw"}, k: Nat, err: Errors]
    /\ loopAttempt \in Nat
    /\ retryAnswer \in [err: Errors, k: Nat, retry: BOOLEAN]
    /\ lastDrop \in Errors
    /\ turn \in {"idle", "packet", "drain"}
    /\ announced \in [Attempts -> Nat]
    /\ lastEnd \in [will: BOOLEAN, of: {"none", "session", "loop", "caller"}]
    /\ cancelled \in {"no", "yes", "retaken"}

\* The client has an attempt or a session, or is saying goodbye.
Up == status # "disconnected" \/ leaving = "goodbye"

\* Nothing is known of an attempt before it starts.
NoneAhead ==
    /\ Up => attempt # 0
    /\ \A n \in Attempts : n > attempt => settled[n] = "no" /\ body[n] = "none" /\ announced[n] = 0

\* An attempt waits for its socket only while it is the current one, before there are
\* keys; an aborted wait is caught before the end of its attempt is delivered.
BodiesAreInPlace ==
    \A n \in Started :
        /\ body[n] # "none"
        /\ body[n] = "opening" => n = attempt /\ status = "connecting" /\ handler = "new" /\ ~crypto
        /\ body[n] = "aborted" => n = attempt /\ ~Up /\ delivery = "queued" /\ turn # "drain"

\* #leaving lasts from disconnect() until its `disconnected` has been delivered.
LeavingLasts ==
    /\ leaving # "none" => status = "disconnected" /\ stopped
    /\ leaving = "announced" => delivery # "none"
    /\ status # "disconnected" => ~stopped
    /\ \A n \in Attempts : settled[n] = "held" => leaving # "none"

ConnectedEvent     == [event |-> "connected", n |-> attempt, will |-> FALSE]
DisconnectedEvent(w) == [event |-> "disconnected", n |-> attempt, will |-> w]

\* What is known while the `connected` of the current attempt is queued.
ConnectedWaits == status # "connecting" /\ settled[attempt] = "resolved" /\ body[attempt] = "waiting"

\* The queue holds events of the current attempt only: its `connected`, and behind it
\* its `disconnected` once it has ended.
QueueShape ==
    /\ Up => /\ delivery = "none"
             /\ queue = <<>> \/ (queue = <<ConnectedEvent>> /\ ConnectedWaits)
    /\ ~Up /\ delivery # "queued" => queue = <<>>
    /\ ~Up /\ delivery = "queued" =>
           \E w \in BOOLEAN : \/ queue = <<DisconnectedEvent(w)>>
                              \/ queue = <<ConnectedEvent, DisconnectedEvent(w)>> /\ ConnectedWaits

\* Listeners run during no attempt, and in a drain something is still to be cleared.
DrainIsBetween == turn = "drain" => status # "connecting" /\ (Up \/ delivery # "none")

\* A call in an attempt knows it, and one woken without a disconnect() in between finds
\* no goodbye being said.
CallsAreInPlace ==
    \A c \in DOMAIN calls :
        /\ calls[c].at = "attempt" <=> calls[c].n # 0
        /\ calls[c].n <= attempt
        /\ calls[c].saw <= disconnects
        /\ calls[c].at \in {"waitDelivered", "woken"} /\ calls[c].saw = disconnects => leaving = "none"

\* Once the end of an attempt is being delivered, no call is in an attempt but one that
\* disconnect() holds, and that goes on as soon as the delivery is over.
CallsGoOn ==
    \A c \in DOMAIN calls :
        ~Up /\ calls[c].at = "attempt" /\ (turn = "drain" \/ delivery # "queued") =>
            /\ stopped
            /\ body[calls[c].n] = "waiting"
            /\ settled[calls[c].n] = "held" \/ (settled[calls[c].n] = "rejected" /\ delivery = "none")

\* In an attempt of the loop's no caller has one.
LoopIsAlone ==
    calls[Loop].n = attempt /\ attempt # 0 =>
        \A c \in DOMAIN calls : calls[c].at = "attempt" => c = Loop

\* Where the loop is, and which attempt of its own it counts.
LoopIsInPlace ==
    /\ calls[Loop].at # "none" <=> loop.at = "calling"
    /\ loop.at \in {"calling", "returned"} => loopAttempt = loop.k

\* disconnect() stops the loop: by #stopped, or by its number when the loop waits in #connect.
CancelIsSeen ==
    cancelled = "yes" =>
        /\ stopped
        /\ calls[Loop].at \in {"waitLeaving", "waitDelivered", "woken"} => calls[Loop].saw # disconnects

\* The answer to the loop's k-th attempt with this error is known to be no.
Denied(err, k) ==
    \/ MaxAttempts # 0 /\ k > MaxAttempts
    \/ Asked(err, k) /\ retryAnswer.retry = FALSE

\* Between the end of a loop's attempt announced without a promise and the loop's own
\* look at it, nothing changes the answer.
WordIsKept ==
    ~Up /\ lastEnd.of = "loop" /\ lastEnd.will = FALSE =>
        \/ loop.at = "none"
        \/ cancelled = "yes"
        \/ /\ delivery = "queued" /\ turn # "drain" /\ attempt # 0
           /\ Denied(FailureOf(attempt), loopAttempt + 1)
           /\ \/ loop.at = "returned" /\ loop.err = FailureOf(attempt)
              \/ calls[Loop].n = attempt /\ settled[attempt] = "rejected"

IInv ==
    /\ TypeOK
    /\ NoneAhead
    /\ BodiesAreInPlace
    /\ LeavingLasts
    /\ QueueShape
    /\ DrainIsBetween
    /\ CallsAreInPlace
    /\ CallsGoOn
    /\ LoopIsAlone
    /\ LoopIsInPlace
    /\ CancelIsSeen
    /\ WordIsKept
    /\ OnlyCurrentAttemptLives
    /\ EndIsAnnouncedOnce
    /\ ConnectReturnsBeforeConnected

-----------------------------------------------------------------------------

LEMMA InitHolds == Init => IInv
<1> SUFFICES ASSUME Init PROVE IInv
    OBVIOUS
<1> USE LifecycleAssumption DEF Init
<1>1. <<"none", 0>> \in Errors
    BY DEF Errors
<1>2. TypeOK
  <2>1. /\ calls \in [Callers \cup {Loop} ->
                        [at: {"none", "waitLeaving", "waitDelivered", "woken", "attempt"},
                         saw: Nat, n: 0 .. MaxConnects]]
        /\ loop \in [at: {"none", "sleep", "woken", "calling", "returned", "threw"}, k: Nat, err: Errors]
      BY <1>1
  <2>2. retryAnswer \in [err: Errors, k: Nat, retry: BOOLEAN] /\ lastDrop \in Errors
      BY <1>1 DEF NoAnswer
  <2>3. lastEnd \in [will: BOOLEAN, of: {"none", "session", "loop", "caller"}]
      OBVIOUS
  <2>4. /\ settled \in [Attempts -> {"no", "resolved", "rejected", "held"}]
        /\ body \in [Attempts -> {"none", "opening", "waiting", "aborted"}]
        /\ announced \in [Attempts -> Nat]
      OBVIOUS
  <2> QED
      BY <2>1, <2>2, <2>3, <2>4 DEF TypeOK
<1>3. Started = {} /\ ~Up /\ calls[Loop].at = "none" /\ calls[Loop].n = 0
    BY DEF Started, Up
<1>4. NoneAhead /\ BodiesAreInPlace /\ LeavingLasts /\ QueueShape /\ DrainIsBetween
    BY <1>3 DEF NoneAhead, BodiesAreInPlace, LeavingLasts, QueueShape, DrainIsBetween, Attempts
<1>5. CallsAreInPlace /\ CallsGoOn /\ LoopIsAlone
    BY DEF CallsAreInPlace, CallsGoOn, LoopIsAlone
<1>6. LoopIsInPlace /\ CancelIsSeen /\ WordIsKept
    BY <1>3 DEF LoopIsInPlace, CancelIsSeen, WordIsKept
<1>7. OnlyCurrentAttemptLives /\ EndIsAnnouncedOnce /\ ConnectReturnsBeforeConnected
    BY <1>3 DEF OnlyCurrentAttemptLives, EndIsAnnouncedOnce, ConnectReturnsBeforeConnected
<1> QED
    BY <1>2, <1>4, <1>5, <1>6, <1>7 DEF IInv

-----------------------------------------------------------------------------
(* The end of an attempt.                                                  *)

\* What the history notes as ended.
LEMMA EndingIs ==
    /\ Ending \in {"session", "loop", "caller"}
    /\ Ending = "loop" => status = "connecting" /\ calls[Loop].n = attempt
  BY DEF Ending

\* Nothing is left of an attempt that has ended, or that has become a session, for
\* #failConnection to fail.
LEMMA FailNothing ==
    ASSUME IInv, status # "connecting", NEW err, NEW answer, NEW b, FailConnection(err, answer, b)
    PROVE  UNCHANGED <<status, settled, handler, delivery, queue, announced, lastEnd, retryAnswer>> /\ body' = b
<1>1. CASE status = "connected"
    BY <1>1 DEF FailConnection, eventVars
<1>2. CASE status = "disconnected"
  <2>1. attempt = 0 \/ settled[attempt] # "no"
      BY <1>2 DEF IInv, TypeOK, OnlyCurrentAttemptLives, Started
  <2> QED
      BY <1>2, <2>1 DEF FailConnection, Settle, eventVars
<1> QED
    BY <1>1, <1>2 DEF IInv, TypeOK

\* #failConnection of the current attempt: what it changes.
FailsWith(err, answer) ==
    LET will == LoopGoesOn(err, answer) IN
    /\ status' = "disconnected"
    /\ handler' = "closed"
    /\ settled' = [settled EXCEPT ![attempt] = "rejected"]
    /\ body' \in [Attempts -> {"none", "opening", "waiting", "aborted"}]
    /\ body'[attempt] \in {"waiting", "aborted"}
    /\ \A n \in Attempts : n # attempt => body'[n] = body[n]
    /\ Announce(will)
    /\ IF loop.at # "none" THEN AskRetry(err, loopAttempt + 1, answer) ELSE retryAnswer' = retryAnswer
    /\ turn' # "drain" /\ turn' \in {"idle", "packet", "drain"}

LEMMA FailEnds ==
    ASSUME IInv, status = "connecting", NEW err, NEW answer, NEW b,
           b = body \/ b = [body EXCEPT ![attempt] = "waiting"],
           FailConnection(err, answer, b), turn' # "drain", turn' \in {"idle", "packet", "drain"}
    PROVE  FailsWith(err, answer)
<1>1. attempt \in Attempts /\ attempt \in Started /\ settled[attempt] = "no" /\ attempt # 0
    BY LifecycleAssumption DEF IInv, TypeOK, NoneAhead, Up, OnlyCurrentAttemptLives, Started, Attempts
<1>2. /\ settled' = [settled EXCEPT ![attempt] = "rejected"]
      /\ body' = [b EXCEPT ![attempt] = IF @ = "opening" THEN "aborted" ELSE @]
      /\ status' = "disconnected" /\ handler' = "closed" /\ Announce(LoopGoesOn(err, answer))
      /\ IF loop.at # "none" THEN AskRetry(err, loopAttempt + 1, answer) ELSE retryAnswer' = retryAnswer
    BY <1>1 DEF FailConnection, Settle
<1>3. b \in [Attempts -> {"none", "opening", "waiting", "aborted"}] /\ b[attempt] \in {"opening", "waiting"}
    BY <1>1 DEF IInv, TypeOK, BodiesAreInPlace, Up
<1>4. /\ body' \in [Attempts -> {"none", "opening", "waiting", "aborted"}]
      /\ body'[attempt] \in {"waiting", "aborted"}
      /\ \A n \in Attempts : n # attempt => body'[n] = body[n]
    BY <1>1, <1>2, <1>3 DEF IInv, TypeOK
<1> QED
    BY <1>2, <1>4 DEF FailsWith

\* The end of the current attempt: its `disconnected` is queued, alone, and when it
\* was the loop's, what it promises is what the loop will find.
LEMMA AttemptEnds ==
    ASSUME IInv, status = "connecting", NEW err \in Errors, NEW answer \in BOOLEAN, FailsWith(err, answer),
           calls[Loop].n = attempt => err = FailureOf(attempt),
           UNCHANGED <<stopped, disconnects, attempt, crypto, session, calls, leaving,
                       loop, loopAttempt, stopLoop, cancelled, lastDrop>>
    PROVE  IInv'
<1> DEFINE will == LoopGoesOn(err, answer)
<1>0. MaxConnects \in Nat /\ MaxAttempts \in Nat /\ Loop \in DOMAIN calls /\ DOMAIN calls' = DOMAIN calls
    BY LifecycleAssumption DEF IInv, TypeOK
<1>1. /\ attempt \in Attempts /\ attempt \in Started /\ settled[attempt] = "no" /\ attempt # 0
      /\ leaving = "none" /\ session = 0 /\ queue = <<>> /\ delivery = "none" /\ ~stopped
      /\ Started' = Started /\ Up /\ ~Up'
    BY <1>0 DEF IInv, TypeOK, NoneAhead, Up, OnlyCurrentAttemptLives, Started, Attempts, LeavingLasts,
                QueueShape, ConnectedWaits, FailsWith
<1>2. /\ queue' = <<DisconnectedEvent(will)>> /\ delivery' = "queued"
      /\ announced' = [announced EXCEPT ![attempt] = announced[attempt] + 1]
      /\ lastEnd' = [will |-> will, of |-> Ending]
    BY <1>1 DEF FailsWith, Announce, DisconnectedEvent
<1>3. /\ retryAnswer' \in [err : Errors, k : Nat, retry : BOOLEAN]
      /\ loop.at # "none" => retryAnswer' = retryAnswer \/ retryAnswer' = [err |-> err, k |-> loopAttempt + 1, retry |-> answer]
    BY DEF FailsWith, AskRetry, IInv, TypeOK
<1>4. will \in BOOLEAN
    BY DEF LoopGoesOn
<1>5. TypeOK'
    BY <1>1, <1>2, <1>3, <1>4, EndingIs DEF IInv, TypeOK, FailsWith
<1>6. NoneAhead'
    BY <1>1, <1>2 DEF IInv, TypeOK, NoneAhead, FailsWith, Up, Attempts
<1>7. BodiesAreInPlace'
    BY <1>0, <1>1, <1>2 DEF IInv, TypeOK, BodiesAreInPlace, FailsWith, Started, Attempts
<1>8. LeavingLasts'
    BY <1>1, <1>2 DEF IInv, TypeOK, LeavingLasts, FailsWith
<1>9. QueueShape'
    BY <1>1, <1>2, <1>4 DEF QueueShape, DisconnectedEvent
<1>10. DrainIsBetween' /\ CallsAreInPlace' /\ LoopIsAlone' /\ LoopIsInPlace' /\ CancelIsSeen'
    BY <1>0 DEF IInv, DrainIsBetween, CallsAreInPlace, LoopIsAlone, LoopIsInPlace, CancelIsSeen, FailsWith
<1>11. CallsGoOn'
    BY <1>2 DEF CallsGoOn, FailsWith
<1>12. OnlyCurrentAttemptLives'
    BY <1>0, <1>1, <1>2 DEF IInv, TypeOK, OnlyCurrentAttemptLives, FailsWith, BodiesAreInPlace, Started, Attempts
<1>13. EndIsAnnouncedOnce'
    BY <1>1, <1>2 DEF IInv, TypeOK, EndIsAnnouncedOnce, FailsWith, Started, Attempts, Up
<1>14. ConnectReturnsBeforeConnected'
    BY DEF ConnectReturnsBeforeConnected, FailsWith
<1>15. WordIsKept'
  <2> SUFFICES ASSUME lastEnd'.of = "loop", lastEnd'.will = FALSE
               PROVE  /\ Denied(FailureOf(attempt), loopAttempt + 1)'
                      /\ calls'[Loop].n = attempt' /\ settled'[attempt'] = "rejected"
      BY <1>1, <1>2 DEF WordIsKept, FailsWith
  <2>1. calls[Loop].n = attempt /\ will = FALSE
      BY <1>2, EndingIs
  <2>2. err = FailureOf(attempt) /\ loop.at = "calling"
      BY <2>1, <1>0, <1>1 DEF IInv, CallsAreInPlace, LoopIsInPlace
  <2>3. ~WillReconnect(err, loopAttempt + 1, answer)
      BY <2>1, <2>2 DEF LoopGoesOn
  <2>4. AskRetry(err, loopAttempt + 1, answer)
      BY <2>2 DEF FailsWith
  <2>5. CASE MaxAttempts # 0 /\ loopAttempt + 1 > MaxAttempts
      BY <2>5, <2>1, <1>1 DEF Denied, FailsWith, IInv, TypeOK
  <2>6. CASE ~(MaxAttempts # 0 /\ loopAttempt + 1 > MaxAttempts) /\ Asked(err, loopAttempt + 1)
    <3>1. ~Refused(loopAttempt + 1)
        BY <2>6, <1>1 DEF Refused
    <3>2. retryAnswer.retry = FALSE /\ retryAnswer' = retryAnswer
        BY <3>1, <2>3, <2>4, <2>6 DEF WillReconnect, AskRetry, IInv, TypeOK
    <3> QED
        BY <3>2, <2>1, <2>2, <2>6, <1>1 DEF Denied, Asked, FailureOf, FailsWith, IInv, TypeOK
  <2>7. CASE ~(MaxAttempts # 0 /\ loopAttempt + 1 > MaxAttempts) /\ ~Asked(err, loopAttempt + 1)
    <3>1. ~Refused(loopAttempt + 1)
        BY <2>7, <1>1 DEF Refused
    <3>2. answer = FALSE /\ retryAnswer' = [err |-> err, k |-> loopAttempt + 1, retry |-> FALSE]
        BY <3>1, <2>3, <2>4, <2>7 DEF WillReconnect, AskRetry
    <3> QED
        BY <3>2, <2>1, <2>2, <1>1 DEF Denied, Asked, FailureOf, FailsWith, IInv, TypeOK
  <2> QED
      BY <2>5, <2>6, <2>7
<1> QED
    BY <1>5, <1>6, <1>7, <1>8, <1>9, <1>10, <1>11, <1>12, <1>13, <1>14, <1>15 DEF IInv

\* The parts of the invariant that speak of no turn and no loop.
Resting == <<status, stopped, disconnects, attempt, settled, body, handler, crypto, session, leaving,
             delivery, queue, announced, lastEnd>>

\* A step that touches nothing that is spoken of.
LEMMA NothingMoves ==
    ASSUME IInv, UNCHANGED Resting, UNCHANGED <<calls, loop, loopAttempt, retryAnswer, lastDrop, turn, cancelled>>
    PROVE  IInv'
<1>1. TypeOK'
    BY DEF IInv, TypeOK, Resting
<1>2. NoneAhead' /\ LeavingLasts' /\ QueueShape' /\ DrainIsBetween'
    BY DEF IInv, NoneAhead, LeavingLasts, QueueShape, DrainIsBetween, Up, ConnectedEvent,
           DisconnectedEvent, ConnectedWaits, Resting
<1>3. BodiesAreInPlace' /\ CallsAreInPlace' /\ CallsGoOn' /\ LoopIsAlone' /\ LoopIsInPlace' /\ CancelIsSeen'
    BY DEF IInv, BodiesAreInPlace, CallsAreInPlace, CallsGoOn, LoopIsAlone, LoopIsInPlace, CancelIsSeen,
           Up, Started, Resting
<1>4. WordIsKept'
    BY DEF IInv, WordIsKept, Denied, Asked, Up, FailureOf, Resting
<1>5. OnlyCurrentAttemptLives' /\ EndIsAnnouncedOnce' /\ ConnectReturnsBeforeConnected'
    BY DEF IInv, OnlyCurrentAttemptLives, EndIsAnnouncedOnce, ConnectReturnsBeforeConnected, Started, Resting
<1> QED
    BY <1>1, <1>2, <1>3, <1>4, <1>5 DEF IInv

\* A turn that ends, and one that starts or goes on without a drain.
LEMMA TurnMoves ==
    ASSUME IInv, UNCHANGED Resting, UNCHANGED <<calls, loop, loopAttempt, retryAnswer, lastDrop, cancelled>>,
           turn' \in {"idle", "packet"}, turn = "drain" => delivery # "queued"
    PROVE  IInv'
<1>1. TypeOK'
    BY DEF IInv, TypeOK, Resting
<1>2. NoneAhead' /\ LeavingLasts' /\ QueueShape' /\ DrainIsBetween'
    BY DEF IInv, NoneAhead, LeavingLasts, QueueShape, DrainIsBetween, Up, ConnectedEvent,
           DisconnectedEvent, ConnectedWaits, Resting
<1>3. BodiesAreInPlace' /\ CallsAreInPlace' /\ CallsGoOn' /\ LoopIsAlone' /\ LoopIsInPlace' /\ CancelIsSeen'
    BY DEF IInv, BodiesAreInPlace, CallsAreInPlace, CallsGoOn, LoopIsAlone, LoopIsInPlace, CancelIsSeen,
           Up, Started, Resting
<1>4. WordIsKept'
    BY DEF IInv, WordIsKept, Denied, Asked, Up, FailureOf, Resting
<1>5. OnlyCurrentAttemptLives' /\ EndIsAnnouncedOnce' /\ ConnectReturnsBeforeConnected'
    BY DEF IInv, OnlyCurrentAttemptLives, EndIsAnnouncedOnce, ConnectReturnsBeforeConnected, Started, Resting
<1> QED
    BY <1>1, <1>2, <1>3, <1>4, <1>5 DEF IInv

LEMMA EndOfTurnStep == IInv /\ (EndPacket \/ EndDrain) => IInv'
<1> SUFFICES ASSUME IInv, EndPacket \/ EndDrain PROVE IInv'
    OBVIOUS
<1>1. UNCHANGED Resting /\ UNCHANGED <<calls, loop, loopAttempt, retryAnswer, lastDrop, cancelled>>
    BY DEF EndPacket, EndDrain, Resting, attemptVars, eventVars, loopVars, retryVars
<1>2. turn' \in {"idle", "packet"} /\ (turn = "drain" => queue = <<>>)
    BY DEF EndPacket, EndDrain
<1>3. queue = <<>> => delivery # "queued"
    BY DEF IInv, QueueShape, Up
<1> QED
    BY <1>1, <1>2, <1>3, TurnMoves

\* The delivery of events starts only when no continuation is due: the aborted waits
\* are caught, the calls of the attempt that ended have returned unless disconnect()
\* holds them, and the loop has made up its mind.
LEMMA StartDrainStep == IInv /\ StartDrain => IInv'
<1> SUFFICES ASSUME IInv, StartDrain PROVE IInv'
    OBVIOUS
<1>0. /\ MaxConnects \in Nat /\ Loop \in DOMAIN calls /\ attempt \in 0 .. MaxConnects
      /\ \A c \in DOMAIN calls : calls[c].n \in 0 .. MaxConnects
    BY LifecycleAssumption DEF IInv, TypeOK
<1>1. UNCHANGED Resting /\ UNCHANGED <<calls, loop, loopAttempt, retryAnswer, lastDrop, cancelled>>
    BY DEF StartDrain, Resting, attemptVars, eventVars, loopVars, retryVars
<1>2. turn' = "drain" /\ queue # <<>> /\ ~Micro
    BY DEF StartDrain, NewTurn
<1>3. TypeOK'
    BY <1>1, <1>2 DEF IInv, TypeOK, Resting
<1>4. NoneAhead' /\ LeavingLasts' /\ QueueShape'
    BY <1>1 DEF IInv, NoneAhead, LeavingLasts, QueueShape, Up, ConnectedEvent,
           DisconnectedEvent, ConnectedWaits, Resting
<1>5. DrainIsBetween'
    BY <1>1, <1>2 DEF IInv, QueueShape, ConnectedWaits, DrainIsBetween, Up, Resting
<1>6. \A n \in Started : n \in Attempts /\ body[n] \in {"opening", "waiting"}
    BY <1>0, <1>2 DEF IInv, TypeOK, BodiesAreInPlace, Micro, Started, Attempts
<1>7. BodiesAreInPlace'
    BY <1>1, <1>6 DEF IInv, BodiesAreInPlace, Up, Started, Resting
<1>8. CallsAreInPlace' /\ LoopIsAlone' /\ LoopIsInPlace' /\ CancelIsSeen'
    BY <1>1 DEF IInv, CallsAreInPlace, LoopIsAlone, LoopIsInPlace, CancelIsSeen, Resting
<1>9. \A c \in DOMAIN calls : calls[c].at = "attempt" =>
          calls[c].n \in Started /\ (body[calls[c].n] = "waiting" => settled[calls[c].n] \notin {"resolved", "rejected"})
    BY <1>0, <1>2 DEF IInv, CallsAreInPlace, Micro, Resumes, Started
<1>10. CallsGoOn'
  <2> SUFFICES ASSUME NEW c \in DOMAIN calls, ~Up, calls[c].at = "attempt"
               PROVE  stopped /\ body[calls[c].n] = "waiting" /\ settled[calls[c].n] = "held"
      BY <1>1 DEF CallsGoOn, Up, Resting
  <2>1. calls[c].n \in Started /\ body[calls[c].n] = "waiting"
      BY <1>6, <1>9 DEF IInv, BodiesAreInPlace, Up
  <2>2. settled[calls[c].n] = "held"
      BY <2>1, <1>6, <1>9 DEF IInv, TypeOK, OnlyCurrentAttemptLives, Up
  <2> QED
      BY <2>1, <2>2, <1>6 DEF IInv, LeavingLasts
<1>11. WordIsKept'
  <2>1. calls[Loop].n = attempt /\ attempt # 0 /\ ~Up => settled[attempt] # "rejected"
      BY <1>0, <1>6, <1>9 DEF IInv, CallsAreInPlace, BodiesAreInPlace, Started, Up
  <2>2. loop.at # "returned"
      BY <1>2 DEF Micro
  <2> QED
      BY <2>1, <2>2, <1>1 DEF IInv, WordIsKept, Up, Resting
<1>12. OnlyCurrentAttemptLives' /\ EndIsAnnouncedOnce'
    BY <1>1 DEF IInv, OnlyCurrentAttemptLives, EndIsAnnouncedOnce, Started, Resting
<1>13. ConnectReturnsBeforeConnected'
  <2> SUFFICES ASSUME Head(queue).event = "connected", NEW c \in DOMAIN calls, calls[c].at = "attempt",
                      calls[c].n = Head(queue).n
               PROVE  FALSE
      BY <1>1, <1>2 DEF ConnectReturnsBeforeConnected, Resting
  <2>1. Head(queue).n = attempt /\ ConnectedWaits
    <3>1. CASE queue = <<ConnectedEvent>> /\ ConnectedWaits
        BY <3>1 DEF ConnectedEvent
    <3>2. ASSUME NEW w \in BOOLEAN, queue = <<DisconnectedEvent(w)>> PROVE FALSE
        BY <3>2 DEF DisconnectedEvent
    <3>3. ASSUME NEW w \in BOOLEAN, queue = <<ConnectedEvent, DisconnectedEvent(w)>>, ConnectedWaits
          PROVE  Head(queue).n = attempt
        BY <3>3 DEF ConnectedEvent
    <3> QED
        BY <3>1, <3>2, <3>3, <1>2 DEF IInv, QueueShape
  <2> QED
      BY <2>1, <1>9 DEF ConnectedWaits
<1> QED
    BY <1>3, <1>4, <1>5, <1>7, <1>8, <1>10, <1>11, <1>12, <1>13 DEF IInv

-----------------------------------------------------------------------------
(* Failures.                                                               *)

LEMMA FailureIsError == \A n \in Nat : FailureOf(n) \in Errors
  BY DEF FailureOf, Errors

\* The socket fails to open, or the server refuses the client.
LEMMA RefusedStep == IInv /\ (\E answer \in BOOLEAN : OpenFails(answer) \/ Refuse(answer)) => IInv'
<1> SUFFICES ASSUME IInv, NEW answer \in BOOLEAN, OpenFails(answer) \/ Refuse(answer) PROVE IInv'
    OBVIOUS
<1>1. attempt \in Nat /\ status = "connecting" /\ turn' = "packet"
  <2>1. CASE Refuse(answer)
      BY <2>1 DEF Refuse, InPacket, IInv, TypeOK
  <2>2. CASE OpenFails(answer)
      BY <2>2, LifecycleAssumption DEF OpenFails, InPacket, IInv, TypeOK, BodiesAreInPlace, Started
  <2> QED
      BY <2>1, <2>2
<1>2. FailsWith(FailureOf(attempt), answer)
    BY <1>1, FailEnds DEF Refuse, OpenFails
<1>3. UNCHANGED <<stopped, disconnects, attempt, crypto, session, calls, leaving,
                  loop, loopAttempt, stopLoop, cancelled, lastDrop>>
    BY DEF Refuse, OpenFails, loopVars
<1> QED
    BY <1>1, <1>2, <1>3, AttemptEnds, FailureIsError

\* The wait that was aborted is caught: its attempt has ended, and no other has started.
LEMMA BodyAbortedStep ==
    IInv /\ (\E n \in Attempts, answer \in BOOLEAN : BodyAborted(n, answer)) => IInv'
<1> SUFFICES ASSUME IInv, NEW n \in Attempts, NEW answer \in BOOLEAN, BodyAborted(n, answer) PROVE IInv'
    OBVIOUS
<1>0. MaxConnects \in Nat /\ attempt \in 0 .. MaxConnects /\ n \in Started
    BY LifecycleAssumption DEF IInv, TypeOK, NoneAhead, BodyAborted, Attempts, Started
<1>1. body[n] = "aborted" /\ status = "disconnected" /\ ~Up /\ n = attempt /\ attempt # 0
    BY <1>0 DEF IInv, BodiesAreInPlace, BodyAborted, Up, Started
<1>2. /\ UNCHANGED <<status, settled, handler, delivery, queue, announced, lastEnd, retryAnswer>>
      /\ body' = [body EXCEPT ![n] = "waiting"]
    BY <1>1, FailNothing DEF BodyAborted
<1>3. UNCHANGED <<stopped, disconnects, attempt, crypto, session, calls, leaving,
                  loop, loopAttempt, stopLoop, cancelled, lastDrop, turn>>
    BY DEF BodyAborted, loopVars, InContinuation
<1>4. TypeOK'
    BY <1>2, <1>3 DEF IInv, TypeOK
<1>5. NoneAhead' /\ LeavingLasts'
    BY <1>0, <1>1, <1>2, <1>3 DEF IInv, TypeOK, NoneAhead, LeavingLasts, Up, Attempts
<1>6. Up' = Up /\ Started' = Started
    BY <1>2, <1>3 DEF Up, Started
<1>7. QueueShape' /\ DrainIsBetween'
    BY <1>1, <1>2, <1>3, <1>6 DEF IInv, TypeOK, QueueShape, DrainIsBetween, ConnectedEvent,
           DisconnectedEvent, ConnectedWaits
<1>8. BodiesAreInPlace' /\ OnlyCurrentAttemptLives' /\ EndIsAnnouncedOnce'
    BY <1>0, <1>1, <1>2, <1>3, <1>6 DEF IInv, TypeOK, BodiesAreInPlace, OnlyCurrentAttemptLives, EndIsAnnouncedOnce,
           Started, Attempts
<1>9. CallsAreInPlace' /\ LoopIsAlone' /\ LoopIsInPlace' /\ CancelIsSeen' /\ ConnectReturnsBeforeConnected'
    BY <1>2, <1>3 DEF IInv, CallsAreInPlace, LoopIsAlone, LoopIsInPlace, CancelIsSeen, ConnectReturnsBeforeConnected
<1>10. CallsGoOn'
  <2>1. delivery = "queued" /\ turn # "drain"
      BY <1>0, <1>1 DEF IInv, BodiesAreInPlace
  <2> QED
      BY <2>1, <1>2, <1>3 DEF CallsGoOn
<1>11. WordIsKept'
    BY <1>2, <1>3, <1>6 DEF IInv, WordIsKept, Denied, Asked, FailureOf
<1> QED
    BY <1>4, <1>5, <1>7, <1>8, <1>9, <1>10, <1>11 DEF IInv

-----------------------------------------------------------------------------
(* Calls that wait or return.                                              *)

\* A call leaves the place where it is, for a wait or for good.
LEMMA CallMoves ==
    ASSUME IInv, NEW c \in DOMAIN calls, NEW what \in {"none", "waitLeaving", "waitDelivered"},
           NEW s \in Nat, s <= disconnects, what = "waitDelivered" /\ s = disconnects => leaving = "none",
           calls' = [calls EXCEPT ![c] = [at |-> what, saw |-> s, n |-> 0]],
           UNCHANGED Resting, UNCHANGED <<retryAnswer, lastDrop, turn>>,
           loop' \in [at: {"none", "sleep", "woken", "calling", "returned", "threw"}, k: Nat, err: Errors],
           loopAttempt' \in Nat, cancelled' \in {"no", "yes", "retaken"},
           LoopIsInPlace', CancelIsSeen', WordIsKept'
    PROVE  IInv'
<1>0. /\ MaxConnects \in Nat /\ attempt \in 0 .. MaxConnects /\ Loop \in DOMAIN calls
      /\ DOMAIN calls' = DOMAIN calls
      /\ \A d \in DOMAIN calls : d # c => calls'[d] = calls[d]
      /\ calls'[c].at = what /\ calls'[c].saw = s /\ calls'[c].n = 0
    BY LifecycleAssumption DEF IInv, TypeOK
<1>1. TypeOK'
    BY <1>0 DEF IInv, TypeOK, Resting
<1>2. NoneAhead' /\ LeavingLasts' /\ QueueShape' /\ DrainIsBetween'
    BY DEF IInv, NoneAhead, LeavingLasts, QueueShape, DrainIsBetween, Up, ConnectedEvent,
           DisconnectedEvent, ConnectedWaits, Resting
<1>3. BodiesAreInPlace' /\ OnlyCurrentAttemptLives' /\ EndIsAnnouncedOnce'
    BY DEF IInv, BodiesAreInPlace, OnlyCurrentAttemptLives, EndIsAnnouncedOnce, Started, Up, Resting
<1>4. CallsAreInPlace'
    BY <1>0 DEF IInv, CallsAreInPlace, Resting
<1>5. CallsGoOn' /\ LoopIsAlone' /\ ConnectReturnsBeforeConnected'
    BY <1>0 DEF IInv, CallsGoOn, LoopIsAlone, ConnectReturnsBeforeConnected, Up, Resting
<1> QED
    BY <1>1, <1>2, <1>3, <1>4, <1>5 DEF IInv

\* The call of one of the application's callers: the loop is not concerned.
LEMMA CallerMoves ==
    ASSUME IInv, NEW c \in DOMAIN calls, c # Loop, NEW what \in {"none", "waitLeaving", "waitDelivered"},
           NEW s \in Nat, s <= disconnects, what = "waitDelivered" /\ s = disconnects => leaving = "none",
           calls' = [calls EXCEPT ![c] = [at |-> what, saw |-> s, n |-> 0]],
           UNCHANGED Resting, UNCHANGED <<retryAnswer, lastDrop, turn, loop, loopAttempt, cancelled>>
    PROVE  IInv'
<1>1. calls'[Loop] = calls[Loop]
    BY DEF IInv, TypeOK
<1>2. LoopIsInPlace' /\ CancelIsSeen'
    BY <1>1 DEF IInv, LoopIsInPlace, CancelIsSeen, Resting
<1>3. WordIsKept'
    BY <1>1 DEF IInv, WordIsKept, Denied, Asked, FailureOf, Up, Resting
<1>4. /\ loop \in [at: {"none", "sleep", "woken", "calling", "returned", "threw"}, k: Nat, err: Errors]
      /\ loopAttempt \in Nat /\ cancelled \in {"no", "yes", "retaken"}
    BY DEF IInv, TypeOK
<1> QED
    BY <1>2, <1>3, <1>4, CallMoves

\* The signal of a call aborts.  Only the current attempt can fail of it: in an attempt
\* of the loop's the call is the loop's, and a session or an ended attempt is left alone.
LEMMA AbortStep == IInv /\ (\E c \in DOMAIN calls, answer \in BOOLEAN : Abort(c, answer)) => IInv'
<1> SUFFICES ASSUME IInv, NEW c \in DOMAIN calls, NEW answer \in BOOLEAN, Abort(c, answer) PROVE IInv'
    OBVIOUS
<1>1. /\ UNCHANGED <<stopped, disconnects, attempt, crypto, session, leaving, loop, loopAttempt, stopLoop,
                     cancelled, lastDrop, turn>>
      /\ turn \in {"idle", "drain"}
    BY DEF Abort, loopVars, InTimer, NewTurn, InApplication
<1>2. CASE c # Loop /\ Return(c) /\ UNCHANGED <<status, settled, body, handler, eventVars, retryAnswer>>
  <2>1. UNCHANGED Resting
      BY <1>1, <1>2 DEF Resting, eventVars
  <2>2. 0 \in Nat /\ 0 <= disconnects
      BY DEF IInv, TypeOK
  <2> QED
      BY <1>1, <1>2, <2>1, <2>2, CallerMoves DEF Return, WaitFor
<1>3. CASE /\ calls[c].at = "attempt" /\ UNCHANGED calls
           /\ FailConnection(FailureOf(calls[c].n), answer, body)
  <2>1. CASE status = "connecting"
    <3>1. turn' # "drain" /\ turn' \in {"idle", "packet", "drain"}
        BY <2>1, <1>1 DEF IInv, DrainIsBetween
    <3>2. FailsWith(FailureOf(calls[c].n), answer)
        BY <3>1, <2>1, <1>3, FailEnds
    <3>3. calls[Loop].n = attempt => FailureOf(calls[c].n) = FailureOf(attempt)
        BY <1>3, <2>1 DEF IInv, LoopIsAlone, NoneAhead, Up
    <3>4. FailureOf(calls[c].n) \in Errors
        BY FailureIsError, LifecycleAssumption DEF IInv, TypeOK
    <3> QED
        BY <3>2, <3>3, <3>4, <2>1, <1>1, <1>3, AttemptEnds
  <2>2. CASE status # "connecting"
    <3>1. /\ UNCHANGED <<status, settled, handler, delivery, queue, announced, lastEnd, retryAnswer>>
          /\ body' = body
        BY <2>2, <1>3, FailNothing
    <3> QED
        BY <3>1, <1>1, <1>3, NothingMoves DEF Resting
  <2> QED
      BY <2>1, <2>2
<1> QED
    BY <1>2, <1>3 DEF Abort

\* The attempt has settled, and its call returns.
LEMMA ResumeStep == IInv /\ (\E c \in DOMAIN calls : Resume(c)) => IInv'
<1> SUFFICES ASSUME IInv, NEW c \in DOMAIN calls, Resume(c) PROVE IInv'
    OBVIOUS
<1>1. /\ UNCHANGED Resting /\ UNCHANGED <<loopAttempt, stopLoop, cancelled, retryAnswer, lastDrop, turn>>
      /\ calls' = [calls EXCEPT ![c] = [at |-> "none", saw |-> 0, n |-> 0]]
      /\ calls[c].at = "attempt" /\ settled[calls[c].n] \in {"resolved", "rejected"}
      /\ 0 \in Nat /\ 0 <= disconnects
    BY DEF Resume, Resting, attemptVars, eventVars, retryVars, InContinuation, Resumes, Return, WaitFor,
           IInv, TypeOK
<1>2. CASE c # Loop
    BY <1>1, <1>2, CallerMoves DEF Resume
<1>3. CASE c = Loop
  <2> DEFINE err == IF settled[calls[c].n] = "resolved" THEN Resolved ELSE FailureOf(calls[c].n)
  <2>1. loop' = [loop EXCEPT !.at = "returned", !.err = err]
      BY <1>3 DEF Resume
  <2>2. err \in Errors
      BY FailureIsError, LifecycleAssumption DEF IInv, TypeOK, Errors, Resolved
  <2>3. /\ loop' \in [at: {"none", "sleep", "woken", "calling", "returned", "threw"}, k: Nat, err: Errors]
        /\ loop'.at = "returned" /\ loop'.k = loop.k /\ loop'.err = err
        /\ loopAttempt \in Nat /\ cancelled \in {"no", "yes", "retaken"}
      BY <2>1, <2>2 DEF IInv, TypeOK
  <2>4. calls'[Loop].at = "none" /\ loop.at = "calling" /\ loop.at # "none"
      BY <1>1, <1>3 DEF IInv, TypeOK, LoopIsInPlace
  <2>5. LoopIsInPlace' /\ CancelIsSeen'
      BY <1>1, <2>3, <2>4 DEF IInv, LoopIsInPlace, CancelIsSeen, Resting
  <2>6. WordIsKept'
    <3>1. settled[attempt] = "rejected" /\ calls[Loop].n = attempt => err = FailureOf(attempt)
        BY <1>3
    <3> QED
        BY <3>1, <1>1, <1>3, <2>3, <2>4 DEF IInv, WordIsKept, Denied, Asked, FailureOf, Up, Resting
  <2> QED
      BY <1>1, <1>3, <2>3, <2>5, <2>6, CallMoves
<1> QED
    BY <1>2, <1>3

-----------------------------------------------------------------------------
(* The start of an attempt.                                                *)

\* #connect starts an attempt: of the last one nothing is left to be heard, to be
\* caught or to be held.
LEMMA BeginStep ==
    ASSUME IInv, NEW c \in DOMAIN calls, Begin(c),
           status = "disconnected", leaving = "none", delivery = "none",
           UNCHANGED <<disconnects, settled, session, leaving, delivery, queue, announced, lastEnd,
                       retryAnswer, lastDrop, turn>>,
           loop' \in [at: {"none", "sleep", "woken", "calling", "returned", "threw"}, k: Nat, err: Errors],
           loopAttempt' \in Nat, LoopIsInPlace',
           c = Loop => cancelled # "yes" /\ \A d \in DOMAIN calls : calls[d].at # "attempt"
    PROVE  IInv'
<1>0. /\ MaxConnects \in Nat /\ attempt \in 0 .. MaxConnects /\ attempt + 1 \in 1 .. MaxConnects
      /\ attempt' = attempt + 1 /\ attempt + 1 \in Attempts /\ disconnects \in Nat
      /\ status' = "connecting" /\ handler' = "new" /\ crypto' = FALSE /\ stopped' = FALSE
      /\ body' = [body EXCEPT ![attempt + 1] = "opening"]
      /\ calls' = [calls EXCEPT ![c] = [at |-> "attempt", saw |-> 0, n |-> attempt + 1]]
      /\ cancelled' = IF c # Loop /\ cancelled = "yes" THEN "retaken" ELSE cancelled
    BY LifecycleAssumption DEF IInv, TypeOK, Begin, Attempts
<1>1. /\ DOMAIN calls' = DOMAIN calls /\ Loop \in DOMAIN calls
      /\ \A d \in DOMAIN calls : d # c => calls'[d] = calls[d]
      /\ calls'[c].at = "attempt" /\ calls'[c].saw = 0 /\ calls'[c].n = attempt + 1
    BY <1>0 DEF IInv, TypeOK
<1>2. ~Up /\ Up' /\ queue = <<>> /\ turn # "drain"
    BY <1>0 DEF Up, IInv, QueueShape, DrainIsBetween
<1>3. TypeOK'
  <2>1. calls' \in [Callers \cup {Loop} ->
                    [at: {"none", "waitLeaving", "waitDelivered", "woken", "attempt"},
                     saw: Nat, n: 0 .. MaxConnects]]
      BY <1>0 DEF IInv, TypeOK
  <2>2. body' \in [Attempts -> {"none", "opening", "waiting", "aborted"}] /\ attempt' \in 0 .. MaxConnects
      BY <1>0 DEF IInv, TypeOK
  <2>3. cancelled' \in {"no", "yes", "retaken"}
      BY <1>0 DEF IInv, TypeOK
  <2> QED
      BY <1>0, <2>1, <2>2, <2>3 DEF IInv, TypeOK
<1>4. NoneAhead'
    BY <1>0, <1>2 DEF IInv, TypeOK, NoneAhead, Attempts
<1>5. BodiesAreInPlace'
  <2> SUFFICES ASSUME NEW n \in Started'
               PROVE  /\ body'[n] # "none" /\ body'[n] # "aborted"
                      /\ body'[n] = "opening" => n = attempt'
      BY <1>0, <1>2 DEF BodiesAreInPlace
  <2>1. CASE n = attempt + 1
      BY <2>1, <1>0 DEF IInv, TypeOK
  <2>2. CASE n # attempt + 1
    <3>1. n \in Started /\ n \in Attempts
        BY <2>2, <1>0 DEF Started, Attempts
    <3> QED
        BY <3>1, <2>2, <1>0, <1>2 DEF IInv, TypeOK, BodiesAreInPlace
  <2> QED
      BY <2>1, <2>2
<1>6. LeavingLasts' /\ DrainIsBetween' /\ QueueShape'
    BY <1>0, <1>2 DEF IInv, LeavingLasts, DrainIsBetween, QueueShape, Up
<1>7. CallsAreInPlace'
    BY <1>0, <1>1 DEF IInv, TypeOK, CallsAreInPlace
<1>8. CallsGoOn' /\ ConnectReturnsBeforeConnected' /\ WordIsKept'
    BY <1>2 DEF CallsGoOn, ConnectReturnsBeforeConnected, WordIsKept
<1>9. LoopIsAlone'
  <2>1. CASE c = Loop
      BY <2>1, <1>1 DEF LoopIsAlone
  <2>2. CASE c # Loop
      BY <2>2, <1>0, <1>1 DEF IInv, TypeOK, CallsAreInPlace, LoopIsAlone
  <2> QED
      BY <2>1, <2>2
<1>10. CancelIsSeen'
    BY <1>0 DEF CancelIsSeen
<1>11. OnlyCurrentAttemptLives'
  <2> SUFFICES ASSUME NEW n \in Started'
               PROVE  /\ settled'[n] = "no" <=> n = attempt'
                      /\ body'[n] # "aborted"
      BY <1>0, <1>2 DEF OnlyCurrentAttemptLives, IInv, Up
  <2>1. CASE n = attempt + 1
      BY <2>1, <1>0 DEF IInv, TypeOK, NoneAhead
  <2>2. CASE n # attempt + 1
    <3>1. n \in Started /\ n \in Attempts
        BY <2>2, <1>0 DEF Started, Attempts
    <3> QED
        BY <3>1, <2>2, <1>0, <1>2 DEF IInv, TypeOK, BodiesAreInPlace, OnlyCurrentAttemptLives
  <2> QED
      BY <2>1, <2>2
<1>12. EndIsAnnouncedOnce'
  <2> SUFFICES ASSUME NEW n \in Started' PROVE announced[n] = IF n = attempt + 1 THEN 0 ELSE 1
      BY <1>0, <1>2 DEF EndIsAnnouncedOnce
  <2>1. CASE n = attempt + 1
      BY <2>1, <1>0 DEF IInv, NoneAhead
  <2>2. CASE n # attempt + 1
      BY <2>2, <1>0, <1>2 DEF IInv, EndIsAnnouncedOnce, Started, Up
  <2> QED
      BY <2>1, <2>2
<1> QED
    BY <1>3, <1>4, <1>5, <1>6, <1>7, <1>8, <1>9, <1>10, <1>11, <1>12 DEF IInv

\* connect(): it waits, or starts an attempt.
LEMMA ConnectStep == IInv /\ (\E c \in Callers : Connect(c)) => IInv'
<1> SUFFICES ASSUME IInv, NEW c \in Callers, Connect(c) PROVE IInv'
    OBVIOUS
<1>1. /\ UNCHANGED <<disconnects, settled, session, leaving, delivery, queue, announced, lastEnd>>
      /\ UNCHANGED <<loop, loopAttempt, stopLoop, retryAnswer, lastDrop, turn>>
    BY DEF Connect, eventVars, retryVars, InApplication
<1>2. c \in DOMAIN calls /\ c # Loop /\ disconnects \in Nat /\ disconnects <= disconnects
    BY LifecycleAssumption DEF IInv, TypeOK, Loop
<1>3. CASE UNCHANGED <<status, stopped, attempt, body, handler, crypto, cancelled>>
           /\ (WaitFor(c, "waitLeaving", disconnects)
               \/ (leaving = "none" /\ WaitFor(c, "waitDelivered", disconnects)))
  <2>1. UNCHANGED Resting
      BY <1>1, <1>3 DEF Resting
  <2>2. CASE WaitFor(c, "waitLeaving", disconnects)
      BY <2>1, <2>2, <1>1, <1>2, <1>3, CallerMoves DEF WaitFor
  <2>3. CASE leaving = "none" /\ WaitFor(c, "waitDelivered", disconnects)
      BY <2>1, <2>3, <1>1, <1>2, <1>3, CallerMoves DEF WaitFor
  <2> QED
      BY <1>3, <2>2, <2>3
<1>4. CASE leaving = "none" /\ delivery = "none" /\ status = "disconnected" /\ Begin(c)
  <2>1. LoopIsInPlace'
    <3>1. calls'[Loop] = calls[Loop]
        BY <1>2, <1>4 DEF Begin, IInv, TypeOK
    <3> QED
        BY <3>1, <1>1 DEF IInv, LoopIsInPlace
  <2>2. /\ loop' \in [at: {"none", "sleep", "woken", "calling", "returned", "threw"}, k: Nat, err: Errors]
        /\ loopAttempt' \in Nat
      BY <1>1 DEF IInv, TypeOK
  <2> QED
      BY <2>1, <2>2, <1>1, <1>2, <1>4, BeginStep
<1> QED
    BY <1>3, <1>4 DEF Connect, Enter

\* When the loop is about to start an attempt, every other call has gone on.
LEMMA NoCallLeft ==
    ASSUME IInv, status = "disconnected", leaving = "none", delivery = "none",
           ~stopped \/ \A d \in DOMAIN calls : ~Resumes(d)
    PROVE  \A d \in DOMAIN calls : calls[d].at # "attempt"
<1> SUFFICES ASSUME NEW d \in DOMAIN calls, calls[d].at = "attempt" PROVE FALSE
    OBVIOUS
<1>1. calls[d].n \in Attempts
    BY LifecycleAssumption DEF IInv, TypeOK, CallsAreInPlace, Attempts
<1>2. stopped /\ body[calls[d].n] = "waiting" /\ settled[calls[d].n] = "rejected"
    BY <1>1 DEF IInv, CallsGoOn, LeavingLasts, Up
<1> QED
    BY <1>2 DEF Resumes

\* #connect goes on after its wait.
LEMMA WokenStep == IInv /\ (\E c \in DOMAIN calls : Woken(c)) => IInv'
<1> SUFFICES ASSUME IInv, NEW c \in DOMAIN calls, Woken(c) PROVE IInv'
    OBVIOUS
<1>1. /\ UNCHANGED <<disconnects, settled, session, leaving, delivery, queue, announced, lastEnd>>
      /\ UNCHANGED <<loopAttempt, stopLoop, retryAnswer, lastDrop, turn>>
      /\ calls[c].at = "woken" /\ \A d \in DOMAIN calls : ~Resumes(d)
    BY DEF Woken, eventVars, retryVars, InContinuation
<1>2. /\ disconnects \in Nat /\ calls[c].saw \in Nat /\ calls[c].saw <= disconnects /\ calls[c].n = 0
      /\ calls[c].saw = disconnects => leaving = "none"
      /\ Loop \in DOMAIN calls
      /\ loop \in [at: {"none", "sleep", "woken", "calling", "returned", "threw"}, k: Nat, err: Errors]
      /\ loopAttempt \in Nat /\ cancelled \in {"no", "yes", "retaken"}
    BY <1>1 DEF IInv, TypeOK, CallsAreInPlace
<1>3. CASE /\ delivery # "none" /\ WaitFor(c, "waitDelivered", calls[c].saw)
           /\ UNCHANGED <<status, stopped, attempt, body, handler, crypto, cancelled, loop>>
  <2>1. UNCHANGED Resting /\ calls' = [calls EXCEPT ![c] = [at |-> "waitDelivered", saw |-> calls[c].saw, n |-> 0]]
      BY <1>1, <1>3 DEF Resting, WaitFor
  <2>2. CASE c # Loop
      BY <2>1, <2>2, <1>1, <1>2, <1>3, CallerMoves
  <2>3. CASE c = Loop
    <3>1. calls'[Loop].at = "waitDelivered" /\ calls'[Loop].saw = calls[Loop].saw /\ calls'[Loop].n = 0
        BY <2>1, <2>3 DEF IInv, TypeOK
    <3>2. LoopIsInPlace' /\ CancelIsSeen' /\ WordIsKept'
        BY <3>1, <2>1, <2>3, <1>1, <1>2, <1>3
        DEF IInv, LoopIsInPlace, CancelIsSeen, WordIsKept, Denied, Asked, FailureOf, Up, Resting
    <3> QED
        BY <3>2, <2>1, <2>3, <1>1, <1>2, <1>3, CallMoves
  <2> QED
      BY <2>2, <2>3
<1>4. ASSUME NEW err \in Errors, delivery = "none", Return(c),
             loop' = IF c = Loop THEN [loop EXCEPT !.at = "threw", !.err = err] ELSE loop,
             UNCHANGED <<status, stopped, attempt, body, handler, crypto, cancelled>>
      PROVE  IInv'
  <2>1. UNCHANGED Resting /\ calls' = [calls EXCEPT ![c] = [at |-> "none", saw |-> 0, n |-> 0]] /\ 0 \in Nat /\ 0 <= disconnects
      BY <1>1, <1>2, <1>4 DEF Resting, Return, WaitFor
  <2>2. CASE c # Loop
      BY <2>1, <2>2, <1>1, <1>2, <1>4, CallerMoves
  <2>3. CASE c = Loop
    <3>1. /\ calls'[Loop].at = "none"
          /\ loop' \in [at: {"none", "sleep", "woken", "calling", "returned", "threw"}, k: Nat, err: Errors]
          /\ loop'.at = "threw" /\ loop.at = "calling"
        BY <2>1, <2>3, <1>1, <1>2, <1>4 DEF IInv, TypeOK, LoopIsInPlace
    <3>2. LoopIsInPlace' /\ CancelIsSeen' /\ WordIsKept'
        BY <3>1, <2>1, <2>3, <1>1, <1>4
        DEF IInv, LoopIsInPlace, CancelIsSeen, WordIsKept, Up, Resting
    <3> QED
        BY <3>1, <3>2, <2>1, <2>3, <1>1, <1>2, <1>4, CallMoves
  <2> QED
      BY <2>2, <2>3
<1>5. CASE /\ delivery = "none" /\ disconnects = calls[c].saw /\ status = "disconnected"
           /\ Begin(c) /\ UNCHANGED loop
  <2>1. LoopIsInPlace'
    <3>1. c # Loop => calls'[Loop] = calls[Loop]
        BY <1>5 DEF Begin, IInv, TypeOK
    <3>2. c = Loop => calls'[Loop].at = "attempt"
        BY <1>5 DEF Begin, IInv, TypeOK
    <3> QED
        BY <3>1, <3>2, <1>1, <1>5 DEF IInv, LoopIsInPlace
  <2>2. c = Loop => cancelled # "yes"
      BY <1>1, <1>5 DEF IInv, CancelIsSeen
  <2>3. \A d \in DOMAIN calls : calls[d].at # "attempt"
      BY <1>1, <1>2, <1>5, NoCallLeft
  <2> QED
      BY <2>1, <2>2, <2>3, <1>1, <1>2, <1>5, BeginStep
<1>6. Already \in Errors /\ LeftBy(disconnects) \in Errors
    BY <1>2 DEF Already, LeftBy, Errors
<1> QED
    BY <1>3, <1>4, <1>5, <1>6 DEF Woken

-----------------------------------------------------------------------------
(* The reconnect loop.                                                     *)

\* A step of the loop alone.
LEMMA LoopMoves ==
    ASSUME IInv, UNCHANGED Resting, UNCHANGED <<calls, lastDrop, turn>>,
           loop' \in [at: {"none", "sleep", "woken", "calling", "returned", "threw"}, k: Nat, err: Errors],
           loopAttempt' \in Nat, cancelled' \in {"no", "yes", "retaken"},
           retryAnswer' \in [err: Errors, k: Nat, retry: BOOLEAN],
           LoopIsInPlace', CancelIsSeen', WordIsKept'
    PROVE  IInv'
<1>1. TypeOK'
    BY DEF IInv, TypeOK, Resting
<1>2. NoneAhead' /\ LeavingLasts' /\ QueueShape' /\ DrainIsBetween'
    BY DEF IInv, NoneAhead, LeavingLasts, QueueShape, DrainIsBetween, Up, ConnectedEvent,
           DisconnectedEvent, ConnectedWaits, Resting
<1>3. BodiesAreInPlace' /\ CallsAreInPlace' /\ CallsGoOn' /\ LoopIsAlone'
    BY DEF IInv, BodiesAreInPlace, CallsAreInPlace, CallsGoOn, LoopIsAlone, Up, Started, Resting
<1>4. OnlyCurrentAttemptLives' /\ EndIsAnnouncedOnce' /\ ConnectReturnsBeforeConnected'
    BY DEF IInv, OnlyCurrentAttemptLives, EndIsAnnouncedOnce, ConnectReturnsBeforeConnected, Started, Resting
<1> QED
    BY <1>1, <1>2, <1>3, <1>4 DEF IInv

\* The delay is over.
LEMMA LoopTimerStep == IInv /\ LoopTimer => IInv'
<1> SUFFICES ASSUME IInv, LoopTimer PROVE IInv'
    OBVIOUS
<1>1. UNCHANGED Resting /\ UNCHANGED <<calls, loopAttempt, cancelled, retryAnswer, lastDrop, turn>>
    BY DEF LoopTimer, Resting, attemptVars, eventVars, retryVars, InTimer
<1>2. /\ loop' \in [at: {"none", "sleep", "woken", "calling", "returned", "threw"}, k: Nat, err: Errors]
      /\ loop.at = "sleep" /\ loop'.at = "woken"
    BY DEF LoopTimer, IInv, TypeOK
<1>3. LoopIsInPlace' /\ CancelIsSeen'
    BY <1>1, <1>2 DEF IInv, LoopIsInPlace, CancelIsSeen, Resting
<1>4. WordIsKept'
  <2>1. attempt # 0 => calls[Loop].n # attempt
      BY <1>2, LifecycleAssumption DEF IInv, TypeOK, LoopIsInPlace, CallsAreInPlace
  <2> QED
      BY <2>1, <1>1, <1>2 DEF IInv, WordIsKept, Up, Resting
<1> QED
    BY <1>1, <1>2, <1>3, <1>4, LoopMoves DEF IInv, TypeOK

\* After the delay: the loop ends, waits as any caller of #connect, or starts an attempt.
LEMMA LoopWokenStep == IInv /\ LoopWoken => IInv'
<1> SUFFICES ASSUME IInv, LoopWoken PROVE IInv'
    OBVIOUS
<1>1. /\ UNCHANGED <<disconnects, settled, session, leaving, delivery, queue, announced, lastEnd>>
      /\ UNCHANGED <<retryAnswer, lastDrop, turn>>
      /\ loop.at = "woken"
    BY DEF LoopWoken, eventVars, retryVars, InContinuation
<1>2. /\ calls[Loop].at = "none" /\ calls[Loop].n = 0 /\ Loop \in DOMAIN calls
      /\ disconnects \in Nat /\ disconnects <= disconnects
      /\ loop \in [at: {"none", "sleep", "woken", "calling", "returned", "threw"}, k: Nat, err: Errors]
      /\ loopAttempt \in Nat /\ cancelled \in {"no", "yes", "retaken"}
      /\ retryAnswer \in [err: Errors, k: Nat, retry: BOOLEAN]
    BY <1>1 DEF IInv, TypeOK, LoopIsInPlace, CallsAreInPlace
<1>3. CASE LoopEnds /\ UNCHANGED <<status, stopped, attempt, body, handler, crypto, calls>>
  <2>1. UNCHANGED Resting
      BY <1>1, <1>3 DEF Resting
  <2>2. /\ loop' \in [at: {"none", "sleep", "woken", "calling", "returned", "threw"}, k: Nat, err: Errors]
        /\ loop'.at = "none" /\ loopAttempt' \in Nat /\ cancelled' = "no"
      BY <1>3 DEF LoopEnds, Errors
  <2>3. LoopIsInPlace' /\ CancelIsSeen' /\ WordIsKept'
      BY <2>2, <1>2, <1>3 DEF LoopIsInPlace, CancelIsSeen, WordIsKept
  <2> QED
      BY <2>1, <2>2, <2>3, <1>1, <1>2, <1>3, LoopMoves
<1>4. CASE /\ ~stopped /\ status = "disconnected" /\ loopAttempt' = loop.k
           /\ loop' = [loop EXCEPT !.at = "calling"] /\ Enter(Loop)
  <2>1. /\ loop' \in [at: {"none", "sleep", "woken", "calling", "returned", "threw"}, k: Nat, err: Errors]
        /\ loop'.at = "calling" /\ loop'.k = loop.k /\ loopAttempt' \in Nat
        /\ cancelled # "yes"
      BY <1>2, <1>4 DEF IInv, CancelIsSeen
  <2>2. ASSUME NEW what \in {"waitLeaving", "waitDelivered"}, WaitFor(Loop, what, disconnects),
               what = "waitDelivered" => leaving = "none",
               UNCHANGED <<status, stopped, attempt, body, handler, crypto, cancelled>>
        PROVE  IInv'
    <3>1. /\ UNCHANGED Resting
          /\ calls' = [calls EXCEPT ![Loop] = [at |-> what, saw |-> disconnects, n |-> 0]]
          /\ calls'[Loop].at = what
        BY <2>2, <1>1, <1>2 DEF Resting, WaitFor, IInv, TypeOK
    <3>2. LoopIsInPlace' /\ CancelIsSeen'
        BY <3>1, <2>1, <2>2, <1>4 DEF LoopIsInPlace, CancelIsSeen
    <3>3. WordIsKept'
        BY <3>1, <2>1, <1>1, <1>2 DEF IInv, WordIsKept, Up, Resting
    <3> QED
        BY <3>1, <3>2, <3>3, <2>1, <2>2, <1>1, <1>2, CallMoves
  <2>3. CASE leaving = "none" /\ delivery = "none" /\ Begin(Loop)
    <3>1. LoopIsInPlace'
        BY <2>1, <2>3, <1>2, <1>4 DEF Begin, IInv, TypeOK, LoopIsInPlace
    <3>2. \A d \in DOMAIN calls : calls[d].at # "attempt"
        BY <2>3, <1>4, NoCallLeft
    <3> QED
        BY <3>1, <3>2, <2>1, <2>3, <1>1, <1>2, <1>4, BeginStep
  <2> QED
      BY <2>2, <2>3, <1>4 DEF Enter
<1> QED
    BY <1>3, <1>4 DEF LoopWoken

\* The attempt has ended: when its end was announced without a promise, the loop's
\* own answer is the same, and it ends.
LEMMA LoopNextStep == IInv /\ (\E answer \in BOOLEAN : LoopNext(answer)) => IInv'
<1> SUFFICES ASSUME IInv, NEW answer \in BOOLEAN, LoopNext(answer) PROVE IInv'
    OBVIOUS
<1> DEFINE k      == loop.k + 1
           cause  == IF loop.err = Resolved THEN lastDrop ELSE loop.err
           goesOn == ~LoopDone /\ WillReconnect(cause, k, answer)
<1>1. /\ UNCHANGED Resting /\ UNCHANGED <<calls, lastDrop, turn>>
      /\ loop.at \in {"returned", "threw"}
    BY DEF LoopNext, Resting, attemptVars, eventVars, InContinuation
<1>2. /\ calls[Loop].at = "none" /\ calls[Loop].n = 0 /\ Loop \in DOMAIN calls
      /\ loop \in [at: {"none", "sleep", "woken", "calling", "returned", "threw"}, k: Nat, err: Errors]
      /\ loopAttempt \in Nat /\ cancelled \in {"no", "yes", "retaken"}
      /\ retryAnswer \in [err: Errors, k: Nat, retry: BOOLEAN] /\ lastDrop \in Errors
      /\ cause \in Errors /\ k \in Nat
    BY <1>1 DEF IInv, TypeOK, LoopIsInPlace, CallsAreInPlace
<1>3. retryAnswer' \in [err: Errors, k: Nat, retry: BOOLEAN]
  <2>1. retryAnswer' = retryAnswer \/ retryAnswer' = [err |-> cause, k |-> k, retry |-> answer]
      BY DEF LoopNext, AskRetry
  <2> QED
      BY <2>1, <1>2
<1>4. CASE goesOn
  <2>1. /\ loop' = [loop EXCEPT !.at = IF stopLoop THEN "woken" ELSE "sleep", !.k = k, !.err = cause]
        /\ UNCHANGED <<loopAttempt, cancelled>>
      BY <1>4 DEF LoopNext
  <2>2. /\ loop' \in [at: {"none", "sleep", "woken", "calling", "returned", "threw"}, k: Nat, err: Errors]
        /\ loop'.at \in {"woken", "sleep"}
      BY <2>1, <1>2
  <2>3. LoopIsInPlace' /\ CancelIsSeen'
      BY <2>1, <2>2, <1>1, <1>2 DEF IInv, LoopIsInPlace, CancelIsSeen, Resting
  <2>4. ASSUME loop.at = "returned", loop.err = FailureOf(attempt), Denied(FailureOf(attempt), loopAttempt + 1)
        PROVE  FALSE
    <3>1. k = loopAttempt + 1 /\ cause = FailureOf(attempt)
        BY <2>4 DEF IInv, LoopIsInPlace, FailureOf, Resolved
    <3>2. ~Refused(k) /\ (Asked(cause, k) => retryAnswer.retry)
        BY <1>4 DEF WillReconnect
    <3> QED
        BY <2>4, <3>1, <3>2 DEF Denied, Refused
  <2>5. WordIsKept'
      BY <2>1, <2>2, <2>4, <1>1, <1>2 DEF IInv, WordIsKept, Up, Resting
  <2> QED
      BY <2>1, <2>2, <2>3, <2>5, <1>1, <1>2, <1>3, LoopMoves
<1>5. CASE ~goesOn
  <2>1. LoopEnds
      BY <1>5 DEF LoopNext
  <2>2. /\ loop' \in [at: {"none", "sleep", "woken", "calling", "returned", "threw"}, k: Nat, err: Errors]
        /\ loop'.at = "none" /\ loopAttempt' \in Nat /\ cancelled' = "no"
      BY <2>1 DEF LoopEnds, Errors
  <2>3. LoopIsInPlace' /\ CancelIsSeen' /\ WordIsKept'
      BY <2>2, <1>1, <1>2 DEF LoopIsInPlace, CancelIsSeen, WordIsKept
  <2> QED
      BY <2>2, <2>3, <1>1, <1>2, <1>3, LoopMoves
<1> QED
    BY <1>4, <1>5

-----------------------------------------------------------------------------
(* The session.                                                            *)

\* The socket is open: #connect waits for its attempt, which is still the current one.
LEMMA OpenDoneStep == IInv /\ OpenDone => IInv'
<1> SUFFICES ASSUME IInv, OpenDone PROVE IInv'
    OBVIOUS
<1>0. /\ MaxConnects \in Nat /\ attempt \in 0 .. MaxConnects /\ attempt \in Attempts /\ attempt \in Started
      /\ attempt # 0 /\ body[attempt] = "opening"
    BY LifecycleAssumption DEF IInv, TypeOK, OpenDone, Attempts, Started
<1>1. /\ UNCHANGED <<status, stopped, disconnects, attempt, settled, crypto, session, calls, leaving, delivery,
                     queue, announced, lastEnd, loop, loopAttempt, cancelled, retryAnswer, lastDrop>>
      /\ body' = [body EXCEPT ![attempt] = "waiting"] /\ handler' = "open"
      /\ turn' = "packet"
    BY DEF OpenDone, InPacket, eventVars, loopVars, retryVars
<1>2. status = "connecting" /\ Up /\ Up' /\ Started' = Started
    BY <1>0, <1>1 DEF IInv, BodiesAreInPlace, Up, Started
<1>3. TypeOK'
  <2>1. body' \in [Attempts -> {"none", "opening", "waiting", "aborted"}]
      BY <1>1 DEF IInv, TypeOK
  <2>2. handler' \in {"new", "open", "closed"} /\ turn' \in {"idle", "packet", "drain"}
      BY <1>1
  <2> QED
      BY <2>1, <2>2, <1>1 DEF IInv, TypeOK
<1>4. NoneAhead' /\ LeavingLasts' /\ DrainIsBetween' /\ CallsAreInPlace' /\ LoopIsAlone' /\ LoopIsInPlace' /\ CancelIsSeen'
    BY <1>0, <1>1, <1>2 DEF IInv, TypeOK, NoneAhead, LeavingLasts, DrainIsBetween, CallsAreInPlace, LoopIsAlone,
                      LoopIsInPlace, CancelIsSeen, Attempts
<1>5. QueueShape' /\ CallsGoOn' /\ WordIsKept' /\ ConnectReturnsBeforeConnected'
    BY <1>1, <1>2 DEF IInv, QueueShape, CallsGoOn, WordIsKept, ConnectReturnsBeforeConnected, ConnectedWaits
<1>6. BodiesAreInPlace'
    BY <1>0, <1>1, <1>2 DEF IInv, TypeOK, BodiesAreInPlace, Started, Attempts
<1>7. OnlyCurrentAttemptLives'
  <2>1. \A n \in Started : body'[n] = body[n] \/ body'[n] = "waiting"
      BY <1>0, <1>1 DEF IInv, TypeOK
  <2> QED
      BY <2>1, <1>1, <1>2 DEF IInv, OnlyCurrentAttemptLives
<1>8. EndIsAnnouncedOnce'
    BY <1>1, <1>2 DEF IInv, EndIsAnnouncedOnce
<1> QED
    BY <1>3, <1>4, <1>5, <1>6, <1>7, <1>8 DEF IInv

\* The keys are there: only an attempt whose socket is open gets them.
LEMMA CryptoDoneStep == IInv /\ CryptoDone => IInv'
<1> SUFFICES ASSUME IInv, CryptoDone PROVE IInv'
    OBVIOUS
<1>1. /\ UNCHANGED <<status, stopped, disconnects, attempt, settled, body, handler, session, calls, leaving, delivery,
                     queue, announced, lastEnd, loop, loopAttempt, cancelled, retryAnswer, lastDrop>>
      /\ crypto' = TRUE /\ handler = "open" /\ status = "connecting" /\ turn' = "packet"
    BY DEF CryptoDone, InPacket, eventVars, loopVars, retryVars
<1>2. Up /\ Up' /\ Started' = Started
    BY <1>1 DEF Up, Started
<1>3. TypeOK'
    BY <1>1 DEF IInv, TypeOK
<1>4. NoneAhead' /\ LeavingLasts' /\ DrainIsBetween' /\ CallsAreInPlace' /\ LoopIsAlone' /\ LoopIsInPlace' /\ CancelIsSeen'
    BY <1>1, <1>2 DEF IInv, NoneAhead, LeavingLasts, DrainIsBetween, CallsAreInPlace, LoopIsAlone,
                      LoopIsInPlace, CancelIsSeen
<1>5. QueueShape' /\ CallsGoOn' /\ WordIsKept' /\ ConnectReturnsBeforeConnected'
    BY <1>1, <1>2 DEF IInv, QueueShape, CallsGoOn, WordIsKept, ConnectReturnsBeforeConnected, ConnectedWaits
<1>6. BodiesAreInPlace' /\ OnlyCurrentAttemptLives' /\ EndIsAnnouncedOnce'
    BY <1>1, <1>2 DEF IInv, BodiesAreInPlace, OnlyCurrentAttemptLives, EndIsAnnouncedOnce
<1> QED
    BY <1>3, <1>4, <1>5, <1>6 DEF IInv

\* initserver: the attempt becomes a session, and its `connected` is queued, alone.
LEMMA InitServerStep == IInv /\ InitServer => IInv'
<1> SUFFICES ASSUME IInv, InitServer PROVE IInv'
    OBVIOUS
<1>1. /\ UNCHANGED <<stopped, disconnects, attempt, body, handler, crypto, calls, leaving, delivery,
                     announced, lastEnd, loop, loopAttempt, cancelled, retryAnswer, lastDrop>>
      /\ handler = "open" /\ status = "connecting" /\ status' = "connected" /\ turn' = "packet"
      /\ settled' = [settled EXCEPT ![attempt] = "resolved"] /\ session' = attempt
      /\ queue' = Append(queue, ConnectedEvent)
    BY DEF InitServer, InPacket, loopVars, retryVars, ConnectedEvent
<1>2. Up /\ Up' /\ Started' = Started /\ queue = <<>> /\ leaving = "none"
    BY <1>1 DEF Up, Started, IInv, QueueShape, ConnectedWaits, LeavingLasts
<1>0. MaxConnects \in Nat /\ attempt \in 0 .. MaxConnects /\ attempt \in Attempts /\ attempt \in Started
    BY <1>2, LifecycleAssumption DEF IInv, TypeOK, NoneAhead, Attempts, Started
<1>3. TypeOK'
    BY <1>0, <1>1 DEF IInv, TypeOK
<1>4. NoneAhead' /\ LeavingLasts' /\ DrainIsBetween'
    BY <1>0, <1>1, <1>2 DEF IInv, TypeOK, NoneAhead, LeavingLasts, DrainIsBetween, Attempts
<1>5. CallsAreInPlace' /\ LoopIsAlone' /\ LoopIsInPlace' /\ CancelIsSeen'
    BY <1>1, <1>2 DEF IInv, CallsAreInPlace, LoopIsAlone, LoopIsInPlace, CancelIsSeen
<1>6. QueueShape'
  <2>1. queue' = <<ConnectedEvent>> /\ ConnectedEvent' = ConnectedEvent
      BY <1>1, <1>2 DEF ConnectedEvent
  <2>2. ConnectedWaits'
      BY <1>0, <1>1 DEF IInv, TypeOK, ConnectedWaits, BodiesAreInPlace, Up
  <2>3. delivery' = "none"
      BY <1>1, <1>2 DEF IInv, QueueShape
  <2> QED
      BY <2>1, <2>2, <2>3, <1>2 DEF QueueShape
<1>7. CallsGoOn' /\ WordIsKept' /\ ConnectReturnsBeforeConnected'
    BY <1>1, <1>2 DEF CallsGoOn, WordIsKept, ConnectReturnsBeforeConnected
<1>8. BodiesAreInPlace'
    BY <1>0, <1>1, <1>2 DEF IInv, BodiesAreInPlace
<1>9. OnlyCurrentAttemptLives' /\ EndIsAnnouncedOnce'
    BY <1>0, <1>1, <1>2 DEF IInv, TypeOK, BodiesAreInPlace, OnlyCurrentAttemptLives, EndIsAnnouncedOnce, Started, Attempts
<1> QED
    BY <1>3, <1>4, <1>5, <1>6, <1>7, <1>8, <1>9 DEF IInv

\* An event queued behind another.
LEMMA AppendSecond == ASSUME NEW a, NEW b PROVE Append(<<a>>, b) = <<a, b>>
<1>1. <<a>> \in Seq({a, b}) /\ <<a, b>> \in Seq({a, b})
    OBVIOUS
<1>2. Append(<<a>>, b) \in Seq({a, b}) /\ Len(Append(<<a>>, b)) = 2
    BY <1>1
<1>3. \A i \in 1 .. 2 : Append(<<a>>, b)[i] = <<a, b>>[i]
    BY <1>1
<1> QED
    BY <1>1, <1>2, <1>3, SeqEqual

\* The queue once the end of the current attempt is queued behind what was there.
LEMMA EndIsQueued ==
    ASSUME IInv, Up, status' # "connecting", NEW will \in BOOLEAN, Announce(will), ~Up', attempt' = attempt,
           ConnectedWaits => ConnectedWaits'
    PROVE  /\ QueueShape'
           /\ announced' = [announced EXCEPT ![attempt] = 1]
           /\ delivery' = "queued"
           /\ lastEnd' = [will |-> will, of |-> Ending]
<1>1. attempt \in Attempts /\ attempt \in Started
    BY LifecycleAssumption DEF IInv, TypeOK, NoneAhead, Attempts, Started
<1>2. announced[attempt] = 0
    BY <1>1 DEF IInv, EndIsAnnouncedOnce, Up
<1>3. /\ announced' = [announced EXCEPT ![attempt] = 1] /\ delivery' = "queued"
      /\ lastEnd' = [will |-> will, of |-> Ending]
    BY <1>2 DEF Announce
<1>4. queue' = Append(queue, DisconnectedEvent(will)) /\ DisconnectedEvent(will)' = DisconnectedEvent(will)
      /\ ConnectedEvent' = ConnectedEvent
    BY DEF Announce, DisconnectedEvent, ConnectedEvent
<1>5. CASE queue = <<>>
    BY <1>3, <1>4, <1>5 DEF QueueShape
<1>6. CASE queue = <<ConnectedEvent>> /\ ConnectedWaits
  <2>1. queue' = <<ConnectedEvent, DisconnectedEvent(will)>>
      BY <1>4, <1>6, AppendSecond
  <2> QED
      BY <2>1, <1>3, <1>4, <1>6 DEF QueueShape
<1> QED
    BY <1>3, <1>5, <1>6 DEF IInv, QueueShape

\* A session, and one whose goodbye is being said, has no socket to wait for.
LEMMA SocketsAreDone ==
    ASSUME IInv, Up, status # "connecting"
    PROVE  \A n \in Started : body[n] = "waiting" /\ settled[n] # "no"
<1>1. MaxConnects \in Nat /\ \A n \in Started : n \in Attempts
    BY LifecycleAssumption DEF IInv, TypeOK, Started, Attempts
<1> QED
    BY <1>1 DEF IInv, TypeOK, BodiesAreInPlace, OnlyCurrentAttemptLives

\* The transport closes.  A goodbye goes on without it, an attempt fails of it, and a
\* session ends, with the promise the loop will act on.
LEMMA DropStep == IInv /\ (\E answer \in BOOLEAN : Drop(answer)) => IInv'
<1> SUFFICES ASSUME IInv, NEW answer \in BOOLEAN, Drop(answer) PROVE IInv'
    OBVIOUS
<1>1. /\ UNCHANGED <<stopped, disconnects, attempt, crypto, calls, leaving, loopAttempt>>
      /\ handler = "open" /\ handler' = "closed" /\ turn' = "packet" /\ turn # "drain"
    BY DEF Drop, InPacket, NewTurn
<1>2. Up /\ Started' = Started
    BY <1>1 DEF IInv, OnlyCurrentAttemptLives, Up, Started
<1>0. /\ MaxConnects \in Nat /\ attempt \in 0 .. MaxConnects /\ attempt \in Attempts /\ attempt \in Started
      /\ attempt \in Nat
    BY <1>2, LifecycleAssumption DEF IInv, TypeOK, NoneAhead, Attempts, Started
<1>3. CASE status = "disconnected"
  <2>1. UNCHANGED <<status, settled, body, session, delivery, queue, announced, lastEnd, loop, cancelled,
                    retryAnswer, lastDrop>>
      BY <1>3 DEF Drop, eventVars, retryVars
  <2>2. Up'
      BY <2>1, <1>1, <1>2 DEF Up
  <2>3. TypeOK'
      BY <2>1, <1>1 DEF IInv, TypeOK
  <2>4. NoneAhead' /\ LeavingLasts' /\ DrainIsBetween' /\ CallsAreInPlace' /\ LoopIsAlone' /\ LoopIsInPlace' /\ CancelIsSeen'
      BY <2>1, <2>2, <1>1, <1>2 DEF IInv, NoneAhead, LeavingLasts, DrainIsBetween, CallsAreInPlace, LoopIsAlone,
                      LoopIsInPlace, CancelIsSeen
  <2>5. QueueShape' /\ CallsGoOn' /\ WordIsKept' /\ ConnectReturnsBeforeConnected'
      BY <2>1, <2>2, <1>1, <1>2 DEF IInv, QueueShape, CallsGoOn, WordIsKept, ConnectReturnsBeforeConnected,
                      ConnectedWaits, ConnectedEvent
  <2>6. BodiesAreInPlace' /\ OnlyCurrentAttemptLives' /\ EndIsAnnouncedOnce'
      BY <2>1, <2>2, <1>1, <1>2, <1>3 DEF IInv, BodiesAreInPlace, OnlyCurrentAttemptLives, EndIsAnnouncedOnce
  <2> QED
      BY <2>3, <2>4, <2>5, <2>6 DEF IInv
<1>4. CASE status = "connecting"
  <2>1. /\ FailConnection(FailureOf(attempt), answer, body)
        /\ UNCHANGED <<session, loop, stopLoop, cancelled, lastDrop>>
      BY <1>4 DEF Drop
  <2>2. FailsWith(FailureOf(attempt), answer)
      BY <2>1, <1>1, <1>4, FailEnds
  <2> QED
      BY <2>1, <2>2, <1>0, <1>1, <1>4, AttemptEnds, FailureIsError
<1>5. CASE status = "connected"
  <2> DEFINE will == WillReconnect(DropOf(attempt), loopAttempt + 1, answer)
  <2>1. /\ status' = "disconnected" /\ lastDrop' = DropOf(attempt) /\ session' = 0
        /\ Announce(will) /\ AskRetry(DropOf(attempt), loopAttempt + 1, answer)
        /\ UNCHANGED <<settled, body>>
        /\ \/ /\ loop.at = "none" /\ cancelled' = "no"
              /\ loop' = [at |-> "sleep", k |-> 1, err |-> DropOf(attempt)]
           \/ UNCHANGED <<loop, cancelled>>
      BY <1>5 DEF Drop
  <2>2. /\ leaving = "none" /\ ~Up' /\ (ConnectedWaits => ConnectedWaits') /\ ~stopped
        /\ settled[attempt] # "no" /\ will \in BOOLEAN
      BY <2>1, <1>0, <1>1, <1>5 DEF IInv, LeavingLasts, Up, ConnectedWaits, OnlyCurrentAttemptLives, WillReconnect,
              TypeOK
  <2>3. /\ QueueShape' /\ announced' = [announced EXCEPT ![attempt] = 1] /\ delivery' = "queued"
        /\ lastEnd' = [will |-> will, of |-> Ending]
      BY <2>1, <2>2, <1>1, <1>2, EndIsQueued
  <2>4. DropOf(attempt) \in Errors /\ loopAttempt \in Nat
      BY <1>0 DEF DropOf, Errors, IInv, TypeOK
  <2>5. retryAnswer' \in [err: Errors, k: Nat, retry: BOOLEAN]
    <3>1. \/ retryAnswer' = retryAnswer
          \/ retryAnswer' = [err |-> DropOf(attempt), k |-> loopAttempt + 1, retry |-> answer]
        BY <2>1 DEF AskRetry
    <3> QED
        BY <3>1, <2>4 DEF IInv, TypeOK
  <2>6. /\ loop' \in [at: {"none", "sleep", "woken", "calling", "returned", "threw"}, k: Nat, err: Errors]
        /\ cancelled' \in {"no", "yes", "retaken"}
      BY <2>1, <2>4 DEF IInv, TypeOK
  <2>7. lastEnd' \in [will: BOOLEAN, of: {"none", "session", "loop", "caller"}] /\ lastEnd'.of # "loop"
      BY <2>2, <2>3, <1>5, EndingIs
  <2>8. announced' \in [Attempts -> Nat]
      BY <2>3 DEF IInv, TypeOK
  <2>9. TypeOK'
      BY <2>1, <2>3, <2>4, <2>5, <2>6, <2>7, <2>8, <1>0, <1>1 DEF IInv, TypeOK
  <2>10. NoneAhead' /\ LeavingLasts' /\ DrainIsBetween' /\ CallsAreInPlace' /\ LoopIsAlone'
      BY <2>1, <2>2, <2>3, <1>0, <1>1, <1>2 DEF IInv, TypeOK, NoneAhead, LeavingLasts, DrainIsBetween,
              CallsAreInPlace, LoopIsAlone, Attempts
  <2>11. LoopIsInPlace' /\ CancelIsSeen'
      BY <2>1, <1>1 DEF IInv, LoopIsInPlace, CancelIsSeen
  <2>12. CallsGoOn' /\ WordIsKept' /\ ConnectReturnsBeforeConnected'
      BY <2>3, <2>7, <1>1 DEF CallsGoOn, WordIsKept, ConnectReturnsBeforeConnected
  <2>13. BodiesAreInPlace' /\ OnlyCurrentAttemptLives'
    <3>1. \A n \in Started' : body'[n] = "waiting" /\ settled'[n] # "no"
        BY <2>1, <1>2, <1>5, SocketsAreDone
    <3>2. BodiesAreInPlace'
        BY <3>1 DEF BodiesAreInPlace
    <3>3. OnlyCurrentAttemptLives'
        BY <3>1, <2>1, <1>1 DEF OnlyCurrentAttemptLives
    <3> QED
        BY <3>2, <3>3
  <2>14. EndIsAnnouncedOnce'
      BY <2>1, <2>2, <2>3, <1>0, <1>1, <1>2 DEF IInv, TypeOK, EndIsAnnouncedOnce, Started, Attempts, Up
  <2> QED
      BY <2>3, <2>9, <2>10, <2>11, <2>12, <2>13, <2>14 DEF IInv
<1> QED
    BY <1>3, <1>4, <1>5 DEF IInv, TypeOK

\* The goodbye is over: the rest of #leave announces the end of the session.
LEMMA GoodbyeOverStep == IInv /\ GoodbyeOver => IInv'
<1> SUFFICES ASSUME IInv, GoodbyeOver PROVE IInv'
    OBVIOUS
<1>1. /\ UNCHANGED <<status, stopped, disconnects, attempt, settled, body, crypto, calls, loop, loopAttempt,
                     cancelled, retryAnswer, lastDrop, turn>>
      /\ leaving = "goodbye" /\ leaving' = "announced" /\ handler' = "closed" /\ session' = 0
      /\ Announce(FALSE) /\ turn = "idle"
    BY DEF GoodbyeOver, InTimer, NewTurn, loopVars, retryVars
<1>2. Up /\ ~Up' /\ Started' = Started /\ status = "disconnected" /\ (ConnectedWaits => ConnectedWaits')
    BY <1>1 DEF IInv, LeavingLasts, Up, Started, ConnectedWaits
<1>0. MaxConnects \in Nat /\ attempt \in 0 .. MaxConnects /\ attempt \in Attempts /\ attempt \in Started
    BY <1>2, LifecycleAssumption DEF IInv, TypeOK, NoneAhead, Attempts, Started
<1>3. /\ QueueShape' /\ announced' = [announced EXCEPT ![attempt] = 1] /\ delivery' = "queued"
      /\ lastEnd' = [will |-> FALSE, of |-> Ending]
    BY <1>1, <1>2, EndIsQueued
<1>4. /\ lastEnd' \in [will: BOOLEAN, of: {"none", "session", "loop", "caller"}] /\ lastEnd'.of # "loop"
      /\ announced' \in [Attempts -> Nat]
    BY <1>2, <1>3, EndingIs DEF IInv, TypeOK
<1>5. TypeOK'
    BY <1>0, <1>1, <1>3, <1>4 DEF IInv, TypeOK
<1>6. NoneAhead' /\ LeavingLasts' /\ DrainIsBetween' /\ CallsAreInPlace' /\ LoopIsAlone'
    BY <1>0, <1>1, <1>2, <1>3 DEF IInv, TypeOK, NoneAhead, LeavingLasts, DrainIsBetween, CallsAreInPlace,
            LoopIsAlone, Attempts
<1>7. LoopIsInPlace' /\ CancelIsSeen'
    BY <1>1 DEF IInv, LoopIsInPlace, CancelIsSeen
<1>8. CallsGoOn' /\ WordIsKept' /\ ConnectReturnsBeforeConnected'
    BY <1>1, <1>3, <1>4 DEF CallsGoOn, WordIsKept, ConnectReturnsBeforeConnected
<1>9. BodiesAreInPlace' /\ OnlyCurrentAttemptLives'
  <2>1. \A n \in Started' : body'[n] = "waiting" /\ settled'[n] # "no"
      BY <1>1, <1>2, SocketsAreDone
  <2>2. BodiesAreInPlace'
      BY <2>1 DEF BodiesAreInPlace
  <2>3. OnlyCurrentAttemptLives'
      BY <2>1, <1>1, <1>2 DEF OnlyCurrentAttemptLives
  <2> QED
      BY <2>2, <2>3
<1>10. EndIsAnnouncedOnce'
    BY <1>0, <1>1, <1>2, <1>3 DEF IInv, TypeOK, EndIsAnnouncedOnce, Started, Attempts, Up
<1> QED
    BY <1>3, <1>5, <1>6, <1>7, <1>8, <1>9, <1>10 DEF IInv

\* What every disconnect() does, whatever it finds: the calls that wait in #connect and the
\* loop will see that it came.
LEMMA DisconnectIsSeen ==
    ASSUME IInv, Disconnect
    PROVE  /\ CallsAreInPlace' /\ LoopIsAlone' /\ LoopIsInPlace' /\ CancelIsSeen' /\ WordIsKept'
           /\ loop' \in [at: {"none", "sleep", "woken", "calling", "returned", "threw"}, k: Nat, err: Errors]
           /\ cancelled' \in {"no", "yes", "retaken"}
           /\ UNCHANGED <<attempt, crypto, calls, loopAttempt, retryAnswer, lastDrop, turn>>
           /\ stopped' = TRUE /\ disconnects' = disconnects + 1 /\ disconnects' \in Nat
           /\ Started' = Started
<1>1. /\ UNCHANGED <<attempt, crypto, calls, loopAttempt, retryAnswer, lastDrop, turn>>
      /\ stopped' = TRUE /\ disconnects' = disconnects + 1 /\ disconnects \in Nat
      /\ cancelled' = (IF loop.at # "none" THEN "yes" ELSE cancelled)
      /\ loop' = (IF loop.at = "sleep" THEN [loop EXCEPT !.at = "woken"] ELSE loop)
    BY DEF Disconnect, retryVars, IInv, TypeOK
<1>2. /\ loop' \in [at: {"none", "sleep", "woken", "calling", "returned", "threw"}, k: Nat, err: Errors]
      /\ loop'.k = loop.k /\ loop.at = "none" => loop'.at = "none"
      /\ loop'.at = (IF loop.at = "sleep" THEN "woken" ELSE loop.at)
      /\ cancelled' \in {"no", "yes", "retaken"}
    BY <1>1 DEF IInv, TypeOK
<1>3. \A c \in DOMAIN calls : calls[c].saw \in Nat /\ calls[c].saw <= disconnects /\ calls[c].saw < disconnects'
    BY <1>1 DEF IInv, TypeOK, CallsAreInPlace
<1>4. CallsAreInPlace' /\ LoopIsAlone'
    BY <1>1, <1>3 DEF IInv, CallsAreInPlace, LoopIsAlone
<1>5. LoopIsInPlace'
    BY <1>1, <1>2 DEF IInv, LoopIsInPlace
<1>6. CancelIsSeen'
    BY <1>1, <1>3 DEF IInv, TypeOK, CancelIsSeen
<1>7. WordIsKept'
    BY <1>1, <1>2 DEF WordIsKept
<1> QED
    BY <1>1, <1>2, <1>4, <1>5, <1>6, <1>7 DEF Started

\* disconnect(): the current attempt or session ends, now or after its goodbye.
LEMMA DisconnectStep == IInv /\ Disconnect => IInv'
<1> SUFFICES ASSUME IInv, Disconnect PROVE IInv'
    OBVIOUS
<1>1. /\ CallsAreInPlace' /\ LoopIsAlone' /\ LoopIsInPlace' /\ CancelIsSeen' /\ WordIsKept'
      /\ loop' \in [at: {"none", "sleep", "woken", "calling", "returned", "threw"}, k: Nat, err: Errors]
      /\ cancelled' \in {"no", "yes", "retaken"}
      /\ UNCHANGED <<attempt, crypto, calls, loopAttempt, retryAnswer, lastDrop, turn>>
      /\ stopped' = TRUE /\ disconnects' = disconnects + 1 /\ disconnects' \in Nat
      /\ Started' = Started /\ MaxConnects \in Nat
    BY DisconnectIsSeen, LifecycleAssumption
<1>2. CASE leaving # "none" \/ status = "disconnected"
  <2>1. UNCHANGED <<status, settled, body, handler, session, leaving, delivery, queue, announced, lastEnd>>
      BY <1>2 DEF Disconnect, eventVars
  <2>2. status = "disconnected"
      BY <1>2 DEF IInv, LeavingLasts
  <2>3. Up' = Up
      BY <2>1 DEF Up
  <2>4. TypeOK'
      BY <2>1, <1>1 DEF IInv, TypeOK
  <2>5. NoneAhead' /\ BodiesAreInPlace' /\ LeavingLasts' /\ DrainIsBetween'
      BY <2>1, <2>2, <2>3, <1>1 DEF IInv, NoneAhead, BodiesAreInPlace, LeavingLasts, DrainIsBetween
  <2>6. QueueShape' /\ CallsGoOn' /\ ConnectReturnsBeforeConnected'
      BY <2>1, <2>3, <1>1 DEF IInv, QueueShape, CallsGoOn, ConnectReturnsBeforeConnected, ConnectedWaits,
              ConnectedEvent, DisconnectedEvent
  <2>7. OnlyCurrentAttemptLives' /\ EndIsAnnouncedOnce'
      BY <2>1, <1>1 DEF IInv, OnlyCurrentAttemptLives, EndIsAnnouncedOnce
  <2> QED
      BY <2>4, <2>5, <2>6, <2>7, <1>1 DEF IInv
<1>3. CASE leaving = "none" /\ status # "disconnected"
  <2>1. status' = "disconnected" /\ Settle("held", body) /\ Up
      BY <1>3 DEF Disconnect, Up
  <2>2. attempt \in Attempts /\ attempt \in Started /\ attempt # 0
      BY <2>1, <1>1 DEF IInv, TypeOK, NoneAhead, Attempts, Started
  <2>3. CASE status = "connected"
    <3>1. /\ leaving' = "goodbye"
          /\ UNCHANGED <<handler, session, delivery, queue, announced, lastEnd>>
        BY <2>3, <1>3 DEF Disconnect, HoldsSession, eventVars
    <3>2. settled[attempt] # "no" /\ \A n \in Started : body[n] = "waiting" /\ settled[n] # "no"
        BY <2>1, <2>2, <2>3, SocketsAreDone
    <3>3. body' = body /\ settled' = settled /\ Up'
        BY <3>1, <3>2, <2>1, <2>2 DEF Settle, Up
    <3>4. TypeOK'
        BY <3>1, <3>3, <2>1, <1>1 DEF IInv, TypeOK
    <3>5. NoneAhead' /\ LeavingLasts' /\ DrainIsBetween'
        BY <3>1, <3>3, <2>1, <2>2, <1>1, <1>3 DEF IInv, NoneAhead, LeavingLasts, DrainIsBetween
    <3>6. BodiesAreInPlace'
        BY <3>2, <3>3, <1>1 DEF BodiesAreInPlace
    <3>7. QueueShape' /\ CallsGoOn' /\ ConnectReturnsBeforeConnected'
        BY <3>1, <3>3, <2>1, <1>1 DEF IInv, QueueShape, CallsGoOn, ConnectReturnsBeforeConnected, ConnectedWaits,
                ConnectedEvent
    <3>8. OnlyCurrentAttemptLives'
        BY <3>1, <3>2, <3>3, <2>1, <2>3, <1>1 DEF IInv, OnlyCurrentAttemptLives
    <3>9. EndIsAnnouncedOnce'
        BY <3>1, <2>1, <1>1, <1>3 DEF IInv, EndIsAnnouncedOnce
    <3> QED
        BY <3>4, <3>5, <3>6, <3>7, <3>8, <3>9, <1>1 DEF IInv
  <2>4. CASE status = "connecting"
    <3>1. /\ settled[attempt] = "no" /\ session = 0 /\ turn # "drain" /\ delivery = "none"
          /\ queue = <<>> /\ ~ConnectedWaits
          /\ \A n \in Started : n # attempt => settled[n] # "no"
        BY <2>1, <2>2, <2>4 DEF IInv, OnlyCurrentAttemptLives, DrainIsBetween, QueueShape, ConnectedWaits
    <3>2. /\ settled' = [settled EXCEPT ![attempt] = "held"]
          /\ body' = [body EXCEPT ![attempt] = IF body[attempt] = "opening" THEN "aborted" ELSE body[attempt]]
        BY <3>1, <2>1, <2>2 DEF Settle
    <3>3. /\ settled' \in [Attempts -> {"no", "resolved", "rejected", "held"}]
          /\ body' \in [Attempts -> {"none", "opening", "waiting", "aborted"}]
        BY <3>2, <2>2 DEF IInv, TypeOK
    <3>4. \A n \in Started : settled'[n] # "no" /\ body'[n] # "none" /\ body'[n] # "opening"
        BY <3>1, <3>2, <2>2, <1>1 DEF IInv, TypeOK, BodiesAreInPlace, Started, Attempts
    <3>5. \A n \in Attempts : n > attempt => settled'[n] = settled[n] /\ body'[n] = body[n]
        BY <3>2, <2>2, <1>1 DEF IInv, TypeOK, Attempts
    <3>6. \A n \in Started : body'[n] = "aborted" => n = attempt /\ body[attempt] = "opening"
        BY <3>2, <2>1, <2>2, <1>1 DEF IInv, TypeOK, BodiesAreInPlace, Started, Attempts
    <3>7. CASE crypto
      <4>1. /\ leaving' = "goodbye"
            /\ UNCHANGED <<handler, session, delivery, queue, announced, lastEnd>>
          BY <3>7, <2>4, <1>3 DEF Disconnect, HoldsSession, eventVars
      <4>2. Up' /\ body[attempt] # "opening"
          BY <4>1, <3>7, <2>2 DEF Up, IInv, BodiesAreInPlace
      <4>3. TypeOK'
          BY <4>1, <3>3, <2>1, <1>1 DEF IInv, TypeOK
      <4>4. NoneAhead' /\ LeavingLasts' /\ DrainIsBetween'
          BY <4>1, <4>2, <3>1, <3>5, <2>1, <2>2, <1>1 DEF IInv, NoneAhead, LeavingLasts, DrainIsBetween
      <4>5. BodiesAreInPlace'
          BY <4>2, <3>4, <3>6, <1>1 DEF BodiesAreInPlace
      <4>6. QueueShape' /\ CallsGoOn' /\ ConnectReturnsBeforeConnected'
          BY <4>1, <4>2, <3>1, <1>1 DEF QueueShape, CallsGoOn, ConnectReturnsBeforeConnected
      <4>7. OnlyCurrentAttemptLives'
          BY <4>1, <4>2, <3>1, <3>4, <3>6, <2>1, <1>1 DEF OnlyCurrentAttemptLives
      <4>8. EndIsAnnouncedOnce'
          BY <4>1, <2>1, <1>1, <1>3 DEF IInv, EndIsAnnouncedOnce
      <4> QED
          BY <4>3, <4>4, <4>5, <4>6, <4>7, <4>8, <1>1 DEF IInv
    <3>8. CASE ~crypto
      <4>1. leaving' = "announced" /\ handler' = "closed" /\ session' = 0 /\ Announce(FALSE)
          BY <3>8, <2>4, <1>3 DEF Disconnect, HoldsSession
      <4>2. ~Up'
          BY <4>1, <2>1 DEF Up
      <4>3. /\ QueueShape' /\ announced' = [announced EXCEPT ![attempt] = 1] /\ delivery' = "queued"
            /\ lastEnd' = [will |-> FALSE, of |-> Ending]
          BY <4>1, <4>2, <3>1, <2>1, <1>1, EndIsQueued
      <4>4. /\ lastEnd' \in [will: BOOLEAN, of: {"none", "session", "loop", "caller"}]
            /\ announced' \in [Attempts -> Nat]
          BY <4>3, EndingIs DEF IInv, TypeOK
      <4>5. TypeOK'
          BY <4>1, <4>3, <4>4, <3>3, <2>1, <1>1 DEF IInv, TypeOK
      <4>6. NoneAhead' /\ LeavingLasts' /\ DrainIsBetween'
          BY <4>1, <4>2, <4>3, <3>1, <3>5, <2>1, <2>2, <1>1 DEF IInv, TypeOK, NoneAhead, LeavingLasts,
                  DrainIsBetween, Attempts
      <4>7. BodiesAreInPlace'
          BY <4>2, <4>3, <3>1, <3>4, <3>6, <1>1 DEF BodiesAreInPlace
      <4>8. CallsGoOn' /\ ConnectReturnsBeforeConnected'
          BY <4>3, <3>1, <1>1 DEF CallsGoOn, ConnectReturnsBeforeConnected
      <4>9. OnlyCurrentAttemptLives'
          BY <4>1, <3>4, <3>6, <2>1, <1>1 DEF OnlyCurrentAttemptLives
      <4>10. EndIsAnnouncedOnce'
          BY <4>1, <4>2, <4>3, <2>1, <2>2, <1>1, <1>3 DEF IInv, TypeOK, EndIsAnnouncedOnce, Started, Attempts
      <4> QED
          BY <4>3, <4>5, <4>6, <4>7, <4>8, <4>9, <4>10, <1>1 DEF IInv
    <3> QED
        BY <3>7, <3>8
  <2> QED
      BY <2>3, <2>4, <1>3 DEF IInv, TypeOK
<1> QED
    BY <1>2, <1>3

-----------------------------------------------------------------------------
(* The delivery of events.                                                 *)

LEMMA TailOfSecond == ASSUME NEW a, NEW b PROVE Tail(<<a, b>>) = <<b>> /\ Head(<<a, b>>) = a
<1>1. <<a, b>> \in Seq({a, b}) /\ <<b>> \in Seq({a, b}) /\ <<a, b>> # <<>>
    OBVIOUS
<1>2. Tail(<<a, b>>) \in Seq({a, b}) /\ Len(Tail(<<a, b>>)) = 1
    BY <1>1
<1>3. \A i \in 1 .. 1 : Tail(<<a, b>>)[i] = <<b>>[i]
    BY <1>1
<1>4. Tail(<<a, b>>) = <<b>>
    BY <1>1, <1>2, <1>3, SeqEqual
<1> QED
    BY <1>4

\* The turn delivers the next event: `connected`, or the `disconnected` it ends with.
LEMMA DeliverStep == IInv /\ Deliver => IInv'
<1> SUFFICES ASSUME IInv, Deliver PROVE IInv'
    OBVIOUS
<1>1. /\ UNCHANGED <<status, stopped, disconnects, attempt, settled, body, handler, crypto, session, calls, leaving,
                     announced, lastEnd, loop, loopAttempt, cancelled, retryAnswer, lastDrop, turn>>
      /\ turn = "drain" /\ queue # <<>> /\ queue' = Tail(queue)
      /\ delivery' = (IF Head(queue).event = "disconnected" THEN "delivered" ELSE delivery)
    BY DEF Deliver, attemptVars, loopVars, retryVars
<1>2. Up' = Up /\ Started' = Started /\ ConnectedWaits' = ConnectedWaits
    BY <1>1 DEF Up, Started, ConnectedWaits
<1>3. TypeOK' /\ NoneAhead' /\ CallsAreInPlace' /\ LoopIsAlone' /\ LoopIsInPlace' /\ CancelIsSeen'
  <2>1. TypeOK'
      BY <1>1 DEF IInv, TypeOK
  <2> QED
      BY <2>1, <1>1, <1>2 DEF IInv, NoneAhead, CallsAreInPlace, LoopIsAlone, LoopIsInPlace, CancelIsSeen
<1>4. BodiesAreInPlace' /\ OnlyCurrentAttemptLives' /\ EndIsAnnouncedOnce'
    BY <1>1, <1>2 DEF IInv, BodiesAreInPlace, OnlyCurrentAttemptLives, EndIsAnnouncedOnce
<1>5. WordIsKept'
    BY <1>1, <1>2 DEF IInv, WordIsKept
<1>6. QueueShape' /\ ConnectReturnsBeforeConnected' /\ (~Up => delivery = "queued" /\ delivery' # "none")
      /\ (Up => delivery' = delivery)
  <2>1. CASE Up
    <3>1. queue = <<ConnectedEvent>> /\ delivery = "none"
        BY <2>1, <1>1 DEF IInv, QueueShape
    <3>2. Tail(queue) = <<>> /\ Head(queue) = ConnectedEvent
        BY <3>1
    <3>3. queue' = <<>> /\ delivery' = "none"
        BY <1>1, <3>1, <3>2 DEF ConnectedEvent
    <3> QED
        BY <3>1, <3>3, <2>1, <1>2 DEF QueueShape, ConnectReturnsBeforeConnected
  <2>2. CASE ~Up
    <3>1. delivery = "queued"
        BY <2>2, <1>1 DEF IInv, QueueShape
    <3>2. PICK w \in BOOLEAN : \/ queue = <<DisconnectedEvent(w)>>
                               \/ queue = <<ConnectedEvent, DisconnectedEvent(w)>> /\ ConnectedWaits
        BY <3>1, <2>2 DEF IInv, QueueShape
    <3>3. CASE queue = <<DisconnectedEvent(w)>>
      <4>1. queue' = <<>> /\ delivery' = "delivered"
          BY <3>3, <1>1 DEF DisconnectedEvent
      <4> QED
          BY <4>1, <3>1, <2>2, <1>2 DEF QueueShape, ConnectReturnsBeforeConnected
    <3>4. CASE queue = <<ConnectedEvent, DisconnectedEvent(w)>> /\ ConnectedWaits
      <4>1. queue' = <<DisconnectedEvent(w)>> /\ Head(queue) = ConnectedEvent
          BY <3>4, <1>1, TailOfSecond
      <4>2. delivery' = "queued"
          BY <4>1, <3>1, <1>1 DEF ConnectedEvent
      <4>3. queue' = <<DisconnectedEvent(w)'>> /\ Head(queue').event = "disconnected"
          BY <4>1, <1>1 DEF DisconnectedEvent
      <4> QED
          BY <4>2, <4>3, <3>1, <2>2, <1>2 DEF QueueShape, ConnectReturnsBeforeConnected
    <3> QED
        BY <3>2, <3>3, <3>4
  <2> QED
      BY <2>1, <2>2
<1>7. LeavingLasts' /\ DrainIsBetween'
    BY <1>1, <1>2, <1>6 DEF IInv, LeavingLasts, DrainIsBetween, Up
<1>8. CallsGoOn'
    BY <1>1, <1>2, <1>6 DEF IInv, CallsGoOn
<1> QED
    BY <1>3, <1>4, <1>5, <1>6, <1>7, <1>8 DEF IInv

\* #disconnectedDelivered is cleared: disconnect() is over, and the calls that waited
\* for it go on.
LEMMA DeliveredStep == IInv /\ Delivered => IInv'
<1> SUFFICES ASSUME IInv, Delivered PROVE IInv'
    OBVIOUS
<1>0. MaxConnects \in Nat /\ Loop \in DOMAIN calls /\ DOMAIN calls = Callers \cup {Loop}
    BY LifecycleAssumption DEF IInv, TypeOK
<1>1. /\ UNCHANGED <<status, stopped, disconnects, attempt, body, handler, crypto, session, queue,
                     announced, lastEnd, loop, loopAttempt, cancelled, retryAnswer, lastDrop, turn>>
      /\ turn = "idle" /\ delivery = "delivered" /\ delivery' = "none"
      /\ leaving' = (IF leaving = "announced" THEN "none" ELSE leaving)
      /\ settled' = [n \in Attempts |->
                       IF leaving = "announced" /\ settled[n] = "held" THEN "rejected" ELSE settled[n]]
      /\ calls' = [c \in DOMAIN calls |->
                     IF calls[c].at = "waitDelivered" \/ (leaving = "announced" /\ calls[c].at = "waitLeaving")
                     THEN [calls[c] EXCEPT !.at = "woken"] ELSE calls[c]]
    BY DEF Delivered, InContinuation, loopVars, retryVars
<1>2. ~Up /\ status = "disconnected" /\ leaving' = "none" /\ ~Up' /\ Started' = Started /\ queue = <<>>
    BY <1>1 DEF IInv, TypeOK, QueueShape, Up, Started
<1>3. /\ calls' \in [Callers \cup {Loop} ->
                       [at: {"none", "waitLeaving", "waitDelivered", "woken", "attempt"},
                        saw: Nat, n: 0 .. MaxConnects]]
      /\ DOMAIN calls' = DOMAIN calls
      /\ \A c \in DOMAIN calls : /\ calls'[c].saw = calls[c].saw /\ calls'[c].n = calls[c].n
                                 /\ calls'[c].at = "attempt" <=> calls[c].at = "attempt"
                                 /\ calls'[c].at = "none" <=> calls[c].at = "none"
  <2>1. \A c \in DOMAIN calls :
            calls[c] \in [at: {"none", "waitLeaving", "waitDelivered", "woken", "attempt"},
                          saw: Nat, n: 0 .. MaxConnects]
      BY <1>0 DEF IInv, TypeOK
  <2>2. ASSUME NEW c \in DOMAIN calls
        PROVE  /\ calls'[c] \in [at: {"none", "waitLeaving", "waitDelivered", "woken", "attempt"},
                                 saw: Nat, n: 0 .. MaxConnects]
               /\ calls'[c].saw = calls[c].saw /\ calls'[c].n = calls[c].n
               /\ calls'[c].at = "attempt" <=> calls[c].at = "attempt"
               /\ calls'[c].at = "none" <=> calls[c].at = "none"
      BY <2>1, <2>2, <1>1
  <2> QED
      BY <2>2, <1>0, <1>1
<1>4. /\ settled' \in [Attempts -> {"no", "resolved", "rejected", "held"}]
      /\ \A n \in Attempts : settled[n] = "held" => settled'[n] = "rejected"
      /\ \A n \in Attempts : settled[n] # "held" => settled'[n] = settled[n]
      /\ \A n \in Attempts : settled[n] \in {"no", "resolved", "rejected", "held"}
  <2>1. \A n \in Attempts : settled[n] = "held" => leaving = "announced"
      BY <1>1, <1>2 DEF IInv, TypeOK, LeavingLasts
  <2> QED
      BY <2>1, <1>1 DEF IInv, TypeOK
<1>5. TypeOK'
  <2>1. /\ UNCHANGED <<status, stopped, disconnects, attempt, body, handler, crypto, session,
                       announced, lastEnd, loop, loopAttempt, cancelled, retryAnswer, lastDrop, turn>>
        /\ delivery' \in {"none", "queued", "delivered"} /\ leaving' \in {"none", "goodbye", "announced"}
      BY <1>1, <1>2
  <2>2. settled' \in [Attempts -> {"no", "resolved", "rejected", "held"}]
      BY <1>4
  <2> QED
      BY <2>1, <2>2, <1>3 DEF IInv, TypeOK
<1>6. NoneAhead' /\ LeavingLasts' /\ QueueShape' /\ DrainIsBetween'
    BY <1>1, <1>2, <1>4 DEF IInv, NoneAhead, LeavingLasts, QueueShape, DrainIsBetween
<1>7. BodiesAreInPlace' /\ EndIsAnnouncedOnce' /\ ConnectReturnsBeforeConnected'
    BY <1>1, <1>2 DEF IInv, BodiesAreInPlace, EndIsAnnouncedOnce, ConnectReturnsBeforeConnected
<1>8. CallsAreInPlace' /\ LoopIsAlone' /\ LoopIsInPlace'
    BY <1>0, <1>1, <1>2, <1>3 DEF IInv, CallsAreInPlace, LoopIsAlone, LoopIsInPlace
<1>9. CancelIsSeen'
  <2>1. calls'[Loop].at \in {"waitLeaving", "waitDelivered", "woken"} =>
            calls[Loop].at \in {"waitLeaving", "waitDelivered", "woken"}
      BY <1>0, <1>3 DEF IInv, TypeOK
  <2> QED
      BY <2>1, <1>0, <1>1, <1>3 DEF IInv, CancelIsSeen
<1>10. WordIsKept'
    BY <1>1, <1>2 DEF IInv, WordIsKept
<1>11. CallsGoOn'
  <2> SUFFICES ASSUME NEW c \in DOMAIN calls, calls'[c].at = "attempt"
               PROVE  stopped' /\ body'[calls'[c].n] = "waiting" /\ settled'[calls'[c].n] = "rejected"
      BY <1>1, <1>3 DEF CallsGoOn
  <2>1. calls[c].at = "attempt" /\ calls[c].n # 0 /\ calls'[c].n = calls[c].n
      BY <1>3 DEF IInv, CallsAreInPlace
  <2>2. calls[c].n \in Attempts
      BY <2>1, <1>0 DEF IInv, TypeOK, Attempts
  <2>3. stopped /\ body[calls[c].n] = "waiting" /\ settled[calls[c].n] = "held"
      BY <2>1, <1>1, <1>2 DEF IInv, CallsGoOn
  <2> QED
      BY <2>1, <2>2, <2>3, <1>1, <1>4
<1>12. OnlyCurrentAttemptLives'
  <2>1. \A n \in Started : n \in Attempts
      BY <1>0 DEF IInv, TypeOK, Started, Attempts
  <2>2. \A n \in Started : settled'[n] # "no" /\ body[n] # "aborted"
      BY <2>1, <1>1, <1>2, <1>4 DEF IInv, OnlyCurrentAttemptLives, BodiesAreInPlace
  <2> QED
      BY <2>2, <1>1, <1>2 DEF IInv, OnlyCurrentAttemptLives, Up
<1> QED
    BY <1>5, <1>6, <1>7, <1>8, <1>9, <1>10, <1>11, <1>12 DEF IInv

-----------------------------------------------------------------------------
(* The theorems.                                                           *)

\* The invariant holds of every reachable state of the client: connect(), disconnect(),
\* #connect, #failConnection, #leave, #drain and #scheduleReconnect preserve it.
THEOREM LifecycleInductive == Spec => []IInv
<1>1. Init => IInv
    BY InitHolds
<1>2. IInv /\ [Next]_vars => IInv'
  <2> SUFFICES ASSUME IInv, [Next]_vars PROVE IInv'
      OBVIOUS
  <2>1. CASE \E c \in Callers : Connect(c)
      BY <2>1, ConnectStep
  <2>2. CASE \E c \in DOMAIN calls : Woken(c) \/ Resume(c)
      BY <2>2, WokenStep, ResumeStep
  <2>3. CASE \E c \in DOMAIN calls, answer \in BOOLEAN : Abort(c, answer)
      BY <2>3, AbortStep
  <2>4. CASE OpenDone
      BY <2>4, OpenDoneStep
  <2>5. CASE \E answer \in BOOLEAN : OpenFails(answer) \/ Refuse(answer) \/ Drop(answer) \/ LoopNext(answer)
      BY <2>5, RefusedStep, DropStep, LoopNextStep
  <2>6. CASE \E n \in Attempts, answer \in BOOLEAN : BodyAborted(n, answer)
      BY <2>6, BodyAbortedStep
  <2>7. CASE CryptoDone \/ InitServer \/ EndPacket
      BY <2>7, CryptoDoneStep, InitServerStep, EndOfTurnStep
  <2>8. CASE Disconnect \/ GoodbyeOver
      BY <2>8, DisconnectStep, GoodbyeOverStep
  <2>9. CASE StartDrain \/ Deliver \/ EndDrain \/ Delivered
      BY <2>9, StartDrainStep, DeliverStep, EndOfTurnStep, DeliveredStep
  <2>10. CASE LoopTimer \/ LoopWoken
      BY <2>10, LoopTimerStep, LoopWokenStep
  <2>11. CASE UNCHANGED vars
      BY <2>11, NothingMoves DEF vars, attemptVars, loopVars, retryVars, eventVars, Resting
  <2> QED
      BY <2>1, <2>2, <2>3, <2>4, <2>5, <2>6, <2>7, <2>8, <2>9, <2>10, <2>11 DEF Next
<1> QED
    BY <1>1, <1>2, PTL DEF Spec

\* However a drop, a failure, an abort and disconnect() race, every attempt ends with
\* exactly one `disconnected`, it is heard before the next attempt starts, and `connected`
\* is delivered after connect() has returned: #announceDisconnected, #drain and the waits
\* of #connect, for any callers and any number of attempts.
THEOREM EventsAlwaysInPlace == Spec => []EventsAreInPlace
<1>1. IInv => EventsAreInPlace
  <2> SUFFICES ASSUME IInv PROVE EventsAreInPlace
      OBVIOUS
  <2>1. EndHeardBeforeNextStarts
    <3> SUFFICES ASSUME status # "disconnected"
                 PROVE  delivery = "none" /\ \A i \in 1 .. Len(queue) : queue[i].event = "connected" /\ queue[i].n = attempt
        BY DEF EndHeardBeforeNextStarts
    <3>1. delivery = "none" /\ (queue = <<>> \/ queue = <<ConnectedEvent>>)
        BY DEF IInv, QueueShape, Up
    <3> QED
        BY <3>1 DEF ConnectedEvent
  <2> QED
      BY <2>1 DEF IInv, EventsAreInPlace
<1> QED
    BY <1>1, LifecycleInductive, PTL

\* At most the current attempt is unsettled, an aborted socket finds no later attempt to
\* fail, and the socket is closed and the session ended exactly when the client is
\* disconnected and says no goodbye: #failConnection, #leave and #handleConnectionClosed.
THEOREM OnlyTheCurrentAttempt == Spec => []OnlyCurrentAttemptLives
<1>1. IInv => OnlyCurrentAttemptLives
    BY DEF IInv
<1> QED
    BY <1>1, LifecycleInductive, PTL

\* Only three steps start an attempt, each when nothing is left of the one before.
LEMMA WhatStarts ==
    ASSUME IInv, [Next]_vars, attempt' # attempt
    PROVE  \/ \E c \in Callers : Connect(c)
           \/ \E c \in DOMAIN calls : Woken(c)
           \/ LoopWoken
<1>1. ~(\E c \in DOMAIN calls : Resume(c)) /\ ~UNCHANGED vars
    BY DEF Resume, vars, attemptVars
<1>2. ~(\E c \in DOMAIN calls, answer \in BOOLEAN : Abort(c, answer))
    BY DEF Abort
<1>3. ~OpenDone /\ ~CryptoDone /\ ~InitServer /\ ~EndPacket
    BY DEF OpenDone, CryptoDone, InitServer, EndPacket, attemptVars
<1>4. ~(\E answer \in BOOLEAN : OpenFails(answer) \/ Refuse(answer) \/ Drop(answer) \/ LoopNext(answer))
    BY DEF OpenFails, Refuse, Drop, LoopNext, attemptVars
<1>5. ~(\E n \in Attempts, answer \in BOOLEAN : BodyAborted(n, answer))
    BY DEF BodyAborted
<1>6. ~Disconnect /\ ~GoodbyeOver
    BY DEF Disconnect, GoodbyeOver
<1>7. ~StartDrain /\ ~Deliver /\ ~EndDrain /\ ~Delivered
    BY DEF StartDrain, Deliver, EndDrain, Delivered, attemptVars
<1>8. ~LoopTimer
    BY DEF LoopTimer, attemptVars
<1> QED
    BY <1>1, <1>2, <1>3, <1>4, <1>5, <1>6, <1>7, <1>8 DEF Next

\* The loop that disconnect() found running starts no attempt any more, and an attempt of
\* the loop's announced with willReconnect false is its last: #willReconnect answers
\* #announceDisconnected and #scheduleReconnect alike, and #disconnects and #stopped are
\* looked at after every wait.
THEOREM LoopAlwaysKeepsItsWord == Spec => LoopKeepsItsWord
<1>1. IInv /\ [Next]_vars =>
          [LoopStarts => cancelled # "yes" /\ (lastEnd.of = "loop" => lastEnd.will)]_vars
  <2> SUFFICES ASSUME IInv, [Next]_vars, LoopStarts
               PROVE  cancelled # "yes" /\ (lastEnd.of = "loop" => lastEnd.will)
      OBVIOUS
  <2>1. /\ attempt \in Nat /\ Loop \in DOMAIN calls /\ calls[Loop].n \in Nat /\ calls[Loop].n <= attempt
        /\ lastEnd.will \in BOOLEAN /\ \A c \in Callers : c # Loop
      BY LifecycleAssumption DEF IInv, TypeOK, CallsAreInPlace, Loop
  <2>2. ASSUME status = "disconnected", leaving = "none", delivery = "none", loop.at # "none", cancelled # "yes"
        PROVE  lastEnd.of = "loop" => lastEnd.will
      BY <2>1, <2>2 DEF IInv, WordIsKept, Up
  <2>3. ASSUME NEW c \in DOMAIN calls, c # Loop, Begin(c)
        PROVE  FALSE
    <3>1. calls'[Loop] = calls[Loop] /\ attempt' = attempt + 1 /\ calls'[Loop].n = attempt'
        BY <2>1, <2>3 DEF Begin, LoopStarts
    <3> QED
        BY <3>1, <2>1
  <2>4. CASE \E c \in Callers : Connect(c)
    <3>1. PICK c \in Callers : Connect(c)
        BY <2>4
    <3>2. Begin(c) /\ c \in DOMAIN calls
        BY <3>1 DEF Connect, Enter, LoopStarts, IInv, TypeOK
    <3> QED
        BY <3>2, <2>1, <2>3
  <2>5. CASE \E c \in DOMAIN calls : Woken(c)
    <3>1. PICK c \in DOMAIN calls : Woken(c)
        BY <2>5
    <3>2. /\ Begin(c) /\ calls[c].at = "woken" /\ delivery = "none" /\ disconnects = calls[c].saw
          /\ status = "disconnected"
        BY <3>1 DEF Woken, LoopStarts
    <3>3. c = Loop
        BY <3>2, <2>3
    <3>4. cancelled # "yes" /\ leaving = "none" /\ loop.at # "none"
        BY <3>2, <3>3 DEF IInv, CancelIsSeen, CallsAreInPlace, LoopIsInPlace
    <3> QED
        BY <3>2, <3>4, <2>2
  <2>6. CASE LoopWoken
    <3>1. ~stopped /\ status = "disconnected" /\ loop.at = "woken" /\ Enter(Loop)
        BY <2>6 DEF LoopWoken, LoopStarts
    <3>2. leaving = "none" /\ delivery = "none"
        BY <3>1 DEF Enter, LoopStarts
    <3>3. cancelled # "yes"
        BY <3>1 DEF IInv, CancelIsSeen
    <3> QED
        BY <3>1, <3>2, <3>3, <2>2
  <2> QED
      BY <2>4, <2>5, <2>6, WhatStarts DEF LoopStarts
<1> QED
    BY <1>1, LifecycleInductive, PTL DEF Spec, LoopKeepsItsWord
=============================================================================
