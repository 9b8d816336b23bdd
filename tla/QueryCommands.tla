--------------------------- MODULE QueryCommands ---------------------------
(***************************************************************************)
(* The commands of a ServerQuery client (src/src/query/client.ts): exec(), *)
(* the queue of calls, the one command on the wire, and #handleLine, which *)
(* has to find out whose answer a line is.  The protocol numbers nothing:  *)
(* the lines of an answer are rows and then one `error` line, and only the *)
(* order says whose they are.  Two things disturb that order.              *)
(*                                                                         *)
(*   A command that timed out or was cancelled is answered all the same.   *)
(*   #abandoned counts those answers, and their lines are passed over.     *)
(*                                                                         *)
(*   A server over SSH may write rows after their `error` line.  An answer *)
(*   that should have a row is held open for it, and when the wait is over *)
(*   #strayKey remembers the key of the row that may still come.           *)
(*                                                                         *)
(* Over WebQuery a send is the whole round trip, and giving up ends it.    *)
(***************************************************************************)
EXTENDS Integers, FiniteSets, Sequences, SequencesExt

CONSTANTS
    Calls,      \* the commands are 1..Calls, in the order of their exec() calls
    Mixes,     \* the kinds of commands that are called: functions from 1..Calls
    MaxRows,   \* the most rows an answer has
    MaxNotes,  \* the notifications the server sends
    MaxDrops,  \* the connections that drop
    None       \* no command, and no key

ASSUME CommandsAssumption ==
    /\ Calls \in Nat \ {0} /\ MaxRows \in Nat \ {0}
    /\ MaxNotes \in Nat /\ MaxDrops \in Nat
    /\ Mixes \subseteq
         [1 .. Calls -> {"plain", "create", "createOther", "createWide", "several", "read"}]
    /\ None \notin 1 .. Calls /\ None \notin {"id", "other", "more"}

Commands == 1 .. Calls

VARIABLES
    link,      \* "ssh", a line stream, or "web"
    kind,      \* the kind of each command
    call,      \* where each exec() is
    answer,    \* the rows each command was given (Pending.rows)
    queue,     \* the calls that wait for their turn (#queue)
    send,      \* what became of transport.send() of each command
    pending,   \* the command on the wire (#pending), or None
    held,      \* its `error` line was read and a row is waited for (Pending.held)
    abandoned, \* #abandoned
    left,      \* the commands that counted themselves in it (abandonedByUs)
    strayKey,  \* #strayKey
    up,        \* a transport is installed: ~#closed
    drops,     \* how many connections have dropped
    toServer,  \* the commands on their way to the server
    lines,     \* the lines on their way to the client
    stuck,     \* the server keeps the last line back until the client writes
    notes,     \* notifications the server has sent
    given,     \* how many rows the server has written for each command
    gaveUp,    \* the commands that timed out or were cancelled on the wire
    ranOut     \* the commands whose wait was over with a row of theirs still to come

client  == <<call, answer, queue, send, pending, held, abandoned, left, strayKey, up>>
network == <<toServer, lines, stuck, notes, given, drops>>
history == <<gaveUp, ranOut>>
vars    == <<link, kind, client, network, history>>

Ended(c) == call[c] \in {"answered", "failed"}

----------------------------------------------------------------------------
(* The lines of the protocol.                                              *)

Row(c, n)  == [type |-> "row", of |-> c, n |-> n]
Err(c, ok) == [type |-> "error", of |-> c, ok |-> ok]
Note       == [type |-> "notify"]

\* LATE_ROWS and READS: the key a command's row is known by, whether it has several
\* rows, and whether any row is its answer.  "createOther" makes another thing than
\* "create" does, so its row has another key.
KeyOf(k)     == CASE k \in {"create", "createWide", "several"} -> "id"
                  [] k = "createOther" -> "other"
                  [] OTHER -> None
Late(k)      == k # "plain"
HasOneKey(k) == KeyOf(k) # None

\* All the keys of a row: the one alone, or, in the answer of servercreate or
\* apikeyadd ("createWide"), with others.  A read may show the same key.
Keys(k) == CASE k \in {"create", "several"} -> {"id"}
             [] k = "createOther" -> {"other"}
             [] k \in {"createWide", "read"} -> {"id", "more"}
             [] OTHER -> {"more"}

\* The command makes one thing, and its row is known by its only key.
Alone(k) == k \in {"create", "createOther"}

\* hasLateRow: the rows hold what the answer is held open for.
HasLateRow(c) == \E i \in DOMAIN answer[c] :
                    kind[c] = "read" \/ KeyOf(kind[c]) \in Keys(kind[answer[c][i].of])

----------------------------------------------------------------------------
(* The client.                                                             *)

\* exec(): the call waits behind the ones made before it.
Exec(c) ==
    /\ call[c] = "idle" /\ \A d \in 1 .. c - 1 : call[d] # "idle"
    /\ call' = [call EXCEPT ![c] = "queued"]
    /\ queue' = Append(queue, c)
    /\ UNCHANGED <<link, kind, answer, send, pending, held, abandoned, left, strayKey, up, network, history>>

\* A call's turn, with nothing on the wire: #execNow and #execOnce.  A call that was
\* cancelled while it waited fails only now.
Start ==
    /\ queue # <<>> /\ pending = None
    /\ queue' = Tail(queue)
    /\ LET c == Head(queue) IN
        \/ /\ up
           /\ pending' = c
           /\ call' = [call EXCEPT ![c] = "running"]
           /\ send' = [send EXCEPT ![c] = "writing"]
        \/ /\ call' = [call EXCEPT ![c] = "failed"]     \* cancelled, or not connected
           /\ UNCHANGED <<pending, send>>
    /\ UNCHANGED <<link, kind, answer, held, abandoned, left, strayKey, up, network, history>>

\* The command on the wire ends, and the next call has its turn.
Settled(outcome) ==
    /\ call' = [call EXCEPT ![pending] = outcome]
    /\ pending' = None
    /\ held' = FALSE

\* The line is written, the lines before it first, and whatever the server kept back
\* comes with it.
Written(c) ==
    /\ link = "ssh" /\ send[c] = "writing" /\ up
    /\ \A d \in 1 .. c - 1 : send[d] # "writing"
    /\ send' = [send EXCEPT ![c] = "sent"]
    /\ toServer' = Append(toServer, c)
    /\ stuck' = FALSE
    /\ UNCHANGED <<link, kind, call, answer, queue, pending, held, abandoned, left, strayKey, up,
                   lines, notes, given, drops, history>>

\* A send fails: the command on the wire rejects, and one that gave up before is not
\* going to be answered.
SendFails(c) ==
    /\ send[c] = "writing" /\ up
    /\ send' = [send EXCEPT ![c] = "failed"]
    /\ IF c = pending THEN Settled("failed") ELSE UNCHANGED <<call, pending, held>>
    /\ abandoned' = IF c \in left THEN abandoned - 1 ELSE abandoned
    /\ left' = left \ {c}
    /\ UNCHANGED <<link, kind, answer, queue, strayKey, up, network, history>>

\* A mutant: what is left of the answer is not counted.
GiveUp_Uncounted ==
    /\ pending # None
    /\ Settled("failed")
    /\ left' = left \cup {pending}
    /\ gaveUp' = gaveUp \cup {pending}
    /\ UNCHANGED <<link, kind, answer, queue, send, abandoned, strayKey, up, network, ranOut>>

\* The timeout of the command on the wire, or its caller's signal: the `finally` of
\* #execOnce.  A held one has been answered as far as the client can tell.
GiveUp ==
    /\ pending # None
    /\ Settled("failed")
    /\ IF held THEN UNCHANGED <<abandoned, left>>
       ELSE /\ abandoned' = abandoned + 1
            /\ left' = left \cup {pending}
    /\ gaveUp' = gaveUp \cup {pending}
    /\ UNCHANGED <<link, kind, answer, queue, send, strayKey, up, network, ranOut>>

\* A mutant: only a command whose `error` line was read is nudged.
Nudge_Held ==
    /\ link = "ssh" /\ held
    /\ stuck
    /\ stuck' = FALSE
    /\ UNCHANGED <<link, kind, client, toServer, lines, notes, given, drops, history>>

\* The empty line that makes an SSH server write what it holds back.
Nudge ==
    /\ link = "ssh" /\ pending # None /\ send[pending] = "sent"
    /\ stuck
    /\ stuck' = FALSE
    /\ UNCHANGED <<link, kind, client, toServer, lines, notes, given, drops, history>>

----------------------------------------------------------------------------
(* #handleLine.                                                            *)

Read(type) ==
    /\ lines # <<>> /\ Head(lines).type = type
    /\ ~(stuck /\ Len(lines) = 1)
    /\ lines' = Tail(lines)
    /\ UNCHANGED <<link, kind, queue, send, left, up, toServer, stuck, notes, given, drops>>

\* A mutant: an answer that has a row is never held.
Complete_AtOneRow(c) == link = "web" \/ ~Late(kind[c]) \/ HasLateRow(c)

\* The answer is complete with its `error` line, or it is held open for its row.
Complete(c) ==
    \/ link = "web" \/ ~Late(kind[c])
    \/ HasLateRow(c) /\ kind[c] # "several"

\* An `error` line: of an answer nobody waits for, or the end of the pending one.
ReadError ==
    /\ Read("error")
    /\ IF abandoned > 0
       THEN /\ abandoned' = abandoned - 1
            /\ UNCHANGED <<call, pending, held, strayKey>>
       ELSE /\ UNCHANGED abandoned
            /\ IF pending = None THEN UNCHANGED <<call, pending, held, strayKey>>
               ELSE /\ strayKey' = None
                    /\ CASE ~Head(lines).ok     -> Settled("failed")
                         [] Head(lines).ok /\ Complete(pending) -> Settled("answered")
                         [] OTHER -> held' = TRUE /\ UNCHANGED <<call, pending>>
    /\ UNCHANGED <<answer, history>>

ReadNotify ==
    /\ Read("notify")
    /\ UNCHANGED <<call, answer, pending, held, abandoned, strayKey, history>>

\* A mutant: the row is not known again.
Strayed_Never(r) == FALSE

\* The row an earlier command gave up on, known by its only key: dropped, unless the
\* command on the wire is one whose own row has that key.
Strayed(r) == strayKey # None /\ Keys(kind[r.of]) = {strayKey}
OwnKey == pending # None /\ HasOneKey(kind[pending]) /\ KeyOf(kind[pending]) = strayKey

ReadRow ==
    /\ Read("row")
    /\ LET r     == Head(lines)
           taken == abandoned = 0 /\ pending # None /\ (Strayed(r) => OwnKey)
           ends  == /\ held /\ kind[pending] \notin {"several", "read"}
                    /\ KeyOf(kind[pending]) \in Keys(kind[r.of])
       IN  /\ strayKey' = IF abandoned = 0 /\ Strayed(r) THEN None ELSE strayKey
           /\ answer' = IF taken THEN [answer EXCEPT ![pending] = Append(@, r)] ELSE answer
           /\ IF taken /\ ends THEN Settled("answered") ELSE UNCHANGED <<call, pending, held>>
    /\ UNCHANGED <<abandoned, history>>

\* The wait for late rows is over: of the first (LATE_ROW_GRACE_MS), or of one more
\* after one of several, or of a read, that has come (LATE_ROW_QUIET_MS).  It may be
\* over at any time, also while a row is on its way or kept back.
StillToCome(c) == \E i \in DOMAIN lines : lines[i].type = "row" /\ lines[i].of = c

HeldTimer ==
    /\ pending # None /\ held
    /\ strayKey' = IF HasOneKey(kind[pending]) /\ ~HasLateRow(pending)
                   THEN KeyOf(kind[pending]) ELSE strayKey
    /\ ranOut' = IF StillToCome(pending) THEN ranOut \cup {pending} ELSE ranOut
    /\ Settled("answered")
    /\ UNCHANGED <<link, kind, answer, queue, send, abandoned, left, up, network, gaveUp>>

----------------------------------------------------------------------------
(* The connection.                                                         *)

\* The transport closes: #handleClose and #fail.  Every call that waits for its turn
\* finds the connection closed before another one can be made.
Drop ==
    /\ up /\ drops < MaxDrops
    /\ up' = FALSE
    /\ drops' = drops + 1
    /\ call' = [c \in Commands |-> IF call[c] \in {"queued", "running"} THEN "failed" ELSE call[c]]
    /\ queue' = <<>>
    /\ pending' = None /\ held' = FALSE
    /\ send' = [c \in Commands |-> IF send[c] = "writing" THEN "failed" ELSE send[c]]
    /\ abandoned' = abandoned - Cardinality({c \in left : send[c] = "writing"})
    /\ left' = {}
    /\ toServer' = <<>> /\ lines' = <<>> /\ stuck' = FALSE
    /\ UNCHANGED <<link, kind, answer, strayKey, notes, given, history>>

\* #establishSession: a new transport, with nothing left of the last one.
Install ==
    /\ ~up
    /\ up' = TRUE
    /\ abandoned' = 0 /\ strayKey' = None /\ pending' = None
    /\ UNCHANGED <<link, kind, call, answer, queue, send, held, left, network, history>>

----------------------------------------------------------------------------
(* The server.                                                             *)

\* An answer: n rows, the first i of them before the `error` line.
AnswerLines(c, n, i, ok) ==
    [j \in 1 .. n + 1 |-> CASE j <= i -> Row(c, j) [] j = i + 1 -> Err(c, ok) [] OTHER -> Row(c, j - 1)]

RowCounts(k) == CASE k \in {"create", "createOther", "createWide"} -> {1}
                  [] k = "several" -> 1 .. MaxRows
                  [] OTHER -> 0 .. MaxRows

\* How many of them can come before it: of several things made, all, some or none;
\* of a read, which is one line, all or none.
RowsBefore(k, n) == CASE k = "plain" -> {n} [] k = "several" -> 0 .. n [] OTHER -> {0, n}

\* The server reads a command and writes its answer, of which it may keep the last
\* line back.
ServerAnswers ==
    /\ toServer # <<>>
    /\ toServer' = Tail(toServer)
    /\ LET c == Head(toServer) IN
        \/ /\ lines' = Append(lines, Err(c, FALSE))
           /\ UNCHANGED given
        \/ \E n \in RowCounts(kind[c]) :
           \E i \in RowsBefore(kind[c], n) :
            /\ lines' = lines \o AnswerLines(c, n, i, TRUE)
            /\ given' = [given EXCEPT ![c] = n]
    /\ stuck' \in BOOLEAN
    /\ UNCHANGED <<link, kind, client, notes, drops, history>>

ServerNotifies ==
    /\ link = "ssh" /\ up /\ notes < MaxNotes
    /\ notes' = notes + 1
    /\ lines' = Append(lines, Note)
    /\ UNCHANGED <<link, kind, client, toServer, stuck, given, drops, history>>

\* WebQuery answers a request within send(): the rows, the `error` line, and send()
\* resolves.  The request of a command that gave up has ended before.
WebAnswers ==
    /\ link = "web" /\ pending # None /\ send[pending] = "writing" /\ up
    /\ \A c \in left : send[c] # "writing"
    /\ send' = [send EXCEPT ![pending] = "sent"]
    /\ IF abandoned > 0
       THEN /\ abandoned' = abandoned - 1
            /\ UNCHANGED <<call, answer, pending, held, strayKey, given>>
       ELSE /\ \/ Settled("failed") /\ UNCHANGED <<answer, given>>
               \/ \E n \in RowCounts(kind[pending]) :
                    /\ answer' = [answer EXCEPT ![pending] = [i \in 1 .. n |-> Row(pending, i)]]
                    /\ given' = [given EXCEPT ![pending] = n]
                    /\ Settled("answered")
            /\ strayKey' = None
            /\ UNCHANGED abandoned
    /\ UNCHANGED <<link, kind, queue, left, up, toServer, lines, stuck, notes, drops, history>>

\* The request of a command that gave up is aborted (sendAbort).
RequestEnds(c) == link = "web" /\ c \in left /\ SendFails(c)

----------------------------------------------------------------------------
Init ==
    /\ link \in {"ssh", "web"}
    /\ kind \in Mixes
    /\ call = [c \in Commands |-> "idle"] /\ answer = [c \in Commands |-> <<>>]
    /\ queue = <<>> /\ send = [c \in Commands |-> "none"]
    /\ pending = None /\ held = FALSE /\ abandoned = 0 /\ left = {} /\ strayKey = None
    /\ up = TRUE /\ drops = 0
    /\ toServer = <<>> /\ lines = <<>> /\ stuck = FALSE /\ notes = 0
    /\ given = [c \in Commands |-> 0]
    /\ gaveUp = {} /\ ranOut = {}

\* What goes on by itself: the event loop, the timer of a held answer, the nudge, and
\* a server that answers.
Progress ==
    \/ Start \/ ReadError \/ ReadRow \/ ReadNotify \/ HeldTimer \/ Nudge
    \/ ServerAnswers \/ WebAnswers
    \/ \E c \in Commands : Written(c) \/ RequestEnds(c)

Next ==
    \/ Progress
    \/ GiveUp \/ Drop \/ Install \/ ServerNotifies
    \/ \E c \in Commands : Exec(c) \/ SendFails(c)

Spec == Init /\ [][Next]_vars

FairSpec == Spec /\ WF_vars(Progress)

----------------------------------------------------------------------------
\* The error line of a command that gave up is still to come.
Owed(c) ==
    \/ send[c] = "writing" \/ c \in Range(toServer)
    \/ \E i \in DOMAIN lines : lines[i].type = "error" /\ lines[i].of = c

\* #abandoned is the number of `error` lines that are still to come for commands that
\* gave up: no less, or such a line ends another command; no more, or the answer of a
\* later command is passed over (client.ts:1062 and 1148).
AbandonedIsExact == up => abandoned = Cardinality({c \in left : Owed(c)})

HasForeignRow(c) == \E i \in DOMAIN answer[c] : answer[c][i].of # c

\* A command gets no row of another one's answer (client.ts:1142), but in three ways.
\* A command whose rows may follow their `error` line gave up, and they follow it
\* after that.  The wait for late rows was too short: then the row of a command that
\* makes one thing known by its only key is still not taken for another's, unless the
\* next command makes a thing of the same kind (client.ts:1215); a row with more keys,
\* or the next of several, goes to whichever command is on the wire.  And a command
\* that took such a row may miss its own, which then goes to the next.
AnswersAreItsOwn ==
    \A c \in Commands : \A i \in DOMAIN answer[c] :
        LET d == answer[c][i].of IN
        \/ d = c
        \/ d \in gaveUp /\ Late(kind[d])
        \/ d \in ranOut /\ (Alone(kind[d]) => KeyOf(kind[c]) = KeyOf(kind[d]))
        \/ HasForeignRow(d)

\* An answer that exec() resolves with has all the rows the server wrote, the ones
\* after the `error` line included, in their order, unless the wait for late rows was
\* over before the last of them came, or a row of another command was taken for it
\* (client.ts:1163).
AnswersAreWhole ==
    \A c \in Commands :
        call[c] = "answered" =>
            \/ c \in ranOut
            \/ answer[c] = [i \in 1 .. given[c] |-> Row(c, i)]
            \/ HasForeignRow(c)

\* Every call ends, also when no timeout is counted on: an answer is found by the call
\* that waits for it, a line the server keeps back is nudged out, and the queue moves on.
CallsEnd == \A c \in Commands : call[c] = "queued" ~> Ended(c)
============================================================================
