--------------------------- MODULE CommandTracker ---------------------------
(***************************************************************************)
(* CommandTracker (client/commands.ts) and the calls that use it           *)
(* (client/client.ts): which of the server's rows, notifications and error *)
(* lines answer which command.                                             *)
(*                                                                         *)
(* The server handles one client's commands in order and ends each answer  *)
(* with an error line that names the return code, if the command had one.  *)
(* Lines reach the client in order (OrderedCommands), so a line is handled *)
(* here where the server sends it.  A command is known by its return code. *)
(* Its target is the one field that may tie an answer to it: the value of  *)
(* echoKey or correlated.key, or the client itself under ownRowsOnly (that *)
(* field, invokerid, is in every row of the one notification it is for).   *)
(* A request or a row without that field has the target Any, and so has    *)
(* each of a command whose response has no such key.                       *)
(*                                                                         *)
(* The kinds of answer (core/command/responses.ts):                        *)
(*   rows      nameless rows, before the error line                        *)
(*   inline    rows of a notification, before the error line; one that     *)
(*             names another target is not taken                           *)
(*   matched   a notification matched on the request's target              *)
(*             before or after the error line                              *)
(*   silent    execNoWait: no return code, nobody waits                    *)
(***************************************************************************)
EXTENDS Integers, Sequences, FiniteSets

CONSTANTS
    Targets,        \* the values of the request field that an answer echoes
    Any,            \* no value: the field is not there
    MaxCalls,       \* bound: commands with a return code in a run
    MaxSilent,      \* bound: commands without one, and rows in answer to them
    MaxUnprompted,  \* bound: notifications nobody asked for
    MaxRows,        \* bound: rows in answer to the commands with one
    MaxSessions     \* bound: sessions in a run

ASSUME TrackerAssumption ==
    /\ MaxCalls \in Nat /\ MaxSilent \in Nat /\ MaxUnprompted \in Nat
    /\ MaxRows \in Nat \ {0} /\ MaxSessions \in Nat \ {0}
    /\ Any \notin Targets

Calls == 1 .. MaxCalls
Silent == 0     \* a command without a return code
Nobody == -1    \* whose the rows are that no command asked for
AllTargets == Targets \cup {Any}
Notifications == {"inline", "matched"}
Kinds == {"rows", "inline", "matched"}

VARIABLES
    nextRC,     \* #nextRC
    call,       \* #pending, and what became of each command
    buffer,     \* #buffer
    welcomed,   \* #welcomeComplete
    up,         \* the client is connected and may send (#canSend)
    session,    \* the number of the session
    inbox,      \* server: the commands to handle, in order
    rowsSent,   \* server: how many rows it has sent in answer to each command, and
                \* to all those without a return code
    late,       \* server: matched commands whose error line came first
    silent, unprompted  \* how many of each so far

tracker == <<nextRC, call, buffer, welcomed>>
server  == <<inbox, rowsSent, late>>
vars    == <<tracker, up, session, server, silent, unprompted>>

\* A row as the client sees it (its notification, and the target it names), and
\* whose it is.
Row(source, target, of) == [source |-> source, target |-> target, of |-> of]

Unused == [state |-> "unused"]

\* The commands in #pending; "held" is one with a settled result.
IsPending(rc) == call[rc].state \in {"waiting", "held"}
Pending == {rc \in Calls : IsPending(rc)}

Init ==
    /\ nextRC = 0
    /\ call = [rc \in Calls |-> Unused]
    /\ buffer = <<>>
    /\ welcomed = FALSE
    /\ up = TRUE
    /\ session = 1
    /\ inbox = <<>>
    /\ rowsSent = [rc \in Calls \cup {Silent} |-> 0]
    /\ late = {}
    /\ silent = 0
    /\ unprompted = 0

-----------------------------------------------------------------------------
(* The caller.                                                             *)

\* #writeLine: register, and the line goes out with the return code.  (Nothing
\* depends on the target of a command that is answered by nameless rows.)
Exec(kind, target) ==
    LET rc == nextRC + 1
    IN  /\ up
        /\ kind = "rows" => target = Any
        /\ nextRC < MaxCalls
        /\ nextRC' = rc
        /\ call' = [call EXCEPT ![rc] =
                        [state |-> "waiting", kind |-> kind, target |-> target,
                         matched |-> <<>>, data |-> <<>>]]
        /\ inbox' = Append(inbox, rc)
        /\ UNCHANGED <<buffer, welcomed, up, session, rowsSent, late, silent, unprompted>>

\* #writeNoWait
ExecNoWait ==
    /\ up
    /\ silent < MaxSilent
    /\ silent' = silent + 1
    /\ inbox' = Append(inbox, Silent)
    /\ UNCHANGED <<tracker, up, session, rowsSent, late, unprompted>>

\* #settle and unregister: the entry goes, with the notifications matched so far,
\* and the call returns the data.  (With an error it returns none.)
Ended(rc, state, data) ==
    [call[rc] EXCEPT !.state = state, !.data = data, !.matched = <<>>]

\* Mutant: giving a command up throws away the rows in hand.
GiveUp_Clears(rc) ==
    /\ IsPending(rc)
    /\ call' = [call EXCEPT ![rc] = Ended(rc, "gaveUp", <<>>)]
    /\ buffer' = <<>>
    /\ UNCHANGED <<nextRC, welcomed, up, session, server, silent, unprompted>>

\* The timeout or the caller's signal: the call rejects, and unregister(rc).
GiveUp(rc) ==
    /\ IsPending(rc)
    /\ call' = [call EXCEPT ![rc] = Ended(rc, "gaveUp", <<>>)]
    /\ UNCHANGED <<nextRC, buffer, welcomed, up, session, server, silent, unprompted>>

-----------------------------------------------------------------------------
(* What a line from the server does.                                       *)

Settled(rc, state, data) == [call EXCEPT ![rc] = Ended(rc, state, data)]

\* expects(name): some pending command declared the notification.
Expects(name) == \E rc \in Pending : call[rc].kind = name

\* buffer(), and the check before it for a notification
Wanted(row) == Pending # {} /\ (row.source # "" => Expects(row.source))
Buffers(row) == welcomed /\ Wanted(row)

BufferWith(row) == IF Buffers(row) THEN Append(buffer, row) ELSE buffer

\* The pending commands that the notification matches, and the first of them in
\* the order they were registered.
MatchedBy(row) ==
    {rc \in Pending : /\ call[rc].kind = "matched"
                      /\ call[rc].target # Any
                      /\ call[rc].target = row.target}

\* Mutant: the last one.
First_Last(rcs) == CHOOSE rc \in rcs : \A other \in rcs : rc >= other

First(rcs) == CHOOSE rc \in rcs : \A other \in rcs : rc <= other

\* offerCorrelated.  Its failure case (a status that is no success) settles the
\* command with that error whether or not its error line has come.
Offered(row, fails) ==
    LET rc == First(MatchedBy(row))
        rows == Append(call[rc].matched, row)
    IN  IF row.source # "matched" \/ MatchedBy(row) = {} THEN call
        ELSE IF fails THEN Settled(rc, "failed", <<>>)
        ELSE IF call[rc].state = "held" THEN Settled(rc, "ok", call[rc].data \o rows)
        ELSE [call EXCEPT ![rc].matched = rows]

\* A nameless row or a notification is handled.
Handle(row, fails) ==
    /\ buffer' = BufferWith(row)
    /\ call' = Offered(row, fails)
    /\ UNCHANGED <<nextRC, welcomed>>

\* The row does not name a target other than the request's.
NamesNoOther(rc, row) == Any \in {call[rc].target, row.target} \/ row.target = call[rc].target

\* #answers.  (A matched notification is in no command's `notifications`.)
Answers(rc, row) ==
    \/ row.source = ""
    \/ /\ row.source = "inline"
       /\ call[rc].kind = "inline"
       /\ NamesNoOther(rc, row)

\* The rows in the buffer that answer the command, in order.
RowsFor(rc) ==
    LET pick[i \in 0 .. Len(buffer)] ==
            IF i = 0 THEN <<>>
            ELSE IF Answers(rc, buffer[i]) THEN Append(pick[i - 1], buffer[i])
            ELSE pick[i - 1]
    IN  pick[Len(buffer)]

\* A notification will be matched with the command: the request has the key.
IsMatched(rc) == call[rc].kind = "matched" /\ call[rc].target # Any

\* It is still due.
Waits(rc) == IsMatched(rc) /\ call[rc].matched = <<>>

\* Mutant: nothing is dropped when nobody waits for the command.
BufferAfter_Kept(rc) == IF rc = Silent \/ ~IsPending(rc) THEN buffer ELSE <<>>

\* resolve() and discardBuffer(): the rows so far are the command's, or nobody's.
BufferAfter(rc) == <<>>

\* #handleError: the error line of a command with or without a return code.
HandleError(rc, fails) ==
    LET data == RowsFor(rc)
    IN  /\ buffer' = BufferAfter(rc)
        /\ call' = IF rc = Silent THEN call
                   ELSE IF ~IsPending(rc) THEN call
                   ELSE IF fails THEN Settled(rc, "failed", <<>>)
                   ELSE IF Waits(rc) THEN Settled(rc, "held", data)
                   ELSE Settled(rc, "ok", data \o call[rc].matched)
        /\ UNCHANGED <<nextRC, welcomed>>

-----------------------------------------------------------------------------
(* The server.                                                             *)

\* The rows of the welcome, and its end (channellistfinished).
WelcomeRow ==
    /\ up /\ ~welcomed
    /\ Handle(Row("", Any, Nobody), FALSE)
    /\ UNCHANGED <<up, session, server, silent, unprompted>>

\* signalWelcomeComplete
WelcomeEnds ==
    /\ up /\ ~welcomed
    /\ welcomed' = TRUE
    /\ buffer' = <<>>
    /\ UNCHANGED <<nextRC, call, up, session, server, silent, unprompted>>

\* The server ends the welcome before it answers anything.
Answering == up /\ welcomed /\ inbox # <<>>

\* What a notification may name: one that is to be matched always has the key.
Names(name) == IF name = "matched" THEN Targets ELSE AllTargets

\* And in answer to a command: the request's target, unless that has none.
Named(rc) ==
    {target \in Names(call[rc].kind) : call[rc].target = Any \/ target \in {call[rc].target, Any}}

\* The rows that may answer a command: nameless, or the notification it declared.
\* A command sent without a return code may be one of any kind.
RowsOf(rc) ==
    IF rc = Silent
    THEN {Row("", Any, rc)} \cup
         UNION {{Row(name, target, rc) : target \in Names(name)} : name \in Notifications}
    ELSE IF call[rc].kind = "rows" THEN {Row("", Any, rc)}
    ELSE {Row(call[rc].kind, target, rc) : target \in Named(rc)}

\* How many rows there were for commands with a return code.
RowsSent ==
    LET sum[rc \in 0 .. MaxCalls] == IF rc = 0 THEN 0 ELSE sum[rc - 1] + rowsSent[rc]
    IN  sum[MaxCalls]

\* Within the bounds.  A notification that is matched comes once.  (What is not
\* wanted changes nothing, so it need not be counted.)
MayAnswer(rc, row) ==
    IF rc = Silent THEN rowsSent[rc] < MaxSilent /\ Wanted(row)
    ELSE RowsSent < MaxRows /\ (row.source = "matched" => rowsSent[rc] = 0)

\* A row of the answer.
SendRow(fails) ==
    LET rc == Head(inbox)
    IN  /\ Answering
        /\ \E row \in RowsOf(rc) :
            /\ fails => row.source = "matched"
            /\ MayAnswer(rc, row)
            /\ rowsSent' = [rowsSent EXCEPT ![rc] = @ + 1]
            /\ Handle(row, fails)
        /\ UNCHANGED <<up, session, inbox, late, silent, unprompted>>

\* The error line.  One that reports success follows the rows, except that the
\* notification that is matched may follow it.
SendError(fails) ==
    LET rc == Head(inbox)
    IN  /\ Answering
        /\ HandleError(rc, fails)
        /\ inbox' = Tail(inbox)
        /\ late' = IF rc # Silent /\ call[rc].kind = "matched" /\ rowsSent[rc] = 0 /\ ~fails
                   THEN late \cup {rc} ELSE late
        /\ UNCHANGED <<up, session, rowsSent, silent, unprompted>>

\* The notification that is matched, after its error line: with the answer, or
\* with a status that says the command failed after all.
SendLate(rc, fails) ==
    /\ up
    /\ rc \in late
    /\ late' = late \ {rc}
    /\ \E target \in Named(rc) : Handle(Row("matched", target, rc), fails)
    /\ UNCHANGED <<up, session, inbox, rowsSent, silent, unprompted>>

\* The same notification goes out when something about a target changes.
Unprompted(name, target) ==
    /\ up
    /\ target \in Names(name)
    /\ unprompted < MaxUnprompted
    /\ unprompted' = unprompted + 1
    /\ Wanted(Row(name, target, Nobody))
    /\ Handle(Row(name, target, Nobody), FALSE)
    /\ UNCHANGED <<up, session, server, silent>>

-----------------------------------------------------------------------------
(* The end of a session, and the next.                                     *)

\* reset(): every command in flight fails.
Abandoned == [rc \in Calls |-> IF IsPending(rc) THEN Ended(rc, "down", <<>>) ELSE call[rc]]

\* #handleConnectionClosed, #resetForConnect or disconnect(): the session ends.
Down ==
    /\ up
    /\ up' = FALSE
    /\ call' = Abandoned
    /\ buffer' = <<>>
    /\ welcomed' = FALSE
    /\ inbox' = <<>>
    /\ late' = {}
    /\ UNCHANGED <<nextRC, session, rowsSent, silent, unprompted>>

Reconnected ==
    /\ ~up
    /\ session < MaxSessions
    /\ up' = TRUE
    /\ session' = session + 1
    /\ UNCHANGED <<tracker, server, silent, unprompted>>

Next ==
    \/ \E kind \in Kinds, target \in AllTargets : Exec(kind, target)
    \/ ExecNoWait
    \/ \E rc \in Calls : GiveUp(rc)
    \/ WelcomeRow
    \/ WelcomeEnds
    \/ \E fails \in BOOLEAN : SendRow(fails)
    \/ \E fails \in BOOLEAN : SendError(fails)
    \/ \E rc \in Calls, fails \in BOOLEAN : SendLate(rc, fails)
    \/ \E name \in Notifications, target \in AllTargets : Unprompted(name, target)
    \/ Down
    \/ Reconnected

Spec == Init /\ [][Next]_vars

\* A session that is up goes on: the server ends its welcome, answers what it is
\* asked, and sends the notifications that are due.
Fairness ==
    /\ WF_vars(WelcomeEnds)
    /\ WF_vars(\E fails \in BOOLEAN : SendError(fails))
    /\ \A rc \in Calls : WF_vars(\E fails \in BOOLEAN : SendLate(rc, fails))

FairSpec == Spec /\ Fairness

-----------------------------------------------------------------------------
(* What the tracker promises.                                              *)

Succeeded == {rc \in Calls : call[rc].state = "ok"}

\* The answer to a command holds every row the server sent for it, whatever other
\* commands were given up, failed or answered while its rows came in ("every row
\* seen since the previous error belongs to command N").  One that a notification is
\* matched with never reports an empty success, though its error line may come first.
\* (Without the key in the request, there is nothing to match or to wait for.)
AnswersAreWhole ==
    \A rc \in Succeeded :
        /\ IsMatched(rc) => call[rc].data # <<>>
        /\ call[rc].kind # "matched" =>
            Cardinality({i \in DOMAIN call[rc].data : call[rc].data[i].of = rc}) = rowsSent[rc]

\* And it holds nothing else, with two exceptions.  A command answered inline also
\* takes the same notification when it came unprompted since the error line before
\* and does not name another target (notifyservergrouplist names none), and a
\* matched one takes any notification of its own that names its target.  It is
\* never a row of the welcome, of a command given up or failed, of one sent without
\* a return code, or of an earlier session.
AnswersAreItsOwn ==
    \A rc \in Succeeded : \A i \in DOMAIN call[rc].data :
        LET row == call[rc].data[i]
        IN  \/ row.of = rc
            \/ /\ row.source = "inline" /\ call[rc].kind = "inline"
               /\ row.of = Nobody /\ NamesNoOther(rc, row)
            \/ /\ row.source = "matched" /\ IsMatched(rc)
               /\ row.target = call[rc].target

\* Every command ends by the server's answer or with its session, without the help
\* of its timeout: even when several wait for notifications about one target, and
\* one takes what was sent for another.
CommandsEnd == \A rc \in Calls : IsPending(rc) ~> ~IsPending(rc)
=============================================================================
