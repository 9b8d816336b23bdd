------------------------- MODULE QueryCommandsProof -------------------------
(***************************************************************************)
(* Proofs about the commands of a ServerQuery client, for any number of    *)
(* commands of any kinds, answers of any length, drops and notifications:  *)
(* #abandoned is exact (AbandonedIsExact), a command gets no row of        *)
(* another one's answer but in the three ways the code cannot rule out     *)
(* (AnswersAreItsOwn), and answers are whole (AnswersAreWhole).            *)
(*                                                                         *)
(* All rest on the order of the wire: commands are written in the order    *)
(* of their calls and answered in that order (WireInOrder), and the one    *)
(* command that is on the wire and has not given up is the last of them    *)
(* (PendingIsLast).  So the `error` line that comes next is of a command   *)
(* that gave up exactly while one of those is owed; and a row that comes   *)
(* when none is owed follows its own `error` line, of a command that gave  *)
(* up, ran out of time, or took a row of another for its own               *)
(* (LateRowsAreKnown).                                                     *)
(***************************************************************************)
EXTENDS QueryCommands, FiniteSetTheorems, TLAPS

Kinds    == {"plain", "create", "createOther", "createWide", "several", "read"}
One      == {"create", "createOther", "createWide"}  \* one row
Rows     == [type : {"row"}, of : Commands, n : Nat]
Errors   == [type : {"error"}, of : Commands, ok : BOOLEAN]
Messages == Rows \cup Errors \cup {Note}

TypeOK ==
    /\ link \in {"ssh", "web"}
    /\ kind \in [Commands -> Kinds]
    /\ call \in [Commands -> {"idle", "queued", "running", "answered", "failed"}]
    /\ answer \in [Commands -> Seq(Rows)]
    /\ queue \in Seq(Commands)
    /\ send \in [Commands -> {"none", "writing", "sent", "failed"}]
    /\ pending \in Commands \cup {None}
    /\ held \in BOOLEAN
    /\ abandoned \in Int
    /\ left \in SUBSET Commands
    /\ strayKey \in {None, "id", "other"}
    /\ up \in BOOLEAN
    /\ toServer \in Seq(Commands)
    /\ lines \in Seq(Messages)
    /\ given \in [Commands -> Nat]
    /\ gaveUp \in SUBSET Commands
    /\ ranOut \in SUBSET Commands

\* Calls are made, queued and started in one order.
CallsInOrder ==
    /\ \A c, d \in Commands : c < d /\ call[c] = "idle" => call[d] = "idle"
    /\ \A c \in Commands : send[c] # "none" => call[c] # "idle"
    /\ \A i \in DOMAIN queue : /\ call[queue[i]] # "idle"
                               /\ \A c \in Commands : send[c] # "none" => c < queue[i]
    /\ \A i, j \in DOMAIN queue : i < j => queue[i] < queue[j]

IsRow(m, c) == m.type = "row" /\ m.of = c
IsErr(m, c) == m.type = "error" /\ m.of = c
Speaks(m)   == m.type \in {"row", "error"}

\* The commands on their way to the server are behind those it answers, and before those
\* that are still to be written; answers come in the order of their commands.
WireInOrder ==
    /\ \A i \in DOMAIN toServer : /\ send[toServer[i]] = "sent"
                                  /\ \A c \in Commands : send[c] = "writing" => toServer[i] < c
    /\ \A i, j \in DOMAIN toServer : i < j => toServer[i] < toServer[j]
    /\ \A i \in DOMAIN lines : Speaks(lines[i]) =>
           /\ send[lines[i].of] = "sent"
           /\ \A c \in Commands : send[c] = "writing" => lines[i].of < c
           /\ \A j \in DOMAIN toServer : lines[i].of < toServer[j]
    /\ \A i, j \in DOMAIN lines : i < j /\ Speaks(lines[i]) /\ Speaks(lines[j]) =>
           /\ lines[i].of <= lines[j].of
           /\ lines[i].type = "error" /\ lines[j].type = "error" => lines[i].of < lines[j].of

\* What one answer looks like: rows follow the `error` line only where LATE_ROWS and READS
\* say so, on both sides of it only when there are several, and a thing made has one row.
AnswersAreShaped ==
    /\ \A i, j \in DOMAIN lines : \A c \in Commands :
           i < j /\ IsErr(lines[i], c) /\ IsRow(lines[j], c) => lines[i].ok /\ Late(kind[c])
    /\ \A i, j, k \in DOMAIN lines : \A c \in Commands :
           i < j /\ j < k /\ IsRow(lines[i], c) /\ IsErr(lines[j], c) /\ IsRow(lines[k], c) => kind[c] = "several"
    /\ \A i, j \in DOMAIN lines : \A c \in Commands :
           i < j /\ IsRow(lines[i], c) /\ IsRow(lines[j], c) => kind[c] \notin One

\* No command is sent before an earlier one that is still to be written, and while a
\* command or a row is on its way, the answers to later commands are too.
RowsComeFirst ==
    /\ \A c, d \in Commands : c < d /\ send[c] = "writing" => send[d] # "sent"
    /\ \A i \in DOMAIN toServer : \A d \in Commands :
           toServer[i] < d /\ send[d] = "sent" => Owed(d)
    /\ \A i \in DOMAIN lines : \A c, d \in Commands :
           IsRow(lines[i], c) /\ c < d /\ send[d] = "sent" => Owed(d)

\* The command on the wire is the last one started, and the only one that is owed an
\* answer and has not given up; a held one has had its `error` line.
PendingIsLast ==
    /\ pending # None => /\ send[pending] \in {"writing", "sent"} /\ pending \notin left
                         /\ \A c \in Commands : send[c] # "none" => c <= pending
                         /\ held \/ Owed(pending)
    /\ held => pending # None /\ ~Owed(pending)
    /\ \A c \in Commands : Owed(c) => c \in left \/ c = pending
    /\ left \subseteq gaveUp
    /\ \A c \in left : send[c] # "none"

\* Nothing is left of a connection that is down.
DownIsEmpty ==
    ~up => /\ pending = None /\ left = {} /\ toServer = <<>> /\ lines = <<>>
           /\ \A c \in Commands : send[c] # "writing"

\* WebQuery has no wire: an answer comes with its request.
WebIsEmpty ==
    link = "web" => /\ lines = <<>> /\ toServer = <<>> /\ held = FALSE
                    /\ \A c \in Commands : ~HasForeignRow(c)

\* A row in an answer is one the server has written, once.
RowsAreReadOnce ==
    \A c, d \in Commands : \A i \in DOMAIN answer[c] : answer[c][i].of = d =>
        /\ send[d] = "sent" /\ d \notin Range(toServer)
        /\ c = d /\ kind[d] \in One => \A j \in DOMAIN lines : ~IsRow(lines[j], d)
        /\ c = d /\ kind[d] # "several" =>
               \A j, k \in DOMAIN lines : ~(j < k /\ IsErr(lines[j], d) /\ IsRow(lines[k], d))

\* A row whose `error` line has been read is late, and if its command is over, that gave
\* up, or took another row for it, or ran out of time; what one thing made is known by its key.
LateRowsAreKnown ==
    \A i \in DOMAIN lines : \A d \in Commands : IsRow(lines[i], d) /\ ~Owed(d) =>
        /\ Late(kind[d])
        /\ \/ d = pending \/ d \in gaveUp \/ HasForeignRow(d)
           \/ d \in ranOut /\ (Alone(kind[d]) => strayKey = KeyOf(kind[d]))

IInv ==
    /\ TypeOK
    /\ CallsInOrder
    /\ WireInOrder
    /\ AnswersAreShaped
    /\ RowsComeFirst
    /\ PendingIsLast
    /\ DownIsEmpty
    /\ WebIsEmpty
    /\ RowsAreReadOnce
    /\ LateRowsAreKnown
    /\ AbandonedIsExact
    /\ AnswersAreItsOwn

----------------------------------------------------------------------------
(* The operators the model is built from.                                  *)

\* What Tail, Append and \o do to a sequence, said once with its indices.
LEMMA TailFacts ==
    ASSUME NEW S, NEW s \in Seq(S), s # <<>>
    PROVE  /\ Tail(s) \in Seq(S) /\ Len(s) \in Nat \ {0} /\ Head(s) = s[1] /\ s[1] \in S
           /\ DOMAIN s = 1 .. Len(s) /\ DOMAIN Tail(s) = 1 .. Len(s) - 1
           /\ \A i \in 1 .. Len(s) - 1 : Tail(s)[i] = s[i + 1]
OBVIOUS

LEMMA AppendFacts ==
    ASSUME NEW S, NEW s \in Seq(S), NEW x \in S
    PROVE  /\ Append(s, x) \in Seq(S) /\ Len(s) \in Nat
           /\ DOMAIN s = 1 .. Len(s) /\ DOMAIN Append(s, x) = 1 .. Len(s) + 1
           /\ \A i \in 1 .. Len(s) : Append(s, x)[i] = s[i]
           /\ Append(s, x)[Len(s) + 1] = x
OBVIOUS

LEMMA ConcatFacts ==
    ASSUME NEW S, NEW s \in Seq(S), NEW t \in Seq(S)
    PROVE  /\ s \o t \in Seq(S) /\ Len(s) \in Nat /\ Len(t) \in Nat
           /\ DOMAIN s = 1 .. Len(s) /\ DOMAIN t = 1 .. Len(t)
           /\ DOMAIN (s \o t) = 1 .. Len(s) + Len(t)
           /\ \A i \in 1 .. Len(s) : (s \o t)[i] = s[i]
           /\ \A i \in 1 .. Len(t) : (s \o t)[Len(s) + i] = t[i]
OBVIOUS

LEMMA SeqFacts ==
    ASSUME NEW S, NEW s \in Seq(S)
    PROVE  /\ Len(s) \in Nat /\ DOMAIN s = 1 .. Len(s)
           /\ \A i \in DOMAIN s : s[i] \in S
           /\ \A x : x \in Range(s) <=> \E i \in DOMAIN s : s[i] = x
           /\ Range(s) \subseteq S
BY DEF Range

\* The kinds of lines differ, and say of which command they are.
LEMMA MessageFacts ==
    ASSUME NEW m \in Messages
    PROVE  /\ m.type \in {"row", "error", "notify"}
           /\ m.type = "row" => m \in Rows /\ m.of \in Commands
           /\ m.type = "error" => m.of \in Commands /\ m.ok \in BOOLEAN
           /\ Speaks(m) => m.of \in Commands
<1>1. CASE m \in Rows
    BY <1>1 DEF Rows, Speaks
<1>2. CASE m \in Errors
    BY <1>2 DEF Errors, Speaks
<1>3. CASE m = Note
    BY <1>3 DEF Note, Speaks
<1> QED
    BY <1>1, <1>2, <1>3 DEF Messages

LEMMA RowFacts ==
    ASSUME NEW c \in Commands, NEW n \in Nat
    PROVE  Row(c, n) \in Rows /\ Row(c, n) \in Messages /\ Row(c, n).type = "row" /\ Row(c, n).of = c
BY DEF Row, Rows, Messages

LEMMA ErrFacts ==
    ASSUME NEW c \in Commands, NEW ok \in BOOLEAN
    PROVE  Err(c, ok) \in Messages /\ Err(c, ok).type = "error" /\ Err(c, ok).of = c /\ Err(c, ok).ok = ok
BY DEF Err, Errors, Messages

LEMMA NoteFacts == Note \in Messages /\ Note.type = "notify"
BY DEF Note, Messages

\* There are finitely many commands, so the answers that are owed can be counted.
LEMMA FiniteCommands == \A S \in SUBSET Commands : IsFiniteSet(S)
<1>1. IsFiniteSet(Commands)
    BY FS_Interval, CommandsAssumption DEF Commands
<1> QED
    BY <1>1, FS_Subset

LEMMA CountFacts ==
    ASSUME NEW S \in SUBSET Commands
    PROVE  /\ Cardinality(S) \in Nat /\ Cardinality({}) = 0
           /\ Cardinality(S) = 0 <=> S = {}
           /\ \A c \in Commands \ S : Cardinality(S \cup {c}) = Cardinality(S) + 1
           /\ \A c \in S : Cardinality(S \ {c}) = Cardinality(S) - 1
<1>1. IsFiniteSet(S)
    BY FiniteCommands
<1>2. Cardinality(S) \in Nat /\ (Cardinality(S) = 0 <=> S = {})
    BY <1>1, FS_CardinalityType, FS_EmptySet
<1>3. \A c \in Commands \ S : Cardinality(S \cup {c}) = Cardinality(S) + 1
    BY <1>1, FS_AddElement
<1>4. \A c \in S : Cardinality(S \ {c}) = Cardinality(S) - 1
    BY <1>1, FS_RemoveElement
<1> QED
    BY <1>2, <1>3, <1>4, FS_EmptySet

\* An answer: its `error` line behind the rows that come before it, and the rest of them.
LEMMA AnswerFacts ==
    ASSUME NEW c \in Commands, NEW n \in Nat, NEW i \in 0 .. n
    PROVE  LET a == AnswerLines(c, n, i, TRUE)
           IN  /\ a \in Seq(Messages) /\ Len(a) = n + 1 /\ DOMAIN a = 1 .. n + 1
               /\ \A j \in 1 .. n + 1 : /\ Speaks(a[j]) /\ a[j].of = c
                                        /\ a[j].type = IF j = i + 1 THEN "error" ELSE "row"
               /\ a[i + 1].ok
<1> DEFINE a == AnswerLines(c, n, i, TRUE)
<1>1. a = [j \in 1 .. n + 1 |-> CASE j <= i -> Row(c, j) [] j = i + 1 -> Err(c, TRUE) [] OTHER -> Row(c, j - 1)]
    BY DEF AnswerLines
<1>2. DOMAIN a = 1 .. n + 1
    BY <1>1
<1> HIDE DEF a
<1>3. ASSUME NEW j \in 1 .. n + 1
      PROVE  /\ a[j] \in Messages /\ Speaks(a[j]) /\ a[j].of = c
             /\ a[j].type = IF j = i + 1 THEN "error" ELSE "row"
             /\ j = i + 1 => a[j].ok
    <2>1. a[j] = CASE j <= i -> Row(c, j) [] j = i + 1 -> Err(c, TRUE) [] OTHER -> Row(c, j - 1)
        BY <1>1
    <2>2. CASE j <= i
        <3>1. a[j] = [type |-> "row", of |-> c, n |-> j] /\ j \in Nat
            BY <2>1, <2>2 DEF Row, Err
        <3>2. a[j] \in Rows
            BY <3>1 DEF Rows
        <3> QED
            BY <3>1, <3>2, <2>2 DEF Messages, Speaks
    <2>3. CASE j = i + 1
        BY <2>1, <2>3 DEF Row, Err, Errors, Messages, Speaks
    <2>4. CASE j > i + 1
        <3>1. a[j] = [type |-> "row", of |-> c, n |-> j - 1] /\ j - 1 \in Nat
            BY <2>1, <2>4 DEF Row, Err
        <3>2. a[j] \in Rows
            BY <3>1 DEF Rows
        <3> QED
            BY <3>1, <3>2, <2>4 DEF Messages, Speaks
    <2> QED
        BY <2>2, <2>3, <2>4
<1>4. a[i + 1].ok
    BY <1>3
<1>5. a = [j \in 1 .. n + 1 |-> a[j]]
    BY <1>1 DEF a
<1>6. a \in Seq(Messages) /\ Len(a) = n + 1
    BY <1>2, <1>3, <1>5
<1> QED
    BY <1>2, <1>3, <1>4, <1>6 DEF a

\* The kinds, their keys and their rows.
LEMMA KindFacts ==
    /\ \A k \in Kinds : KeyOf(k) \in {None, "id", "other"}
    /\ \A k \in Kinds : KeyOf(k) # None <=> k \in One \cup {"several"}
    /\ \A k \in Kinds : Alone(k) => k \in One /\ Keys(k) = {KeyOf(k)}
    /\ \A k \in Kinds : Keys(k) = {KeyOf(k)} \/ Keys(k) \notin {{None}, {"id"}, {"other"}}
    /\ None # "id" /\ None # "other" /\ None \notin Commands
<1>1. None \notin {"id", "other", "more"} /\ None \notin Commands
    BY CommandsAssumption DEF Commands
<1>2. ASSUME NEW k \in Kinds
      PROVE  /\ KeyOf(k) \in {None, "id", "other"} /\ (KeyOf(k) # None <=> k \in One \cup {"several"})
             /\ Alone(k) => k \in One /\ Keys(k) = {KeyOf(k)}
    BY <1>1 DEF Kinds, One, KeyOf, Alone, Keys
<1>3. ASSUME NEW k \in Kinds, Keys(k) # {KeyOf(k)}
      PROVE  "more" \in Keys(k)
    BY <1>3 DEF Kinds, KeyOf, Keys
<1>4. \A S : "more" \in S => S \notin {{None}, {"id"}, {"other"}}
    BY <1>1
<1> QED
    BY <1>1, <1>2, <1>3, <1>4

LEMMA CountOfRows ==
    ASSUME NEW k \in Kinds, NEW n \in RowCounts(k), NEW i \in RowsBefore(k, n)
    PROVE  /\ n \in Nat /\ i \in 0 .. n
           /\ k \in One => n = 1
           /\ k = "plain" => i = n
           /\ k # "several" => i = 0 \/ i = n
<1>1. n \in Nat /\ (k \in One => n = 1)
    BY CommandsAssumption DEF Kinds, One, RowCounts
<1>2. i \in 0 .. n /\ (k = "plain" => i = n) /\ (k # "several" => i = 0 \/ i = n)
    BY <1>1 DEF Kinds, RowsBefore
<1> QED
    BY <1>1, <1>2

----------------------------------------------------------------------------
LEMMA InitOK == Init => IInv
<1> SUFFICES ASSUME Init PROVE IInv
    OBVIOUS
<1>1. DOMAIN lines = {} /\ DOMAIN toServer = {} /\ DOMAIN queue = {}
    BY DEF Init
<1>2. \A c \in Commands : answer[c] = <<>> /\ DOMAIN answer[c] = {} /\ send[c] = "none" /\ call[c] = "idle"
    BY DEF Init
<1>3. \A c \in Commands : ~Owed(c) /\ ~HasForeignRow(c)
    BY <1>1, <1>2 DEF Owed, HasForeignRow, Range
<1>4. TypeOK
    <2>1. kind \in [Commands -> Kinds]
        BY CommandsAssumption DEF Init, Commands, Kinds
    <2>2. /\ call \in [Commands -> {"idle", "queued", "running", "answered", "failed"}]
          /\ send \in [Commands -> {"none", "writing", "sent", "failed"}]
          /\ given \in [Commands -> Nat]
        BY DEF Init
    <2>3. answer \in [Commands -> Seq(Rows)]
        BY DEF Init
    <2>4. /\ link \in {"ssh", "web"} /\ held \in BOOLEAN /\ up \in BOOLEAN
          /\ pending \in Commands \cup {None} /\ strayKey \in {None, "id", "other"}
        BY DEF Init
    <2>5. queue \in Seq(Commands) /\ toServer \in Seq(Commands) /\ lines \in Seq(Messages)
        BY DEF Init
    <2>6. abandoned \in Int /\ left \in SUBSET Commands /\ gaveUp \in SUBSET Commands /\ ranOut \in SUBSET Commands
        BY DEF Init
    <2> QED
        BY <2>1, <2>2, <2>3, <2>4, <2>5, <2>6 DEF TypeOK
<1>5. CallsInOrder /\ WireInOrder /\ AnswersAreShaped /\ RowsComeFirst
    BY <1>1, <1>2 DEF CallsInOrder, WireInOrder, AnswersAreShaped, RowsComeFirst
<1>6. PendingIsLast /\ DownIsEmpty /\ WebIsEmpty
    BY <1>1, <1>2, <1>3 DEF PendingIsLast, DownIsEmpty, WebIsEmpty, Init
<1>7. RowsAreReadOnce /\ LateRowsAreKnown /\ AnswersAreItsOwn
    BY <1>1, <1>2 DEF RowsAreReadOnce, LateRowsAreKnown, AnswersAreItsOwn
<1>8. AbandonedIsExact
    <2>1. {c \in left : Owed(c)} = {} /\ abandoned = 0
        BY DEF Init
    <2> QED
        BY <2>1, CountFacts DEF AbandonedIsExact
<1> QED
    BY <1>4, <1>5, <1>6, <1>7, <1>8 DEF IInv

----------------------------------------------------------------------------
(* What a step leaves alone.                                               *)

\* Who is owed an answer, said with indices.
LEMMA OwedFacts ==
    ASSUME TypeOK
    PROVE  \A c : Owed(c) <=> \/ send[c] = "writing" \/ \E i \in DOMAIN toServer : toServer[i] = c
                              \/ \E i \in DOMAIN lines : IsErr(lines[i], c)
BY DEF Owed, IsErr, Range

\* A step that touches neither the wire nor what was sent on it.
LEMMA SameWire ==
    ASSUME UNCHANGED <<kind, send, toServer, lines>>
    PROVE  /\ \A c : Owed(c)' <=> Owed(c)
           /\ WireInOrder => WireInOrder'
           /\ AnswersAreShaped => AnswersAreShaped'
           /\ RowsComeFirst => RowsComeFirst'
<1>1. \A c : Owed(c)' <=> Owed(c)
    BY DEF Owed
<1>2. WireInOrder => WireInOrder'
    BY DEF WireInOrder
<1>3. AnswersAreShaped => AnswersAreShaped'
    BY DEF AnswersAreShaped
<1>4. RowsComeFirst => RowsComeFirst'
    BY <1>1 DEF RowsComeFirst
<1> QED
    BY <1>1, <1>2, <1>3, <1>4

\* A step that touches no answer either.
LEMMA SameRows ==
    ASSUME UNCHANGED <<kind, send, toServer, lines, answer>>
    PROVE  /\ RowsAreReadOnce => RowsAreReadOnce'
           /\ \A c : HasForeignRow(c)' <=> HasForeignRow(c)
<1>1. RowsAreReadOnce => RowsAreReadOnce'
    BY DEF RowsAreReadOnce
<1>2. \A c : HasForeignRow(c)' <=> HasForeignRow(c)
    BY DEF HasForeignRow
<1> QED
    BY <1>1, <1>2

\* A step that touches only the calls that wait, or what the invariant does not speak of.
LEMMA SameRest ==
    ASSUME IInv,
           UNCHANGED <<link, kind, send, toServer, lines, answer, pending, held, abandoned, left,
                       strayKey, up, history>>
    PROVE  /\ WireInOrder' /\ AnswersAreShaped' /\ RowsComeFirst' /\ PendingIsLast' /\ DownIsEmpty'
           /\ WebIsEmpty' /\ RowsAreReadOnce' /\ LateRowsAreKnown' /\ AbandonedIsExact'
           /\ AnswersAreItsOwn'
<1> USE DEF history
<1>1. WireInOrder' /\ AnswersAreShaped' /\ RowsComeFirst' /\ (\A c : Owed(c)' <=> Owed(c))
    BY SameWire DEF IInv
<1>2. RowsAreReadOnce' /\ (\A c : HasForeignRow(c)' <=> HasForeignRow(c))
    BY SameRows DEF IInv
<1>3. PendingIsLast' /\ DownIsEmpty' /\ WebIsEmpty'
    BY <1>1, <1>2 DEF IInv, PendingIsLast, DownIsEmpty, WebIsEmpty
<1>4. LateRowsAreKnown' /\ AnswersAreItsOwn'
    BY <1>1, <1>2 DEF IInv, LateRowsAreKnown, AnswersAreItsOwn
<1>5. AbandonedIsExact'
    <2>1. {c \in left : Owed(c)}' = {c \in left : Owed(c)}
        BY <1>1
    <2> QED
        BY <2>1 DEF IInv, AbandonedIsExact
<1> QED
    BY <1>1, <1>2, <1>3, <1>4, <1>5

LEMMA SameState ==
    ASSUME IInv, UNCHANGED <<link, kind, client, toServer, lines, given, history>>
    PROVE  IInv'
<1> USE DEF client
<1>1. TypeOK'
    BY DEF IInv, TypeOK, history
<1>2. CallsInOrder'
    BY DEF IInv, CallsInOrder
<1> QED
    BY <1>1, <1>2, SameRest DEF IInv

----------------------------------------------------------------------------
(* The client.                                                             *)

LEMMA ExecOK == ASSUME IInv, NEW c \in Commands, Exec(c) PROVE IInv'
<1>1. TypeOK'
    <2>1. queue' \in Seq(Commands)
        BY AppendFacts DEF IInv, TypeOK, Exec
    <2>2. call' \in [Commands -> {"idle", "queued", "running", "answered", "failed"}]
        BY DEF IInv, TypeOK, Exec
    <2> QED
        BY <2>1, <2>2 DEF IInv, TypeOK, Exec, network, history
<1>2. CallsInOrder'
    <2>1. /\ Len(queue) \in Nat /\ DOMAIN queue = 1 .. Len(queue) /\ DOMAIN queue' = 1 .. Len(queue) + 1
          /\ \A i \in 1 .. Len(queue) : queue'[i] = queue[i] /\ queue[i] \in Commands
          /\ queue'[Len(queue) + 1] = c
        BY AppendFacts, SeqFacts DEF IInv, TypeOK, Exec
    <2>2. \A d \in Commands : call[d] # "idle" => d < c
        BY DEF IInv, CallsInOrder, Exec, Commands
    <2>3. \A d \in Commands : call'[d] = "idle" <=> call[d] = "idle" /\ d # c
        BY DEF IInv, TypeOK, Exec
    <2>4. \A d \in Commands : d > c => call[d] = "idle"
        BY <2>2 DEF Commands
    <2>5. \A d, e \in Commands : d < e /\ call'[d] = "idle" => call'[e] = "idle"
        BY <2>3, <2>2 DEF IInv, CallsInOrder, Commands, Exec
    <2>6. \A d \in Commands : send'[d] # "none" => call'[d] # "idle"
        BY <2>3 DEF IInv, CallsInOrder, Exec
    <2>7. ASSUME NEW i \in DOMAIN queue'
          PROVE  call'[queue'[i]] # "idle" /\ \A d \in Commands : send'[d] # "none" => d < queue'[i]
        <3>1. CASE i = Len(queue) + 1
            BY <3>1, <2>1, <2>2, <2>3 DEF IInv, CallsInOrder, Exec
        <3>2. CASE i \in 1 .. Len(queue)
            BY <3>2, <2>1, <2>3 DEF IInv, CallsInOrder, Exec
        <3> QED
            BY <3>1, <3>2, <2>1
    <2>8. ASSUME NEW i \in DOMAIN queue', NEW j \in DOMAIN queue', i < j
          PROVE  queue'[i] < queue'[j]
        <3>1. i \in 1 .. Len(queue) /\ call[queue[i]] # "idle"
            BY <2>1, <2>8 DEF IInv, CallsInOrder
        <3>2. CASE j = Len(queue) + 1
            BY <3>1, <3>2, <2>1, <2>2
        <3>3. CASE j \in 1 .. Len(queue)
            BY <3>1, <3>3, <2>1, <2>8 DEF IInv, CallsInOrder
        <3> QED
            BY <3>2, <3>3, <2>1
    <2> QED
        BY <2>5, <2>6, <2>7, <2>8 DEF CallsInOrder
<1>3. UNCHANGED <<link, kind, send, toServer, lines, answer, pending, held, abandoned, left,
                  strayKey, up, history>>
    BY DEF Exec, network
<1> QED
    BY <1>1, <1>2, <1>3, SameRest DEF IInv

\* A call whose turn comes is behind every command that was started before.
LEMMA StartFacts ==
    ASSUME IInv, Start
    PROVE  /\ Head(queue) \in Commands /\ send[Head(queue)] = "none" /\ call[Head(queue)] # "idle"
           /\ \A d \in Commands : send[d] # "none" => d < Head(queue)
           /\ queue' \in Seq(Commands)
           /\ \A i \in DOMAIN queue' : /\ queue'[i] \in Commands /\ Head(queue) < queue'[i]
                                       /\ call[queue'[i]] # "idle"
                                       /\ \A d \in Commands : send[d] # "none" => d < queue'[i]
           /\ \A i, j \in DOMAIN queue' : i < j => queue'[i] < queue'[j]
<1>1. /\ queue' \in Seq(Commands) /\ Len(queue) \in Nat \ {0} /\ Head(queue) = queue[1] /\ queue[1] \in Commands
      /\ DOMAIN queue = 1 .. Len(queue) /\ DOMAIN queue' = 1 .. Len(queue) - 1
      /\ \A i \in 1 .. Len(queue) - 1 : queue'[i] = queue[i + 1] /\ queue[i + 1] \in Commands
    BY TailFacts, SeqFacts DEF IInv, TypeOK, Start
<1>2. \A d \in Commands : send[d] # "none" => d < Head(queue)
    BY <1>1 DEF IInv, CallsInOrder
<1>3. send[Head(queue)] = "none" /\ call[Head(queue)] # "idle"
    <2>1. 1 \in DOMAIN queue /\ ~(queue[1] < queue[1])
        BY <1>1 DEF Commands
    <2> QED
        BY <1>1, <1>2, <2>1 DEF IInv, CallsInOrder
<1>4. ASSUME NEW i \in DOMAIN queue'
      PROVE  /\ queue'[i] \in Commands /\ Head(queue) < queue'[i] /\ call[queue'[i]] # "idle"
             /\ \A d \in Commands : send[d] # "none" => d < queue'[i]
    <2>1. 1 \in DOMAIN queue /\ i + 1 \in DOMAIN queue /\ 1 < i + 1 /\ queue'[i] = queue[i + 1]
        BY <1>1
    <2>2. queue[1] < queue[i + 1]
        BY <2>1 DEF IInv, CallsInOrder
    <2> QED
        BY <1>1, <2>1, <2>2 DEF IInv, CallsInOrder
<1>5. ASSUME NEW i \in DOMAIN queue', NEW j \in DOMAIN queue', i < j
      PROVE  queue'[i] < queue'[j]
    BY <1>1, <1>5 DEF IInv, CallsInOrder
<1> QED
    BY <1>1, <1>2, <1>3, <1>4, <1>5

LEMMA StartOK == ASSUME IInv, Start PROVE IInv'
<1> DEFINE c == Head(queue)
<1>f. /\ c \in Commands /\ send[c] = "none" /\ call[c] # "idle" /\ queue' \in Seq(Commands)
      /\ \A d \in Commands : send[d] # "none" => d < c
      /\ \A i \in DOMAIN queue' : /\ queue'[i] \in Commands /\ c < queue'[i] /\ call[queue'[i]] # "idle"
                                  /\ \A d \in Commands : send[d] # "none" => d < queue'[i]
      /\ \A i, j \in DOMAIN queue' : i < j => queue'[i] < queue'[j]
    BY StartFacts
<1>u. UNCHANGED <<link, kind, answer, held, abandoned, left, strayKey, up, network, history>> /\ pending = None
    BY DEF Start
<1> HIDE DEF c
<1>1. ASSUME call' = [call EXCEPT ![c] = "failed"], UNCHANGED <<pending, send>>
      PROVE  IInv'
    <2>1. TypeOK'
        BY <1>1, <1>f, <1>u DEF IInv, TypeOK, network, history
    <2>2. \A d \in Commands : call'[d] = "idle" <=> call[d] = "idle"
        BY <1>1, <1>f DEF IInv, TypeOK
    <2>3. CallsInOrder'
        BY <1>1, <1>f, <2>2 DEF IInv, CallsInOrder
    <2> QED
        BY <1>1, <1>u, <2>1, <2>3, SameRest DEF IInv, network
<1>2. ASSUME up, pending' = c, call' = [call EXCEPT ![c] = "running"], send' = [send EXCEPT ![c] = "writing"]
      PROVE  IInv'
    <2>1. TypeOK'
        BY <1>2, <1>f, <1>u DEF IInv, TypeOK, network, history
    <2>2. \A d \in Commands : /\ call'[d] = "idle" <=> call[d] = "idle"
                              /\ send'[d] = IF d = c THEN "writing" ELSE send[d]
        BY <1>2, <1>f DEF IInv, TypeOK
    <2>3. CallsInOrder'
        <3>1. \A d, e \in Commands : d < e /\ call'[d] = "idle" => call'[e] = "idle"
            BY <2>2 DEF IInv, CallsInOrder
        <3>2. \A d \in Commands : send'[d] # "none" => call'[d] # "idle"
            BY <2>2, <1>f DEF IInv, CallsInOrder
        <3>3. \A i \in DOMAIN queue' : /\ call'[queue'[i]] # "idle"
                                       /\ \A d \in Commands : send'[d] # "none" => d < queue'[i]
            BY <2>2, <1>f
        <3> QED
            BY <3>1, <3>2, <3>3, <1>f DEF CallsInOrder
    <2>w. /\ UNCHANGED <<toServer, lines>>
          /\ \A i \in DOMAIN toServer : toServer[i] \in Commands /\ send[toServer[i]] = "sent"
          /\ \A i \in DOMAIN lines : lines[i] \in Messages
          /\ \A i \in DOMAIN lines : Speaks(lines[i]) => lines[i].of \in Commands /\ send[lines[i].of] = "sent"
        BY <1>u, MessageFacts, SeqFacts DEF network, IInv, TypeOK, WireInOrder
    <2>4. WireInOrder'
        <3>1. \A i \in DOMAIN toServer : /\ send'[toServer[i]] = "sent"
                                         /\ \A d \in Commands : send'[d] = "writing" => toServer[i] < d
            BY <2>2, <2>w, <1>f DEF IInv, WireInOrder
        <3>2. \A i \in DOMAIN lines : Speaks(lines[i]) =>
                   /\ send'[lines[i].of] = "sent"
                   /\ \A d \in Commands : send'[d] = "writing" => lines[i].of < d
            BY <2>2, <2>w, <1>f DEF IInv, WireInOrder
        <3> QED
            BY <3>1, <3>2, <2>w DEF IInv, WireInOrder
    <2>5. \A d \in Commands : Owed(d)' <=> Owed(d) \/ d = c
        BY <2>2, <2>w DEF Owed
    <2>6. ~Owed(c)
        BY <2>w, <1>f, OwedFacts DEF IInv, IsErr, Speaks
    <2>7. AnswersAreShaped'
        BY <2>w, <1>u DEF IInv, AnswersAreShaped
    <2>8. RowsComeFirst'
        <3>1. \A d, e \in Commands : d < e /\ send'[d] = "writing" => send'[e] # "sent"
            BY <2>2, <1>f DEF IInv, RowsComeFirst, Commands
        <3>2. \A d \in Commands : send'[d] = "sent" => send[d] = "sent"
            BY <2>2
        <3> QED
            BY <2>w, <2>5, <3>1, <3>2 DEF IInv, RowsComeFirst
    <2>9. PendingIsLast'
        <3>1. c \notin left /\ ~held
            BY <1>u, <1>f DEF IInv, PendingIsLast
        <3>2. pending' # None => /\ send'[pending'] \in {"writing", "sent"} /\ pending' \notin left'
                                 /\ \A d \in Commands : send'[d] # "none" => d <= pending'
                                 /\ held' \/ Owed(pending)'
            BY <1>2, <1>f, <1>u, <2>2, <2>5, <3>1 DEF Commands
        <3>3. \A d \in Commands : Owed(d)' => d \in left' \/ d = pending'
            BY <1>2, <1>u, <2>5, KindFacts DEF IInv, PendingIsLast
        <3>4. left' \subseteq gaveUp' /\ \A d \in left' : send'[d] # "none"
            BY <1>u, <2>2 DEF history, IInv, TypeOK, PendingIsLast
        <3> QED
            BY <1>u, <3>1, <3>2, <3>3, <3>4 DEF PendingIsLast
    <2>10. DownIsEmpty' /\ WebIsEmpty' /\ (\A d : HasForeignRow(d)' <=> HasForeignRow(d))
        BY <1>2, <1>u, <2>w DEF IInv, DownIsEmpty, WebIsEmpty, HasForeignRow
    <2>11. RowsAreReadOnce'
        BY <1>u, <1>f, <2>w, <2>2 DEF IInv, RowsAreReadOnce
    <2>12. LateRowsAreKnown'
        BY <1>u, <2>w, <2>5, <2>10, KindFacts DEF IInv, LateRowsAreKnown, history
    <2>13. AnswersAreItsOwn'
        BY <1>u, <2>10 DEF IInv, AnswersAreItsOwn, history
    <2>14. AbandonedIsExact'
        <3>1. {d \in left : Owed(d)}' = {d \in left : Owed(d)}
            BY <1>u, <1>f, <2>5 DEF IInv, PendingIsLast, TypeOK
        <3> QED
            BY <3>1, <1>u DEF IInv, AbandonedIsExact
    <2> QED
        BY <2>1, <2>3, <2>4, <2>7, <2>8, <2>9, <2>10, <2>11, <2>12, <2>13, <2>14 DEF IInv
<1> QED
    BY <1>1, <1>2 DEF Start, c

\* The command on the wire ends: what that means for the calls.
LEMMA SettledFacts ==
    ASSUME IInv, pending # None, NEW o \in {"answered", "failed"}, Settled(o), UNCHANGED queue,
           \A d \in Commands : send'[d] # "none" => send[d] # "none"
    PROVE  /\ pending \in Commands /\ up /\ pending' = None /\ held' = FALSE
           /\ call' \in [Commands -> {"idle", "queued", "running", "answered", "failed"}]
           /\ CallsInOrder'
<1>1. pending \in Commands /\ up
    BY DEF IInv, TypeOK, DownIsEmpty
<1>2. call[pending] # "idle"
    BY <1>1 DEF IInv, PendingIsLast, CallsInOrder
<1>3. /\ call' \in [Commands -> {"idle", "queued", "running", "answered", "failed"}]
      /\ \A d \in Commands : call'[d] = "idle" <=> call[d] = "idle"
    BY <1>1, <1>2 DEF IInv, TypeOK, Settled
<1>4. \A i \in DOMAIN queue : queue[i] \in Commands
    BY SeqFacts DEF IInv, TypeOK
<1>5. CallsInOrder'
    BY <1>3, <1>4 DEF IInv, CallsInOrder
<1> QED
    BY <1>1, <1>3, <1>5 DEF Settled

LEMMA GiveUpOK == ASSUME IInv, GiveUp PROVE IInv'
<1> DEFINE p == pending
<1>u. /\ UNCHANGED <<link, kind, answer, queue, send, strayKey, up, toServer, lines, given, ranOut>>
      /\ gaveUp' = gaveUp \cup {p} /\ p # None /\ Settled("failed")
      /\ left' = IF held THEN left ELSE left \cup {p}
      /\ abandoned' = IF held THEN abandoned ELSE abandoned + 1
    BY DEF GiveUp, network
<1>1. /\ p \in Commands /\ up /\ pending' = None /\ held' = FALSE /\ CallsInOrder'
      /\ call' \in [Commands -> {"idle", "queued", "running", "answered", "failed"}]
    BY <1>u, SettledFacts
<1>2. p \notin left /\ (held => ~Owed(p)) /\ (~held => Owed(p)) /\ send[p] # "none" /\ held \in BOOLEAN
    <2>1. p \notin left /\ send[p] # "none"
        BY <1>u DEF IInv, PendingIsLast
    <2>2. (held => ~Owed(p)) /\ (~held => Owed(p))
        BY <1>u DEF IInv, PendingIsLast
    <2> QED
        BY <2>1, <2>2 DEF IInv, TypeOK
<1> HIDE DEF p
<1>3. TypeOK'
    <2>1. left' \in SUBSET Commands /\ abandoned' \in Int /\ gaveUp' \in SUBSET Commands
        BY <1>u, <1>1 DEF IInv, TypeOK
    <2> QED
        BY <1>u, <1>1, <2>1 DEF IInv, TypeOK
<1>4. WireInOrder' /\ AnswersAreShaped' /\ RowsComeFirst' /\ (\A c : Owed(c)' <=> Owed(c))
    BY <1>u, SameWire DEF IInv
<1>5. RowsAreReadOnce' /\ (\A c : HasForeignRow(c)' <=> HasForeignRow(c))
    BY <1>u, SameRows DEF IInv
<1>6. PendingIsLast'
    <2>1. \A d \in Commands : Owed(d)' => d \in left'
        BY <1>u, <1>2, <1>4 DEF IInv, PendingIsLast, p
    <2>2. left' \subseteq gaveUp' /\ \A d \in left' : send'[d] # "none"
        BY <1>u, <1>2 DEF IInv, PendingIsLast
    <2> QED
        BY <2>1, <2>2, <1>1 DEF PendingIsLast
<1>7. DownIsEmpty' /\ WebIsEmpty'
    BY <1>u, <1>1, <1>5 DEF IInv, DownIsEmpty, WebIsEmpty
<1>8. LateRowsAreKnown' /\ AnswersAreItsOwn'
    BY <1>u, <1>4, <1>5 DEF IInv, LateRowsAreKnown, AnswersAreItsOwn, p
<1>9. AbandonedIsExact'
    <2> DEFINE S == {d \in left : Owed(d)}
    <2>1. S \in SUBSET Commands /\ p \notin S /\ abandoned = Cardinality(S)
        BY <1>1, <1>2 DEF IInv, TypeOK, AbandonedIsExact
    <2>2. {d \in left : Owed(d)}' = {d \in left' : Owed(d)}
        BY <1>4
    <2>3. CASE held
        BY <2>1, <2>2, <2>3, <1>u DEF AbandonedIsExact
    <2>4. CASE ~held
        <3>1. {d \in left : Owed(d)}' = S \cup {p}
            BY <2>4, <2>2, <1>u, <1>2
        <3> HIDE DEF S
        <3> QED
            BY <2>4, <3>1, <2>1, <1>u, <1>1, CountFacts DEF AbandonedIsExact
    <2> QED
        BY <2>3, <2>4, <1>2
<1> QED
    BY <1>1, <1>3, <1>4, <1>5, <1>6, <1>7, <1>8, <1>9 DEF IInv

\* With the `error` line of the command on the wire read, every row to come is its own.
LEMMA HeldFacts ==
    ASSUME IInv, held
    PROVE  /\ pending \in Commands /\ send[pending] = "sent" /\ ~Owed(pending)
           /\ \A i \in DOMAIN lines : \A d \in Commands : IsRow(lines[i], d) => d = pending
<1>1. pending \in Commands /\ send[pending] = "sent" /\ ~Owed(pending)
    BY DEF IInv, TypeOK, PendingIsLast, Owed
<1>2. ASSUME NEW i \in DOMAIN lines, NEW d \in Commands, IsRow(lines[i], d)
      PROVE  d = pending
    <2>1. send[d] = "sent"
        BY <1>2 DEF IInv, WireInOrder, IsRow, Speaks
    <2>2. d <= pending /\ ~(d < pending)
        BY <1>1, <1>2, <2>1 DEF IInv, PendingIsLast, RowsComeFirst
    <2> QED
        BY <1>1, <2>2 DEF Commands
<1> QED
    BY <1>1, <1>2

LEMMA HeldTimerOK == ASSUME IInv, HeldTimer PROVE IInv'
<1> DEFINE p == pending
<1>u. /\ UNCHANGED <<link, kind, answer, queue, send, abandoned, left, up, toServer, lines, given, gaveUp>>
      /\ p # None /\ held /\ Settled("answered")
      /\ strayKey' = IF HasOneKey(kind[p]) /\ ~HasLateRow(p) THEN KeyOf(kind[p]) ELSE strayKey
      /\ ranOut' = IF StillToCome(p) THEN ranOut \cup {p} ELSE ranOut
    BY DEF HeldTimer, network
<1>1. /\ p \in Commands /\ up /\ pending' = None /\ held' = FALSE /\ CallsInOrder'
      /\ call' \in [Commands -> {"idle", "queued", "running", "answered", "failed"}]
    BY <1>u, SettledFacts
<1>2. /\ ~Owed(p)
      /\ \A i \in DOMAIN lines : \A d \in Commands : IsRow(lines[i], d) => d = p
    BY <1>u, HeldFacts
<1>k. kind[p] \in Kinds
    BY <1>1 DEF IInv, TypeOK
<1>3. TypeOK'
    <2>1. strayKey' \in {None, "id", "other"}
        BY <1>u, <1>k, KindFacts DEF IInv, TypeOK
    <2>2. ranOut' \in SUBSET Commands
        BY <1>u, <1>1 DEF IInv, TypeOK
    <2> QED
        BY <1>u, <1>1, <2>1, <2>2 DEF IInv, TypeOK
<1>4. WireInOrder' /\ AnswersAreShaped' /\ RowsComeFirst' /\ (\A c : Owed(c)' <=> Owed(c))
    BY <1>u, SameWire DEF IInv
<1>5. RowsAreReadOnce' /\ (\A c : HasForeignRow(c)' <=> HasForeignRow(c))
    BY <1>u, SameRows DEF IInv
<1>6. PendingIsLast'
    BY <1>u, <1>1, <1>2, <1>4 DEF IInv, PendingIsLast
<1>7. DownIsEmpty' /\ WebIsEmpty'
    BY <1>u, <1>1, <1>5 DEF IInv, DownIsEmpty, WebIsEmpty
<1>8. LateRowsAreKnown'
    <2> SUFFICES ASSUME NEW i \in DOMAIN lines, IsRow(lines[i], p)
                 PROVE  /\ Late(kind[p])
                        /\ \/ HasForeignRow(p)
                           \/ p \in ranOut' /\ (Alone(kind[p]) => strayKey' = KeyOf(kind[p]))
        BY <1>u, <1>2, <1>4, <1>5 DEF LateRowsAreKnown
    <2>1. Late(kind[p])
        BY <1>1, <1>2 DEF IInv, LateRowsAreKnown
    <2>2. p \in ranOut'
        BY <1>u DEF StillToCome, IsRow
    <2>3. CASE ~Alone(kind[p])
        BY <2>1, <2>2, <2>3
    <2>4. CASE Alone(kind[p]) /\ HasLateRow(p)
        <3>1. PICK j \in DOMAIN answer[p] : TRUE
            BY <2>4 DEF HasLateRow
        <3>2. answer[p][j].of # p
            BY <1>1, <1>k, <2>4, <3>1, KindFacts DEF IInv, RowsAreReadOnce
        <3> QED
            BY <2>1, <3>2 DEF HasForeignRow
    <2>5. CASE Alone(kind[p]) /\ ~HasLateRow(p)
        <3>1. HasOneKey(kind[p])
            BY <1>k, <2>5, KindFacts DEF HasOneKey
        <3> QED
            BY <2>1, <2>2, <2>5, <3>1, <1>u
    <2> QED
        BY <2>3, <2>4, <2>5
<1>9. AnswersAreItsOwn'
    <2>1. ranOut \subseteq ranOut'
        BY <1>u
    <2> QED
        BY <1>u, <1>5, <2>1 DEF IInv, AnswersAreItsOwn
<1>10. AbandonedIsExact'
    <2>1. {d \in left : Owed(d)}' = {d \in left : Owed(d)}
        BY <1>u, <1>4
    <2> QED
        BY <2>1, <1>u DEF IInv, AbandonedIsExact
<1> QED
    BY <1>1, <1>3, <1>4, <1>5, <1>6, <1>7, <1>8, <1>9, <1>10 DEF IInv

LEMMA InstallOK == ASSUME IInv, Install PROVE IInv'
<1>u. /\ UNCHANGED <<link, kind, call, answer, queue, send, held, left, toServer, lines, given, gaveUp, ranOut>>
      /\ abandoned' = 0 /\ strayKey' = None /\ pending' = None
    BY DEF Install, network, history
<1>1. /\ pending = None /\ left = {} /\ toServer = <<>> /\ lines = <<>> /\ ~held
      /\ \A c \in Commands : send[c] # "writing"
    BY DEF IInv, DownIsEmpty, PendingIsLast, Install
<1>2. TypeOK'
    BY <1>u DEF IInv, TypeOK, Install
<1>3. CallsInOrder'
    BY <1>u DEF IInv, CallsInOrder
<1>4. WireInOrder' /\ AnswersAreShaped' /\ RowsComeFirst' /\ (\A c : Owed(c)' <=> Owed(c))
    BY <1>u, SameWire DEF IInv
<1>5. RowsAreReadOnce' /\ (\A c : HasForeignRow(c)' <=> HasForeignRow(c))
    BY <1>u, SameRows DEF IInv
<1>6. PendingIsLast'
    BY <1>u, <1>1, <1>4 DEF IInv, PendingIsLast
<1>7. DownIsEmpty' /\ WebIsEmpty'
    BY <1>u, <1>5 DEF IInv, DownIsEmpty, WebIsEmpty, Install
<1>8. LateRowsAreKnown'
    <2>1. DOMAIN lines' = {}
        BY <1>1, <1>u
    <2> QED
        BY <2>1 DEF LateRowsAreKnown
<1>9. AnswersAreItsOwn'
    BY <1>u, <1>5 DEF IInv, AnswersAreItsOwn
<1>10. AbandonedIsExact'
    <2>1. {d \in left : Owed(d)}' = {}
        BY <1>u, <1>1
    <2> QED
        BY <2>1, <1>u, CountFacts DEF AbandonedIsExact
<1> QED
    BY <1>2, <1>3, <1>4, <1>5, <1>6, <1>7, <1>8, <1>9, <1>10 DEF IInv

\* What is on the wire was sent.
LEMMA WireFacts ==
    ASSUME IInv
    PROVE  /\ Len(toServer) \in Nat /\ DOMAIN toServer = 1 .. Len(toServer)
           /\ Len(lines) \in Nat /\ DOMAIN lines = 1 .. Len(lines)
           /\ \A i \in DOMAIN toServer : toServer[i] \in Commands /\ send[toServer[i]] = "sent"
           /\ \A i \in DOMAIN lines : lines[i] \in Messages
           /\ \A i \in DOMAIN lines : Speaks(lines[i]) => lines[i].of \in Commands /\ send[lines[i].of] = "sent"
           /\ \A c : Owed(c) <=> \/ send[c] = "writing" \/ \E i \in DOMAIN toServer : toServer[i] = c
                                 \/ \E i \in DOMAIN lines : IsErr(lines[i], c)
BY SeqFacts, MessageFacts, OwedFacts DEF IInv, TypeOK, WireInOrder

LEMMA WrittenOK == ASSUME IInv, NEW c \in Commands, Written(c) PROVE IInv'
<1>u. /\ UNCHANGED <<link, kind, call, answer, queue, pending, held, abandoned, left, strayKey, up,
                     lines, given, gaveUp, ranOut>>
      /\ link = "ssh" /\ send[c] = "writing" /\ up
      /\ \A d \in 1 .. c - 1 : send[d] # "writing"
      /\ send' = [send EXCEPT ![c] = "sent"] /\ toServer' = Append(toServer, c)
    BY DEF Written, history
<1>1. \A d \in Commands : send'[d] = IF d = c THEN "sent" ELSE send[d]
    BY <1>u DEF IInv, TypeOK
<1>2. /\ toServer' \in Seq(Commands) /\ Len(toServer) \in Nat
      /\ DOMAIN toServer = 1 .. Len(toServer) /\ DOMAIN toServer' = 1 .. Len(toServer) + 1
      /\ \A i \in 1 .. Len(toServer) : toServer'[i] = toServer[i]
      /\ toServer'[Len(toServer) + 1] = c
    BY <1>u, AppendFacts DEF IInv, TypeOK
<1>3. TypeOK'
    BY <1>u, <1>2 DEF IInv, TypeOK
<1>4. CallsInOrder'
    BY <1>u, <1>1 DEF IInv, CallsInOrder
<1>5. \A d \in Commands : Owed(d)' <=> Owed(d)
    <2>1. \A d \in Commands : Owed(d)' <=> \/ send'[d] = "writing" \/ \E i \in DOMAIN toServer' : toServer'[i] = d
                                           \/ \E i \in DOMAIN lines : IsErr(lines[i], d)
        BY <1>u DEF Owed, IsErr, Range
    <2>2. ASSUME NEW d \in Commands
          PROVE  (\E i \in DOMAIN toServer' : toServer'[i] = d)
                     <=> d = c \/ \E i \in DOMAIN toServer : toServer[i] = d
        <3>1. (\E i \in DOMAIN toServer : toServer[i] = d) => \E i \in DOMAIN toServer' : toServer'[i] = d
            BY <1>2
        <3>2. d = c => \E i \in DOMAIN toServer' : toServer'[i] = d
            BY <1>2
        <3>3. ASSUME NEW i \in DOMAIN toServer', toServer'[i] = d
              PROVE  d = c \/ \E j \in DOMAIN toServer : toServer[j] = d
            BY <1>2, <3>3
        <3> QED
            BY <3>1, <3>2, <3>3
    <2> QED
        BY <2>1, <2>2, <1>1, <1>u, WireFacts
<1>6. WireInOrder'
    <2>1. \A d \in Commands : send'[d] = "writing" => send[d] = "writing" /\ c < d
        BY <1>u, <1>1 DEF Commands
    <2>2. ASSUME NEW i \in DOMAIN toServer'
          PROVE  /\ send'[toServer'[i]] = "sent" /\ \A d \in Commands : send'[d] = "writing" => toServer'[i] < d
        <3>1. CASE i = Len(toServer) + 1
            BY <3>1, <1>1, <1>2, <2>1
        <3>2. CASE i \in 1 .. Len(toServer)
            BY <3>2, <1>1, <1>2, <2>1, WireFacts DEF IInv, WireInOrder
        <3> QED
            BY <3>1, <3>2, <1>2
    <2>3. ASSUME NEW i \in DOMAIN toServer', NEW j \in DOMAIN toServer', i < j
          PROVE  toServer'[i] < toServer'[j]
        <3>1. CASE j = Len(toServer) + 1
            BY <3>1, <2>3, <1>2, <1>u DEF IInv, WireInOrder
        <3>2. CASE j \in 1 .. Len(toServer)
            BY <3>2, <2>3, <1>2 DEF IInv, WireInOrder
        <3> QED
            BY <3>1, <3>2, <1>2
    <2>4. ASSUME NEW i \in DOMAIN lines, Speaks(lines[i])
          PROVE  /\ send'[lines[i].of] = "sent"
                 /\ \A d \in Commands : send'[d] = "writing" => lines[i].of < d
                 /\ \A j \in DOMAIN toServer' : lines[i].of < toServer'[j]
        <3>1. send'[lines[i].of] = "sent" /\ lines[i].of < c
            BY <2>4, <1>1, <1>u, WireFacts DEF IInv, WireInOrder
        <3>2. \A d \in Commands : send'[d] = "writing" => lines[i].of < d
            BY <2>4, <2>1 DEF IInv, WireInOrder
        <3>3. ASSUME NEW j \in DOMAIN toServer' PROVE lines[i].of < toServer'[j]
            <4>1. CASE j = Len(toServer) + 1
                BY <4>1, <3>1, <1>2
            <4>2. CASE j \in 1 .. Len(toServer)
                BY <4>2, <2>4, <1>2 DEF IInv, WireInOrder
            <4> QED
                BY <4>1, <4>2, <1>2
        <3> QED
            BY <3>1, <3>2, <3>3
    <2>5. \A i, j \in DOMAIN lines : i < j /\ Speaks(lines[i]) /\ Speaks(lines[j]) =>
              /\ lines[i].of <= lines[j].of
              /\ lines[i].type = "error" /\ lines[j].type = "error" => lines[i].of < lines[j].of
        BY DEF IInv, WireInOrder
    <2> QED
        BY <1>u, <2>2, <2>3, <2>4, <2>5 DEF WireInOrder
<1>7. AnswersAreShaped'
    BY <1>u DEF IInv, AnswersAreShaped
<1>8. RowsComeFirst'
    <2>1. Owed(c)
        BY <1>u, WireFacts
    <2>2. \A d, e \in Commands : d < e /\ send'[d] = "writing" => send'[e] # "sent"
        BY <1>u, <1>1 DEF IInv, RowsComeFirst, Commands
    <2>3. ASSUME NEW i \in DOMAIN toServer', NEW d \in Commands, toServer'[i] < d, send'[d] = "sent"
          PROVE  Owed(d)
        <3>1. CASE i = Len(toServer) + 1
            BY <3>1, <2>3, <1>u, <1>1, <1>2 DEF IInv, RowsComeFirst, Commands
        <3>2. CASE i \in 1 .. Len(toServer)
            BY <3>2, <2>3, <2>1, <1>1, <1>2 DEF IInv, RowsComeFirst
        <3> QED
            BY <3>1, <3>2, <1>2
    <2>4. \A i \in DOMAIN lines : \A d, e \in Commands :
              IsRow(lines[i], d) /\ d < e /\ send'[e] = "sent" => Owed(e)
        BY <1>1, <2>1 DEF IInv, RowsComeFirst
    <2> QED
        BY <1>u, <1>5, <2>2, <2>3, <2>4 DEF RowsComeFirst
<1>9. PendingIsLast'
    <2>1. pending # None => pending \in Commands
        BY DEF IInv, TypeOK
    <2> QED
        BY <1>u, <1>1, <1>5, <2>1 DEF IInv, PendingIsLast, TypeOK
<1>10. DownIsEmpty' /\ WebIsEmpty' /\ (\A d : HasForeignRow(d)' <=> HasForeignRow(d))
    BY <1>u DEF IInv, DownIsEmpty, WebIsEmpty, HasForeignRow
<1>11. RowsAreReadOnce'
    <2>1. \A d \in Commands : d \notin Range(toServer) /\ send[d] = "sent" => d \notin Range(toServer') /\ send'[d] = "sent"
        <3>1. \A d \in Commands : d \in Range(toServer') => d = c \/ d \in Range(toServer)
            BY <1>2 DEF Range
        <3> QED
            BY <3>1, <1>1, <1>u
    <2> QED
        BY <2>1, <1>u DEF IInv, RowsAreReadOnce
<1>12. LateRowsAreKnown' /\ AnswersAreItsOwn'
    BY <1>u, <1>5, <1>10 DEF IInv, LateRowsAreKnown, AnswersAreItsOwn
<1>13. AbandonedIsExact'
    <2>1. {d \in left : Owed(d)}' = {d \in left : Owed(d)}
        BY <1>u, <1>5 DEF IInv, TypeOK
    <2> QED
        BY <2>1, <1>u DEF IInv, AbandonedIsExact
<1> QED
    BY <1>3, <1>4, <1>6, <1>7, <1>8, <1>9, <1>10, <1>11, <1>12, <1>13 DEF IInv

LEMMA SendFailsOK == ASSUME IInv, NEW c \in Commands, SendFails(c) PROVE IInv'
<1>u. /\ UNCHANGED <<link, kind, answer, queue, strayKey, up, toServer, lines, given, gaveUp, ranOut>>
      /\ send[c] = "writing" /\ up /\ send' = [send EXCEPT ![c] = "failed"]
      /\ c = pending => Settled("failed")
      /\ c # pending => UNCHANGED <<call, pending, held>>
      /\ abandoned' = IF c \in left THEN abandoned - 1 ELSE abandoned
      /\ left' = left \ {c}
    BY DEF SendFails, network, history
<1>1. \A d \in Commands : send'[d] = IF d = c THEN "failed" ELSE send[d]
    BY <1>u DEF IInv, TypeOK
<1>2. /\ CallsInOrder'
      /\ call' \in [Commands -> {"idle", "queued", "running", "answered", "failed"}]
      /\ pending' = IF c = pending THEN None ELSE pending
      /\ c = pending => held' = FALSE
    <2>1. CASE c = pending
        <3>1. pending # None /\ \A d \in Commands : send'[d] # "none" => send[d] # "none"
            BY <2>1, <1>1, <1>u, KindFacts
        <3> QED
            BY <2>1, <3>1, <1>u, SettledFacts
    <2>2. CASE c # pending
        BY <2>2, <1>u, <1>1 DEF IInv, TypeOK, CallsInOrder
    <2> QED
        BY <2>1, <2>2
<1>3. TypeOK'
    <2>1. send' \in [Commands -> {"none", "writing", "sent", "failed"}]
        BY <1>u DEF IInv, TypeOK
    <2>2. held' \in BOOLEAN /\ pending' \in Commands \cup {None}
        BY <1>u, <1>2 DEF IInv, TypeOK
    <2>3. abandoned' \in Int /\ left' \in SUBSET Commands
        BY <1>u DEF IInv, TypeOK
    <2> QED
        BY <1>u, <1>2, <2>1, <2>2, <2>3 DEF IInv, TypeOK
<1>4. Owed(c) /\ \A d \in Commands : Owed(d)' <=> Owed(d) /\ d # c
    <2>1. \A d : Owed(d)' <=> \/ send'[d] = "writing" \/ \E i \in DOMAIN toServer : toServer[i] = d
                              \/ \E i \in DOMAIN lines : IsErr(lines[i], d)
        BY <1>u DEF Owed, IsErr, Range
    <2>2. (\A i \in DOMAIN toServer : toServer[i] # c) /\ (\A i \in DOMAIN lines : ~IsErr(lines[i], c))
        BY <1>u, WireFacts DEF IsErr, Speaks
    <2> QED
        BY <2>1, <2>2, <1>1, <1>u, WireFacts
<1>5. WireInOrder'
    <2>1. \A d \in Commands : (send'[d] = "writing" => send[d] = "writing") /\ (send[d] = "sent" => send'[d] = "sent")
        BY <1>u, <1>1
    <2> QED
        BY <1>u, <2>1, WireFacts DEF IInv, WireInOrder
<1>6. AnswersAreShaped'
    BY <1>u DEF IInv, AnswersAreShaped
<1>7. RowsComeFirst'
    BY <1>u, <1>1, <1>4 DEF IInv, RowsComeFirst
<1>8. PendingIsLast'
    <2>1. \A d \in Commands : Owed(d)' => d \in left' \/ d = pending'
        BY <1>u, <1>2, <1>4 DEF IInv, PendingIsLast
    <2>2. left' \subseteq gaveUp' /\ \A d \in left' : send'[d] # "none"
        BY <1>u, <1>1 DEF IInv, PendingIsLast, TypeOK
    <2>3. CASE c = pending
        BY <2>1, <2>2, <2>3, <1>2 DEF PendingIsLast
    <2>4. CASE c # pending
        <3>1. pending' = pending /\ held' = held /\ (pending # None => pending \in Commands)
            BY <2>4, <1>u DEF IInv, TypeOK
        <3>2. pending # None => (Owed(pending)' <=> Owed(pending))
            BY <2>4, <3>1, <1>4
        <3>3. pending # None => /\ send'[pending] \in {"writing", "sent"} /\ pending \notin left'
                                /\ \A d \in Commands : send'[d] # "none" => d <= pending
            BY <2>4, <3>1, <1>u, <1>1 DEF IInv, PendingIsLast
        <3>4. (pending # None => held \/ Owed(pending)) /\ (held => pending # None /\ ~Owed(pending))
            BY DEF IInv, PendingIsLast
        <3> QED
            BY <2>1, <2>2, <3>1, <3>2, <3>3, <3>4 DEF PendingIsLast
    <2> QED
        BY <2>3, <2>4
<1>9. \A d : HasForeignRow(d)' <=> HasForeignRow(d)
    BY <1>u DEF HasForeignRow
<1>10. DownIsEmpty' /\ WebIsEmpty'
    <2>1. link = "web" => held' = FALSE
        BY <1>u, <1>2 DEF IInv, WebIsEmpty
    <2> QED
        BY <1>u, <1>9, <2>1 DEF IInv, DownIsEmpty, WebIsEmpty
<1>11. RowsAreReadOnce'
    BY <1>u, <1>1 DEF IInv, RowsAreReadOnce
<1>12. LateRowsAreKnown'
    <2>1. \A i \in DOMAIN lines : \A d \in Commands : IsRow(lines[i], d) => d # c
        BY <1>u, WireFacts DEF IsRow, Speaks
    <2> QED
        BY <1>u, <1>2, <1>4, <1>9, <2>1 DEF IInv, LateRowsAreKnown
<1>13. AnswersAreItsOwn'
    BY <1>u, <1>9 DEF IInv, AnswersAreItsOwn
<1>14. AbandonedIsExact'
    <2> DEFINE S == {d \in left : Owed(d)}
    <2>1. S \in SUBSET Commands /\ abandoned = Cardinality(S) /\ (c \in S <=> c \in left)
        BY <1>u, <1>4 DEF IInv, TypeOK, AbandonedIsExact
    <2>2. {d \in left : Owed(d)}' = S \ {c}
        BY <1>u, <1>4 DEF IInv, TypeOK
    <2> HIDE DEF S
    <2>3. CASE c \in left
        BY <2>1, <2>2, <2>3, <1>u, CountFacts DEF AbandonedIsExact
    <2>4. CASE c \notin left
        <3>1. S \ {c} = S
            BY <2>4, <2>1
        <3> QED
            BY <2>1, <2>2, <2>4, <3>1, <1>u DEF AbandonedIsExact
    <2> QED
        BY <2>3, <2>4
<1> QED
    BY <1>2, <1>3, <1>5, <1>6, <1>7, <1>8, <1>10, <1>11, <1>12, <1>13, <1>14 DEF IInv

LEMMA DropOK == ASSUME IInv, Drop PROVE IInv'
<1>u. /\ UNCHANGED <<link, kind, answer, strayKey, given, gaveUp, ranOut>>
      /\ call' = [c \in Commands |-> IF call[c] \in {"queued", "running"} THEN "failed" ELSE call[c]]
      /\ send' = [c \in Commands |-> IF send[c] = "writing" THEN "failed" ELSE send[c]]
      /\ up' = FALSE /\ queue' = <<>> /\ pending' = None /\ held' = FALSE /\ left' = {}
      /\ abandoned' = abandoned - Cardinality({c \in left : send[c] = "writing"})
      /\ toServer' = <<>> /\ lines' = <<>>
    BY DEF Drop, history
<1>1. DOMAIN lines' = {} /\ DOMAIN toServer' = {} /\ DOMAIN queue' = {} /\ Range(toServer') = {}
    BY <1>u DEF Range
<1>2. \A c \in Commands : /\ call'[c] = "idle" <=> call[c] = "idle"
                          /\ send'[c] # "writing" /\ (send'[c] # "none" <=> send[c] # "none")
                          /\ send[c] = "sent" => send'[c] = "sent"
    BY <1>u
<1>3. TypeOK'
    <2>1. /\ call' \in [Commands -> {"idle", "queued", "running", "answered", "failed"}]
          /\ send' \in [Commands -> {"none", "writing", "sent", "failed"}]
        BY <1>u DEF IInv, TypeOK
    <2>2. queue' \in Seq(Commands) /\ toServer' \in Seq(Commands) /\ lines' \in Seq(Messages)
        BY <1>u
    <2>3. abandoned' \in Int
        <3>1. {c \in left : send[c] = "writing"} \in SUBSET Commands /\ abandoned \in Int
            BY DEF IInv, TypeOK
        <3> QED
            BY <1>u, <3>1, CountFacts
    <2>4. /\ held' \in BOOLEAN /\ up' \in BOOLEAN /\ pending' \in Commands \cup {None}
          /\ left' \in SUBSET Commands
        BY <1>u
    <2> QED
        BY <1>u, <2>1, <2>2, <2>3, <2>4 DEF IInv, TypeOK
<1>4. CallsInOrder'
    BY <1>1, <1>2 DEF IInv, CallsInOrder
<1>5. WireInOrder' /\ AnswersAreShaped' /\ RowsComeFirst' /\ LateRowsAreKnown'
    BY <1>1, <1>2 DEF WireInOrder, AnswersAreShaped, RowsComeFirst, LateRowsAreKnown
<1>6. \A c \in Commands : ~Owed(c)'
    BY <1>1, <1>2 DEF Owed
<1>7. \A d : HasForeignRow(d)' <=> HasForeignRow(d)
    BY <1>u DEF HasForeignRow
<1>8. PendingIsLast'
    BY <1>u, <1>6 DEF PendingIsLast
<1>9. DownIsEmpty' /\ WebIsEmpty'
    BY <1>u, <1>2, <1>7 DEF IInv, DownIsEmpty, WebIsEmpty
<1>10. RowsAreReadOnce'
    BY <1>u, <1>1, <1>2 DEF IInv, RowsAreReadOnce
<1>11. AnswersAreItsOwn' /\ AbandonedIsExact'
    BY <1>u, <1>7 DEF IInv, AnswersAreItsOwn, AbandonedIsExact
<1> QED
    BY <1>3, <1>4, <1>5, <1>8, <1>9, <1>10, <1>11 DEF IInv

----------------------------------------------------------------------------
(* The server.                                                             *)

LEMMA ServerNotifiesOK == ASSUME IInv, ServerNotifies PROVE IInv'
<1>u. /\ UNCHANGED <<link, kind, call, answer, queue, send, pending, held, abandoned, left, strayKey, up,
                     toServer, given, gaveUp, ranOut>>
      /\ link = "ssh" /\ up /\ lines' = Append(lines, Note)
    BY DEF ServerNotifies, client, history
<1>1. /\ lines' \in Seq(Messages) /\ Len(lines) \in Nat
      /\ DOMAIN lines = 1 .. Len(lines) /\ DOMAIN lines' = 1 .. Len(lines) + 1
      /\ \A i \in 1 .. Len(lines) : lines'[i] = lines[i]
      /\ lines'[Len(lines) + 1] = Note
    BY <1>u, AppendFacts, NoteFacts DEF IInv, TypeOK
<1>2. \A i \in DOMAIN lines' : lines'[i].type \in {"row", "error"} => i \in DOMAIN lines /\ lines'[i] = lines[i]
    <2>1. ASSUME NEW i \in DOMAIN lines', i \notin DOMAIN lines PROVE lines'[i].type = "notify"
        BY <1>1, <2>1, NoteFacts
    <2> QED
        BY <2>1, <1>1
<1>s. \A i \in DOMAIN lines' : Speaks(lines'[i]) => i \in DOMAIN lines /\ lines'[i] = lines[i]
    BY <1>2 DEF Speaks
<1>3. \A i \in DOMAIN lines' : \A c \in Commands :
          /\ IsRow(lines'[i], c) => i \in DOMAIN lines /\ lines'[i] = lines[i] /\ IsRow(lines[i], c)
          /\ IsErr(lines'[i], c) => i \in DOMAIN lines /\ lines'[i] = lines[i] /\ IsErr(lines[i], c)
    BY <1>2 DEF Speaks, IsRow, IsErr
<1>4. \A i \in DOMAIN lines : i \in DOMAIN lines' /\ lines'[i] = lines[i]
    BY <1>1
<1> HIDE <1>1
<1>5. TypeOK'
    BY <1>u, <1>1 DEF IInv, TypeOK
<1>6. CallsInOrder'
    BY <1>u DEF IInv, CallsInOrder
<1>7. \A c \in Commands : Owed(c)' <=> Owed(c)
    <2>1. \A c \in Commands : Owed(c)' <=> \/ send[c] = "writing" \/ c \in Range(toServer)
                                           \/ \E i \in DOMAIN lines' : IsErr(lines'[i], c)
        BY <1>u DEF Owed, IsErr
    <2>2. \A c \in Commands : Owed(c) <=> \/ send[c] = "writing" \/ c \in Range(toServer)
                                          \/ \E i \in DOMAIN lines : IsErr(lines[i], c)
        BY DEF Owed, IsErr
    <2> QED
        BY <2>1, <2>2, <1>3, <1>4
<1>8. WireInOrder'
    <2>1. \A i \in DOMAIN lines' : Speaks(lines'[i]) =>
              /\ send[lines'[i].of] = "sent"
              /\ \A c \in Commands : send[c] = "writing" => lines'[i].of < c
              /\ \A j \in DOMAIN toServer : lines'[i].of < toServer[j]
        BY <1>s DEF IInv, WireInOrder
    <2>2. \A i, j \in DOMAIN lines' : i < j /\ Speaks(lines'[i]) /\ Speaks(lines'[j]) =>
              /\ lines'[i].of <= lines'[j].of
              /\ lines'[i].type = "error" /\ lines'[j].type = "error" => lines'[i].of < lines'[j].of
        BY <1>s DEF IInv, WireInOrder
    <2> QED
        BY <1>u, <2>1, <2>2 DEF IInv, WireInOrder
<1>9. AnswersAreShaped'
    BY <1>u, <1>3 DEF IInv, AnswersAreShaped
<1>10. RowsComeFirst'
    BY <1>u, <1>3, <1>7 DEF IInv, RowsComeFirst
<1>11. PendingIsLast'
    <2>1. pending # None => pending \in Commands
        BY DEF IInv, TypeOK
    <2> QED
        BY <1>u, <1>7, <2>1 DEF IInv, PendingIsLast
<1>12. DownIsEmpty' /\ WebIsEmpty' /\ (\A c : HasForeignRow(c)' <=> HasForeignRow(c))
    BY <1>u DEF IInv, DownIsEmpty, WebIsEmpty, HasForeignRow
<1>13. RowsAreReadOnce'
    BY <1>u, <1>3 DEF IInv, RowsAreReadOnce
<1>14. LateRowsAreKnown' /\ AnswersAreItsOwn'
    BY <1>u, <1>3, <1>7, <1>12 DEF IInv, LateRowsAreKnown, AnswersAreItsOwn
<1>15. AbandonedIsExact'
    <2>1. {d \in left : Owed(d)}' = {d \in left : Owed(d)}
        BY <1>u, <1>7 DEF IInv, TypeOK
    <2> QED
        BY <2>1, <1>u DEF IInv, AbandonedIsExact
<1> QED
    BY <1>5, <1>6, <1>8, <1>9, <1>10, <1>11, <1>12, <1>13, <1>14, <1>15 DEF IInv

LEMMA WebAnswersOK == ASSUME IInv, WebAnswers PROVE IInv'
<1> DEFINE p == pending
<1>u. /\ UNCHANGED <<link, kind, queue, left, up, toServer, lines, gaveUp, ranOut>>
      /\ link = "web" /\ p # None /\ send[p] = "writing" /\ up
      /\ \A c \in left : send[c] # "writing"
      /\ send' = [send EXCEPT ![p] = "sent"]
    BY DEF WebAnswers, history
<1>1. /\ p \in Commands /\ lines = <<>> /\ toServer = <<>> /\ DOMAIN lines = {} /\ DOMAIN toServer = {}
      /\ Range(toServer) = {} /\ \A c \in Commands : ~HasForeignRow(c)
    BY <1>u DEF IInv, TypeOK, WebIsEmpty, Range
<1>2. \A d \in Commands : send'[d] = IF d = p THEN "sent" ELSE send[d]
    BY <1>u, <1>1 DEF IInv, TypeOK
<1>3. \A d \in Commands : ~Owed(d)' /\ send'[d] # "writing" /\ (d \in left => ~Owed(d))
    <2>1. \A d \in Commands : (Owed(d) <=> send[d] = "writing") /\ (Owed(d)' <=> send'[d] = "writing")
        BY <1>1, <1>u DEF Owed
    <2> QED
        BY <2>1, <1>2, <1>u DEF IInv, PendingIsLast
<1>4. abandoned = 0
    <2>1. {d \in left : Owed(d)} = {}
        BY <1>3 DEF IInv, TypeOK
    <2> QED
        BY <2>1, <1>u, CountFacts DEF IInv, AbandonedIsExact
<1>5. PICK o \in {"answered", "failed"} :
          /\ Settled(o) /\ strayKey' = None /\ abandoned' = 0
          /\ \/ UNCHANGED <<answer, given>>
             \/ \E n \in RowCounts(kind[p]) :
                  /\ answer' = [answer EXCEPT ![p] = [i \in 1 .. n |-> Row(p, i)]]
                  /\ given' = [given EXCEPT ![p] = n]
    BY <1>4 DEF WebAnswers
<1>s. strayKey' = None /\ abandoned' = 0
    BY <1>5
<1>6. /\ pending' = None /\ held' = FALSE /\ CallsInOrder'
      /\ call' \in [Commands -> {"idle", "queued", "running", "answered", "failed"}]
    <2>1. \A d \in Commands : send'[d] # "none" => send[d] # "none"
        BY <1>2, <1>u
    <2> QED
        BY <2>1, <1>u, <1>5, SettledFacts
<1>7. /\ answer' \in [Commands -> Seq(Rows)] /\ given' \in [Commands -> Nat]
      /\ \A c \in Commands : \A i \in DOMAIN answer'[c] :
            answer'[c][i].of = c /\ (c = p \/ (i \in DOMAIN answer[c] /\ answer'[c][i] = answer[c][i]))
    <2>1. CASE UNCHANGED <<answer, given>>
        <3>1. \A c \in Commands : \A i \in DOMAIN answer[c] : answer[c][i].of = c
            BY <1>1 DEF HasForeignRow
        <3> QED
            BY <2>1, <3>1 DEF IInv, TypeOK
    <2>2. ASSUME NEW n \in RowCounts(kind[p]),
                 answer' = [answer EXCEPT ![p] = [i \in 1 .. n |-> Row(p, i)]],
                 given' = [given EXCEPT ![p] = n]
          PROVE  /\ answer' \in [Commands -> Seq(Rows)] /\ given' \in [Commands -> Nat]
                 /\ \A c \in Commands : \A i \in DOMAIN answer'[c] :
                       answer'[c][i].of = c /\ (c = p \/ (i \in DOMAIN answer[c] /\ answer'[c][i] = answer[c][i]))
        <3>1. n \in Nat
            <4>1. kind[p] \in Kinds
                BY <1>1 DEF IInv, TypeOK
            <4> QED
                BY <4>1, <2>2, CommandsAssumption DEF RowCounts, Kinds
        <3> DEFINE a == [i \in 1 .. n |-> Row(p, i)]
        <3>2. \A i \in 1 .. n : Row(p, i) \in Rows /\ Row(p, i).of = p
            BY <1>1, <3>1 DEF Row, Rows
        <3>3. a \in Seq(Rows) /\ DOMAIN a = 1 .. n /\ \A i \in 1 .. n : a[i].of = p
            BY <3>1, <3>2
        <3> HIDE DEF a
        <3>4. answer' = [answer EXCEPT ![p] = a]
            BY <2>2 DEF a
        <3>5. answer' \in [Commands -> Seq(Rows)] /\ given' \in [Commands -> Nat]
            <4>1. answer' \in [Commands -> Seq(Rows)]
                BY <3>3, <3>4 DEF IInv, TypeOK
            <4>2. given' \in [Commands -> Nat]
                BY <2>2, <3>1 DEF IInv, TypeOK
            <4> QED
                BY <4>1, <4>2
        <3>6. \A c \in Commands : answer'[c] = IF c = p THEN a ELSE answer[c]
            BY <3>4 DEF IInv, TypeOK
        <3>7. ASSUME NEW c \in Commands, NEW i \in DOMAIN answer'[c]
              PROVE  answer'[c][i].of = c /\ (c = p \/ (i \in DOMAIN answer[c] /\ answer'[c][i] = answer[c][i]))
            <4>1. CASE c = p
                <5>1. answer'[c] = a /\ i \in DOMAIN a
                    BY <4>1, <3>6
                <5>2. a[i].of = p
                    BY <5>1, <3>3
                <5> QED
                    BY <4>1, <5>1, <5>2
            <4>2. CASE c # p
                BY <4>2, <3>6, <1>1 DEF HasForeignRow
            <4> QED
                BY <4>1, <4>2
        <3> QED
            BY <3>5, <3>7
    <2> QED
        BY <1>5, <2>1, <2>2
<1> HIDE DEF p
<1>8. TypeOK'
    <2>1. send' \in [Commands -> {"none", "writing", "sent", "failed"}]
        BY <1>u DEF IInv, TypeOK
    <2>2. held' \in BOOLEAN /\ pending' \in Commands \cup {None}
        BY <1>6
    <2>3. abandoned' \in Int /\ strayKey' \in {None, "id", "other"}
        BY <1>s
    <2> QED
        BY <1>u, <1>6, <1>7, <2>1, <2>2, <2>3 DEF IInv, TypeOK
<1>9. WireInOrder' /\ AnswersAreShaped' /\ RowsComeFirst' /\ LateRowsAreKnown'
    BY <1>u, <1>1, <1>3 DEF WireInOrder, AnswersAreShaped, RowsComeFirst, LateRowsAreKnown
<1>10. PendingIsLast'
    BY <1>u, <1>2, <1>3, <1>6 DEF IInv, PendingIsLast, TypeOK
<1>11. \A c \in Commands : ~HasForeignRow(c)'
    BY <1>7 DEF HasForeignRow
<1>12. DownIsEmpty' /\ WebIsEmpty'
    BY <1>u, <1>1, <1>6, <1>11 DEF DownIsEmpty, WebIsEmpty
<1>13. RowsAreReadOnce'
    <2>1. ASSUME NEW c \in Commands, NEW i \in DOMAIN answer'[c] PROVE send'[c] = "sent"
        BY <1>2, <1>7 DEF IInv, RowsAreReadOnce
    <2> QED
        BY <2>1, <1>u, <1>1, <1>7 DEF RowsAreReadOnce
<1>14. AnswersAreItsOwn'
    BY <1>7 DEF AnswersAreItsOwn
<1>15. AbandonedIsExact'
    <2>1. {d \in left : Owed(d)}' = {}
        BY <1>u, <1>3 DEF IInv, TypeOK
    <2> QED
        BY <2>1, <1>5, CountFacts DEF AbandonedIsExact
<1> QED
    BY <1>6, <1>8, <1>9, <1>10, <1>12, <1>13, <1>14, <1>15 DEF IInv

\* The answer to command c comes behind everything on the line: m lines, the k-th of them
\* the `error` line.
Arrives(c, m, k) ==
    /\ UNCHANGED <<link, kind, client, history>> /\ given' \in [Commands -> Nat]
    /\ toServer # <<>> /\ c = Head(toServer) /\ toServer' = Tail(toServer)
    /\ lines' \in Seq(Messages) /\ DOMAIN lines' = 1 .. Len(lines) + m
    /\ \A i \in 1 .. Len(lines) : lines'[i] = lines[i]
    /\ \A j \in 1 .. m : /\ Speaks(lines'[Len(lines) + j]) /\ lines'[Len(lines) + j].of = c
                         /\ lines'[Len(lines) + j].type = IF j = k THEN "error" ELSE "row"
    /\ k < m => lines'[Len(lines) + k].ok /\ Late(kind[c])
    /\ 1 < k /\ k < m => kind[c] = "several"
    /\ kind[c] \in One => m <= 2

LEMMA AnswerArrives ==
    ASSUME IInv, NEW c \in Commands, NEW m \in Nat \ {0}, NEW k \in 1 .. m, Arrives(c, m, k)
    PROVE  IInv'
<1> DEFINE L == Len(lines)
<1>u. UNCHANGED <<link, kind, call, answer, queue, send, pending, held, abandoned, left, strayKey, up, gaveUp, ranOut>>
    BY DEF Arrives, client, history
<1>a. DOMAIN lines' = 1 .. L + m /\ toServer # <<>>
    BY DEF Arrives
<1>1. /\ toServer' \in Seq(Commands) /\ Len(toServer) \in Nat \ {0} /\ c = toServer[1]
      /\ 1 \in DOMAIN toServer /\ DOMAIN toServer = 1 .. Len(toServer) /\ DOMAIN toServer' = 1 .. Len(toServer) - 1
      /\ \A i \in 1 .. Len(toServer) - 1 : toServer'[i] = toServer[i + 1]
    BY TailFacts DEF Arrives, IInv, TypeOK
<1>2. /\ L \in Nat /\ DOMAIN lines = 1 .. L /\ send[c] = "sent"
      /\ \A i \in DOMAIN toServer : toServer[i] \in Commands
      /\ \A i \in DOMAIN lines : Speaks(lines[i]) => lines[i].of \in Commands
    BY <1>1, WireFacts
<1>3. \A i \in DOMAIN lines : Speaks(lines[i]) => lines[i].of < c
    BY <1>1 DEF IInv, WireInOrder
<1>c. \A d \in Commands : (send[d] = "writing" => c < d) /\ (c < d /\ send[d] = "sent" => Owed(d))
    BY <1>1 DEF IInv, WireInOrder, RowsComeFirst
<1>4. \A i \in DOMAIN toServer' : toServer'[i] \in Commands /\ c < toServer'[i]
    <2>1. ASSUME NEW i \in DOMAIN toServer' PROVE toServer'[i] \in Commands /\ c < toServer'[i]
        <3>1. 1 \in DOMAIN toServer /\ i + 1 \in DOMAIN toServer /\ 1 < i + 1 /\ toServer'[i] = toServer[i + 1]
            BY <1>1
        <3>2. toServer[1] < toServer[i + 1]
            BY <3>1 DEF IInv, WireInOrder
        <3> QED
            BY <3>1, <3>2, <1>1, <1>2
    <2> QED
        BY <2>1
\* Every line that came is an earlier one, or one of the answer.
<1>5. \A i \in DOMAIN lines' : \/ i \in DOMAIN lines /\ i <= L /\ lines'[i] = lines[i]
                               \/ /\ i > L /\ Speaks(lines'[i]) /\ lines'[i].of = c
                                  /\ lines'[i].type = IF i = L + k THEN "error" ELSE "row"
    <2>1. ASSUME NEW i \in DOMAIN lines', i > L
          PROVE  /\ Speaks(lines'[i]) /\ lines'[i].of = c
                 /\ lines'[i].type = IF i = L + k THEN "error" ELSE "row"
        <3>1. i \in 1 .. L + m
            BY <2>1 DEF Arrives
        <3> HIDE DEF L
        <3>2. i - L \in 1 .. m /\ L + (i - L) = i /\ (i - L = k <=> i = L + k)
            BY <3>1, <2>1, <1>2
        <3> QED
            BY <3>2 DEF Arrives, L
    <2> QED
        BY <2>1, <1>2 DEF Arrives
<1>6. /\ \A i \in DOMAIN lines : i \in DOMAIN lines' /\ lines'[i] = lines[i]
      /\ L + k \in DOMAIN lines' /\ L + k > L
    BY <1>2 DEF Arrives
<1>o. \A i \in DOMAIN lines : \A d \in Commands : IsErr(lines[i], d) \/ IsRow(lines[i], d) => d < c
    BY <1>3 DEF IsErr, IsRow, Speaks
<1>7. \A d \in Commands : \A i \in DOMAIN lines' :
          /\ IsErr(lines'[i], d) <=> \/ d # c /\ i \in DOMAIN lines /\ IsErr(lines[i], d)
                                     \/ d = c /\ i = L + k
          /\ IsRow(lines'[i], d) <=> \/ d # c /\ i \in DOMAIN lines /\ IsRow(lines[i], d)
                                     \/ d = c /\ i > L /\ i # L + k
    <2>1. ASSUME NEW d \in Commands, NEW i \in DOMAIN lines', i <= L
          PROVE  /\ IsErr(lines'[i], d) <=> d # c /\ IsErr(lines[i], d)
                 /\ IsRow(lines'[i], d) <=> d # c /\ IsRow(lines[i], d)
                 /\ i \in DOMAIN lines
        <3>1. i \in DOMAIN lines /\ lines'[i] = lines[i]
            BY <2>1, <1>2, <1>a, <1>5
        <3>2. IsErr(lines[i], d) \/ IsRow(lines[i], d) => d # c
            BY <3>1, <1>o DEF Commands
        <3> QED
            BY <3>1, <3>2
    <2>2. ASSUME NEW d \in Commands, NEW i \in DOMAIN lines', i > L
          PROVE  /\ IsErr(lines'[i], d) <=> d = c /\ i = L + k
                 /\ IsRow(lines'[i], d) <=> d = c /\ i # L + k
                 /\ i \notin DOMAIN lines
        BY <2>2, <1>2, <1>5 DEF IsErr, IsRow
    <2> QED
        <3>1. \A i \in DOMAIN lines' : i <= L \/ i > L
            BY <1>2, <1>a
        <3> QED
            BY <2>1, <2>2, <3>1
<1>8. Owed(c)' /\ Owed(c) /\ \A d \in Commands : Owed(d)' <=> Owed(d)
    <2>1. \A d : /\ Owed(d)' <=> \/ send[d] = "writing" \/ (\E i \in DOMAIN toServer' : toServer'[i] = d)
                                 \/ \E i \in DOMAIN lines' : IsErr(lines'[i], d)
                 /\ Owed(d) <=> \/ send[d] = "writing" \/ (\E i \in DOMAIN toServer : toServer[i] = d)
                                \/ \E i \in DOMAIN lines : IsErr(lines[i], d)
        BY <1>u DEF Owed, IsErr, Range
    <2>2. Owed(c)' /\ Owed(c)
        BY <2>1, <1>1, <1>6, <1>7
    <2>3. ASSUME NEW d \in Commands, d # c
          PROVE  (\E i \in DOMAIN toServer' : toServer'[i] = d) <=> (\E i \in DOMAIN toServer : toServer[i] = d)
        <3>1. ASSUME NEW i \in DOMAIN toServer, toServer[i] = d PROVE \E j \in DOMAIN toServer' : toServer'[j] = d
            <4>1. i # 1 /\ i - 1 \in DOMAIN toServer' /\ toServer'[i - 1] = toServer[i]
                BY <3>1, <2>3, <1>1
            <4> QED
                BY <4>1, <3>1
        <3>2. ASSUME NEW i \in DOMAIN toServer', toServer'[i] = d PROVE \E j \in DOMAIN toServer : toServer[j] = d
            <4>1. i + 1 \in DOMAIN toServer /\ toServer[i + 1] = toServer'[i]
                BY <1>1
            <4> QED
                BY <4>1, <3>2
        <3> QED
            BY <3>1, <3>2
    <2>4. ASSUME NEW d \in Commands, d # c
          PROVE  (\E i \in DOMAIN lines' : IsErr(lines'[i], d)) <=> (\E i \in DOMAIN lines : IsErr(lines[i], d))
        BY <2>4, <1>6, <1>7
    <2> QED
        BY <2>1, <2>2, <2>3, <2>4
<1> HIDE DEF L
<1>9. TypeOK'
    BY <1>u, <1>1 DEF Arrives, IInv, TypeOK
<1>10. CallsInOrder'
    BY <1>u DEF IInv, CallsInOrder
<1>11. WireInOrder'
    <2>1. \A i \in DOMAIN toServer' : /\ send[toServer'[i]] = "sent"
                                      /\ \A d \in Commands : send[d] = "writing" => toServer'[i] < d
        BY <1>1 DEF IInv, WireInOrder
    <2>2. \A i, j \in DOMAIN toServer' : i < j => toServer'[i] < toServer'[j]
        <3>1. /\ \A i \in DOMAIN toServer' : i + 1 \in DOMAIN toServer /\ toServer'[i] = toServer[i + 1]
              /\ \A i, j \in DOMAIN toServer' : i < j => i + 1 < j + 1
            BY <1>1
        <3> QED
            BY <3>1 DEF IInv, WireInOrder
    <2>3. ASSUME NEW i \in DOMAIN lines', Speaks(lines'[i])
          PROVE  /\ send[lines'[i].of] = "sent"
                 /\ \A d \in Commands : send[d] = "writing" => lines'[i].of < d
                 /\ \A j \in DOMAIN toServer' : lines'[i].of < toServer'[j]
        <3>1. CASE lines'[i].of = c
            BY <3>1, <1>2, <1>4, <1>c
        <3>2. CASE i \in DOMAIN lines /\ lines'[i] = lines[i]
            <4>1. lines[i].of < c /\ lines[i].of \in Commands
                BY <3>2, <2>3, <1>2, <1>3
            <4>2. \A j \in DOMAIN toServer' : lines[i].of < toServer'[j]
                BY <4>1, <1>4 DEF Commands
            <4>3. send[lines[i].of] = "sent" /\ \A d \in Commands : send[d] = "writing" => lines[i].of < d
                BY <3>2, <2>3 DEF IInv, WireInOrder
            <4> QED
                BY <3>2, <4>2, <4>3
        <3> QED
            BY <3>1, <3>2, <1>5
    <2>4. ASSUME NEW i \in DOMAIN lines', NEW j \in DOMAIN lines', i < j, Speaks(lines'[i]), Speaks(lines'[j])
          PROVE  /\ lines'[i].of <= lines'[j].of
                 /\ lines'[i].type = "error" /\ lines'[j].type = "error" => lines'[i].of < lines'[j].of
        <3>1. CASE j <= L
            <4>1. i \in DOMAIN lines /\ lines'[i] = lines[i] /\ j \in DOMAIN lines /\ lines'[j] = lines[j]
                BY <3>1, <2>4, <1>2, <1>a, <1>5
            <4> QED
                BY <2>4, <4>1 DEF IInv, WireInOrder
        <3>2. CASE i <= L /\ j > L
            <4>1. lines'[i].of < c /\ lines'[j].of = c /\ lines'[i].of \in Commands
                BY <3>2, <2>4, <1>2, <1>a, <1>3, <1>5
            <4> QED
                BY <4>1 DEF Commands
        <3>3. CASE i > L
            BY <3>3, <2>4, <1>2, <1>a, <1>5 DEF Commands
        <3> QED
            BY <3>1, <3>2, <3>3, <1>2, <1>a, <2>4
    <2> QED
        BY <1>u, <2>1, <2>2, <2>3, <2>4 DEF WireInOrder
<1>12. AnswersAreShaped'
    <2>1. ASSUME NEW i \in DOMAIN lines', NEW j \in DOMAIN lines', NEW d \in Commands,
                 i < j, IsErr(lines'[i], d), IsRow(lines'[j], d)
          PROVE  lines'[i].ok /\ Late(kind[d])
        <3>1. CASE d = c
            <4>1. i = L + k /\ j > L /\ j \in 1 .. L + m
                BY <3>1, <2>1, <1>7 DEF Arrives, L
            <4>2. k < m
                BY <4>1, <2>1, <1>2
            <4> QED
                BY <3>1, <4>1, <4>2 DEF Arrives, L
        <3>2. CASE d # c
            BY <3>2, <2>1, <1>6, <1>7 DEF IInv, AnswersAreShaped
        <3> QED
            BY <3>1, <3>2
    <2>2. ASSUME NEW i \in DOMAIN lines', NEW j \in DOMAIN lines', NEW h \in DOMAIN lines', NEW d \in Commands,
                 i < j, j < h, IsRow(lines'[i], d), IsErr(lines'[j], d), IsRow(lines'[h], d)
          PROVE  kind[d] = "several"
        <3>1. CASE d = c
            <4>1. j = L + k /\ i > L /\ i \in 1 .. L + m /\ h \in 1 .. L + m
                BY <3>1, <2>2, <1>7 DEF Arrives, L
            <4>2. 1 < k /\ k < m
                BY <4>1, <2>2, <1>2
            <4> QED
                BY <3>1, <4>2 DEF Arrives
        <3>2. CASE d # c
            BY <3>2, <2>2, <1>6, <1>7 DEF IInv, AnswersAreShaped
        <3> QED
            BY <3>1, <3>2
    <2>3. ASSUME NEW i \in DOMAIN lines', NEW j \in DOMAIN lines', NEW d \in Commands,
                 i < j, IsRow(lines'[i], d), IsRow(lines'[j], d)
          PROVE  kind[d] \notin One
        <3>1. CASE d = c
            <4>1. i > L /\ i # L + k /\ j # L + k /\ i \in 1 .. L + m /\ j \in 1 .. L + m
                BY <3>1, <2>3, <1>7 DEF Arrives, L
            <4>2. m > 2
                BY <4>1, <2>3, <1>2
            <4> QED
                BY <3>1, <4>2 DEF Arrives
        <3>2. CASE d # c
            BY <3>2, <2>3, <1>6, <1>7 DEF IInv, AnswersAreShaped
        <3> QED
            BY <3>1, <3>2
    <2> QED
        BY <1>u, <2>1, <2>2, <2>3 DEF AnswersAreShaped
<1>13. RowsComeFirst'
    <2>1. \A d, e \in Commands : d < e /\ send[d] = "writing" => send[e] # "sent"
        BY DEF IInv, RowsComeFirst
    <2>2. \A d \in Commands : c < d /\ send[d] = "sent" => Owed(d)
        BY <1>c
    <2>3. \A i \in DOMAIN toServer' : \A d \in Commands : toServer'[i] < d /\ send[d] = "sent" => Owed(d)
        BY <1>4, <2>2 DEF Commands
    <2>4. \A i \in DOMAIN lines' : \A d, e \in Commands : IsRow(lines'[i], d) /\ d < e /\ send[e] = "sent" => Owed(e)
        BY <1>7, <2>2 DEF IInv, RowsComeFirst
    <2> QED
        BY <1>u, <1>8, <2>1, <2>3, <2>4 DEF RowsComeFirst
<1>14. PendingIsLast'
    <2>1. pending # None => pending \in Commands
        BY DEF IInv, TypeOK
    <2> QED
        BY <1>u, <1>8, <2>1 DEF IInv, PendingIsLast
<1>15. DownIsEmpty' /\ WebIsEmpty' /\ (\A d : HasForeignRow(d)' <=> HasForeignRow(d))
    BY <1>a, <1>u DEF IInv, DownIsEmpty, WebIsEmpty, HasForeignRow
<1>16. RowsAreReadOnce'
    <2>1. \A d \in Commands : d \notin Range(toServer) => d # c /\ d \notin Range(toServer')
        <3>1. \A i \in DOMAIN toServer' : i + 1 \in DOMAIN toServer /\ toServer'[i] = toServer[i + 1]
            BY <1>1
        <3>2. \A d : d \in Range(toServer') => \E i \in DOMAIN toServer' : toServer'[i] = d
            BY DEF Range
        <3>3. \A i \in DOMAIN toServer : toServer[i] \in Range(toServer)
            BY DEF Range
        <3> QED
            BY <3>1, <3>2, <3>3, <1>1
    <2>2. \A d \in Commands : d # c => \A i \in DOMAIN lines' :
              /\ IsErr(lines'[i], d) => i \in DOMAIN lines /\ IsErr(lines[i], d)
              /\ IsRow(lines'[i], d) => i \in DOMAIN lines /\ IsRow(lines[i], d)
        BY <1>7
    <2> HIDE <1>7
    <2> QED
        BY <1>u, <2>1, <2>2 DEF IInv, RowsAreReadOnce
<1>17. LateRowsAreKnown'
    BY <1>u, <1>7, <1>8, <1>15 DEF IInv, LateRowsAreKnown
<1>18. AnswersAreItsOwn'
    BY <1>u, <1>15 DEF IInv, AnswersAreItsOwn
<1>19. AbandonedIsExact'
    <2>1. {d \in left : Owed(d)}' = {d \in left : Owed(d)}
        BY <1>u, <1>8 DEF IInv, TypeOK
    <2> QED
        BY <2>1, <1>u DEF IInv, AbandonedIsExact
<1> QED
    BY <1>9, <1>10, <1>11, <1>12, <1>13, <1>14, <1>15, <1>16, <1>17, <1>18, <1>19 DEF IInv

LEMMA ServerAnswersOK == ASSUME IInv, ServerAnswers PROVE IInv'
<1> DEFINE c == Head(toServer)
           L == Len(lines)
<1>1. /\ c \in Commands /\ L \in Nat /\ kind[c] \in Kinds /\ lines \in Seq(Messages)
      /\ given \in [Commands -> Nat]
    BY TailFacts, SeqFacts DEF IInv, TypeOK, ServerAnswers
<1>u. /\ UNCHANGED <<link, kind, client, history>>
      /\ toServer # <<>> /\ toServer' = Tail(toServer)
    BY DEF ServerAnswers
<1> HIDE DEF c
<1>2. ASSUME lines' = Append(lines, Err(c, FALSE)), UNCHANGED given
      PROVE  IInv'
    <2> DEFINE e == Err(c, FALSE)
    <2>1. e \in Messages /\ e.type = "error" /\ e.of = c /\ lines' = Append(lines, e)
        BY <1>1, <1>2, ErrFacts
    <2> HIDE DEF e
    <2>2. /\ lines' \in Seq(Messages) /\ DOMAIN lines' = 1 .. L + 1
          /\ \A i \in 1 .. L : lines'[i] = lines[i]
          /\ lines'[L + 1] = e
        BY <1>1, <2>1, AppendFacts
    <2>3. \A j \in 1 .. 1 : /\ Speaks(lines'[L + j]) /\ lines'[L + j].of = c
                            /\ lines'[L + j].type = IF j = 1 THEN "error" ELSE "row"
        <3>1. \A j \in 1 .. 1 : j = 1
            OBVIOUS
        <3> QED
            BY <3>1, <2>1, <2>2 DEF Speaks
    <2>4. ~(1 < 1) /\ 1 <= 2 /\ UNCHANGED given
        BY <1>2
    <2>5. Arrives(c, 1, 1)
        BY <1>1, <1>u, <2>2, <2>3, <2>4 DEF Arrives, c
    <2> QED
        BY <1>1, <2>5, AnswerArrives
<1>3. ASSUME NEW n \in RowCounts(kind[c]), NEW i \in RowsBefore(kind[c], n),
             lines' = lines \o AnswerLines(c, n, i, TRUE), given' = [given EXCEPT ![c] = n]
      PROVE  IInv'
    <2> DEFINE a == AnswerLines(c, n, i, TRUE)
    <2>1. /\ n \in Nat /\ i \in 0 .. n /\ (kind[c] \in One => n = 1)
          /\ (kind[c] = "plain" => i = n) /\ (kind[c] # "several" => i = 0 \/ i = n)
        BY <1>1, CountOfRows
    <2>2. /\ a \in Seq(Messages) /\ Len(a) = n + 1 /\ DOMAIN a = 1 .. n + 1
          /\ \A j \in 1 .. n + 1 : /\ Speaks(a[j]) /\ a[j].of = c
                                   /\ a[j].type = IF j = i + 1 THEN "error" ELSE "row"
          /\ a[i + 1].ok
        BY <1>1, <2>1, AnswerFacts
    <2> HIDE DEF a
    <2>3. /\ lines' \in Seq(Messages) /\ DOMAIN lines' = 1 .. L + (n + 1)
          /\ \A j \in 1 .. L : lines'[j] = lines[j]
          /\ \A j \in 1 .. n + 1 : lines'[L + j] = a[j]
        <3>1. lines' = lines \o a
            BY <1>3 DEF a
        <3> QED
            BY <3>1, <1>1, <2>2, ConcatFacts
    <2>4. \A j \in 1 .. n + 1 : /\ Speaks(lines'[L + j]) /\ lines'[L + j].of = c
                                /\ lines'[L + j].type = IF j = i + 1 THEN "error" ELSE "row"
        BY <2>2, <2>3
    <2>5. n + 1 \in Nat \ {0} /\ i + 1 \in 1 .. n + 1
        BY <2>1
    <2>6. i + 1 < n + 1 => lines'[L + (i + 1)].ok /\ Late(kind[c])
        <3>1. lines'[L + (i + 1)] = a[i + 1]
            BY <2>3, <2>5
        <3> QED
            BY <3>1, <2>1, <2>2 DEF Late
    <2>7. (1 < i + 1 /\ i + 1 < n + 1 => kind[c] = "several") /\ (kind[c] \in One => n + 1 <= 2)
        BY <2>1
    <2>8. given' \in [Commands -> Nat]
        BY <1>1, <1>3, <2>1
    <2>9. Arrives(c, n + 1, i + 1)
        BY <1>u, <2>3, <2>4, <2>6, <2>7, <2>8 DEF Arrives, c
    <2> QED
        BY <1>1, <2>5, <2>9, AnswerArrives
<1> QED
    BY <1>2, <1>3 DEF ServerAnswers, c

----------------------------------------------------------------------------
(* #handleLine.                                                            *)

\* A line is read off the wire: what is behind it stays as it was, and an `error` line
\* was the last thing owed to its command.
LEMMA ReadFacts ==
    ASSUME IInv, NEW t, Read(t)
    PROVE  /\ UNCHANGED <<link, kind, queue, send, left, up, toServer, given>>
           /\ link = "ssh" /\ up /\ lines' \in Seq(Messages) /\ 1 \in DOMAIN lines
           /\ Head(lines) = lines[1] /\ lines[1] \in Messages /\ lines[1].type = t
           /\ \A i \in DOMAIN lines' : i + 1 \in DOMAIN lines /\ 1 < i + 1 /\ lines'[i] = lines[i + 1]
           /\ \A i, j \in DOMAIN lines' : i < j => i + 1 < j + 1
           /\ \A d \in Commands : (Owed(d)' => Owed(d)) /\ (Owed(d) /\ ~IsErr(lines[1], d) => Owed(d)')
           /\ \A d \in Commands : IsErr(lines[1], d) => Owed(d) /\ ~Owed(d)'
           /\ WireInOrder' /\ AnswersAreShaped' /\ RowsComeFirst'
<1>u. /\ UNCHANGED <<link, kind, queue, send, left, up, toServer, given>>
      /\ lines # <<>> /\ lines' = Tail(lines) /\ Head(lines).type = t
    BY DEF Read
<1>1. /\ lines' \in Seq(Messages) /\ Len(lines) \in Nat \ {0} /\ Head(lines) = lines[1] /\ lines[1] \in Messages
      /\ DOMAIN lines = 1 .. Len(lines) /\ DOMAIN lines' = 1 .. Len(lines) - 1
      /\ \A i \in 1 .. Len(lines) - 1 : lines'[i] = lines[i + 1]
    BY <1>u, TailFacts DEF IInv, TypeOK
<1>2. link = "ssh" /\ up
    BY <1>u DEF IInv, TypeOK, DownIsEmpty, WebIsEmpty
<1>3. /\ 1 \in DOMAIN lines
      /\ \A i \in DOMAIN lines' : i + 1 \in DOMAIN lines /\ 1 < i + 1 /\ lines'[i] = lines[i + 1]
      /\ \A i, j \in DOMAIN lines' : i < j => i + 1 < j + 1
      /\ \A i \in DOMAIN lines : i # 1 => 1 < i /\ i - 1 \in DOMAIN lines' /\ lines'[i - 1] = lines[i]
    BY <1>1
<1>4. \A d \in Commands : Owed(d)' <=> \/ send[d] = "writing" \/ (\E i \in DOMAIN toServer : toServer[i] = d)
                                       \/ \E i \in DOMAIN lines' : IsErr(lines'[i], d)
    BY <1>u DEF Owed, IsErr, Range
<1>5. \A d \in Commands : (Owed(d)' => Owed(d)) /\ (Owed(d) /\ ~IsErr(lines[1], d) => Owed(d)')
    <2>1. \A d \in Commands : (\E i \in DOMAIN lines' : IsErr(lines'[i], d)) => \E i \in DOMAIN lines : IsErr(lines[i], d)
        BY <1>3
    <2>2. \A d \in Commands : (\E i \in DOMAIN lines : IsErr(lines[i], d)) /\ ~IsErr(lines[1], d)
              => \E i \in DOMAIN lines' : IsErr(lines'[i], d)
        BY <1>3
    <2> QED
        BY <2>1, <2>2, <1>4, WireFacts
<1>6. ASSUME NEW d \in Commands, IsErr(lines[1], d) PROVE Owed(d) /\ ~Owed(d)'
    <2>1. Speaks(lines[1]) /\ lines[1].of = d /\ lines[1].type = "error"
        BY <1>6 DEF IsErr, Speaks
    <2>2. send[d] = "sent" /\ \A j \in DOMAIN toServer : d < toServer[j]
        BY <2>1, <1>3 DEF IInv, WireInOrder
    <2>3. ASSUME NEW i \in DOMAIN lines', IsErr(lines'[i], d) PROVE FALSE
        <3>1. Speaks(lines[i + 1]) /\ lines[i + 1].of = d /\ lines[i + 1].type = "error"
            BY <2>3, <1>3 DEF IsErr, Speaks
        <3>2. d < d
            BY <2>1, <3>1, <1>3 DEF IInv, WireInOrder
        <3> QED
            BY <3>2 DEF Commands
    <2>4. \A j \in DOMAIN toServer : toServer[j] # d
        BY <2>2 DEF Commands
    <2> QED
        BY <1>3, <1>4, <1>6, <2>2, <2>3, <2>4, WireFacts
<1>7. WireInOrder'
    <2>1. \A i \in DOMAIN lines' : Speaks(lines'[i]) =>
              /\ send[lines'[i].of] = "sent"
              /\ \A c \in Commands : send[c] = "writing" => lines'[i].of < c
              /\ \A j \in DOMAIN toServer : lines'[i].of < toServer[j]
        BY <1>3 DEF IInv, WireInOrder
    <2>2. \A i, j \in DOMAIN lines' : i < j /\ Speaks(lines'[i]) /\ Speaks(lines'[j]) =>
              /\ lines'[i].of <= lines'[j].of
              /\ lines'[i].type = "error" /\ lines'[j].type = "error" => lines'[i].of < lines'[j].of
        BY <1>3 DEF IInv, WireInOrder
    <2> QED
        BY <1>u, <2>1, <2>2 DEF IInv, WireInOrder
<1>8. AnswersAreShaped'
    BY <1>u, <1>3 DEF IInv, AnswersAreShaped
<1>9. RowsComeFirst'
    <2>1. \A d, e \in Commands : d < e /\ send[d] = "writing" => send[e] # "sent"
        BY DEF IInv, RowsComeFirst
    <2>2. ASSUME NEW i \in DOMAIN toServer, NEW d \in Commands, toServer[i] < d, send[d] = "sent"
          PROVE  Owed(d)'
        <3>1. Owed(d) /\ toServer[i] \in Commands
            BY <2>2, WireFacts DEF IInv, RowsComeFirst
        <3>2. ASSUME IsErr(lines[1], d) PROVE FALSE
            <4>1. d < toServer[i]
                BY <3>2, <1>3 DEF IInv, WireInOrder, IsErr, Speaks
            <4> QED
                BY <4>1, <2>2, <3>1 DEF Commands
        <3> QED
            BY <3>1, <3>2, <1>5
    <2>3. ASSUME NEW i \in DOMAIN lines', NEW c \in Commands, NEW d \in Commands, IsRow(lines'[i], c), c < d, send[d] = "sent"
          PROVE  Owed(d)'
        <3>1. IsRow(lines[i + 1], c)
            BY <2>3, <1>3
        <3>2. Owed(d)
            BY <2>3, <3>1, <1>3 DEF IInv, RowsComeFirst
        <3>3. ASSUME IsErr(lines[1], d) PROVE FALSE
            <4>1. d <= c
                BY <3>1, <3>3, <1>3 DEF IInv, WireInOrder, IsErr, IsRow, Speaks
            <4> QED
                BY <4>1, <2>3 DEF Commands
        <3> QED
            BY <3>2, <3>3, <1>5
    <2> QED
        BY <1>u, <2>1, <2>2, <2>3 DEF RowsComeFirst
<1> QED
    BY <1>u, <1>1, <1>2, <1>3, <1>5, <1>6, <1>7, <1>8, <1>9

LEMMA ReadNotifyOK == ASSUME IInv, ReadNotify PROVE IInv'
<1>u. UNCHANGED <<call, answer, pending, held, abandoned, strayKey, gaveUp, ranOut>>
    BY DEF ReadNotify, history
<1>1. /\ UNCHANGED <<link, kind, queue, send, left, up, toServer, given>>
      /\ link = "ssh" /\ up /\ lines' \in Seq(Messages) /\ lines[1].type = "notify"
      /\ \A i \in DOMAIN lines' : i + 1 \in DOMAIN lines /\ lines'[i] = lines[i + 1]
      /\ \A i, j \in DOMAIN lines' : i < j => i + 1 < j + 1
      /\ WireInOrder' /\ AnswersAreShaped' /\ RowsComeFirst'
    BY ReadFacts DEF ReadNotify
<1>2. \A d \in Commands : Owed(d)' <=> Owed(d)
    <2>1. \A d \in Commands : ~IsErr(lines[1], d)
        BY <1>1 DEF IsErr
    <2> QED
        BY <2>1, ReadFacts DEF ReadNotify
<1>3. TypeOK'
    BY <1>u, <1>1 DEF IInv, TypeOK
<1>4. CallsInOrder'
    BY <1>u, <1>1 DEF IInv, CallsInOrder
<1>5. PendingIsLast'
    <2>1. pending # None => pending \in Commands
        BY DEF IInv, TypeOK
    <2> QED
        BY <1>u, <1>1, <1>2, <2>1 DEF IInv, PendingIsLast
<1>6. DownIsEmpty' /\ WebIsEmpty' /\ (\A c : HasForeignRow(c)' <=> HasForeignRow(c))
    BY <1>u, <1>1 DEF DownIsEmpty, WebIsEmpty, HasForeignRow
<1>7. RowsAreReadOnce'
    BY <1>u, <1>1 DEF IInv, RowsAreReadOnce
<1>8. LateRowsAreKnown'
    BY <1>u, <1>1, <1>2, <1>6 DEF IInv, LateRowsAreKnown
<1>9. AnswersAreItsOwn'
    BY <1>u, <1>1, <1>6 DEF IInv, AnswersAreItsOwn
<1>10. AbandonedIsExact'
    <2>1. {d \in left : Owed(d)}' = {d \in left : Owed(d)}
        BY <1>1, <1>2 DEF IInv, TypeOK
    <2> QED
        BY <2>1, <1>u, <1>1 DEF IInv, AbandonedIsExact
<1> QED
    BY <1>1, <1>3, <1>4, <1>5, <1>6, <1>7, <1>8, <1>9, <1>10 DEF IInv

\* Whose `error` line comes next: of a command that gave up exactly while one of those is owed.
LEMMA NextErrorFacts ==
    ASSUME IInv, NEW d \in Commands, 1 \in DOMAIN lines, IsErr(lines[1], d), up
    PROVE  /\ abandoned \in Nat
           /\ abandoned > 0 => d \in left
           /\ abandoned = 0 => d = pending /\ \A e \in left : ~Owed(e)
<1> DEFINE S == {e \in left : Owed(e)}
<1>1. S \in SUBSET Commands /\ abandoned = Cardinality(S)
    BY DEF IInv, TypeOK, AbandonedIsExact
<1>2. abandoned \in Nat /\ (abandoned = 0 <=> S = {})
    BY <1>1, CountFacts
<1>3. Owed(d) /\ (d \in left \/ d = pending)
    BY WireFacts DEF IInv, PendingIsLast
<1>4. ASSUME abandoned > 0, d \notin left PROVE FALSE
    <2>1. PICK e \in S : TRUE
        BY <1>2, <1>4
    <2>2. e \in left /\ e \in Commands /\ Owed(e)
        BY <1>1
    <2>3. d = pending /\ e < d
        <3>1. d = pending /\ e <= d /\ e # d
            BY <1>3, <1>4, <2>2, KindFacts DEF IInv, PendingIsLast
        <3> QED
            BY <3>1, <2>2 DEF Commands
    <2>4. d <= e
        <3>1. Speaks(lines[1]) /\ lines[1].of = d
            BY DEF IsErr, Speaks
        <3>2. CASE send[e] = "writing"
            BY <3>1, <3>2, <2>2 DEF IInv, WireInOrder, Commands
        <3>3. ASSUME NEW i \in DOMAIN toServer, toServer[i] = e PROVE d <= e
            BY <3>1, <3>3, <2>2 DEF IInv, WireInOrder, Commands
        <3>4. ASSUME NEW i \in DOMAIN lines, IsErr(lines[i], e) PROVE d <= e
            <4>1. Speaks(lines[i]) /\ lines[i].of = e
                BY <3>4 DEF IsErr, Speaks
            <4>2. i = 1 \/ 1 < i
                BY WireFacts
            <4>3. CASE i = 1
                BY <3>1, <4>1, <4>3 DEF Commands
            <4>4. CASE 1 < i
                BY <3>1, <4>1, <4>4 DEF IInv, WireInOrder
            <4> QED
                BY <4>2, <4>3, <4>4
        <3> QED
            BY <2>2, <3>2, <3>3, <3>4, WireFacts
    <2> QED
        BY <2>2, <2>3, <2>4 DEF Commands
<1>5. ASSUME abandoned = 0 PROVE d = pending /\ \A e \in left : ~Owed(e)
    BY <1>2, <1>3, <1>5
<1> QED
    BY <1>2, <1>4, <1>5

LEMMA ReadErrorOK == ASSUME IInv, ReadError PROVE IInv'
<1>1. /\ UNCHANGED <<link, kind, queue, send, left, up, toServer, given>>
      /\ link = "ssh" /\ up /\ lines' \in Seq(Messages) /\ 1 \in DOMAIN lines
      /\ Head(lines) = lines[1] /\ lines[1] \in Messages /\ lines[1].type = "error"
      /\ \A i \in DOMAIN lines' : i + 1 \in DOMAIN lines /\ 1 < i + 1 /\ lines'[i] = lines[i + 1]
      /\ \A i, j \in DOMAIN lines' : i < j => i + 1 < j + 1
      /\ \A x \in Commands : (Owed(x)' => Owed(x)) /\ (Owed(x) /\ ~IsErr(lines[1], x) => Owed(x)')
      /\ \A x \in Commands : IsErr(lines[1], x) => Owed(x) /\ ~Owed(x)'
      /\ WireInOrder' /\ AnswersAreShaped' /\ RowsComeFirst'
    BY ReadFacts DEF ReadError
<1>2. PICK d \in Commands : IsErr(lines[1], d) /\ \A x \in Commands : IsErr(lines[1], x) => x = d
    BY <1>1, MessageFacts DEF IsErr
<1>3. Owed(d) /\ ~Owed(d)' /\ \A x \in Commands : x # d => (Owed(x)' <=> Owed(x))
    BY <1>1, <1>2
<1>4. /\ abandoned \in Nat
      /\ abandoned > 0 => d \in left
      /\ abandoned = 0 => d = pending /\ \A e \in left : ~Owed(e)
    BY <1>1, <1>2, NextErrorFacts
<1>u. UNCHANGED <<answer, gaveUp, ranOut>>
    BY DEF ReadError, history
<1>5. /\ \A c : HasForeignRow(c)' <=> HasForeignRow(c)
      /\ DownIsEmpty' /\ AnswersAreItsOwn'
    <2>1. \A c : HasForeignRow(c)' <=> HasForeignRow(c)
        BY <1>u DEF HasForeignRow
    <2> QED
        BY <2>1, <1>1, <1>u DEF IInv, DownIsEmpty, AnswersAreItsOwn
<1>6. RowsAreReadOnce'
    BY <1>u, <1>1 DEF IInv, RowsAreReadOnce
\* A row of the command behind its `error` line is a late one.
<1>7. \A i \in DOMAIN lines' : IsRow(lines'[i], d) => lines[1].ok /\ Late(kind[d])
    BY <1>1, <1>2 DEF IInv, AnswersAreShaped
<1>8. CASE abandoned > 0
    <2>u. abandoned' = abandoned - 1 /\ UNCHANGED <<call, pending, held, strayKey>>
        BY <1>8 DEF ReadError
    <2>1. d \in left /\ d \in gaveUp /\ d # pending
        BY <1>2, <1>4, <1>8, KindFacts DEF IInv, PendingIsLast
    <2>2. TypeOK'
        BY <1>1, <1>u, <2>u DEF IInv, TypeOK
    <2>3. CallsInOrder' /\ WebIsEmpty'
        BY <1>1, <2>u DEF IInv, CallsInOrder, WebIsEmpty
    <2>4. PendingIsLast'
        <3>1. pending # None => pending \in Commands /\ (Owed(pending)' <=> Owed(pending))
            BY <1>3, <2>1, <2>u DEF IInv, TypeOK
        <3> QED
            BY <1>1, <1>u, <2>u, <3>1 DEF IInv, PendingIsLast
    <2>5. LateRowsAreKnown'
        <3>1. ASSUME NEW i \in DOMAIN lines', NEW x \in Commands, IsRow(lines'[i], x), ~Owed(x)'
              PROVE  /\ Late(kind[x])
                     /\ \/ x = pending \/ x \in gaveUp \/ HasForeignRow(x)
                        \/ x \in ranOut /\ (Alone(kind[x]) => strayKey = KeyOf(kind[x]))
            <4>1. CASE x = d
                BY <3>1, <4>1, <1>7, <2>1
            <4>2. CASE x # d
                BY <3>1, <4>2, <1>1, <1>3 DEF IInv, LateRowsAreKnown
            <4> QED
                BY <4>1, <4>2
        <3> QED
            BY <3>1, <1>1, <1>u, <1>5, <2>u DEF LateRowsAreKnown
    <2>6. AbandonedIsExact'
        <3> DEFINE S == {e \in left : Owed(e)}
        <3>1. S \in SUBSET Commands /\ d \in S /\ abandoned = Cardinality(S)
            BY <1>1, <1>3, <2>1 DEF IInv, TypeOK, AbandonedIsExact
        <3>2. {e \in left : Owed(e)}' = S \ {d}
            BY <1>1, <1>3 DEF IInv, TypeOK
        <3> HIDE DEF S
        <3> QED
            BY <3>1, <3>2, <2>u, CountFacts DEF AbandonedIsExact
    <2> QED
        BY <1>1, <1>5, <1>6, <2>2, <2>3, <2>4, <2>5, <2>6 DEF IInv
<1>9. CASE abandoned = 0
    <2>1. d = pending /\ pending # None /\ \A e \in Commands : ~Owed(e)'
        BY <1>2, <1>3, <1>4, <1>9, KindFacts DEF IInv, PendingIsLast
    <2>u. abandoned' = 0 /\ strayKey' = None
        BY <1>9, <2>1 DEF ReadError
    <2>2. \A i \in DOMAIN lines' : \A x \in Commands : IsRow(lines'[i], x) => x = d
        <3>1. ASSUME NEW i \in DOMAIN lines', NEW x \in Commands, IsRow(lines'[i], x) PROVE x = d
            <4>1. IsRow(lines[i + 1], x) /\ send[x] = "sent"
                BY <3>1, <1>1 DEF IInv, WireInOrder, IsRow, Speaks
            <4>2. d <= x
                BY <4>1, <1>1, <1>2 DEF IInv, WireInOrder, IsRow, IsErr, Speaks
            <4>3. x <= d
                BY <4>1, <2>1 DEF IInv, PendingIsLast
            <4> QED
                BY <4>2, <4>3, <1>2 DEF Commands
        <3> QED
            BY <3>1
    <2>3. AbandonedIsExact'
        <3>1. {e \in left : Owed(e)}' = {}
            BY <1>1, <2>1 DEF IInv, TypeOK
        <3> QED
            BY <3>1, <2>u, CountFacts DEF AbandonedIsExact
    <2>4. \/ ~lines[1].ok /\ Settled("failed")
          \/ Complete(d) /\ Settled("answered")
          \/ held' = TRUE /\ UNCHANGED <<call, pending>>
        BY <1>9, <1>1, <2>1 DEF ReadError
    <2>5. ASSUME NEW o \in {"answered", "failed"}, Settled(o), ~lines[1].ok \/ Complete(d)
          PROVE  IInv'
        <3>1. /\ pending' = None /\ held' = FALSE /\ CallsInOrder'
              /\ call' \in [Commands -> {"idle", "queued", "running", "answered", "failed"}]
            BY <1>1, <2>1, <2>5, SettledFacts
        <3>2. TypeOK'
            <4>1. held' \in BOOLEAN /\ pending' \in Commands \cup {None}
                BY <3>1
            <4>2. abandoned' \in Int /\ strayKey' \in {None, "id", "other"}
                BY <2>u
            <4> QED
                BY <1>1, <1>u, <3>1, <4>1, <4>2 DEF IInv, TypeOK
        <3>3. PendingIsLast' /\ WebIsEmpty'
            BY <1>1, <1>u, <2>1, <3>1 DEF IInv, PendingIsLast, WebIsEmpty
        <3>4. ASSUME NEW i \in DOMAIN lines', IsRow(lines'[i], d) PROVE Late(kind[d]) /\ HasForeignRow(d)
            <4>1. Late(kind[d]) /\ HasLateRow(d) /\ kind[d] # "several"
                BY <3>4, <2>5, <1>1, <1>7 DEF Complete
            <4>2. PICK j \in DOMAIN answer[d] : TRUE
                BY <4>1 DEF HasLateRow
            <4>3. answer[d][j].of # d
                BY <1>1, <1>2, <3>4, <4>1, <4>2 DEF IInv, RowsAreReadOnce
            <4> QED
                BY <4>1, <4>3 DEF HasForeignRow
        <3>5. LateRowsAreKnown'
            BY <2>2, <3>4, <1>1, <1>5 DEF LateRowsAreKnown
        <3> QED
            BY <1>1, <1>5, <1>6, <2>3, <3>1, <3>2, <3>3, <3>5 DEF IInv
    <2>6. ASSUME held' = TRUE, UNCHANGED <<call, pending>>
          PROVE  IInv'
        <3>1. TypeOK'
            <4>1. held' \in BOOLEAN /\ abandoned' \in Int /\ strayKey' \in {None, "id", "other"}
                BY <2>u, <2>6
            <4> QED
                BY <1>1, <1>u, <2>6, <4>1 DEF IInv, TypeOK
        <3>2. CallsInOrder'
            BY <1>1, <2>6 DEF IInv, CallsInOrder
        <3>3. PendingIsLast'
            <4>1. ~Owed(pending)'
                BY <1>3, <2>1, <2>6
            <4> QED
                BY <1>1, <1>u, <2>1, <2>6, <4>1 DEF IInv, PendingIsLast
        <3>4. WebIsEmpty'
            BY <1>1 DEF WebIsEmpty
        <3>5. LateRowsAreKnown'
            BY <1>1, <1>7, <2>1, <2>2, <2>6 DEF LateRowsAreKnown
        <3> QED
            BY <1>1, <1>5, <1>6, <2>3, <3>1, <3>2, <3>3, <3>4, <3>5 DEF IInv
    <2> QED
        BY <2>4, <2>5, <2>6
<1> QED
    BY <1>4, <1>8, <1>9

\* A row that is read for a command of which no `error` line is owed: every row behind it
\* whose command is over too is of the same command.
LEMMA RowsBehind ==
    ASSUME IInv, NEW d \in Commands, NEW x \in Commands, NEW i \in DOMAIN lines,
           1 \in DOMAIN lines, 1 < i, IsRow(lines[1], d), IsRow(lines[i], x), ~Owed(x)
    PROVE  x = d /\ kind[x] \notin One
<1>1. d <= x /\ send[x] = "sent"
    BY DEF IInv, WireInOrder, IsRow, Speaks
<1>2. ~(d < x)
    BY <1>1 DEF IInv, RowsComeFirst
<1>3. x = d
    BY <1>1, <1>2 DEF Commands
<1> QED
    BY <1>3 DEF IInv, AnswersAreShaped

LEMMA ReadRowOK == ASSUME IInv, ReadRow PROVE IInv'
<1>1. /\ UNCHANGED <<link, kind, queue, send, left, up, toServer, given>>
      /\ link = "ssh" /\ up /\ lines' \in Seq(Messages) /\ 1 \in DOMAIN lines
      /\ Head(lines) = lines[1] /\ lines[1] \in Messages /\ lines[1].type = "row"
      /\ \A i \in DOMAIN lines' : i + 1 \in DOMAIN lines /\ 1 < i + 1 /\ lines'[i] = lines[i + 1]
      /\ \A i, j \in DOMAIN lines' : i < j => i + 1 < j + 1
      /\ \A x \in Commands : (Owed(x)' => Owed(x)) /\ (Owed(x) /\ ~IsErr(lines[1], x) => Owed(x)')
      /\ WireInOrder' /\ AnswersAreShaped' /\ RowsComeFirst'
    BY ReadFacts DEF ReadRow
<1>2. PICK r \in Rows : r = lines[1]
    BY <1>1, MessageFacts
<1>3. PICK d \in Commands : d = r.of /\ IsRow(lines[1], d)
    BY <1>1, <1>2 DEF Rows, IsRow
<1>4. \A x \in Commands : Owed(x)' <=> Owed(x)
    <2>1. \A x \in Commands : ~IsErr(lines[1], x)
        BY <1>1 DEF IsErr
    <2> QED
        BY <1>1, <2>1
<1>5. send[d] = "sent" /\ d \notin Range(toServer)
    <2>1. send[d] = "sent" /\ \A j \in DOMAIN toServer : d < toServer[j]
        BY <1>1, <1>3 DEF IInv, WireInOrder, IsRow, Speaks
    <2>2. \A j \in DOMAIN toServer : toServer[j] # d
        BY <2>1, WireFacts DEF Commands
    <2> QED
        BY <2>1, <2>2 DEF Range
<1> DEFINE taken == abandoned = 0 /\ pending # None /\ (Strayed(r) => OwnKey)
           ends  == held /\ kind[pending] \notin {"several", "read"} /\ KeyOf(kind[pending]) \in Keys(kind[r.of])
<1>u. /\ UNCHANGED <<abandoned, gaveUp, ranOut>>
      /\ strayKey' = IF abandoned = 0 /\ Strayed(r) THEN None ELSE strayKey
      /\ answer' = IF taken THEN [answer EXCEPT ![pending] = Append(@, r)] ELSE answer
      /\ taken /\ ends => Settled("answered")
      /\ ~(taken /\ ends) => UNCHANGED <<call, pending, held>>
    BY <1>1, <1>2 DEF ReadRow, history
<1> HIDE DEF taken, ends
\* What the answers have become.
<1>6. taken => /\ pending \in Commands /\ abandoned = 0 /\ (Strayed(r) => OwnKey)
               /\ answer' = [answer EXCEPT ![pending] = Append(answer[pending], r)]
               /\ answer[pending] \in Seq(Rows) /\ \A c \in Commands : c \in left => ~Owed(c)
    <2>1. taken => pending \in Commands /\ abandoned = 0 /\ (Strayed(r) => OwnKey)
        BY DEF taken, IInv, TypeOK
    <2>2. taken => answer' = [answer EXCEPT ![pending] = Append(answer[pending], r)]
        BY <1>u, <2>1 DEF IInv, TypeOK
    <2>3. abandoned = 0 => \A c \in Commands : c \in left => ~Owed(c)
        <3>1. {c \in left : Owed(c)} \in SUBSET Commands
            BY DEF IInv, TypeOK
        <3> QED
            BY <1>1, <3>1, CountFacts DEF IInv, AbandonedIsExact
    <2> QED
        BY <2>1, <2>2, <2>3 DEF IInv, TypeOK
<1>7. /\ answer' \in [Commands -> Seq(Rows)]
      /\ \A c \in Commands : \A i \in DOMAIN answer[c] : i \in DOMAIN answer'[c] /\ answer'[c][i] = answer[c][i]
      /\ \A c \in Commands : \A i \in DOMAIN answer'[c] :
            \/ i \in DOMAIN answer[c] /\ answer'[c][i] = answer[c][i]
            \/ taken /\ c = pending /\ answer'[c][i].of = d
    <2>1. CASE ~taken
        BY <2>1, <1>u DEF IInv, TypeOK
    <2>2. CASE taken
        <3> DEFINE a == Append(answer[pending], r)
        <3>1. /\ a \in Seq(Rows) /\ Len(answer[pending]) \in Nat
              /\ DOMAIN answer[pending] = 1 .. Len(answer[pending])
              /\ DOMAIN a = 1 .. Len(answer[pending]) + 1
              /\ \A i \in 1 .. Len(answer[pending]) : a[i] = answer[pending][i]
              /\ a[Len(answer[pending]) + 1] = r
            BY <2>2, <1>2, <1>6, AppendFacts
        <3>2. answer' = [answer EXCEPT ![pending] = a]
            BY <2>2, <1>6
        <3> HIDE DEF a
        <3>3. /\ answer' \in [Commands -> Seq(Rows)]
              /\ \A c \in Commands : answer'[c] = IF c = pending THEN a ELSE answer[c]
            BY <2>2, <1>6, <3>1, <3>2 DEF IInv, TypeOK
        <3>4. ASSUME NEW c \in Commands, c = pending
              PROVE  /\ \A i \in DOMAIN answer[c] : i \in DOMAIN answer'[c] /\ answer'[c][i] = answer[c][i]
                     /\ \A i \in DOMAIN answer'[c] : \/ i \in DOMAIN answer[c] /\ answer'[c][i] = answer[c][i]
                                                     \/ answer'[c][i].of = d
            <4>1. answer'[c] = a /\ answer[c] = answer[pending]
                BY <3>3, <3>4
            <4>2. \A i \in DOMAIN a : i \in DOMAIN answer[pending] \/ i = Len(answer[pending]) + 1
                BY <3>1
            <4>3. \A i \in DOMAIN answer[pending] : i \in DOMAIN a /\ a[i] = answer[pending][i]
                BY <3>1
            <4> QED
                BY <4>1, <4>2, <4>3, <3>1, <1>3
        <3>5. ASSUME NEW c \in Commands, c # pending PROVE answer'[c] = answer[c]
            BY <3>3, <3>5
        <3> QED
            BY <2>2, <3>3, <3>4, <3>5
    <2> QED
        BY <2>1, <2>2
<1>8. \A c \in Commands : HasForeignRow(c) => HasForeignRow(c)'
    BY <1>7 DEF HasForeignRow
\* A row ends a held answer only when no other row is on its way.
<1>9. ASSUME taken, ends PROVE \A i \in DOMAIN lines' : \A x \in Commands : ~IsRow(lines'[i], x)
    <2>1. held /\ kind[pending] \notin {"several", "read"}
        BY <1>9 DEF ends
    <2>2. /\ pending \in Commands /\ ~Owed(pending)
          /\ \A i \in DOMAIN lines : \A x \in Commands : IsRow(lines[i], x) => x = pending
        BY <2>1, HeldFacts
    <2>3. ASSUME NEW i \in DOMAIN lines', NEW x \in Commands, IsRow(lines'[i], x) PROVE FALSE
        <3>1. i + 1 \in DOMAIN lines /\ 1 < i + 1 /\ IsRow(lines[i + 1], x)
            BY <2>3, <1>1
        <3>2. x = pending /\ ~Owed(x) /\ kind[x] \in Kinds
            BY <3>1, <2>2 DEF IInv, TypeOK
        <3>3. Late(kind[x]) /\ kind[x] \notin One
            BY <3>1, <3>2, <1>1, <1>3, RowsBehind DEF IInv, LateRowsAreKnown
        <3> QED
            BY <2>1, <3>2, <3>3 DEF Late, Kinds, One
    <2> QED
        BY <2>3
<1>10. /\ CallsInOrder' /\ call' \in [Commands -> {"idle", "queued", "running", "answered", "failed"}]
       /\ held' \in BOOLEAN /\ pending' \in Commands \cup {None}
       /\ taken /\ ends => pending' = None /\ held' = FALSE
    <2>1. CASE taken /\ ends
        <3>1. pending # None
            BY <2>1, <1>6, KindFacts
        <3> QED
            BY <2>1, <3>1, <1>1, <1>u, SettledFacts
    <2>2. CASE ~(taken /\ ends)
        BY <2>2, <1>1, <1>u DEF IInv, TypeOK, CallsInOrder
    <2> QED
        BY <2>1, <2>2
<1>11. TypeOK'
    <2>1. strayKey' \in {None, "id", "other"}
        BY <1>u DEF IInv, TypeOK
    <2> QED
        BY <1>1, <1>u, <1>7, <1>10, <2>1 DEF IInv, TypeOK
<1>12. PendingIsLast'
    <2>1. pending # None => pending \in Commands
        BY DEF IInv, TypeOK
    <2>2. CASE taken /\ ends
        <3>1. \A x \in Commands : Owed(x)' => x \in left'
            BY <2>2, <1>1, <1>4 DEF ends, IInv, PendingIsLast
        <3> QED
            BY <2>2, <3>1, <1>1, <1>u, <1>10 DEF IInv, PendingIsLast
    <2>3. CASE ~(taken /\ ends)
        BY <2>1, <2>3, <1>1, <1>4, <1>u DEF IInv, PendingIsLast
    <2> QED
        BY <2>2, <2>3
<1>13. DownIsEmpty' /\ WebIsEmpty'
    BY <1>1 DEF DownIsEmpty, WebIsEmpty
<1>14. RowsAreReadOnce'
    <2>1. ASSUME NEW c \in Commands, NEW x \in Commands, NEW i \in DOMAIN answer'[c], answer'[c][i].of = x
          PROVE  /\ send[x] = "sent" /\ x \notin Range(toServer)
                 /\ c = x /\ kind[x] \in One => \A j \in DOMAIN lines' : ~IsRow(lines'[j], x)
                 /\ c = x /\ kind[x] # "several" =>
                        \A j, k \in DOMAIN lines' : ~(j < k /\ IsErr(lines'[j], x) /\ IsRow(lines'[k], x))
        <3>1. CASE i \in DOMAIN answer[c] /\ answer'[c][i] = answer[c][i]
            BY <2>1, <3>1, <1>1 DEF IInv, RowsAreReadOnce
        <3>2. CASE x = d
            <4>1. kind[d] \in One => \A j \in DOMAIN lines' : ~IsRow(lines'[j], d)
                BY <1>1, <1>3 DEF IInv, AnswersAreShaped
            <4>2. kind[d] # "several" =>
                      \A j, k \in DOMAIN lines' : ~(j < k /\ IsErr(lines'[j], d) /\ IsRow(lines'[k], d))
                BY <1>1, <1>3 DEF IInv, AnswersAreShaped
            <4> QED
                BY <3>2, <4>1, <4>2, <1>5
        <3> QED
            BY <2>1, <3>1, <3>2, <1>7
    <2> QED
        BY <2>1, <1>1 DEF RowsAreReadOnce
<1>15. LateRowsAreKnown'
    <2>1. ASSUME NEW i \in DOMAIN lines', NEW x \in Commands, IsRow(lines'[i], x), ~Owed(x)
          PROVE  /\ Late(kind[x])
                 /\ \/ x = pending' \/ x \in gaveUp \/ HasForeignRow(x)
                    \/ x \in ranOut /\ (Alone(kind[x]) => strayKey' = KeyOf(kind[x]))
        <3>1. i + 1 \in DOMAIN lines /\ 1 < i + 1 /\ IsRow(lines[i + 1], x)
            BY <2>1, <1>1
        <3>2. ~Alone(kind[x])
            BY <2>1, <3>1, <1>1, <1>3, RowsBehind, KindFacts DEF IInv, TypeOK
        <3>3. pending' = pending
            BY <2>1, <1>9, <1>u
        <3> QED
            BY <2>1, <3>1, <3>2, <3>3 DEF IInv, LateRowsAreKnown
    <2> QED
        BY <2>1, <1>1, <1>4, <1>8, <1>u DEF LateRowsAreKnown
<1>16. AnswersAreItsOwn'
    <2>1. ASSUME NEW c \in Commands, NEW i \in DOMAIN answer'[c], NEW x, x = answer'[c][i].of
          PROVE  \/ x = c
                 \/ x \in gaveUp /\ Late(kind[x])
                 \/ x \in ranOut /\ (Alone(kind[x]) => KeyOf(kind[c]) = KeyOf(kind[x]))
                 \/ HasForeignRow(x)'
        <3>1. CASE i \in DOMAIN answer[c] /\ answer'[c][i] = answer[c][i]
            <4>1. x \in Commands
                <5>1. answer[c] \in Seq(Rows) /\ answer[c][i] \in Rows
                    BY <3>1, SeqFacts DEF IInv, TypeOK
                <5> QED
                    BY <2>1, <3>1, <5>1 DEF Rows
            <4> QED
                BY <2>1, <3>1, <4>1, <1>8 DEF IInv, AnswersAreItsOwn
        <3>2. CASE taken /\ c = pending /\ x = d /\ d # c
            <4>1. ~Owed(d)
                BY <3>2, <1>6 DEF IInv, PendingIsLast
            <4>2. /\ Late(kind[d])
                  /\ \/ d = pending \/ d \in gaveUp \/ HasForeignRow(d)
                     \/ d \in ranOut /\ (Alone(kind[d]) => strayKey = KeyOf(kind[d]))
                BY <4>1, <1>1, <1>3 DEF IInv, LateRowsAreKnown
            <4>3. ASSUME Alone(kind[d]), strayKey = KeyOf(kind[d])
                  PROVE  KeyOf(kind[c]) = KeyOf(kind[d])
                <5>1. KeyOf(kind[d]) # None /\ Keys(kind[d]) = {KeyOf(kind[d])}
                    BY <4>3, KindFacts DEF IInv, TypeOK
                <5>2. Strayed(r)
                    BY <4>3, <5>1, <1>3 DEF Strayed
                <5> QED
                    BY <3>2, <4>3, <5>2, <1>6 DEF OwnKey
            <4> QED
                BY <3>2, <4>2, <4>3, <1>8
        <3> QED
            BY <2>1, <3>1, <3>2, <1>7
    <2> QED
        BY <2>1, <1>1, <1>u DEF AnswersAreItsOwn
<1>17. AbandonedIsExact'
    <2>1. {e \in left : Owed(e)}' = {e \in left : Owed(e)}
        BY <1>1, <1>4 DEF IInv, TypeOK
    <2> QED
        BY <2>1, <1>1, <1>u DEF IInv, AbandonedIsExact
<1> QED
    BY <1>1, <1>10, <1>11, <1>12, <1>13, <1>14, <1>15, <1>16, <1>17 DEF IInv

----------------------------------------------------------------------------
LEMMA StepOK == ASSUME IInv, [Next]_vars PROVE IInv'
<1>1. CASE Start
    BY <1>1, StartOK
<1>2. CASE ReadError
    BY <1>2, ReadErrorOK
<1>3. CASE ReadRow
    BY <1>3, ReadRowOK
<1>4. CASE ReadNotify
    BY <1>4, ReadNotifyOK
<1>5. CASE HeldTimer
    BY <1>5, HeldTimerOK
<1>6. CASE Nudge
    BY <1>6, SameState DEF Nudge
<1>7. CASE ServerAnswers
    BY <1>7, ServerAnswersOK
<1>8. CASE WebAnswers
    BY <1>8, WebAnswersOK
<1>9. ASSUME NEW c \in Commands, Written(c) PROVE IInv'
    BY <1>9, WrittenOK
<1>10. ASSUME NEW c \in Commands, RequestEnds(c) PROVE IInv'
    BY <1>10, SendFailsOK DEF RequestEnds
<1>11. CASE GiveUp
    BY <1>11, GiveUpOK
<1>12. CASE Drop
    BY <1>12, DropOK
<1>13. CASE Install
    BY <1>13, InstallOK
<1>14. CASE ServerNotifies
    BY <1>14, ServerNotifiesOK
<1>15. ASSUME NEW c \in Commands, Exec(c) PROVE IInv'
    BY <1>15, ExecOK
<1>16. ASSUME NEW c \in Commands, SendFails(c) PROVE IInv'
    BY <1>16, SendFailsOK
<1>17. CASE UNCHANGED vars
    BY <1>17, SameState DEF vars, network
<1> QED
    BY <1>1, <1>2, <1>3, <1>4, <1>5, <1>6, <1>7, <1>8, <1>9, <1>10, <1>11, <1>12, <1>13, <1>14,
       <1>15, <1>16, <1>17 DEF Next, Progress

\* The inductive invariant holds in every state the client, the wire and the server reach.
THEOREM QueryCommandsInductive == Spec => []IInv
<1> QED
    BY InitOK, StepOK, PTL DEF Spec

\* #abandoned counts exactly the `error` lines still to come for commands that timed out or
\* were cancelled, whatever is late, held back, dropped or fails to be sent (client.ts:1062).
THEOREM AbandonedIsAlwaysExact == Spec => []AbandonedIsExact
<1>1. IInv => AbandonedIsExact
    BY DEF IInv
<1> QED
    BY <1>1, QueryCommandsInductive, PTL

\* A command is given a row of another one's answer only when that one gave up or ran out
\* of time while its rows were late, or had itself taken a row for its own (client.ts:1142).
THEOREM AnswersAreAlwaysItsOwn == Spec => []AnswersAreItsOwn
<1>1. IInv => AnswersAreItsOwn
    BY DEF IInv
<1> QED
    BY <1>1, QueryCommandsInductive, PTL

----------------------------------------------------------------------------
(* Answers are whole.  The rows of a command are numbered as the server     *)
(* writes them and stay in that order (RowsAreNumbered); while the command  *)
(* is on the wire and has no row of another, those it was given are the     *)
(* first ones and those still on their way are the rest (AnswerInStep).  So *)
(* an answer is whole when no row of it is left on the line, which is what  *)
(* each of the ways to end one makes sure of.                               *)

\* The command on the wire is the one that runs.
PendingRuns == pending # None => call[pending] = "running"

\* Until the server has read a command it has written nothing for it.
NothingBefore ==
    \A c \in Commands :
        /\ send[c] = "none" => answer[c] = <<>>
        /\ send[c] \in {"none", "writing"} \/ c \in Range(toServer) =>
               given[c] = 0 /\ call[c] # "answered"

RowsAreNumbered ==
    /\ \A i \in DOMAIN lines : \A c \in Commands :
           IsRow(lines[i], c) => lines[i].n \in 1 .. given[c]
    /\ \A i, j \in DOMAIN lines : \A c \in Commands :
           i < j /\ IsRow(lines[i], c) /\ IsRow(lines[j], c) => lines[i].n < lines[j].n

\* The rows c was given are the first ones of its answer.
BeginsAnswer(c) == \A i \in DOMAIN answer[c] : answer[c][i] = Row(c, i)

\* Those it was not given yet are on their way, and no others.
RestIsComing(c) ==
    /\ Len(answer[c]) <= given[c]
    /\ \A n \in Len(answer[c]) + 1 .. given[c] :
           \E i \in DOMAIN lines : IsRow(lines[i], c) /\ lines[i].n = n
    /\ \A i \in DOMAIN lines : IsRow(lines[i], c) => lines[i].n > Len(answer[c])

AnswerInStep ==
    \A c \in Commands : c = pending /\ ~HasForeignRow(c) => BeginsAnswer(c) /\ RestIsComing(c)

WInv ==
    /\ PendingRuns
    /\ NothingBefore
    /\ RowsAreNumbered
    /\ AnswerInStep
    /\ AnswersAreWhole

\* An answer with no row of another, of which nothing is on its way, is whole.
LEMMA WholeWhenNoneComes ==
    ASSUME IInv, WInv, NEW p \in Commands, p = pending, ~HasForeignRow(p),
           \A i \in DOMAIN lines : ~IsRow(lines[i], p)
    PROVE  answer[p] = [i \in 1 .. given[p] |-> Row(p, i)]
<1>1. /\ answer[p] \in Seq(Rows) /\ given[p] \in Nat
      /\ Len(answer[p]) \in Nat /\ DOMAIN answer[p] = 1 .. Len(answer[p])
    BY SeqFacts DEF IInv, TypeOK
<1>2. /\ \A i \in DOMAIN answer[p] : answer[p][i] = Row(p, i)
      /\ Len(answer[p]) <= given[p]
      /\ \A n \in Len(answer[p]) + 1 .. given[p] : FALSE
    BY DEF WInv, AnswerInStep, BeginsAnswer, RestIsComing
<1>3. Len(answer[p]) = given[p]
    <2>1. given[p] \notin Len(answer[p]) + 1 .. given[p]
        BY <1>2
    <2> QED
        BY <2>1, <1>1, <1>2
<1>4. answer[p] = [i \in 1 .. Len(answer[p]) |-> answer[p][i]]
    BY <1>1
<1> QED
    BY <1>1, <1>2, <1>3, <1>4

\* The rows of a command come after it has been read, and that is not taken back.
LEMMA RowIsRead ==
    ASSUME IInv, NEW i \in DOMAIN lines, NEW c \in Commands, IsRow(lines[i], c)
    PROVE  send[c] = "sent" /\ c \notin Range(toServer)
<1>1. send[c] = "sent" /\ \A j \in DOMAIN toServer : c < toServer[j]
    BY DEF IInv, WireInOrder, IsRow, Speaks
<1>2. \A j \in DOMAIN toServer : toServer[j] # c
    BY <1>1, WireFacts DEF Commands
<1> QED
    BY <1>1, <1>2 DEF Range

\* An answer that was whole stays so.
LEMMA WholeKept ==
    ASSUME AnswersAreWhole, ranOut \subseteq ranOut',
           \A c \in Commands : call'[c] = "answered" =>
               \/ call[c] = "answered" /\ answer'[c] = answer[c] /\ given'[c] = given[c]
               \/ c \in ranOut' \/ HasForeignRow(c)'
               \/ answer'[c] = [i \in 1 .. given'[c] |-> Row(c, i)]
    PROVE  AnswersAreWhole'
<1> SUFFICES ASSUME NEW c \in Commands, call'[c] = "answered"
             PROVE  \/ c \in ranOut' \/ HasForeignRow(c)'
                    \/ answer'[c] = [i \in 1 .. given'[c] |-> Row(c, i)]
    BY DEF AnswersAreWhole
<1>1. CASE call[c] = "answered" /\ answer'[c] = answer[c] /\ given'[c] = given[c]
    <2>1. \/ c \in ranOut \/ HasForeignRow(c)
          \/ answer[c] = [i \in 1 .. given[c] |-> Row(c, i)]
        BY <1>1 DEF AnswersAreWhole
    <2>2. HasForeignRow(c) => HasForeignRow(c)'
        BY <1>1 DEF HasForeignRow
    <2> QED
        BY <2>1, <2>2, <1>1
<1> QED
    BY <1>1

\* The steps in which no line is written or read, but that the line may be cut.
LEMMA NoLine ==
    ASSUME IInv, IInv', WInv, UNCHANGED <<given, answer, ranOut>>,
           pending' \in {pending, None},
           lines' = lines \/ (lines' = <<>> /\ pending' = None),
           pending' # None => call'[pending'] = "running",
           \A c \in Commands : call'[c] = "answered" => call[c] = "answered",
           \A c \in Commands : send'[c] = "none" => send[c] = "none",
           \A c \in Commands : send'[c] \in {"none", "writing"} \/ c \in Range(toServer)' =>
               send[c] \in {"none", "writing"} \/ c \in Range(toServer)
    PROVE  WInv'
<1>1. PendingRuns'
    BY DEF PendingRuns
<1>2. NothingBefore'
    BY DEF WInv, NothingBefore
<1>3. RowsAreNumbered'
    BY DEF WInv, RowsAreNumbered
<1>4. AnswerInStep'
    <2> SUFFICES ASSUME NEW c \in Commands, c = pending', ~HasForeignRow(c)'
                 PROVE  BeginsAnswer(c)' /\ RestIsComing(c)'
        BY DEF AnswerInStep
    <2>1. c = pending /\ lines' = lines
        BY KindFacts
    <2>2. ~HasForeignRow(c)
        BY DEF HasForeignRow
    <2>3. BeginsAnswer(c) /\ RestIsComing(c)
        BY <2>1, <2>2 DEF WInv, AnswerInStep
    <2> QED
        BY <2>1, <2>3 DEF BeginsAnswer, RestIsComing
<1>5. AnswersAreWhole'
    BY WholeKept DEF WInv
<1> QED
    BY <1>1, <1>2, <1>3, <1>4, <1>5 DEF WInv

LEMMA QuietWhole ==
    ASSUME IInv, IInv', WInv, UNCHANGED <<client, toServer, lines, given, ranOut>>
    PROVE  WInv'
BY NoLine DEF client, WInv, PendingRuns

LEMMA ExecWhole == ASSUME IInv, IInv', WInv, NEW c \in Commands, Exec(c) PROVE WInv'
<1>u. /\ UNCHANGED <<answer, send, pending, toServer, lines, given, ranOut>>
      /\ call' = [call EXCEPT ![c] = "queued"] /\ call[c] = "idle"
    BY DEF Exec, network, history
<1>1. \A d \in Commands : call'[d] = IF d = c THEN "queued" ELSE call[d]
    BY <1>u DEF IInv, TypeOK
<1>2. pending # None => pending \in Commands /\ call[pending] = "running"
    BY DEF IInv, TypeOK, WInv, PendingRuns
<1> QED
    BY <1>u, <1>1, <1>2, NoLine

LEMMA WrittenWhole == ASSUME IInv, IInv', WInv, NEW c \in Commands, Written(c) PROVE WInv'
<1>u. /\ UNCHANGED <<answer, call, pending, lines, given, ranOut>>
      /\ send' = [send EXCEPT ![c] = "sent"] /\ send[c] = "writing" /\ toServer' = Append(toServer, c)
    BY DEF Written, history
<1>1. \A d \in Commands : send'[d] = IF d = c THEN "sent" ELSE send[d]
    BY <1>u DEF IInv, TypeOK
<1>2. \A d : d \in Range(toServer)' => d = c \/ d \in Range(toServer)
    <2>1. /\ Len(toServer) \in Nat
          /\ DOMAIN toServer = 1 .. Len(toServer) /\ DOMAIN toServer' = 1 .. Len(toServer) + 1
          /\ \A i \in 1 .. Len(toServer) : toServer'[i] = toServer[i]
          /\ toServer'[Len(toServer) + 1] = c
        BY <1>u, AppendFacts DEF IInv, TypeOK
    <2>2. \A i \in DOMAIN toServer' : i = Len(toServer) + 1 \/ i \in DOMAIN toServer
        BY <2>1
    <2> QED
        BY <2>1, <2>2 DEF Range
<1>3. pending' # None => call'[pending'] = "running"
    BY <1>u DEF WInv, PendingRuns
<1> QED
    BY <1>u, <1>1, <1>2, <1>3, NoLine

LEMMA SendFailsWhole == ASSUME IInv, IInv', WInv, NEW c \in Commands, SendFails(c) PROVE WInv'
<1>u. /\ UNCHANGED <<answer, toServer, lines, given, ranOut>>
      /\ send' = [send EXCEPT ![c] = "failed"]
      /\ c = pending => Settled("failed")
      /\ c # pending => UNCHANGED <<call, pending>>
    BY DEF SendFails, network, history
<1>1. \A d \in Commands : send'[d] = IF d = c THEN "failed" ELSE send[d]
    BY <1>u DEF IInv, TypeOK
<1>2. pending' \in {pending, None} /\ \A d \in Commands : call'[d] = "answered" => call[d] = "answered"
    BY <1>u DEF IInv, TypeOK, Settled
<1>3. pending' # None => call'[pending'] = "running"
    BY <1>u DEF Settled, WInv, PendingRuns
<1> QED
    BY <1>u, <1>1, <1>2, <1>3, NoLine

LEMMA GiveUpWhole == ASSUME IInv, IInv', WInv, GiveUp PROVE WInv'
<1>u. UNCHANGED <<answer, send, toServer, lines, given, ranOut>> /\ Settled("failed")
    BY DEF GiveUp, network
<1>1. pending' = None /\ \A d \in Commands : call'[d] = "answered" => call[d] = "answered"
    BY <1>u DEF IInv, TypeOK, Settled
<1> QED
    BY <1>u, <1>1, NoLine

LEMMA DropWhole == ASSUME IInv, IInv', WInv, Drop PROVE WInv'
<1>u. /\ UNCHANGED <<answer, given, ranOut>> /\ pending' = None /\ lines' = <<>> /\ toServer' = <<>>
      /\ call' = [c \in Commands |-> IF call[c] \in {"queued", "running"} THEN "failed" ELSE call[c]]
      /\ send' = [c \in Commands |-> IF send[c] = "writing" THEN "failed" ELSE send[c]]
    BY DEF Drop, history
<1>1. \A d \in Commands : call'[d] = "answered" => call[d] = "answered"
    BY <1>u
<1>2. \A d \in Commands : /\ send'[d] = "none" => send[d] = "none"
                          /\ send'[d] \in {"none", "writing"} => send[d] \in {"none", "writing"}
    BY <1>u
<1>3. Range(toServer)' = {}
    BY <1>u DEF Range
<1> QED
    BY <1>u, <1>1, <1>2, <1>3, NoLine

LEMMA InstallWhole == ASSUME IInv, IInv', WInv, Install PROVE WInv'
<1>u. UNCHANGED <<call, answer, send, toServer, lines, given, ranOut>> /\ pending' = None
    BY DEF Install, network, history
<1> QED
    BY <1>u, NoLine

\* A command that starts has no row yet, and none is on its way.
LEMMA StartWhole == ASSUME IInv, IInv', WInv, Start PROVE WInv'
<1>u. UNCHANGED <<answer, toServer, lines, given, ranOut>> /\ pending = None
    BY DEF Start, network, history
<1>1. PICK c \in Commands : c = Head(queue) /\ send[c] = "none"
    BY StartFacts
<1>2. CASE pending' = c /\ call' = [call EXCEPT ![c] = "running"] /\ send' = [send EXCEPT ![c] = "writing"]
    <2>1. \A d \in Commands : /\ call'[d] = IF d = c THEN "running" ELSE call[d]
                              /\ send'[d] = IF d = c THEN "writing" ELSE send[d]
        BY <1>2 DEF IInv, TypeOK
    <2>2. PendingRuns'
        BY <1>2, <2>1 DEF PendingRuns
    <2>3. NothingBefore'
        BY <1>u, <1>1, <2>1 DEF WInv, NothingBefore
    <2>4. RowsAreNumbered'
        BY <1>u DEF WInv, RowsAreNumbered
    <2>5. answer[c] = <<>> /\ given[c] = 0 /\ \A i \in DOMAIN lines : ~IsRow(lines[i], c)
        BY <1>1, RowIsRead DEF WInv, NothingBefore
    <2>6. BeginsAnswer(c)' /\ RestIsComing(c)'
        BY <1>u, <2>5 DEF BeginsAnswer, RestIsComing
    <2>7. AnswerInStep'
        BY <1>2, <2>6 DEF AnswerInStep
    <2>8. AnswersAreWhole'
        BY <1>u, <2>1, WholeKept DEF WInv
    <2> QED
        BY <2>2, <2>3, <2>4, <2>7, <2>8 DEF WInv
<1>3. CASE call' = [call EXCEPT ![c] = "failed"] /\ UNCHANGED <<pending, send>>
    <2>1. \A d \in Commands : call'[d] = "answered" => call[d] = "answered"
        BY <1>3 DEF IInv, TypeOK
    <2> QED
        BY <1>u, <1>3, <2>1, NoLine
<1> QED
    BY <1>1, <1>2, <1>3 DEF Start

\* The steps in which the command on the wire is answered.
LEMMA SettledWhole ==
    ASSUME IInv, IInv', WInv, NEW p \in Commands, p = pending, Settled("answered"),
           NothingBefore', RowsAreNumbered', ranOut \subseteq ranOut',
           \A d \in Commands : d # p => answer'[d] = answer[d] /\ given'[d] = given[d],
           \/ p \in ranOut' \/ HasForeignRow(p)'
           \/ answer'[p] = [i \in 1 .. given'[p] |-> Row(p, i)]
    PROVE  WInv'
<1>1. pending' = None /\ \A d \in Commands : d # p => call'[d] = call[d]
    BY DEF IInv, TypeOK, Settled
<1>2. PendingRuns' /\ AnswerInStep'
    BY <1>1, KindFacts DEF PendingRuns, AnswerInStep
<1>3. AnswersAreWhole'
    BY <1>1, WholeKept DEF WInv
<1> QED
    BY <1>2, <1>3 DEF WInv

\* The wait for late rows is over: either nothing more is on its way, or it was too short.
LEMMA HeldTimerWhole == ASSUME IInv, IInv', WInv, HeldTimer PROVE WInv'
<1>u. /\ UNCHANGED <<answer, send, toServer, lines, given, kind>> /\ held /\ Settled("answered")
      /\ pending # None
      /\ ranOut' = IF StillToCome(pending) THEN ranOut \cup {pending} ELSE ranOut
    BY DEF HeldTimer, network
<1>1. PICK p \in Commands : p = pending
    BY <1>u DEF IInv, TypeOK
<1>2. send[p] = "sent" /\ ~Owed(p) /\ kind[p] \in Kinds
    BY <1>u, <1>1, HeldFacts DEF IInv, TypeOK
<1>3. \A d \in Commands : d # p => call'[d] = call[d]
    BY <1>u, <1>1 DEF Settled, IInv, TypeOK
<1>4. NothingBefore'
    BY <1>u, <1>2, <1>3 DEF WInv, NothingBefore, Owed
<1>5. RowsAreNumbered'
    BY <1>u DEF WInv, RowsAreNumbered
<1>6. p \notin ranOut' => \A i \in DOMAIN lines : ~IsRow(lines[i], p)
    BY <1>u, <1>1 DEF StillToCome, IsRow
<1>7. p \in ranOut' \/ HasForeignRow(p) \/ answer[p] = [i \in 1 .. given[p] |-> Row(p, i)]
    BY <1>u, <1>1, <1>6, WholeWhenNoneComes
<1>8. HasForeignRow(p) => HasForeignRow(p)'
    BY <1>u DEF HasForeignRow
<1>9. ranOut \subseteq ranOut'
    BY <1>u
<1> QED
    BY <1>u, <1>1, <1>4, <1>5, <1>7, <1>8, <1>9, SettledWhole

LEMMA NotifiesWhole == ASSUME IInv, IInv', WInv, ServerNotifies PROVE WInv'
<1>u. /\ UNCHANGED <<call, answer, send, pending, toServer, given, ranOut>>
      /\ lines' = Append(lines, Note)
    BY DEF ServerNotifies, client, history
<1>1. /\ Len(lines) \in Nat /\ DOMAIN lines = 1 .. Len(lines) /\ DOMAIN lines' = 1 .. Len(lines) + 1
      /\ \A i \in 1 .. Len(lines) : lines'[i] = lines[i]
      /\ lines'[Len(lines) + 1] = Note
    BY <1>u, AppendFacts, NoteFacts DEF IInv, TypeOK
<1>2. /\ \A i \in DOMAIN lines : i \in DOMAIN lines' /\ lines'[i] = lines[i]
      /\ \A i \in DOMAIN lines' : \A c \in Commands : IsRow(lines'[i], c) => i \in DOMAIN lines
    BY <1>1, NoteFacts DEF IsRow
<1>3. PendingRuns' /\ NothingBefore'
    BY <1>u DEF WInv, PendingRuns, NothingBefore
<1>4. RowsAreNumbered'
    BY <1>u, <1>2 DEF WInv, RowsAreNumbered
<1>5. AnswerInStep'
    <2> SUFFICES ASSUME NEW c \in Commands, c = pending', ~HasForeignRow(c)'
                 PROVE  BeginsAnswer(c)' /\ RestIsComing(c)'
        BY DEF AnswerInStep
    <2>1. BeginsAnswer(c) /\ RestIsComing(c)
        BY <1>u DEF WInv, AnswerInStep, HasForeignRow
    <2> QED
        BY <1>u, <1>2, <2>1 DEF BeginsAnswer, RestIsComing
<1>6. AnswersAreWhole'
    BY <1>u, WholeKept DEF WInv
<1> QED
    BY <1>3, <1>4, <1>5, <1>6 DEF WInv

\* WebQuery has the whole answer at once.
LEMMA WebAnswersWhole == ASSUME IInv, IInv', WInv, WebAnswers PROVE WInv'
<1>u. /\ UNCHANGED <<toServer, lines, ranOut>> /\ link = "web" /\ pending # None /\ up
      /\ send' = [send EXCEPT ![pending] = "sent"] /\ \A c \in left : send[c] # "writing"
    BY DEF WebAnswers, history
<1>1. PICK p \in Commands : p = pending
    BY <1>u DEF IInv, TypeOK
<1>2. lines = <<>> /\ toServer = <<>> /\ Range(toServer) = {} /\ Range(toServer)' = {}
    BY <1>u DEF IInv, WebIsEmpty, Range
<1>3. \A d \in Commands : send'[d] = IF d = p THEN "sent" ELSE send[d]
    BY <1>u, <1>1 DEF IInv, TypeOK
<1>4. abandoned = 0
    <2>1. {d \in left : Owed(d)} = {}
        BY <1>u, <1>2 DEF Owed
    <2> QED
        BY <2>1, <1>u, CountFacts DEF IInv, AbandonedIsExact
<1>5. CASE Settled("failed") /\ UNCHANGED <<answer, given>>
    <2>1. pending' = None /\ \A d \in Commands : call'[d] = "answered" => call[d] = "answered"
        BY <1>5 DEF IInv, TypeOK, Settled
    <2>2. \A d \in Commands : /\ send'[d] = "none" => send[d] = "none"
                              /\ send'[d] \in {"none", "writing"} => send[d] \in {"none", "writing"}
        BY <1>3
    <2> QED
        BY <1>u, <1>2, <1>5, <2>1, <2>2, NoLine
<1>6. ASSUME NEW n \in RowCounts(kind[p]), Settled("answered"),
             answer' = [answer EXCEPT ![p] = [i \in 1 .. n |-> Row(p, i)]],
             given' = [given EXCEPT ![p] = n]
      PROVE  WInv'
    <2>1. \A d \in Commands : d # p => call'[d] = call[d] /\ answer'[d] = answer[d] /\ given'[d] = given[d]
        BY <1>1, <1>6 DEF Settled, IInv, TypeOK
    <2>2. answer'[p] = [i \in 1 .. n |-> Row(p, i)] /\ given'[p] = n
        BY <1>1, <1>6 DEF IInv, TypeOK
    <2>3. NothingBefore'
        BY <1>2, <1>3, <2>1 DEF WInv, NothingBefore
    <2>4. RowsAreNumbered'
        BY <1>u, <1>2 DEF RowsAreNumbered
    <2> QED
        BY <1>u, <1>1, <1>6, <2>1, <2>2, <2>3, <2>4, SettledWhole
<1> QED
    BY <1>1, <1>4, <1>5, <1>6 DEF WebAnswers

\* A line is read: the rows behind it stay in their order, and those of a command it is
\* not a row of are all still there.
LEMMA ReadShifts ==
    ASSUME IInv, WInv, NEW t, Read(t)
    PROVE  /\ RowsAreNumbered'
           /\ \A i \in DOMAIN lines : i = 1 \/ \E j \in DOMAIN lines' : lines'[j] = lines[i]
           /\ \A c \in Commands :
                  ~IsRow(lines[1], c) /\ answer'[c] = answer[c] /\ RestIsComing(c) => RestIsComing(c)'
<1>1. /\ UNCHANGED <<kind, send, toServer, given>>
      /\ \A i \in DOMAIN lines' : i + 1 \in DOMAIN lines /\ 1 < i + 1 /\ lines'[i] = lines[i + 1]
      /\ \A i, j \in DOMAIN lines' : i < j => i + 1 < j + 1
    BY ReadFacts
<1>2. \A i \in DOMAIN lines : i = 1 \/ \E j \in DOMAIN lines' : lines'[j] = lines[i]
    <2>1. /\ Len(lines) \in Nat \ {0} /\ DOMAIN lines = 1 .. Len(lines) /\ DOMAIN lines' = 1 .. Len(lines) - 1
          /\ \A i \in 1 .. Len(lines) - 1 : lines'[i] = lines[i + 1]
        BY TailFacts DEF Read, IInv, TypeOK
    <2>2. ASSUME NEW i \in DOMAIN lines, i # 1
          PROVE  i - 1 \in DOMAIN lines' /\ lines'[i - 1] = lines[i]
        <3>1. i - 1 \in 1 .. Len(lines) - 1 /\ (i - 1) + 1 = i
            BY <2>1, <2>2
        <3> QED
            BY <3>1, <2>1
    <2> QED
        BY <2>2
<1>3. RowsAreNumbered'
    <2>1. ASSUME NEW i \in DOMAIN lines', NEW c \in Commands, IsRow(lines'[i], c)
          PROVE  lines'[i].n \in 1 .. given'[c]
        BY <1>1, <2>1 DEF WInv, RowsAreNumbered
    <2>2. ASSUME NEW i \in DOMAIN lines', NEW j \in DOMAIN lines', NEW c \in Commands,
                 i < j, IsRow(lines'[i], c), IsRow(lines'[j], c)
          PROVE  lines'[i].n < lines'[j].n
        <3>1. i + 1 \in DOMAIN lines /\ j + 1 \in DOMAIN lines /\ i + 1 < j + 1
            BY <1>1, <2>2
        <3>2. lines'[i] = lines[i + 1] /\ lines'[j] = lines[j + 1]
            BY <1>1
        <3> QED
            BY <2>2, <3>1, <3>2 DEF WInv, RowsAreNumbered
    <2> QED
        BY <2>1, <2>2 DEF RowsAreNumbered
<1>4. ASSUME NEW c \in Commands, ~IsRow(lines[1], c), answer'[c] = answer[c], RestIsComing(c)
      PROVE  RestIsComing(c)'
    <2>1. Len(answer'[c]) = Len(answer[c]) /\ given'[c] = given[c]
        BY <1>1, <1>4
    <2>2. ASSUME NEW n \in Len(answer[c]) + 1 .. given[c]
          PROVE  \E i \in DOMAIN lines' : IsRow(lines'[i], c) /\ lines'[i].n = n
        <3>1. PICK i \in DOMAIN lines : IsRow(lines[i], c) /\ lines[i].n = n
            BY <1>4 DEF RestIsComing
        <3>2. i # 1
            BY <1>4, <3>1
        <3> QED
            BY <1>2, <3>1, <3>2
    <2>3. \A i \in DOMAIN lines' : IsRow(lines'[i], c) => lines'[i].n > Len(answer[c])
        BY <1>1, <1>4 DEF RestIsComing
    <2> QED
        BY <1>4, <2>1, <2>2, <2>3 DEF RestIsComing
<1> QED
    BY <1>2, <1>3, <1>4

\* A line is read and ends nothing, or fails the command on the wire.
LEMMA PassedOver ==
    ASSUME IInv, IInv', WInv, NEW t, Read(t), UNCHANGED <<answer, ranOut>>,
           \A c \in Commands : ~IsRow(lines[1], c) \/ c # pending,
           \/ UNCHANGED <<call, pending>>
           \/ pending # None /\ Settled("failed")
    PROVE  WInv'
<1>1. UNCHANGED <<kind, send, toServer, given>>
    BY ReadFacts
<1>2. \A c \in Commands : call'[c] = "answered" => call[c] = "answered"
    BY DEF Settled, IInv, TypeOK
<1>3. PendingRuns'
    BY DEF WInv, PendingRuns, Settled
<1>4. NothingBefore'
    BY <1>1, <1>2 DEF WInv, NothingBefore
<1>5. RowsAreNumbered'
    BY ReadShifts
<1>6. AnswerInStep'
    <2> SUFFICES ASSUME NEW c \in Commands, c = pending', ~HasForeignRow(c)'
                 PROVE  BeginsAnswer(c)' /\ RestIsComing(c)'
        BY DEF AnswerInStep
    <2>1. c = pending
        BY KindFacts DEF Settled
    <2>2. ~HasForeignRow(c)
        BY DEF HasForeignRow
    <2>3. BeginsAnswer(c) /\ RestIsComing(c)
        BY <2>1, <2>2 DEF WInv, AnswerInStep
    <2>4. RestIsComing(c)'
        BY <2>1, <2>3, ReadShifts
    <2> QED
        BY <2>3, <2>4 DEF BeginsAnswer
<1>7. AnswersAreWhole'
    BY <1>1, <1>2, WholeKept DEF WInv
<1> QED
    BY <1>3, <1>4, <1>5, <1>6, <1>7 DEF WInv

LEMMA ReadNotifyWhole == ASSUME IInv, IInv', WInv, ReadNotify PROVE WInv'
<1>1. Read("notify") /\ UNCHANGED <<call, answer, pending, ranOut>>
    BY DEF ReadNotify, history
<1>2. lines[1].type = "notify"
    BY <1>1, ReadFacts
<1> QED
    BY <1>1, <1>2, PassedOver DEF IsRow

\* The `error` line completes an answer only where no row of it can follow.
LEMMA ReadErrorWhole == ASSUME IInv, IInv', WInv, ReadError PROVE WInv'
<1>u. Read("error") /\ UNCHANGED <<answer, ranOut>>
    BY DEF ReadError, history
<1>1. /\ lines[1].type = "error" /\ Head(lines) = lines[1] /\ lines[1] \in Messages /\ 1 \in DOMAIN lines
      /\ UNCHANGED <<kind, send, toServer, given>> /\ link = "ssh" /\ up
    BY <1>u, ReadFacts
<1>2. \A c \in Commands : ~IsRow(lines[1], c)
    BY <1>1 DEF IsRow
<1>3. PICK d \in Commands : IsErr(lines[1], d)
    BY <1>1, MessageFacts DEF IsErr
<1>4. abandoned \in Nat /\ (abandoned = 0 => d = pending)
    BY <1>1, <1>3, NextErrorFacts
<1>5. CASE UNCHANGED <<call, pending>>
    BY <1>u, <1>2, <1>5, PassedOver
<1>6. CASE pending # None /\ Settled("failed")
    BY <1>u, <1>2, <1>6, PassedOver
<1>7. ASSUME abandoned = 0, lines[1].ok, Complete(pending), Settled("answered")
      PROVE  WInv'
    <2>1. d = pending
        BY <1>4, <1>7
    <2>2. ASSUME ~HasForeignRow(d)
          PROVE  \A i \in DOMAIN lines : ~IsRow(lines[i], d)
        <3> SUFFICES ASSUME NEW i \in DOMAIN lines, IsRow(lines[i], d)  PROVE FALSE
            OBVIOUS
        <3>1. 1 < i
            <4>1. i # 1
                BY <1>2
            <4> QED
                BY <4>1, WireFacts
        <3>2. CASE ~Late(kind[d])
            BY <1>1, <1>3, <3>1, <3>2 DEF IInv, AnswersAreShaped
        <3>3. CASE HasLateRow(d) /\ kind[d] # "several"
            <4>1. PICK j \in DOMAIN answer[d] : TRUE
                BY <3>3 DEF HasLateRow
            <4>2. answer[d][j].of = d
                BY <2>2 DEF HasForeignRow
            <4> QED
                BY <1>1, <1>3, <3>1, <3>3, <4>2 DEF IInv, RowsAreReadOnce
        <3> QED
            BY <1>1, <1>7, <2>1, <3>2, <3>3 DEF Complete
    <2>3. HasForeignRow(d) \/ answer[d] = [i \in 1 .. given[d] |-> Row(d, i)]
        BY <2>1, <2>2, WholeWhenNoneComes
    <2>4. HasForeignRow(d) => HasForeignRow(d)'
        BY <1>u DEF HasForeignRow
    <2>5. \A c \in Commands : c # d => call'[c] = call[c]
        BY <1>7, <2>1 DEF Settled, IInv, TypeOK
    <2>6. send[d] = "sent" /\ d \notin Range(toServer)
        <3>1. send[d] = "sent" /\ \A j \in DOMAIN toServer : d < toServer[j]
            BY <1>1, <1>3 DEF IInv, WireInOrder, IsErr, Speaks
        <3>2. \A j \in DOMAIN toServer : toServer[j] # d
            BY <3>1, WireFacts DEF Commands
        <3> QED
            BY <3>1, <3>2 DEF Range
    <2>7. NothingBefore'
        BY <1>u, <1>1, <2>5, <2>6 DEF WInv, NothingBefore
    <2>8. RowsAreNumbered'
        BY <1>u, ReadShifts
    <2> QED
        BY <1>u, <1>1, <1>7, <2>1, <2>3, <2>4, <2>7, <2>8, SettledWhole
<1>8. \/ UNCHANGED <<call, pending>>
      \/ pending # None /\ Settled("failed")
      \/ abandoned = 0 /\ lines[1].ok /\ Complete(pending) /\ Settled("answered")
    BY <1>1, <1>4 DEF ReadError
<1> QED
    BY <1>5, <1>6, <1>7, <1>8

\* While the answer of a command that gave up is owed, no row of the command on the wire
\* is read: it comes behind it.
LEMMA OwedComesFirst ==
    ASSUME IInv, up, NEW p \in Commands, p = pending, 1 \in DOMAIN lines, IsRow(lines[1], p)
    PROVE  abandoned = 0
<1>1. ASSUME NEW e \in left, Owed(e)  PROVE FALSE
    <2>1. e \in Commands /\ e # p /\ e <= p /\ e < p
        <3>1. e \in Commands /\ e # p /\ send[e] # "none"
            BY KindFacts DEF IInv, TypeOK, PendingIsLast
        <3>2. e <= p
            BY <3>1, KindFacts DEF IInv, PendingIsLast
        <3> QED
            BY <3>1, <3>2 DEF Commands
    <2>2. /\ \A c \in Commands : send[c] = "writing" => p < c
          /\ \A j \in DOMAIN toServer : p < toServer[j]
          /\ \A j \in DOMAIN lines : 1 < j /\ Speaks(lines[j]) => p <= lines[j].of
        BY DEF IInv, WireInOrder, IsRow, Speaks
    <2>3. CASE send[e] = "writing"
        BY <2>1, <2>2, <2>3 DEF Commands
    <2>4. ASSUME NEW j \in DOMAIN toServer, toServer[j] = e  PROVE FALSE
        BY <2>1, <2>2, <2>4 DEF Commands
    <2>5. ASSUME NEW j \in DOMAIN lines, IsErr(lines[j], e)  PROVE FALSE
        <3>1. j # 1
            BY <2>5 DEF IsRow, IsErr
        <3>2. 1 < j
            BY <3>1, WireFacts
        <3>3. p <= e
            BY <2>2, <2>5, <3>2 DEF IsErr, Speaks
        <3> QED
            BY <2>1, <3>3 DEF Commands
    <2> QED
        BY <1>1, <2>3, <2>4, <2>5, WireFacts
<1>2. {e \in left : Owed(e)} = {}
    BY <1>1
<1> QED
    BY <1>2, CountFacts DEF IInv, AbandonedIsExact

\* A row of the command on the wire is the next of its answer.
LEMMA NextRow ==
    ASSUME IInv, WInv, NEW p \in Commands, p = pending, ~HasForeignRow(p),
           1 \in DOMAIN lines, IsRow(lines[1], p)
    PROVE  lines[1] = Row(p, Len(answer[p]) + 1) /\ Len(answer[p]) + 1 <= given[p]
<1> DEFINE k == Len(answer[p])
<1>1. k \in Nat /\ given[p] \in Nat
    BY SeqFacts DEF IInv, TypeOK
<1>2. RestIsComing(p)
    BY DEF WInv, AnswerInStep
<1>3. lines[1].n \in 1 .. given[p] /\ lines[1].n > k
    BY <1>2 DEF WInv, RowsAreNumbered, RestIsComing
<1>4. lines[1].n = k + 1
    <2>1. k + 1 \in k + 1 .. given[p]
        BY <1>1, <1>3
    <2>2. PICK i \in DOMAIN lines : IsRow(lines[i], p) /\ lines[i].n = k + 1
        BY <1>2, <2>1 DEF RestIsComing
    <2>3. i = 1 \/ 1 < i
        BY WireFacts
    <2>4. 1 < i => lines[1].n < lines[i].n
        BY <2>2 DEF WInv, RowsAreNumbered
    <2> QED
        BY <1>1, <1>3, <2>2, <2>3, <2>4
<1>5. lines[1] \in Rows
    BY WireFacts, MessageFacts DEF IsRow
<1>6. lines[1] = Row(p, k + 1)
    BY <1>4, <1>5 DEF Rows, Row, IsRow
<1> QED
    BY <1>1, <1>3, <1>4, <1>6

LEMMA ReadRowWhole == ASSUME IInv, IInv', WInv, ReadRow PROVE WInv'
<1> DEFINE r     == Head(lines)
           taken == abandoned = 0 /\ pending # None /\ (Strayed(r) => OwnKey)
           ends  == held /\ kind[pending] \notin {"several", "read"} /\ KeyOf(kind[pending]) \in Keys(kind[r.of])
<1>u. /\ Read("row") /\ UNCHANGED ranOut
      /\ answer' = IF taken THEN [answer EXCEPT ![pending] = Append(@, r)] ELSE answer
      /\ taken /\ ends => Settled("answered")
      /\ ~(taken /\ ends) => UNCHANGED <<call, pending, held>>
    BY DEF ReadRow, history
<1>1. /\ lines[1].type = "row" /\ r = lines[1] /\ lines[1] \in Messages /\ 1 \in DOMAIN lines
      /\ UNCHANGED <<kind, send, toServer, given>> /\ link = "ssh" /\ up
    BY <1>u, ReadFacts
<1>2. PICK d \in Commands : IsRow(lines[1], d) /\ d = r.of /\ \A x \in Commands : IsRow(lines[1], x) => x = d
    BY <1>1, MessageFacts DEF IsRow
<1>3. r \in Rows
    BY <1>1, MessageFacts
<1>4. d = pending => taken
    <2>1. d = pending => abandoned = 0 /\ pending # None
        BY <1>1, <1>2, OwedComesFirst, KindFacts
    <2>2. d = pending => (Strayed(r) => OwnKey)
        <3>1. ASSUME d = pending, Strayed(r)  PROVE OwnKey
            <4>1. kind[d] \in Kinds /\ strayKey \in {"id", "other"} /\ Keys(kind[d]) = {strayKey}
                BY <1>2, <3>1 DEF Strayed, IInv, TypeOK
            <4>2. Keys(kind[d]) = {KeyOf(kind[d])}
                BY <4>1, KindFacts
            <4>3. KeyOf(kind[d]) = strayKey
                BY <4>1, <4>2
            <4> QED
                BY <2>1, <3>1, <4>1, <4>3, KindFacts DEF OwnKey, HasOneKey
        <3> QED
            BY <3>1
    <2> QED
        BY <2>1, <2>2
<1>5. CASE ~taken
    <2>1. UNCHANGED <<answer, call, pending, ranOut>>
        BY <1>u, <1>5
    <2>2. \A c \in Commands : ~IsRow(lines[1], c) \/ c # pending
        BY <1>2, <1>4, <1>5
    <2> QED
        BY <1>u, <2>1, <2>2, PassedOver
<1>6. CASE taken
    <2>1. PICK p \in Commands : p = pending
        BY <1>6 DEF IInv, TypeOK
    <2>2. /\ \A c \in Commands : c # p => answer'[c] = answer[c]
          /\ answer'[p] = Append(answer[p], r) /\ answer[p] \in Seq(Rows)
        BY <1>u, <1>6, <2>1 DEF IInv, TypeOK
    <2>3. /\ Len(answer[p]) \in Nat /\ DOMAIN answer[p] = 1 .. Len(answer[p])
          /\ DOMAIN answer'[p] = 1 .. Len(answer[p]) + 1 /\ Len(answer'[p]) = Len(answer[p]) + 1
          /\ \A i \in 1 .. Len(answer[p]) : answer'[p][i] = answer[p][i]
          /\ answer'[p][Len(answer[p]) + 1] = r
        <3>1. Len(answer'[p]) = Len(answer[p]) + 1
            BY <2>2
        <3> QED
            BY <1>3, <2>2, <3>1, AppendFacts
    <2>4. ASSUME ~HasForeignRow(p)'
          PROVE  ~HasForeignRow(p) /\ d = p
        <3>1. \A i \in 1 .. Len(answer[p]) + 1 : answer'[p][i].of = p
            BY <2>3, <2>4 DEF HasForeignRow
        <3>2. \A i \in 1 .. Len(answer[p]) : i \in 1 .. Len(answer[p]) + 1
            BY <2>3
        <3>3. ~HasForeignRow(p)
            BY <2>3, <3>1, <3>2 DEF HasForeignRow
        <3>4. Len(answer[p]) + 1 \in 1 .. Len(answer[p]) + 1
            BY <2>3
        <3> QED
            BY <1>2, <2>3, <3>1, <3>3, <3>4
    \* What is left of an answer that has no row of another.
    <2>5. ASSUME ~HasForeignRow(p)'
          PROVE  BeginsAnswer(p)' /\ RestIsComing(p)'
        <3> DEFINE k == Len(answer[p])
        <3>1. ~HasForeignRow(p) /\ IsRow(lines[1], p) /\ BeginsAnswer(p) /\ RestIsComing(p)
            BY <1>2, <2>1, <2>4, <2>5 DEF WInv, AnswerInStep
        <3>2. r = Row(p, k + 1) /\ k + 1 <= given[p]
            BY <1>1, <2>1, <3>1, NextRow
        <3>3. BeginsAnswer(p)'
            <4>1. \A i \in 1 .. k : answer'[p][i] = Row(p, i)
                BY <2>3, <3>1 DEF BeginsAnswer
            <4>2. answer'[p][k + 1] = Row(p, k + 1)
                BY <2>3, <3>2
            <4>3. \A i \in DOMAIN answer'[p] : i \in 1 .. k \/ i = k + 1
                BY <2>3
            <4> QED
                BY <4>1, <4>2, <4>3 DEF BeginsAnswer
        <3>4. ASSUME NEW n \in k + 2 .. given[p]
              PROVE  \E i \in DOMAIN lines' : IsRow(lines'[i], p) /\ lines'[i].n = n
            <4>1. n \in k + 1 .. given[p] /\ n # k + 1
                BY <2>3
            <4>2. PICK i \in DOMAIN lines : IsRow(lines[i], p) /\ lines[i].n = n
                BY <3>1, <4>1 DEF RestIsComing
            <4>3. i # 1
                BY <1>1, <3>2, <4>1, <4>2 DEF Row
            <4>4. PICK j \in DOMAIN lines' : lines'[j] = lines[i]
                BY <1>u, <4>3, ReadShifts
            <4> QED
                BY <4>2, <4>4
        <3>5. ASSUME NEW i \in DOMAIN lines', IsRow(lines'[i], p)
              PROVE  lines'[i].n > k + 1
            <4>1. i + 1 \in DOMAIN lines /\ 1 < i + 1 /\ lines'[i] = lines[i + 1]
                BY <1>u, ReadFacts
            <4>2. lines[1].n < lines[i + 1].n
                BY <1>1, <3>1, <3>5, <4>1 DEF WInv, RowsAreNumbered
            <4>3. lines[1].n = k + 1
                BY <1>1, <3>2 DEF Row
            <4>4. lines[i + 1].n \in 1 .. given[p] /\ given[p] \in Nat
                BY <3>5, <4>1 DEF WInv, RowsAreNumbered, IInv, TypeOK
            <4> QED
                BY <2>3, <4>1, <4>2, <4>3, <4>4
        <3>6. (k + 1) + 1 = k + 2 /\ Len(answer'[p]) = k + 1 /\ given'[p] = given[p]
            BY <1>1, <2>3
        <3>7. RestIsComing(p)'
            BY <3>2, <3>4, <3>5, <3>6 DEF RestIsComing
        <3> QED
            BY <3>3, <3>7
    <2>6. RowsAreNumbered'
        BY <1>u, ReadShifts
    <2>7. send[p] # "none"
        BY <2>1, KindFacts DEF IInv, PendingIsLast
    <2>8. CASE ~ends
        <3>1. UNCHANGED <<call, pending>> /\ call[p] = "running"
            BY <1>u, <2>1, <2>8, KindFacts DEF WInv, PendingRuns
        <3>2. PendingRuns'
            BY <3>1 DEF WInv, PendingRuns
        <3>3. NothingBefore'
            BY <1>1, <2>2, <2>7, <3>1 DEF WInv, NothingBefore
        <3>4. AnswerInStep'
            BY <2>1, <2>5, <3>1 DEF AnswerInStep
        <3>5. \A c \in Commands : call'[c] = "answered" =>
                  call[c] = "answered" /\ answer'[c] = answer[c] /\ given'[c] = given[c]
            BY <1>1, <2>2, <3>1
        <3>6. AnswersAreWhole'
            BY <1>u, <3>5, WholeKept DEF WInv
        <3> QED
            BY <2>6, <3>2, <3>3, <3>4, <3>6 DEF WInv
    <2>9. CASE ends
        <3>1. Settled("answered") /\ held
            BY <1>u, <1>6, <2>9
        <3>2. send[p] = "sent" /\ ~Owed(p) /\ d = p
            BY <1>1, <1>2, <2>1, <3>1, HeldFacts
        <3>3. kind[p] \in One
            <4>1. kind[p] \in Kinds /\ Late(kind[p])
                BY <1>1, <1>2, <3>2 DEF IInv, TypeOK, LateRowsAreKnown
            <4> QED
                BY <2>1, <2>9, <4>1 DEF Kinds, Late, One
        <3>4. \A i \in DOMAIN lines' : ~IsRow(lines'[i], p)
            <4>1. \A i \in DOMAIN lines' : i + 1 \in DOMAIN lines /\ 1 < i + 1 /\ lines'[i] = lines[i + 1]
                BY <1>u, ReadFacts
            <4> QED
                BY <1>1, <1>2, <3>2, <3>3, <4>1 DEF IInv, AnswersAreShaped
        <3>5. ASSUME ~HasForeignRow(p)'
              PROVE  answer'[p] = [i \in 1 .. given'[p] |-> Row(p, i)]
            <4>1. BeginsAnswer(p)' /\ RestIsComing(p)'
                BY <2>5, <3>5
            <4>2. /\ given'[p] \in Nat /\ Len(answer'[p]) \in Nat /\ Len(answer'[p]) <= given'[p]
                  /\ \A n \in Len(answer'[p]) + 1 .. given'[p] : FALSE
                BY <1>1, <2>3, <3>4, <4>1 DEF RestIsComing, IInv, TypeOK
            <4>3. given'[p] \notin Len(answer'[p]) + 1 .. given'[p]
                BY <4>2
            <4>4. Len(answer'[p]) = given'[p]
                BY <4>2, <4>3
            <4>5. answer'[p] \in Seq(Rows) /\ DOMAIN answer'[p] = 1 .. given'[p]
                BY <2>3, <4>4 DEF IInv, TypeOK
            <4>6. answer'[p] = [i \in 1 .. given'[p] |-> answer'[p][i]]
                <5>1. answer'[p] = [i \in 1 .. Len(answer'[p]) |-> answer'[p][i]]
                    BY <4>5
                <5> QED
                    BY <4>4, <5>1
            <4> QED
                BY <4>1, <4>5, <4>6 DEF BeginsAnswer
        <3>6. \A c \in Commands : c # p => call'[c] = call[c]
            BY <2>1, <3>1 DEF Settled, IInv, TypeOK
        <3>7. NothingBefore'
            BY <1>1, <2>2, <2>7, <3>2, <3>6 DEF WInv, NothingBefore, Owed
        <3> QED
            BY <1>u, <1>1, <2>1, <2>2, <2>6, <3>1, <3>5, <3>7, SettledWhole
    <2> QED
        BY <2>8, <2>9
<1> QED
    BY <1>5, <1>6

----------------------------------------------------------------------------
\* The rows of an answer are numbered from 1 on, whichever side of the `error` line they
\* are on.
LEMMA AnswerNumbers ==
    ASSUME NEW c \in Commands, NEW n \in Nat, NEW i \in 0 .. n
    PROVE  LET a == AnswerLines(c, n, i, TRUE)
           IN  /\ \A j \in 1 .. n + 1 : j # i + 1 => a[j].n = IF j <= i THEN j ELSE j - 1
               /\ \A x \in 1 .. n : \E j \in 1 .. n + 1 : j # i + 1 /\ a[j].n = x
<1> DEFINE a == AnswerLines(c, n, i, TRUE)
<1>1. ASSUME NEW j \in 1 .. n + 1, j # i + 1
      PROVE  a[j].n = IF j <= i THEN j ELSE j - 1
    <2>1. a[j] = CASE j <= i -> Row(c, j) [] j = i + 1 -> Err(c, TRUE) [] OTHER -> Row(c, j - 1)
        BY DEF AnswerLines
    <2>2. a[j] = IF j <= i THEN Row(c, j) ELSE Row(c, j - 1)
        BY <1>1, <2>1
    <2> HIDE DEF a
    <2> QED
        BY <2>2 DEF Row
<1> HIDE DEF a
<1>2. ASSUME NEW x \in 1 .. n
      PROVE  \E j \in 1 .. n + 1 : j # i + 1 /\ a[j].n = x
    <2>1. CASE x <= i
        <3>1. x \in 1 .. n + 1 /\ x # i + 1
            BY <2>1
        <3>2. a[x].n = x
            BY <1>1, <2>1, <3>1
        <3> QED
            BY <3>1, <3>2
    <2>2. CASE x > i
        <3>1. x + 1 \in 1 .. n + 1 /\ x + 1 # i + 1 /\ ~(x + 1 <= i) /\ (x + 1) - 1 = x
            BY <2>2
        <3>2. a[x + 1].n = x
            BY <1>1, <3>1
        <3> QED
            BY <3>1, <3>2
    <2>3. x <= i \/ x > i
        OBVIOUS
    <2> QED
        BY <2>1, <2>2, <2>3
<1> QED
    BY <1>1, <1>2 DEF a

\* The server answers the command it has read: it had written nothing for it, and now its
\* rows are on the line, in order.
LEMMA ServerAnswersWhole == ASSUME IInv, IInv', WInv, ServerAnswers PROVE WInv'
<1>u. /\ UNCHANGED <<call, answer, send, pending, ranOut>>
      /\ toServer # <<>> /\ toServer' = Tail(toServer)
    BY DEF ServerAnswers, client, history
<1>1. PICK c \in Commands : c = Head(toServer) /\ c \in Range(toServer) /\ c \notin Range(toServer')
                            /\ Range(toServer') \subseteq Range(toServer)
    <2>1. /\ Len(toServer) \in Nat \ {0} /\ Head(toServer) = toServer[1] /\ toServer[1] \in Commands
          /\ DOMAIN toServer = 1 .. Len(toServer) /\ DOMAIN toServer' = 1 .. Len(toServer) - 1
          /\ \A i \in 1 .. Len(toServer) - 1 : toServer'[i] = toServer[i + 1]
        BY <1>u, TailFacts DEF IInv, TypeOK
    <2>2. \A i \in DOMAIN toServer' : i + 1 \in DOMAIN toServer /\ 1 < i + 1 /\ toServer'[i] = toServer[i + 1]
        BY <2>1
    <2>3. 1 \in DOMAIN toServer
        BY <2>1
    <2>4. \A i \in DOMAIN toServer' : toServer[1] < toServer'[i] /\ toServer'[i] \in Commands
        BY <2>2, <2>3, WireFacts DEF IInv, WireInOrder
    <2>5. \A i \in DOMAIN toServer' : toServer'[i] # toServer[1]
        BY <2>1, <2>4 DEF Commands
    <2>6. toServer[1] \in Range(toServer) /\ toServer[1] \notin Range(toServer')
          /\ Range(toServer') \subseteq Range(toServer)
        BY <2>2, <2>3, <2>5 DEF Range
    <2> QED
        BY <2>1, <2>6
<1>2. given[c] = 0 /\ call[c] # "answered" /\ send[c] = "sent"
    <2>1. send[c] = "sent"
        BY <1>1, WireFacts DEF Range
    <2> QED
        BY <1>1, <2>1 DEF WInv, NothingBefore
<1>3. \A i \in DOMAIN lines : ~IsRow(lines[i], c)
    BY <1>1, RowIsRead
<1>4. Len(lines) \in Nat /\ DOMAIN lines = 1 .. Len(lines) /\ kind[c] \in Kinds /\ lines \in Seq(Messages)
    BY WireFacts DEF IInv, TypeOK
<1>5. PendingRuns'
    BY <1>u DEF WInv, PendingRuns
\* Both kinds of answers: what is added to the line is of c, and numbered.
<1>6. ASSUME NEW n \in Nat, \A d \in Commands : given'[d] = IF d = c THEN n ELSE given[d],
             \A i \in DOMAIN lines : i \in DOMAIN lines' /\ lines'[i] = lines[i],
             \A i \in DOMAIN lines' : \A d \in Commands :
                 IsRow(lines'[i], d) => (i \in DOMAIN lines /\ lines[i] = lines'[i]) \/ (d = c /\ i \notin DOMAIN lines),
             \A i \in DOMAIN lines' : IsRow(lines'[i], c) => lines'[i].n \in 1 .. n,
             \A i, j \in DOMAIN lines' :
                 i < j /\ IsRow(lines'[i], c) /\ IsRow(lines'[j], c) => lines'[i].n < lines'[j].n,
             \A x \in 1 .. n : \E i \in DOMAIN lines' : IsRow(lines'[i], c) /\ lines'[i].n = x
      PROVE  WInv'
    <2>1. NothingBefore'
        BY <1>u, <1>1, <1>2, <1>6 DEF WInv, NothingBefore
    <2>2. \A i \in DOMAIN lines' : \A d \in Commands : IsRow(lines'[i], d) /\ d # c => i \in DOMAIN lines /\ IsRow(lines[i], d)
        BY <1>6
    <2>3. RowsAreNumbered'
        BY <1>6, <2>2 DEF WInv, RowsAreNumbered
    <2>4. AnswerInStep'
        <3> SUFFICES ASSUME NEW d \in Commands, d = pending', ~HasForeignRow(d)'
                     PROVE  BeginsAnswer(d)' /\ RestIsComing(d)'
            BY DEF AnswerInStep
        <3>1. BeginsAnswer(d) /\ RestIsComing(d)
            BY <1>u DEF WInv, AnswerInStep, HasForeignRow
        <3>2. BeginsAnswer(d)'
            BY <1>u, <3>1 DEF BeginsAnswer
        <3>3. CASE d # c
            <4>1. answer'[d] = answer[d] /\ given'[d] = given[d]
                BY <1>u, <1>6, <3>3
            <4>2. \A n1 \in Len(answer[d]) + 1 .. given[d] :
                      \E i \in DOMAIN lines' : IsRow(lines'[i], d) /\ lines'[i].n = n1
                BY <1>6, <3>1 DEF RestIsComing
            <4>3. \A i \in DOMAIN lines' : IsRow(lines'[i], d) => lines'[i].n > Len(answer[d])
                BY <1>6, <2>2, <3>1, <3>3 DEF RestIsComing
            <4> QED
                BY <3>1, <3>2, <4>1, <4>2, <4>3 DEF RestIsComing
        <3>4. CASE d = c
            <4>1. Len(answer[c]) = 0
                <5>1. Len(answer[c]) \in Nat
                    BY SeqFacts DEF IInv, TypeOK
                <5> QED
                    BY <1>2, <3>1, <3>4, <5>1 DEF RestIsComing
            <4>2. Len(answer'[c]) = 0 /\ given'[c] = n
                BY <1>u, <1>6, <4>1
            <4>3. \A i \in DOMAIN lines' : IsRow(lines'[i], c) => lines'[i].n > 0
                BY <1>6
            <4>4. \A x \in 0 + 1 .. n : x \in 1 .. n
                OBVIOUS
            <4> QED
                BY <1>6, <3>2, <3>4, <4>2, <4>3, <4>4 DEF RestIsComing
        <3> QED
            BY <3>2, <3>3, <3>4
    <2>5. AnswersAreWhole'
        BY <1>u, <1>2, <1>6, WholeKept DEF WInv
    <2> QED
        BY <1>5, <2>1, <2>3, <2>4, <2>5 DEF WInv
<1>7. ASSUME lines' = Append(lines, Err(c, FALSE)), UNCHANGED given
      PROVE  WInv'
    <2> DEFINE e == Err(c, FALSE)
    <2>1. e \in Messages /\ e.type = "error" /\ lines' = Append(lines, e)
        BY <1>7, ErrFacts
    <2> HIDE DEF e
    <2>2. /\ DOMAIN lines' = 1 .. Len(lines) + 1
          /\ \A i \in 1 .. Len(lines) : lines'[i] = lines[i]
          /\ lines'[Len(lines) + 1] = e
        BY <1>4, <2>1, AppendFacts
    <2>3. /\ \A i \in DOMAIN lines : i \in DOMAIN lines' /\ lines'[i] = lines[i]
          /\ \A i \in DOMAIN lines' : \A d \in Commands : IsRow(lines'[i], d) => i \in DOMAIN lines /\ lines[i] = lines'[i]
        BY <1>4, <2>1, <2>2 DEF IsRow
    <2>4. \A i \in DOMAIN lines' : ~IsRow(lines'[i], c)
        BY <1>3, <2>3
    <2>5. 0 \in Nat /\ (\A d \in Commands : given'[d] = IF d = c THEN 0 ELSE given[d]) /\ \A x \in 1 .. 0 : FALSE
        BY <1>2, <1>7
    <2> QED
        BY <1>6, <2>3, <2>4, <2>5
<1>8. ASSUME NEW n \in RowCounts(kind[c]), NEW i \in RowsBefore(kind[c], n),
             lines' = lines \o AnswerLines(c, n, i, TRUE), given' = [given EXCEPT ![c] = n]
      PROVE  WInv'
    <2> DEFINE a == AnswerLines(c, n, i, TRUE)
               L == Len(lines)
    <2>1. n \in Nat /\ i \in 0 .. n
        BY <1>4, CountOfRows
    <2>2. /\ a \in Seq(Messages) /\ Len(a) = n + 1 /\ DOMAIN a = 1 .. n + 1
          /\ \A j \in 1 .. n + 1 : /\ Speaks(a[j]) /\ a[j].of = c
                                   /\ a[j].type = IF j = i + 1 THEN "error" ELSE "row"
          /\ a[i + 1].ok
        BY <2>1, AnswerFacts
    <2>3. /\ \A j \in 1 .. n + 1 : j # i + 1 => a[j].n = IF j <= i THEN j ELSE j - 1
          /\ \A x \in 1 .. n : \E j \in 1 .. n + 1 : j # i + 1 /\ a[j].n = x
        BY <2>1, AnswerNumbers
    <2>4. lines' = lines \o a
        BY <1>8
    <2> HIDE DEF a
    <2>5. /\ L \in Nat /\ DOMAIN lines' = 1 .. L + (n + 1)
          /\ \A j \in 1 .. L : lines'[j] = lines[j]
          /\ \A j \in 1 .. n + 1 : lines'[L + j] = a[j]
        BY <1>4, <2>2, <2>4, ConcatFacts
    <2>6. \A d \in Commands : given'[d] = IF d = c THEN n ELSE given[d]
        BY <1>8 DEF IInv, TypeOK
    <2>7. \A x \in DOMAIN lines : x \in DOMAIN lines' /\ lines'[x] = lines[x]
        BY <1>4, <2>1, <2>5
    \* A line of the new answer, and its place in it.
    <2>8. \A x \in DOMAIN lines' : x \notin DOMAIN lines =>
              \E j \in 1 .. n + 1 : x = L + j /\ lines'[x] = a[j]
        <3> SUFFICES ASSUME NEW x \in DOMAIN lines', x \notin DOMAIN lines
                     PROVE  \E j \in 1 .. n + 1 : x = L + j /\ lines'[x] = a[j]
            OBVIOUS
        <3>1. x - L \in 1 .. n + 1 /\ x = L + (x - L)
            BY <1>4, <2>1, <2>5
        <3> QED
            BY <2>5, <3>1
    <2>9. ASSUME NEW x \in DOMAIN lines', NEW d \in Commands, IsRow(lines'[x], d)
          PROVE  (x \in DOMAIN lines /\ lines[x] = lines'[x]) \/ (d = c /\ x \notin DOMAIN lines)
        <3>1. CASE x \in DOMAIN lines
            BY <2>7, <3>1
        <3>2. CASE x \notin DOMAIN lines
            BY <2>2, <2>8, <2>9, <3>2 DEF IsRow
        <3> QED
            BY <3>1, <3>2
    <2>10. ASSUME NEW x \in DOMAIN lines', IsRow(lines'[x], c)
           PROVE  \E j \in 1 .. n + 1 : /\ j # i + 1 /\ x = L + j
                                        /\ lines'[x].n = IF j <= i THEN j ELSE j - 1
        <3>1. x \notin DOMAIN lines
            BY <1>3, <2>7, <2>10
        <3>2. PICK j \in 1 .. n + 1 : x = L + j /\ lines'[x] = a[j]
            BY <2>8, <3>1
        <3>3. j # i + 1
            BY <2>2, <2>10, <3>2 DEF IsRow
        <3>4. lines'[x].n = IF j <= i THEN j ELSE j - 1
            BY <2>3, <3>2, <3>3
        <3> QED
            BY <3>2, <3>3, <3>4
    <2>11. \A x \in DOMAIN lines' : IsRow(lines'[x], c) => lines'[x].n \in 1 .. n
        <3> SUFFICES ASSUME NEW x \in DOMAIN lines', IsRow(lines'[x], c)  PROVE lines'[x].n \in 1 .. n
            OBVIOUS
        <3>1. PICK j \in 1 .. n + 1 : j # i + 1 /\ lines'[x].n = IF j <= i THEN j ELSE j - 1
            BY <2>10
        <3> QED
            BY <2>1, <3>1
    <2>12. \A x, y \in DOMAIN lines' :
               x < y /\ IsRow(lines'[x], c) /\ IsRow(lines'[y], c) => lines'[x].n < lines'[y].n
        <3> SUFFICES ASSUME NEW x \in DOMAIN lines', NEW y \in DOMAIN lines', x < y,
                            IsRow(lines'[x], c), IsRow(lines'[y], c)
                     PROVE  lines'[x].n < lines'[y].n
            OBVIOUS
        <3>1. PICK j \in 1 .. n + 1 : j # i + 1 /\ x = L + j /\ lines'[x].n = IF j <= i THEN j ELSE j - 1
            BY <2>10
        <3>2. PICK k \in 1 .. n + 1 : k # i + 1 /\ y = L + k /\ lines'[y].n = IF k <= i THEN k ELSE k - 1
            BY <2>10
        <3>3. j < k
            BY <2>1, <2>5, <3>1, <3>2
        <3> QED
            BY <2>1, <3>1, <3>2, <3>3
    <2>13. \A x \in 1 .. n : \E y \in DOMAIN lines' : IsRow(lines'[y], c) /\ lines'[y].n = x
        <3> SUFFICES ASSUME NEW x \in 1 .. n
                     PROVE  \E y \in DOMAIN lines' : IsRow(lines'[y], c) /\ lines'[y].n = x
            OBVIOUS
        <3>1. PICK j \in 1 .. n + 1 : j # i + 1 /\ a[j].n = x
            BY <2>3
        <3>2. L + j \in 1 .. L + (n + 1)
            BY <2>1, <2>5
        <3>3. L + j \in DOMAIN lines' /\ lines'[L + j] = a[j]
            BY <2>5, <3>2
        <3> QED
            BY <2>2, <3>1, <3>3 DEF IsRow
    <2> QED
        BY <1>6, <2>1, <2>6, <2>7, <2>9, <2>11, <2>12, <2>13
<1> QED
    BY <1>1, <1>7, <1>8 DEF ServerAnswers

LEMMA StepWhole == ASSUME IInv, IInv', WInv, [Next]_vars PROVE WInv'
<1>1. CASE Start
    BY <1>1, StartWhole
<1>2. CASE ReadError
    BY <1>2, ReadErrorWhole
<1>3. CASE ReadRow
    BY <1>3, ReadRowWhole
<1>4. CASE ReadNotify
    BY <1>4, ReadNotifyWhole
<1>5. CASE HeldTimer
    BY <1>5, HeldTimerWhole
<1>6. CASE Nudge
    BY <1>6, QuietWhole DEF Nudge, history
<1>7. CASE ServerAnswers
    BY <1>7, ServerAnswersWhole
<1>8. CASE WebAnswers
    BY <1>8, WebAnswersWhole
<1>9. ASSUME NEW c \in Commands, Written(c) PROVE WInv'
    BY <1>9, WrittenWhole
<1>10. ASSUME NEW c \in Commands, RequestEnds(c) PROVE WInv'
    BY <1>10, SendFailsWhole DEF RequestEnds
<1>11. CASE GiveUp
    BY <1>11, GiveUpWhole
<1>12. CASE Drop
    BY <1>12, DropWhole
<1>13. CASE Install
    BY <1>13, InstallWhole
<1>14. CASE ServerNotifies
    BY <1>14, NotifiesWhole
<1>15. ASSUME NEW c \in Commands, Exec(c) PROVE WInv'
    BY <1>15, ExecWhole
<1>16. ASSUME NEW c \in Commands, SendFails(c) PROVE WInv'
    BY <1>16, SendFailsWhole
<1>17. CASE UNCHANGED vars
    BY <1>17, QuietWhole DEF vars, network, history
<1> QED
    BY <1>1, <1>2, <1>3, <1>4, <1>5, <1>6, <1>7, <1>8, <1>9, <1>10, <1>11, <1>12, <1>13, <1>14,
       <1>15, <1>16, <1>17 DEF Next, Progress

\* An answer that exec() resolves with is whole, the rows behind its `error` line included,
\* unless the wait for late rows was over too soon or a row of another command was
\* taken for it (client.ts:1163).
THEOREM AnswersAreAlwaysWhole == Spec => []AnswersAreWhole
<1>1. Init => WInv
    <2> SUFFICES ASSUME Init  PROVE WInv
        OBVIOUS
    <2>1. DOMAIN lines = {} /\ pending = None
        BY DEF Init
    <2>2. \A c \in Commands : answer[c] = <<>> /\ given[c] = 0 /\ call[c] = "idle"
        BY DEF Init
    <2>3. PendingRuns /\ RowsAreNumbered
        BY <2>1 DEF PendingRuns, RowsAreNumbered
    <2>4. NothingBefore /\ AnswersAreWhole
        BY <2>2 DEF NothingBefore, AnswersAreWhole
    <2>5. AnswerInStep
        BY <2>1, KindFacts DEF AnswerInStep
    <2> QED
        BY <2>3, <2>4, <2>5 DEF WInv
<1>2. IInv /\ IInv' /\ WInv /\ [Next]_vars => WInv'
    BY StepWhole
<1>3. WInv => AnswersAreWhole
    BY DEF WInv
<1> QED
    BY <1>1, <1>2, <1>3, QueryCommandsInductive, PTL DEF Spec
=============================================================================
