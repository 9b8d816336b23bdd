------------------------------- MODULE Streams -------------------------------
(* TeamSpeak 6 streams (src/src/stream/streams.ts): one client publishes,   *)
(* others watch, each through a Streams object on its voice client, and the *)
(* server carries the signalling between them.                              *)
(*                                                                          *)
(* A client reads its connection in order.  The answer to a command runs    *)
(* what waits for it at once; a notification waits in the client's event    *)
(* queue, and a run of the queue delivers all of it (client.ts #drain).  So *)
(* an answer may overtake the notifications read before it, which is one of *)
(* the ways these objects could come to disagree with the server.           *)
(*                                                                          *)
(* The publisher stays where every viewer is told of its streams; a viewer  *)
(* may be out of the publisher's view.  Left out: a publisher that changes  *)
(* channel, the content of the signalling and what arrives before the view  *)
(* exists, line middleware, an acceptance without an offer, and what the    *)
(* server says of viewers to others than the publisher.                     *)
EXTENDS JoinRequests

CONSTANTS
  Ids,        \* the streams: 1..n, the n-th publish() call starts the n-th
  Watches,    \* the watch() calls a viewer makes: 1..n
  Scenes,     \* what may take part: viewers, and which of them the publisher sees,
              \* streams, watch() calls of each, and how many calls, give-ups and
              \* failures happen in all
  Publisher,  \* the client that publishes
  RememberDenied  \* the option of that name, at the publisher

ASSUME StreamsAssumption ==
  /\ Publisher \notin Viewers
  /\ Scenes \subseteq [viewers : SUBSET Viewers, seen : SUBSET Viewers,
                        ids : SUBSET Ids, watches : SUBSET Watches, steps : Nat]

VARIABLES
  scene,    \* the one of Scenes that is played
  run,      \* server: the streams that run
  seat,     \* server: for each viewer and stream "no", "asked" or "in", and
            \* the watch() that asked (a history: the server has no such thing)
  owes,     \* server: the setupstream commands announced and not yet answered
  up,       \* what each client sent and the server has not read
  down,     \* what the server sent each client and it has not read
  ev,       \* the notifications of each client that an answer overtook
  online,   \* the clients whose connection is up
  disposed, \* the clients whose Streams are disposed
  st,       \* the state of each client's Streams, a record as NewStreams
  steps,    \* calls, give-ups and failures so far
  late,     \* streams whose setupstream was answered after it was given up for good
  crossed,  \* viewer and stream whose peer and view do not belong together:
            \* an accept met a later request, or the publisher closed the peer
  missed    \* the viewers whose last requeststreaminfo failed
            \* (late, crossed, missed and the field mixed are histories)

server == <<run, seat, owes>>
story == <<scene, late, crossed, missed>>
vars == <<server, up, down, ev, online, disposed, st, steps, story>>

Clients == {Publisher} \cup Viewers
Cast == {Publisher} \cup scene.viewers

(* The fields of a Streams object.  Only the publisher has attempts and     *)
(* requests, only a viewer has watches; the server's other clients never    *)
(* stream, so one flag stands for #asked and one for #goneTimers.           *)
NoCall == [id |-> 0, is |-> "idle", view |-> "none"]
NewStreams ==
  [infos |-> {}, asked |-> FALSE, gone |-> FALSE, stopped |-> {}, orphans |-> {},
   attempt |-> [s \in Ids |-> "none"], streams |-> [s \in Ids |-> Finished],
   inView |-> {}, denied |-> {}, answered |-> 0,
   watching |-> [s \in Ids |-> 0], call |-> [w \in Watches |-> NoCall],
   out |-> <<>>, mixed |-> {}]

NoSeat == [is |-> "no", w |-> 0]

Published(t) == {s \in Ids : ~t.streams[s].ended}
Send(t, m) == [t EXCEPT !.out = Append(@, m)]

(* ---- What a Streams object does with what it hears --------------------- *)

(* #learn: a row about a stream that was stopped as an orphan is ignored.   *)
Learn(t, s) == IF s \in t.orphans THEN t ELSE [t EXCEPT !.infos = @ \cup {s}]

(* A watch() whose promise settled returns, once its own send is over.      *)
Settle(call) == [call EXCEPT !.is = IF @ = "waiting" THEN "done" ELSE @]

(* The view of a watch ends, or the watch is refused.                       *)
EndWatch(call) ==
  IF call.view = "none" THEN Settle(call) ELSE [call EXCEPT !.view = "closed"]

(* #end: the stream is over, for whatever hangs on it.                      *)
End(t, s, why) ==
  LET infos == t.infos \ {s}
  IN [t EXCEPT
        !.stopped = IF why = "gone" THEN @ ELSE @ \cup {s},
        !.infos = infos,
        !.gone = @ /\ ~(s \in t.infos /\ infos = {}),
        !.streams[s] = Finished,
        !.watching[s] = 0,
        !.call = [w \in Watches |-> IF t.watching[s] = w THEN EndWatch(@[w]) ELSE @[w]]]

(* #orphan: a stream nobody waits for is stopped.                           *)
Orphan(t, s) ==
  Send(End([t EXCEPT !.orphans = @ \cup {s}], s, "stopped"),
       [k |-> "stop", s |-> s, call |-> FALSE])

(* #adopt, unless the stream was stopped before its own answer came.        *)
Adopt_Stopped(t, s) ==
  [Learn(t, s) EXCEPT !.streams[s] = IF @.ended THEN NewStream ELSE @]
Adopt(t, s) ==
  IF s \in t.stopped THEN t
  ELSE [Learn(t, s) EXCEPT !.streams[s] = IF @.ended THEN NewStream ELSE @]

(* #setup, with the answer to its setupstream.  One that came after the end *)
(* of the connection or of the Streams is of a stream nobody here knows.    *)
SetupAnswered(t, s, ok, live) ==
  LET d == [t EXCEPT !.attempt[s] = "done"]
      is == t.attempt[s]
  IN CASE is \in {"none", "done"} -> t
       [] is \in {"waiting", "abandoned", "reset"} /\ ~ok -> d
       [] is = "reset" /\ ok ->
            IF live THEN Send(d, [k |-> "stop", s |-> s, call |-> FALSE]) ELSE d
       [] is = "abandoned" /\ ok -> Orphan(d, s)
       [] is = "waiting" /\ ok -> Adopt(d, s)

(* The catch of watch(): what the call gave up for is "ended" (5635),       *)
(* "refused" (another error of the server's), "offline" or "gaveUp".  A     *)
(* request that may have reached the server and is not answered is          *)
(* withdrawn; one that settled meanwhile has its outcome.                   *)
Unanswered_Never(why) == FALSE
Unanswered(why) == why = "gaveUp"
Caught(t, w, why) ==
  LET s == t.call[w].id
      done == [t EXCEPT !.call[w].is = "done"]
      quit == [done EXCEPT !.watching[s] = 0]
  IN IF t.watching[s] # w \/ t.call[w].view # "none" THEN done
     ELSE IF why = "ended" THEN End(quit, s, "gone")
     ELSE IF Unanswered(why) THEN Send(quit, [k |-> "leave", s |-> s])
     ELSE quit

(* watch(), with the answer to its joinstreamrequest.                       *)
JoinAnswered(t, w, r) ==
  LET c == t.call[w]
  IN CASE c.is # "sending" -> t
       [] c.is = "sending" /\ r = "ok" ->
            [t EXCEPT !.call[w].is =
               IF t.watching[c.id] # w \/ c.view # "none" THEN "done" ELSE "waiting"]
       [] OTHER -> Caught(t, w, r)

(* #onRespond, at the viewer.  Nothing says which request is answered:      *)
(* "mixed" notes that it was an earlier one than the watch it settles.      *)
OnRespond(t, s, yes, asker) ==
  LET w == t.watching[s]
      d == [t EXCEPT !.mixed = IF w # asker THEN @ \cup {s} ELSE @]
  IN CASE w = 0 -> t
       [] w # 0 /\ t.call[w].view # "none" -> t
       [] w # 0 /\ t.call[w].view = "none" /\ yes ->
            [d EXCEPT !.call[w] = [Settle(@) EXCEPT !.view = "open"]]
       [] OTHER -> [d EXCEPT !.watching[s] = 0, !.call[w] = Settle(@)]

(* #discover and #cancelGone, #forget: the flag of the publisher.           *)
OnFlag(c, t, on, live) ==
  IF on
  THEN LET d == [t EXCEPT !.gone = FALSE]
       IN IF c = Publisher \/ t.asked \/ ~live THEN d
          ELSE Send([d EXCEPT !.asked = TRUE], [k |-> "info"])
  ELSE [t EXCEPT !.asked = FALSE, !.gone = @ \/ t.infos # {}]

(* #reset: the connection ended or the Streams were disposed.               *)
Goodbyes(t) ==
  LET stops  == [i \in DOMAIN SetToSeq(Published(t)) |->
                   [k |-> "stop", s |-> SetToSeq(Published(t))[i], call |-> FALSE]]
      joined == SetToSeq({s \in Ids : t.watching[s] # 0})
  IN stops \o [i \in DOMAIN joined |-> [k |-> "leave", s |-> joined[i]]]
Forgotten_Asked(t) == [NewStreams EXCEPT !.asked = t.asked]
Forgotten(t) == NewStreams
Reset(t, why, live) ==
  [Forgotten(t) EXCEPT
     !.attempt = [s \in Ids |-> IF t.attempt[s] \in {"waiting", "abandoned"}
                                THEN "reset" ELSE t.attempt[s]],
     !.inView = t.inView,
     !.denied = IF why = "disposed" THEN {} ELSE t.denied,
     !.call = [w \in Watches |-> IF t.call[w].id # 0 /\ t.watching[t.call[w].id] = w
                                 THEN EndWatch(t.call[w]) ELSE t.call[w]],
     !.out = IF live THEN t.out \o Goodbyes(t) ELSE t.out,
     !.answered = t.answered, !.mixed = t.mixed]

(* The events a Streams object subscribes to; c is the client it is on.     *)
OnEvent(c, t, m, live) ==
  CASE m.k = "started" -> Learn(t, m.s)
    [] m.k = "stopped" -> [End(t, m.s, "server") EXCEPT !.orphans = @ \ {m.s}]
    [] m.k = "flag"    -> OnFlag(c, t, m.on, live)
    [] m.k = "respond" -> OnRespond(t, m.s, m.yes, m.w)
    [] m.k = "ask"     -> [t EXCEPT !.streams[m.s] = Request(@, m.v, t)]
    [] m.k = "left"    -> [t EXCEPT !.streams[m.s] = ViewerGone(@, m.v, t)]
    [] m.k = "leave"   -> [t EXCEPT !.asked = FALSE,
                             !.streams = [s \in Ids |-> DropPending(@[s], m.v, t)]]
    [] m.k = "disconnected" -> Reset(t, "disconnected", live)

(* The answers that something waits for.                                    *)
OnAnswer(t, m, live) ==
  CASE m.k = "setupAns"   -> SetupAnswered(t, m.s, m.ok, live)
    [] m.k = "joinAns"    -> JoinAnswered(t, m.w, m.r)
    [] m.k = "stopAns"    -> End(t, m.s, "stopped")
    [] m.k = "respondAns" ->
         IF ~m.ok THEN [t EXCEPT !.streams[m.s] = AnswerFailed(@, m.v, m.n)]
         ELSE IF m.n = 0 /\ RememberDenied THEN [t EXCEPT !.denied = @ \cup {m.v}]
         ELSE t
    [] m.k = "infoFailed" -> [t EXCEPT !.asked = FALSE]

(* ---- The application's calls ------------------------------------------- *)

(* The client acts: its Streams are now t, and what they sent is on its way.*)
Acts(c, t) ==
  /\ st' = [st EXCEPT ![c] = [t EXCEPT !.out = <<>>]]
  /\ up' = [up EXCEPT ![c] = @ \o t.out]

Step == steps < scene.steps /\ steps' = steps + 1
Usable(c) == c \in online /\ c \notin disposed

(* publish(): the calls are made in the order of their streams.             *)
Publish(s) ==
  /\ Usable(Publisher) /\ s \in scene.ids /\ Step
  /\ st[Publisher].attempt[s] = "none"
  /\ \A r \in Ids : r < s => st[Publisher].attempt[r] # "none"
  /\ Acts(Publisher, Send([st[Publisher] EXCEPT !.attempt[s] = "waiting"],
                          [k |-> "setup", s |-> s]))
  /\ UNCHANGED <<server, down, ev, online, disposed, story>>

(* publish() runs out of time or its signal aborts: the command stays out.  *)
GiveUpPublish(s) ==
  /\ st[Publisher].attempt[s] = "waiting" /\ Step
  /\ st' = [st EXCEPT ![Publisher].attempt[s] = "abandoned"]
  /\ UNCHANGED <<server, up, down, ev, online, disposed, story>>

(* The setupstream itself times out, ANNOUNCE_WINDOW_MS after its publish().*)
SetupTimesOut(s) ==
  /\ st[Publisher].attempt[s] \in {"abandoned", "reset"} /\ Step
  /\ ev[Publisher] = <<>>
  /\ st' = [st EXCEPT ![Publisher].attempt[s] = "done"]
  /\ late' = late \cup {s}
  /\ UNCHANGED <<server, up, down, ev, online, disposed, scene, crossed, missed>>

(* PublishedStream.stop(): the stream ends here when the server has answered*)
Stop(s) ==
  /\ Publisher \in online /\ Step
  /\ s \in Published(st[Publisher])
  /\ Acts(Publisher, Send(st[Publisher], [k |-> "stop", s |-> s, call |-> TRUE]))
  /\ UNCHANGED <<server, down, ev, online, disposed, story>>

(* JoinRequest.accept() and deny(); an accept has a number, a denial 0.     *)
Answer(s, v, yes) ==
  /\ Publisher \in online
  /\ v \in st[Publisher].streams[s].pending
  /\ LET n == IF yes THEN st[Publisher].answered + 1 ELSE 0
     IN Acts(Publisher,
             Send([st[Publisher] EXCEPT
                     !.answered = IF yes THEN n ELSE @,
                     !.streams[s] = IF yes THEN OpenViewer(@, v, n) ELSE Deny(@, v)],
                  [k |-> "respond", s |-> s, v |-> v, n |-> n]))
  /\ UNCHANGED <<server, down, ev, online, disposed, steps, story>>

(* ViewerPeer.close(): the server cannot remove a viewer and is not told.   *)
ClosePeer(s, v) ==
  /\ Step
  /\ st[Publisher].streams[s].peers[v] # 0
  /\ st' = [st EXCEPT ![Publisher].streams[s].peers[v] = 0]
  /\ crossed' = crossed \cup {<<v, s>>}
  /\ UNCHANGED <<server, up, down, ev, online, disposed, scene, late, missed>>

(* The lookup of a client out of view is answered, by name or not.          *)
LookupDone(s) ==
  /\ \E i \in DOMAIN st[Publisher].streams[s].slots :
       /\ st[Publisher].streams[s].slots[i].is = "looking"
       /\ st' = [st EXCEPT ![Publisher].streams[s] =
                   LookedUp(@, i, st[Publisher])]
  /\ UNCHANGED <<server, up, down, ev, online, disposed, steps, story>>

(* watch() of a stream this client knows.                                   *)
Watch(v, s, w) ==
  /\ Usable(v) /\ w \in scene.watches /\ Step
  /\ s \in st[v].infos /\ st[v].watching[s] = 0
  /\ st[v].call[w].is = "idle" /\ \A x \in Watches : x < w => st[v].call[x].is # "idle"
  /\ Acts(v, Send([st[v] EXCEPT !.watching[s] = w,
                                !.call[w] = [id |-> s, is |-> "sending", view |-> "none"]],
                  [k |-> "join", s |-> s, w |-> w]))
  /\ UNCHANGED <<server, down, ev, online, disposed, story>>

(* The wait of a watch() runs out, or its signal aborts; one aborted from a *)
(* listener is part of Deliver.                                             *)
GivenUp(c, t, w) ==
  LET d == Caught(t, w, "gaveUp") IN IF c \in online THEN d ELSE [d EXCEPT !.out = t.out]
GiveUpWatch(v, w) ==
  /\ st[v].call[w].is \in {"sending", "waiting"} /\ Step
  /\ Acts(v, GivenUp(v, st[v], w))
  /\ UNCHANGED <<server, down, ev, online, disposed, story>>

(* StreamView.leave().                                                      *)
LeaveView(v, w) ==
  /\ v \in online /\ Step
  /\ st[v].call[w].view = "open"
  /\ LET s == st[v].call[w].id
     IN Acts(v, Send([st[v] EXCEPT !.call[w].view = "closed",
                                   !.watching[s] = IF @ = w THEN 0 ELSE @],
                     [k |-> "leave", s |-> s]))
  /\ UNCHANGED <<server, down, ev, online, disposed, story>>

(* GONE_GRACE_MS after the publisher's flag cleared.  No timer fires between *)
(* reading a notification and the run of the queue that follows.            *)
GoneTimer(c) ==
  /\ st[c].gone /\ ev[c] = <<>>
  /\ st' = [st EXCEPT ![c] =
              [FoldSet(LAMBDA s, t : End(t, s, "gone"), @, @.infos) EXCEPT !.gone = FALSE]]
  /\ UNCHANGED <<server, up, down, ev, online, disposed, steps, story>>

Dispose(c) ==
  /\ c \in Cast \ disposed /\ Step
  /\ disposed' = disposed \cup {c}
  /\ Acts(c, Reset(st[c], "disposed", c \in online))
  /\ UNCHANGED <<server, down, ev, online, story>>

(* ---- Reading and delivering -------------------------------------------- *)

Answers == {"setupAns", "joinAns", "stopAns", "respondAns", "infoFailed"}

(* The next answer is read: it runs what waits for it, ahead of the         *)
(* notifications before it, which are queued.                               *)
ReadAnswer(c) ==
  /\ \E i \in DOMAIN down[c] :
       /\ down[c][i].k \in Answers /\ \A j \in 1..(i - 1) : down[c][j].k \notin Answers
       /\ ev' = [ev EXCEPT ![c] = @ \o SubSeq(down[c], 1, i - 1)]
       /\ down' = [down EXCEPT ![c] = SubSeq(@, i + 1, Len(@))]
       /\ Acts(c, OnAnswer(st[c], down[c][i], c \in online))
  /\ UNCHANGED <<server, online, disposed, steps, story>>

(* A run of the event queue: what waits in it, or the next notification.    *)
(* The calls in "quits" are aborted by a listener on the way; what waits    *)
(* for them, their catch, runs when the events are delivered.               *)
Run(c, events, quits) ==
  LET heard == IF c \in disposed THEN st[c]
               ELSE FoldLeft(LAMBDA t, m : OnEvent(c, t, m, c \in online), st[c], events)
      kept == [heard EXCEPT !.call = [w \in Watches |->
                 IF w \in quits THEN [@[w] EXCEPT !.is = "quitting"] ELSE @[w]]]
  IN Acts(c, FoldSet(LAMBDA w, t : GivenUp(c, t, w), kept, quits))

Deliver(c) ==
  /\ \E quits \in SUBSET {w \in Watches : st[c].call[w].is \in {"sending", "waiting"}} :
       /\ steps + Cardinality(quits) <= scene.steps
       /\ steps' = steps + Cardinality(quits)
       /\ \/ /\ ev[c] # <<>>
             /\ Run(c, ev[c], quits)
             /\ ev' = [ev EXCEPT ![c] = <<>>] /\ UNCHANGED down
          \/ /\ ev[c] = <<>> /\ down[c] # <<>> /\ Head(down[c]).k \notin Answers
             /\ Run(c, <<Head(down[c])>>, quits)
             /\ down' = [down EXCEPT ![c] = Tail(@)] /\ UNCHANGED ev
  /\ UNCHANGED <<server, online, disposed, story>>

(* ---- The server (external) --------------------------------------------- *)

(* down' with msgs[c] sent to every client that is there.                   *)
Tell(there, msgs) == down' = [c \in Clients |-> IF c \in there THEN down[c] \o msgs[c] ELSE down[c]]
All(seq) == [c \in Clients |-> seq]
To(c, seq) == [d \in Clients |-> IF d = c THEN seq ELSE <<>>]
Also(a, b) == [c \in Clients |-> a[c] \o b[c]]
StoppedMsgs(S) == [i \in DOMAIN SetToSeq(S) |-> [k |-> "stopped", s |-> SetToSeq(S)[i]]]
Flag(on) == <<[k |-> "flag", on |-> on]>>

(* Streams S end: the flag clears with the last one, ahead of the stops.    *)
EndStreams(S) ==
  /\ run' = run \ S
  /\ seat' = [v \in Viewers |-> [s \in Ids |-> IF s \in S THEN NoSeat ELSE seat[v][s]]]

TakeSetup(s) ==
  \/ /\ run' = run \cup {s} /\ owes' = owes \cup {s}
     /\ Tell(online, All((IF run = {} THEN Flag(TRUE) ELSE <<>>)
                         \o <<[k |-> "started", s |-> s]>>))
     /\ UNCHANGED seat
  \/ /\ Tell(online, To(Publisher, <<[k |-> "setupAns", s |-> s, ok |-> FALSE]>>))
     /\ UNCHANGED server

TakeStop(m) ==
  LET S == {m.s} \cap run
      ans == IF m.call THEN <<[k |-> "stopAns", s |-> m.s]>> ELSE <<>>
  IN /\ EndStreams(S)
     /\ Tell(online, Also(All((IF S # {} /\ run = S THEN Flag(FALSE) ELSE <<>>)
                              \o StoppedMsgs(S)),
                          To(Publisher, ans)))
     /\ UNCHANGED owes

TakeJoin(v, m) ==
  LET Ans(r) == To(v, <<[k |-> "joinAns", w |-> m.w, r |-> r]>>)
      free == m.s \in run /\ seat[v][m.s] = NoSeat
  IN /\ seat' = IF free THEN [seat EXCEPT ![v][m.s] = [is |-> "asked", w |-> m.w]] ELSE seat
     /\ Tell(online, IF m.s \notin run THEN Ans("ended")
                     ELSE IF ~free THEN Ans("refused")
                     ELSE Also(Ans("ok"), To(Publisher, <<[k |-> "ask", v |-> v, s |-> m.s]>>)))
     /\ UNCHANGED <<run, owes>>

TakeLeave(v, m) ==
  LET sat == seat[v][m.s] # NoSeat
  IN /\ seat' = [seat EXCEPT ![v][m.s] = NoSeat]
     /\ Tell(online, IF sat THEN To(Publisher, <<[k |-> "left", v |-> v, s |-> m.s]>>)
                     ELSE All(<<>>))
     /\ UNCHANGED <<run, owes>>

TakeRespond(m) ==
  LET asked == seat[m.v][m.s]
      ok == asked.is = "asked"
      Ans == To(Publisher, <<[k |-> "respondAns", s |-> m.s, v |-> m.v, n |-> m.n, ok |-> ok]>>)
  IN /\ seat' = IF ok THEN [seat EXCEPT ![m.v][m.s] =
                          IF m.n # 0 THEN [@ EXCEPT !.is = "in"] ELSE NoSeat] ELSE seat
     /\ Tell(online, IF ok THEN Also(Ans, To(m.v, <<[k |-> "respond", s |-> m.s, yes |-> m.n # 0, w |-> asked.w]>>))
                     ELSE Ans)
     /\ UNCHANGED <<run, owes>>

(* requeststreaminfo: a row for each stream, or the command fails.          *)
TakeInfo(v) ==
  /\ \/ /\ missed' = missed \ {v} /\ UNCHANGED steps
        /\ Tell(online, To(v, [i \in DOMAIN SetToSeq(run) |->
                                 [k |-> "started", s |-> SetToSeq(run)[i]]]))
     \/ /\ missed' = missed \cup {v} /\ Step
        /\ Tell(online, To(v, <<[k |-> "infoFailed"]>>))
  /\ UNCHANGED server

(* Whether an accept meets a request other than the one it was made for:    *)
(* the standing request has not reached the publisher, or has since.        *)
Crosses(m) ==
  /\ m.n # 0 /\ seat[m.v][m.s].is = "asked"
  /\ \/ [k |-> "ask", v |-> m.v, s |-> m.s] \in ToSet(down[Publisher] \o ev[Publisher])
     \/ st[Publisher].streams[m.s].peers[m.v] # m.n

ServerTakes(c) ==
  /\ owes = {} /\ up[c] # <<>>
  /\ up' = [up EXCEPT ![c] = Tail(@)]
  /\ LET m == Head(up[c])
     IN /\ \/ m.k = "setup" /\ TakeSetup(m.s)
           \/ m.k = "stop" /\ TakeStop(m)
           \/ m.k = "join" /\ TakeJoin(c, m)
           \/ m.k = "leave" /\ TakeLeave(c, m)
           \/ m.k = "respond" /\ TakeRespond(m)
           \/ m.k = "info" /\ TakeInfo(c)
        /\ m.k # "info" => UNCHANGED <<missed, steps>>
        /\ crossed' = IF m.k = "respond" /\ Crosses(m)
                      THEN crossed \cup {<<m.v, m.s>>} ELSE crossed
  /\ UNCHANGED <<ev, online, disposed, st, scene, late>>

(* The error line that ends the answer to a setupstream.                    *)
ServerAnswers(s) ==
  /\ s \in owes /\ owes' = owes \ {s}
  /\ Tell(online, To(Publisher, <<[k |-> "setupAns", s |-> s, ok |-> TRUE]>>))
  /\ UNCHANGED <<run, seat, up, ev, online, disposed, st, steps, story>>

(* The server ends a stream itself.                                         *)
ServerStops(s) ==
  /\ s \in run /\ Step
  /\ TakeStop([s |-> s, call |-> FALSE])
  /\ UNCHANGED <<up, ev, online, disposed, st, story>>

(* A connection is lost, with what was on it; what waited for an answer     *)
(* fails, and the client announces it behind the events it has.  The        *)
(* answers to join requests that fail with it are not told apart: the reset *)
(* that follows closes their peers as well.                                 *)
Lost(t) ==
  LET d == [t EXCEPT !.attempt = [s \in Ids |-> IF @[s] \in {"waiting", "abandoned", "reset"}
                                               THEN "done" ELSE @[s]]]
  IN FoldSet(LAMBDA w, x : IF x.call[w].is = "sending" THEN Caught(x, w, "offline") ELSE x,
             d, Watches)

Drop(c) ==
  /\ c \in online /\ Step
  /\ online' = online \ {c}
  /\ up' = [up EXCEPT ![c] = <<>>]
  /\ ev' = [ev EXCEPT ![c] = Append(@, [k |-> "disconnected"])]
  /\ st' = [st EXCEPT ![c] = Lost(@)]
  /\ IF c = Publisher
     THEN /\ EndStreams(run) /\ owes' = {}
          /\ down' = [d \in Clients |->
                        IF d = c THEN <<>> ELSE IF d \notin online THEN down[d]
                        ELSE down[d] \o StoppedMsgs(run) \o <<[k |-> "leave", v |-> c]>>]
     ELSE /\ seat' = [seat EXCEPT ![c] = [s \in Ids |-> NoSeat]]
          /\ LET in == SetToSeq({s \in Ids : seat[c][s].is = "in"})
                 told == [i \in DOMAIN in |-> [k |-> "left", v |-> c, s |-> in[i]]]
                         \o (IF c \in st[Publisher].inView THEN <<[k |-> "leave", v |-> c]>> ELSE <<>>)
             IN down' = [d \in Clients |->
                           IF d = c THEN <<>>
                           ELSE IF d = Publisher /\ d \in online THEN down[d] \o told ELSE down[d]]
          /\ UNCHANGED <<run, owes>>
  /\ UNCHANGED <<disposed, story>>

(* The client is back; a viewer is told of the publisher, and the viewers of*)
(* the publisher, as a client that comes into view.                         *)
Reconnect(c) ==
  /\ c \in Cast \ online /\ ev[c] = <<>> /\ Step
  /\ online' = online \cup {c}
  /\ IF c = Publisher THEN Tell(online, All(Flag(FALSE)))
     ELSE Tell({c}, IF Publisher \in online THEN All(Flag(run # {})) ELSE All(<<>>))
  /\ UNCHANGED <<server, up, ev, disposed, st, story>>

(* ---- The system --------------------------------------------------------- *)

Init ==
  /\ run = {} /\ owes = {}
  /\ seat = [v \in Viewers |-> [s \in Ids |-> NoSeat]]
  /\ up = [c \in Clients |-> <<>>] /\ down = [c \in Clients |-> <<>>]
  /\ ev = [c \in Clients |-> <<>>]
  /\ scene \in Scenes /\ online = Cast /\ disposed = {}
  /\ st = [c \in Clients |-> [NewStreams EXCEPT !.inView = scene.seen]]
  /\ steps = 0 /\ late = {} /\ crossed = {} /\ missed = {}

Next ==
  \/ \E s \in Ids : \/ Publish(s) \/ GiveUpPublish(s) \/ SetupTimesOut(s) \/ Stop(s)
                     \/ LookupDone(s) \/ ServerAnswers(s) \/ ServerStops(s)
  \/ \E s \in Ids, v \in Viewers : ClosePeer(s, v) \/ \E yes \in BOOLEAN : Answer(s, v, yes)
  \/ \E v \in Viewers, w \in Watches :
       \/ \E s \in Ids : Watch(v, s, w)
       \/ GiveUpWatch(v, w) \/ LeaveView(v, w)
  \/ \E c \in Clients : \/ GoneTimer(c) \/ Dispose(c) \/ ReadAnswer(c) \/ Deliver(c)
                         \/ ServerTakes(c) \/ Drop(c) \/ Reconnect(c)

Spec == Init /\ [][Next]_vars

(* ---- Properties ---------------------------------------------------------- *)

(* Everything that was sent is read, delivered and answered.                *)
Quiet ==
  /\ owes = {}
  /\ \A c \in Clients : up[c] = <<>> /\ down[c] = <<>> /\ ev[c] = <<>>

(* No stream runs on the server unseen: one whose publish() gave up or was  *)
(* reset is stopped, one that ended is not taken for published, and what    *)
(* the publisher holds is what runs (#setup, #orphan, #stopped, #reset).    *)
(* Excepted is a stream announced after its command had timed out too.      *)
NothingRunsUnowned ==
  Quiet => run \ late = Published(st[Publisher]) \ late

(* Whoever is connected knows exactly the streams that run (of a publisher  *)
(* that does not leave: streams.ts:120): the flags, the announcements, the replies to requeststreaminfo, the *)
(* orphans and the grace timer leave neither a ghost in list() nor a stream *)
(* unheard of.  Only a viewer whose requeststreaminfo failed may know less, *)
(* and it asks again the next time it hears the flag.                       *)
KnownIsRunning ==
  Quiet => \A c \in online \ disposed :
    \/ st[c].infos = run
    \/ c \in missed /\ ~st[c].asked /\ st[c].infos \subseteq run

Open(v, s) == \E w \in Watches : st[v].call[w].id = s /\ st[v].call[w].view = "open"
Asking(v, s) == \E w \in Watches : st[v].call[w].id = s /\ st[v].call[w].is = "waiting"

(* The viewer, the server and the publisher agree on who watches: a view is *)
(* open while the server has the viewer in, a watch() waits while it is     *)
(* asked for, and the publisher has a peer for each viewer that is in.      *)
(* Excepted are a viewer that took the answer to an earlier, withdrawn      *)
(* request for that to its own, and, at the publisher, an accept that the   *)
(* server took for a later request or a peer the application closed.        *)
SessionsAgree ==
  Quiet => \A v \in Viewers : \A s \in Ids \ st[v].mixed :
    /\ Open(v, s) <=> seat[v][s].is = "in"
    /\ Asking(v, s) <=> seat[v][s].is = "asked"
    /\ <<v, s>> \notin crossed =>
         (st[Publisher].streams[s].peers[v] # 0 <=> seat[v][s].is = "in")

(* A request the server has relayed is before the application, or waits for *)
(* a lookup that is out, its own or that of a request ahead of it that      *)
(* still stands; unless the viewer is one to leave unanswered or publish()  *)
(* had given the stream up for good.                                        *)
NoRequestIsLost ==
  Quiet => \A v \in Viewers, s \in Ids \ late :
    LET p == st[Publisher].streams[s]
    IN seat[v][s].is = "asked" /\ v \notin st[Publisher].denied =>
         \/ v \in p.pending
         \/ \E i \in DOMAIN p.slots :
              /\ p.slots[i].v = v /\ p.slots[i].current
              /\ \E j \in 1..i : p.slots[j].is = "looking" /\ p.slots[j].current
=============================================================================
