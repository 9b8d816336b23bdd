---------------------------- MODULE JoinRequests ----------------------------
(* The requests to watch a stream this client publishes, and the peers of   *)
(* the viewers it let in (src/src/stream/published.ts).  Operators on one   *)
(* record per published stream; Streams composes them with the rest.        *)
(*                                                                          *)
(* A request is announced to the application once it is known who asked.    *)
(* A viewer in view is known at once, another one is looked up, and the     *)
(* requests are announced in the order they came whatever the lookups take. *)
EXTENDS Naturals, Sequences, FiniteSets, SequencesExt

CONSTANT Viewers   \* the clients that may ask

(* A slot is one request waiting for its turn: who asked, whether it is     *)
(* "new", "looking" or "known" who that is, and whether #resolving still    *)
(* holds it ("current"): a slot whose lookup is out stays in the queue when *)
(* its request goes.  #peers holds the number of the answer that let the    *)
(* viewer in, 0 for none.                                                   *)
NewStream ==
  [ended |-> FALSE, slots |-> <<>>, pending |-> {},
   peers |-> [v \in Viewers |-> 0]]

(* finish: everything that hangs on the stream is closed.                   *)
Finished == [NewStream EXCEPT !.ended = TRUE]

Resolving(p) == {p.slots[i].v : i \in {j \in DOMAIN p.slots : p.slots[j].current}}

(* Whether a slot holds up those behind it: not one whose request went.     *)
Waits_Stale(slot) == slot.is # "known"
Waits(slot) == slot.current /\ slot.is # "known"

(* #advance: start the lookups that are not out, then announce the requests *)
(* whose turn it is.  The host is the Streams object: who it sees (inView)  *)
(* and who is left unanswered (denied).                                     *)
Advance(p, host) ==
  LET looked == [i \in DOMAIN p.slots |->
                   IF p.slots[i].is = "new" /\ p.slots[i].current
                   THEN [p.slots[i] EXCEPT !.is =
                           IF p.slots[i].v \in host.inView THEN "known" ELSE "looking"]
                   ELSE p.slots[i]]
      turns  == {i \in DOMAIN looked : \A j \in 1..i : ~Waits(looked[j])}
      heard  == {looked[i].v : i \in {j \in turns : looked[j].current}}
  IN [p EXCEPT !.slots = SubSeq(looked, Cardinality(turns) + 1, Len(looked)),
               !.pending = @ \cup (heard \ host.denied)]

(* request: asking again while pending, being looked up or let in is none.  *)
Request(p, v, host) ==
  IF p.ended \/ p.peers[v] # 0 \/ v \in Resolving(p) \cup p.pending THEN p
  ELSE Advance([p EXCEPT !.slots = Append(@, [v |-> v, is |-> "new", current |-> TRUE])],
               host)

(* dropPending: the request goes; a slot whose lookup is out stays, stale.  *)
DropPending(p, v, host) ==
  LET left == SelectSeq(p.slots, LAMBDA s : s.v # v \/ ~s.current \/ s.is = "looking")
      stale == [i \in DOMAIN left |->
                  IF left[i].v = v THEN [left[i] EXCEPT !.current = FALSE] ELSE left[i]]
  IN [Advance([p EXCEPT !.slots = stale], host) EXCEPT !.pending = @ \ {v}]

(* viewerGone: the viewer said so, or its connection ended.                 *)
ViewerGone(p, v, host) ==
  [DropPending(p, v, host) EXCEPT !.peers[v] = 0]

(* The server said who the client of slot i is.                             *)
LookedUp(p, i, host) == Advance([p EXCEPT !.slots[i].is = "known"], host)

(* accept: the peer is made before the offer goes out.                      *)
OpenViewer(p, v, n) == [p EXCEPT !.pending = @ \ {v}, !.peers[v] = n]

(* deny: the request is used up.                                            *)
Deny(p, v) == [p EXCEPT !.pending = @ \ {v}]

(* The answer was refused: the peer it made is closed, no other.            *)
AnswerFailed(p, v, n) == IF p.peers[v] = n THEN [p EXCEPT !.peers[v] = 0] ELSE p
=============================================================================
