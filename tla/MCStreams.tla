----------------------------- MODULE MCStreams ------------------------------
(* Streams for TLC: one viewer, with two streams, two watch() calls or both,*)
(* and two viewers, whose requests to watch one stream come in some order.  *)
EXTENDS Streams

Scene(viewers, seen, ids, watches, most) ==
  [viewers |-> viewers, seen |-> seen, ids |-> ids, watches |-> watches, steps |-> most]

OneViewer(v) ==
  {Scene({v}, seen, Ids, Watches, 4) : seen \in SUBSET {v}}
  \cup {Scene({v}, seen, {1}, Watches, 5) : seen \in SUBSET {v}}
  \cup {Scene({v}, {}, Ids, {1}, 5)}

SmallScenes ==
  UNION {OneViewer(v) : v \in Viewers} \cup {Scene(Viewers, {}, {1}, {1}, 4)}

(* Viewers differ in nothing but their names.                               *)
Symmetry == Permutations(Viewers)
=============================================================================
