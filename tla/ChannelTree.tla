---------------------------- MODULE ChannelTree ----------------------------
(***************************************************************************)
(* The channels of a server (src/src/core/channel-tree.ts): the tree, and  *)
(* what a channel event makes of it.  The server orders siblings by naming *)
(* for each the one before it, and rewrites that name on the sibling that  *)
(* follows a change without saying so.  The tree therefore keeps a list of *)
(* children per parent and derives every `order` from it (settle).         *)
(*                                                                         *)
(* A tree is a record: the parent and the order each channel has, or       *)
(* Absent; the list under each parent, <<>> where the code has no entry;   *)
(* and whether every event could be placed.                                *)
(***************************************************************************)
EXTENDS Integers, FiniteSets, Sequences, SequencesExt

CONSTANTS Channels,  \* channel ids
          Absent

Top == 0             \* the parent of a top-level channel, and the order of a first one

ASSUME ChannelsAssumption ==
    /\ Channels \subseteq Nat \ {Top} /\ IsFiniteSet(Channels)
    /\ Absent \notin Channels \cup {Top}

Parents == Channels \cup {Top}

EmptyTree == [parent |-> [c \in Channels |-> Absent], order |-> [c \in Channels |-> Absent],
              kids |-> [p \in Parents |-> <<>>], consistent |-> TRUE]

Has(t, c)     == c \in Channels /\ t.parent[c] # Absent
Flawed(t)     == [t EXCEPT !.consistent = FALSE]
FlawedIf(t, b) == [t EXCEPT !.consistent = @ /\ ~b]

\* What a sequence has at some places, in order: what filter() makes of a list.
Picked(s, places) ==
    LET pick[i \in 0 .. Len(s)] ==
            IF i = 0 THEN <<>>
            ELSE IF i \in places THEN Append(pick[i - 1], s[i])
            ELSE pick[i - 1]
    IN  pick[Len(s)]

Without(list, c) == Picked(list, {i \in DOMAIN list : list[i] # c})

\* settle: the orders that the places in a list imply.
OrderIn(list, c) ==
    LET at == CHOOSE i \in DOMAIN list : list[i] = c
    IN  IF at = 1 THEN Top ELSE list[at - 1]

Listed(t, p, list) ==
    [t EXCEPT !.kids[p] = list,
              !.order = [c \in Channels |-> IF c \in Range(list) THEN OrderIn(list, c) ELSE @[c]]]

\* Mutant: the place of the sibling itself.
PlaceAfter_Before(list, after) ==
    IF after \in Range(list) THEN CHOOSE i \in DOMAIN list : list[i] = after
    ELSE IF after = Top THEN 1 ELSE Len(list) + 1

\* insert: the place after a sibling, Top for the first, the end when it is not there.
PlaceAfter(list, after) ==
    CASE after = Top -> 1
      [] after \in Range(list) -> (CHOOSE i \in DOMAIN list : list[i] = after) + 1
      [] OTHER -> Len(list) + 1

Insert(t, p, c, after) ==
    FlawedIf(Listed(t, p, InsertAt(t.kids[p], PlaceAfter(t.kids[p], after), c)),
             after # Top /\ after \notin Range(t.kids[p]))

\* detach: out of its parent's list.
Detach(t, c) == Listed(t, t.parent[c], Without(t.kids[t.parent[c]], c))

\* isWithin: c is the ancestor, or below it.
Upward(t, S) == \A d \in S : Has(t, d) => t.parent[d] \in S
Ancestry(t, c) == {d \in Parents : \A S \in SUBSET Parents : c \in S /\ Upward(t, S) => d \in S}
Within(t, c, ancestor) == Has(t, c) /\ ancestor \in Ancestry(t, c)

\* parentOf: the parent an event names, or the top level.
ParentOf(t, p) == IF Has(t, p) THEN p ELSE Top
Unknown(t, p)  == p # Top /\ ~Has(t, p)

\* remove, with whatever is below.
RemoveChannel(t, c) ==
    IF ~Has(t, c) THEN Flawed(t)
    ELSE LET below == {d \in Channels : Within(t, d, c)}
             out   == Detach(t, c)
         IN  FlawedIf([out EXCEPT !.parent = [d \in Channels |-> IF d \in below THEN Absent ELSE @[d]],
                                  !.order  = [d \in Channels |-> IF d \in below THEN Absent ELSE @[d]],
                                  !.kids   = [p \in Parents |-> IF p \in below THEN <<>> ELSE @[p]]],
                      t.kids[c] # <<>>)

\* create: in place of a channel that has the id already.
CreateChannel(t, c, p, after) ==
    LET room   == IF Has(t, c) THEN Flawed(RemoveChannel(t, c)) ELSE t
        parent == ParentOf(room, p)
    IN  Insert(FlawedIf([room EXCEPT !.parent[c] = parent], Unknown(room, p)), parent, c, after)

\* edit: a new order is a move within the parent; Absent when the edit carries none.
EditChannel(t, c, after) ==
    CASE ~Has(t, c)     -> Flawed(t)
      [] after = Absent -> t
      [] OTHER          -> Insert(Detach(t, c), t.parent[c], c, after)

\* Mutant: under itself as well.
MoveChannel_Anywhere(t, c, p, after) ==
    IF ~Has(t, c) THEN Flawed(t)
    ELSE LET parent == ParentOf(t, p)
         IN  Insert(FlawedIf([Detach(t, c) EXCEPT !.parent[c] = parent], Unknown(t, p)), parent, c, after)

\* move, with its subchannels.  Never under itself: then it stays in its parent.
MoveChannel(t, c, p, after) ==
    IF ~Has(t, c) THEN Flawed(t)
    ELSE LET inside == Within(t, ParentOf(t, p), c)
             parent == IF inside THEN t.parent[c] ELSE ParentOf(t, p)
         IN  Insert(FlawedIf([Detach(t, c) EXCEPT !.parent[c] = parent], inside \/ Unknown(t, p)),
                    parent, c, after)

\* An event applied to the tree; one without a channel only spoils it (#change).
Apply(t, e) ==
    CASE e.id = Top           -> Flawed(t)
      [] e.kind = "created" /\ e.id # Top -> CreateChannel(t, e.id, e.parent, e.order)
      [] e.kind = "edited"  /\ e.id # Top -> EditChannel(t, e.id, e.order)
      [] e.kind = "moved"   /\ e.id # Top -> MoveChannel(t, e.id, e.parent, e.order)
      [] e.kind = "deleted" /\ e.id # Top -> RemoveChannel(t, e.id)

----------------------------------------------------------------------------
\* Each channel is in the list of its parent, once, and nowhere else, after the sibling
\* that its order names.
ListsAgree(t) ==
    /\ \A p \in Parents : \A i, j \in DOMAIN t.kids[p] : t.kids[p][i] = t.kids[p][j] => i = j
    /\ \A p \in Parents : Range(t.kids[p]) = {c \in Channels : t.parent[c] = p}
    /\ \A c \in Channels : t.parent[c] \in Channels => Has(t, t.parent[c])
    /\ \A c \in Channels :
        t.order[c] = IF Has(t, c) THEN OrderIn(t.kids[t.parent[c]], c) ELSE Absent

\* Every channel hangs on the top level.
Rooted(t) == \A c \in Channels : Has(t, c) => Top \in Ancestry(t, c)
============================================================================
