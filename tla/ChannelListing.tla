--------------------------- MODULE ChannelListing ---------------------------
(***************************************************************************)
(* ChannelTree.from (src/src/core/channel-tree.ts): the tree of a listing, *)
(* rows that come in any order, each with the parent and the sibling it    *)
(* names.  Rows that are no tree make one all the same, not consistent.    *)
(***************************************************************************)
EXTENDS ChannelTree

Row(c, p, o) == [id |-> c, parent |-> p, order |-> o]

\* A row per channel: a later row takes the place of an earlier one.  The top level's
\* id names no channel.
Put(kept, row) ==
    IF row.id = Top THEN kept
    ELSE IF \E i \in DOMAIN kept : kept[i].id = row.id
         THEN [kept EXCEPT ![CHOOSE i \in DOMAIN kept : kept[i].id = row.id] = row]
         ELSE Append(kept, row)

OnePerChannel(rows) ==
    LET kept[i \in 0 .. Len(rows)] == IF i = 0 THEN <<>> ELSE Put(kept[i - 1], rows[i])
    IN  kept[Len(rows)]

IdsOf(rows) == [i \in DOMAIN rows |-> rows[i].id]

\* sortSiblings: depth first along the siblings each is followed by.  Each is to do as
\* often as it is put there, at first or by the one it follows: so many are the steps.
Visit(followers, s) ==
    IF s.todo = <<>> THEN s
    ELSE IF Head(s.todo) \in Range(s.out) THEN [s EXCEPT !.todo = Tail(@)]
    ELSE [todo |-> followers[Head(s.todo)] \o Tail(s.todo), out |-> Append(s.out, Head(s.todo))]

Follow(followers, todo, steps) ==
    LET visited[n \in 0 .. steps] ==
            IF n = 0 THEN [todo |-> todo, out |-> <<>>] ELSE Visit(followers, visited[n - 1])
    IN  visited[steps].out

\* The siblings that name each, the ones that name a stranger with the first.
Followers(siblings) ==
    LET ids == Range(IdsOf(siblings))
        Names(row) == IF row.order \in ids THEN row.order ELSE Top
    IN  [o \in ids \cup {Top} |-> IdsOf(Picked(siblings, {i \in DOMAIN siblings : Names(siblings[i]) = o}))]

Sorted(siblings) ==
    LET followers == Followers(siblings)
    IN  Follow(followers, followers[Top] \o IdsOf(siblings), 2 * Len(siblings))

\* Mutant: two siblings after the same one are not noticed.
Chained_Forked(siblings) ==
    LET followers == Followers(siblings)
    IN  /\ \A i \in DOMAIN siblings : siblings[i].order \in Range(IdsOf(siblings)) \cup {Top}
        /\ Len(Follow(followers, followers[Top], Len(siblings))) = Len(siblings)

\* The predecessors they name make one chain.
Chained(siblings) ==
    LET followers == Followers(siblings)
    IN  /\ \A i \in DOMAIN siblings : siblings[i].order \in Range(IdsOf(siblings)) \cup {Top}
        /\ \A o \in DOMAIN followers : Len(followers[o]) <= 1
        /\ Len(Follow(followers, followers[Top], Len(siblings))) = Len(siblings)

\* A channel that is its own ancestor: to the end of the top level, with what is below.
Hang(t, row) ==
    IF Top \in Ancestry(t, row.id) THEN t
    ELSE LET c == row.id IN
         [parent |-> [d \in Channels |-> IF d = c THEN Top ELSE t.parent[d]],
          order  |-> t.order,
          kids   |-> [p \in Parents |-> CASE p = Top -> Append(t.kids[p], c)
                                          [] p = t.parent[c] -> Without(t.kids[p], c)
                                          [] OTHER -> t.kids[p]],
          consistent |-> FALSE]

\* The rows in their places, each under the parent it names, or at the top level.
Drafted(kept) ==
    LET ids == Range(IdsOf(kept))
        Astray(row) == row.parent # Top /\ (row.parent = row.id \/ row.parent \notin ids)
        Parent(row) == IF Astray(row) THEN Top ELSE row.parent
        RowOf(c) == kept[CHOOSE i \in DOMAIN kept : kept[i].id = c]
        Under(p) == Picked(kept, {i \in DOMAIN kept : Parent(kept[i]) = p})
    IN  [parent |-> [c \in Channels |-> IF c \in ids THEN Parent(RowOf(c)) ELSE Absent],
         order  |-> [c \in Channels |-> Absent],
         kids   |-> [p \in Parents |-> Sorted(Under(p))],
         consistent |-> /\ \A i \in DOMAIN kept : ~Astray(kept[i])
                        /\ \A p \in Parents : Chained(Under(p))]

Hung(t, kept) ==
    LET hang[i \in 0 .. Len(kept)] == IF i = 0 THEN t ELSE Hang(hang[i - 1], kept[i])
    IN  hang[Len(kept)]

From(rows) ==
    LET kept == OnePerChannel(rows)
        hung == Hung(FlawedIf(Drafted(kept), Len(kept) # Len(rows)), kept)
    IN  [hung EXCEPT !.order = [c \in Channels |->
            IF Has(hung, c) THEN OrderIn(hung.kids[hung.parent[c]], c) ELSE Absent]]

----------------------------------------------------------------------------
\* The rows describe a tree, said without sorting them: each parent is there, nothing is
\* its own ancestor, and the siblings can be listed so that each names the one before it.
DescribeATree(rows) ==
    LET ids == {rows[i].id : i \in DOMAIN rows}
        Of(c) == rows[CHOOSE i \in DOMAIN rows : rows[i].id = c]
        Under(p) == {c \in ids : Of(c).parent = p}
    IN  /\ Top \notin ids
        /\ \A i, j \in DOMAIN rows : rows[i].id = rows[j].id => i = j
        /\ \A c \in ids : Of(c).parent \in ids \cup {Top}
        /\ \A S \in SUBSET ids : S # {} => \E c \in S : Of(c).parent \notin S
        /\ \A p \in ids \cup {Top} : \E list \in SetToSeqs(Under(p)) :
            \A c \in Under(p) : Of(c).order = OrderIn(list, c)
=============================================================================
