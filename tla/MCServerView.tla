---------------------------- MODULE MCServerView ----------------------------
(***************************************************************************)
(* ServerView for TLC.                                                     *)
(***************************************************************************)
EXTENDS ServerView

\* The trees of up to three channels.  Ids are names: it is enough that a channel's
\* parent and its order come before it.
SmallTrees ==
    LET three == {1, 2, 3}
        values == {Top, 1, 2, Absent}
        Tree(t) ==
            /\ \A c \in three : t.parent[c] = Absent <=> t.order[c] = Absent
            /\ \A c \in three : t.parent[c] # Absent =>
                /\ t.parent[c] < c /\ t.order[c] < c
                /\ t.parent[c] # Top => t.parent[t.parent[c]] # Absent
                /\ t.order[c] # Top => t.parent[t.order[c]] = t.parent[c]
            /\ \A c, d \in three :
                c # d /\ t.parent[c] # Absent /\ t.parent[c] = t.parent[d] => t.order[c] # t.order[d]
            /\ t.parent[1] # Absent /\ (t.parent[3] # Absent => t.parent[2] # Absent)
    IN  {t \in [parent : [three -> values], order : [three -> values]] : Tree(t)}

\* Another client in view.
OnePlace == {[x \in Clients |-> IF x = Self THEN 1 ELSE 2]}
=============================================================================
