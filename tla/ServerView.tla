----------------------------- MODULE ServerView -----------------------------
(***************************************************************************)
(* The view a client keeps of its server (src/src/client/view.ts), with    *)
(* the notifications that feed it (src/src/core/notifications.ts), the     *)
(* command lines that carry them and the events that tell of it            *)
(* (src/src/client/client.ts).                                             *)
(*                                                                         *)
(* A connection begins with the welcome: initserver, the rows of the       *)
(* channel list, the clients in view, and channellistfinished, upon which  *)
(* the tree is built and the view is live.  From then on notifications     *)
(* change it.  Listeners hear of it in a drain, some time later: viewReady *)
(* from the queue, and viewChanged at its end, once for all that changed.  *)
(*                                                                         *)
(* The server is external.  It keeps a channel's parent and order, as the  *)
(* protocol does, and no lists.                                            *)
(***************************************************************************)
EXTENDS ChannelListing

CONSTANTS
    Trees,        \* what the server's channels may be at first: [parent, order]
    Places,       \* where the clients may be at first
    Clients,      \* client ids
    Self,         \* the one that is this client
    MaxSteps      \* the connections that are made and what else happens on the server

ASSUME ViewAssumption ==
    /\ Self \in Clients /\ IsFiniteSet(Clients) /\ MaxSteps \in Nat
    /\ \A at \in Places : at \in [Clients -> Channels \cup {Absent}] /\ at[Self] \in Channels

GroupLists == {"server", "channel"}

VARIABLES
    srv,       \* the server: channels, clients, subscribed channels, name, groups
    wire,      \* the lines on their way to the client
    ops,       \* what has happened on the server
    garbled,   \* the server sent what no server sends
    sessions,  \* the connections so far
    online,    \* a connection is up, or being made
    connected, \* initserver has been read: the client knows its own id
    status,    \* ViewStore.#status
    rows,      \* #rows
    tree,      \* #tree
    roster,    \* the channel each known client is in, or Absent
    name,      \* #server, Absent while it is empty
    groups,    \* #serverGroups and #channelGroups, Absent until seen
    moved,     \* #revision is not #announced
    ready,     \* where a caller's whenReady() is
    queue,     \* the lifecycle events to deliver (#queue)
    draining,  \* a drain is scheduled
    shown      \* the view as the listeners of viewReady and viewChanged last found it

server == <<srv, ops, garbled>>
line   == <<wire, sessions, online, connected>>
store  == <<status, rows, tree, roster, name, groups, moved, ready>>
events == <<queue, draining, shown>>
vars   == <<server, line, store, events>>

View == [status |-> status, parent |-> tree.parent, order |-> tree.order, roster |-> roster,
         name |-> name, groups |-> groups]

----------------------------------------------------------------------------
(* The server.                                                             *)

Exists(c) == c = Top \/ (c \in Channels /\ srv.parent[c] # Absent)

\* The clients this one is told of: its own record, and whoever is in a subscribed channel.
Visible == [x \in Clients |-> IF x = Self \/ srv.at[x] \in srv.subscribed THEN srv.at[x] ELSE Absent]

Tell(messages) == wire' = IF online THEN wire \o messages ELSE wire

\* Taken out of its siblings, and put after one of them, as the server names it.
Unlink(s, c) ==
    [s EXCEPT !.order = [d \in Channels |-> IF d # c /\ s.parent[d] = s.parent[c] /\ s.order[d] = c
                                            THEN s.order[c] ELSE @[d]]]
Link(s, c, p, o) ==
    [s EXCEPT !.parent[c] = p,
              !.order = [d \in Channels |-> CASE d = c -> o
                                              [] d # c /\ s.parent[d] = p /\ s.order[d] = o -> c
                                              [] OTHER -> @[d]]]

Siblings(p)   == {c \in Channels : srv.parent[c] = p}
Above(c)      == {d \in Channels : \E S \in SUBSET Channels :
                    c \in S /\ d \in S /\ \A e \in S \ {d} : srv.parent[e] \in S}
Event(k, c, p, o) == [type |-> "channel", kind |-> k, id |-> c, parent |-> p, order |-> o]

ChannelOp ==
    \/ \E c \in Channels, p \in Parents : \E o \in Siblings(p) \cup {Top} :
        /\ ~Exists(c) /\ Exists(p)
        /\ srv' = Link(srv, c, p, o)
        /\ Tell(<<Event("created", c, p, o)>>)
    \/ \E c \in Channels, p \in Parents : \E o \in (Siblings(p) \ {c}) \cup {Top} :
        /\ Exists(c) /\ Exists(p) /\ (p # Top => c \notin Above(p))
        /\ srv' = Link(Unlink(srv, c), c, p, o)
        /\ \/ Tell(<<Event("moved", c, p, o)>>)
           \/ p = srv.parent[c] /\ Tell(<<Event("edited", c, Absent, o)>>)
    \/ \E c \in Channels :
        /\ Exists(c) /\ Siblings(c) = {} /\ \A x \in Clients : srv.at[x] # c
        /\ srv' = [Unlink(srv, c) EXCEPT !.parent[c] = Absent, !.order[c] = Absent]
        /\ Tell(<<Event("deleted", c, Absent, Absent)>>)

\* Another client comes, goes or moves; it is told as far as this client may see it.
SeenAs(x, before, after) ==
    CASE before = Absent /\ after # Absent -> <<[type |-> "enter", clid |-> x, cid |-> after]>>
      [] before # Absent /\ after = Absent -> <<[type |-> "left", clid |-> x]>>
      [] before # Absent /\ after # Absent /\ before # after -> <<[type |-> "moved", clid |-> x, cid |-> after]>>
      [] OTHER -> <<>>

ClientOp ==
    \/ \E x \in Clients \ {Self}, c \in Channels \cup {Absent} :
        /\ c # srv.at[x] /\ (c # Absent => Exists(c))
        /\ srv' = [srv EXCEPT !.at[x] = c]
        /\ Tell(SeenAs(x, Visible[x], IF c \in srv.subscribed THEN c ELSE Absent))
    \/ \E c \in Channels :
        /\ Exists(c) /\ c \in srv.subscribed
        /\ srv' = [srv EXCEPT !.subscribed = @ \ {c}]
        /\ Tell(<<[type |-> "unsubscribed", cid |-> c]>>)

InfoOp ==
    \/ srv' = [srv EXCEPT !.name = 1 - @] /\ Tell(<<[type |-> "server", name |-> 1 - srv.name]>>)
    \/ \E k \in GroupLists :
        /\ srv' = [srv EXCEPT !.groups[k] = 1 - @]
        /\ Tell(<<[type |-> "groups", list |-> k, set |-> 1 - srv.groups[k]]>>)

\* A connection is up, and the server has not sent its welcome yet.
Unwelcomed == online /\ status = "loading" /\ ~connected /\ wire = <<>>

\* Something happens on the server, also while the client is still reading its welcome.
\* What comes between a connection and its welcome might as well come before both.
ServerOp ==
    /\ sessions + ops < MaxSteps /\ ops' = ops + 1
    /\ ~Unwelcomed
    /\ ChannelOp \/ ClientOp \/ InfoOp
    /\ UNCHANGED <<garbled, sessions, online, connected, store, events>>

\* The server sends what no server sends; by a bound the only thing that happens.
Garble ==
    /\ sessions = 1 /\ ops = 0 /\ ops' = MaxSteps
    /\ garbled' = TRUE

\* An event of any channel, with any place.
Stray ==
    /\ status = "live" /\ online
    /\ Garble
    /\ \E k \in {"created", "moved", "edited", "deleted"}, c \in Channels, p \in Parents, o \in Parents \cup {Absent} :
        /\ k = "moved" => o # Absent
        /\ k = "deleted" => o = Absent
        /\ k \in {"edited", "deleted"} => p = Top
        /\ wire' = Append(wire, Event(k, c, p, o))
    /\ UNCHANGED <<srv, sessions, online, connected, store, events>>

\* The welcome, with a list of rows.  The server takes it from one state, and tells of
\* what changes from then on behind it.
Greets(list) ==
    LET there == SetToSeq({x \in Clients \ {Self} : Visible[x] # Absent})
        Entered(x) == [type |-> "enter", clid |-> x, cid |-> srv.at[x]]
        Groups(k)  == [type |-> "groups", list |-> k, set |-> srv.groups[k]]
    IN  /\ Unwelcomed
        /\ wire' = <<[type |-> "init", name |-> srv.name], Entered(Self),
                     [type |-> "channellist", rows |-> list]>>
                    \o [i \in DOMAIN there |-> Entered(there[i])]
                    \o <<[type |-> "finished"], Groups("server"), Groups("channel")>>
        /\ UNCHANGED <<srv, sessions, online, connected, store, events>>

\* The rows of the channels, in any order.
Listings(s) == {[i \in DOMAIN ids |-> Row(ids[i], s.parent[ids[i]], s.order[ids[i]])] :
                   ids \in SetToSeqs({c \in Channels : s.parent[c] # Absent})}

\* The channels a server begins with are a tree.
ASSUME TreesAssumption ==
    \A t \in Trees :
        /\ t.parent \in [Channels -> Parents \cup {Absent}] /\ t.order \in [Channels -> Parents \cup {Absent}]
        /\ \A c \in Channels : t.parent[c] = Absent => t.order[c] = Absent
        /\ \E list \in Listings(t) : DescribeATree(list)

Welcome == /\ \E list \in Listings(srv) : Greets(list)
           /\ UNCHANGED <<ops, garbled>>

\* The last of the rows is another one.
WrongWelcome ==
    /\ Garble
    /\ \E list \in Listings(srv), c \in Parents, p \in Parents, o \in Parents :
        list # <<>> /\ Greets([list EXCEPT ![Len(list)] = Row(c, p, o)])

----------------------------------------------------------------------------
(* The store.                                                              *)

\* #bump: the revision moves, and outside a loading view an event follows.
Bump == moved' = TRUE /\ draining' = (draining \/ status # "loading")
BumpIf(b) == IF b THEN Bump ELSE UNCHANGED <<moved, draining>>

\* reset, at the start of a connection; the last end has been delivered.
Begin ==
    /\ ~online /\ sessions + ops < MaxSteps
    /\ "disconnected" \notin Range(queue)
    /\ sessions' = sessions + 1
    /\ online' = TRUE /\ connected' = FALSE /\ wire' = <<>>
    /\ status' = "loading" /\ rows' = <<>> /\ tree' = EmptyTree
    /\ roster' = [x \in Clients |-> Absent]
    /\ name' = Absent /\ groups' = [k \in GroupLists |-> Absent]
    /\ moved' = TRUE
    /\ draining' = (draining \/ (status # "loading" /\ roster # roster'))
    /\ UNCHANGED <<server, ready, queue, shown>>

\* Mutant: a whenReady() call waits for the next connection.
End_Unheard ==
    /\ online
    /\ online' = FALSE /\ connected' = FALSE /\ wire' = <<>>
    /\ status' = "stale"
    /\ moved' = TRUE /\ draining' = TRUE
    /\ queue' = Append(queue, "disconnected")
    /\ UNCHANGED <<server, sessions, rows, tree, roster, name, groups, ready, shown>>

\* end: the connection is over, whoever ended it.
End ==
    /\ online
    /\ online' = FALSE /\ connected' = FALSE /\ wire' = <<>>
    /\ status' = "stale"
    /\ moved' = TRUE /\ draining' = TRUE
    /\ ready' = IF ready = "waiting" THEN "rejected" ELSE ready
    /\ queue' = Append(queue, "disconnected")
    /\ UNCHANGED <<server, sessions, rows, tree, roster, name, groups, shown>>

WhenReady ==
    /\ ready = "idle"
    /\ ready' = CASE status = "live" -> "resolved" [] status = "stale" -> "rejected" [] OTHER -> "waiting"
    /\ UNCHANGED <<server, line, status, rows, tree, roster, name, groups, moved, events>>

\* The next line, of a type.
Takes(type) ==
    /\ wire # <<>> /\ Head(wire).type = type
    /\ wire' = Tail(wire)
    /\ UNCHANGED <<server, sessions, online, shown>>

ReadInit ==
    /\ Takes("init")
    /\ connected' = TRUE
    /\ name' = Head(wire).name
    /\ BumpIf(name' # name)
    /\ UNCHANGED <<status, rows, tree, roster, groups, ready, queue>>

\* collect, for each row of the line
ReadRows ==
    /\ Takes("channellist")
    /\ rows' = IF status = "loading" /\ connected THEN rows \o Head(wire).rows ELSE rows
    /\ UNCHANGED <<connected, status, tree, roster, name, groups, moved, ready, queue, draining>>

\* finish, at channellistfinished
ReadFinished ==
    /\ Takes("finished")
    /\ IF status = "loading" /\ connected
       THEN /\ tree' = From(rows) /\ rows' = <<>>
            /\ status' = "live"
            /\ moved' = FALSE /\ draining' = TRUE
            /\ ready' = IF ready = "waiting" THEN "resolved" ELSE ready
            /\ queue' = Append(queue, "viewReady")
       ELSE UNCHANGED <<tree, rows, status, moved, draining, ready, queue>>
    /\ UNCHANGED <<connected, roster, name, groups>>

\* A channel notification: #change
ReadChannel ==
    /\ Takes("channel")
    /\ IF status = "live" THEN tree' = Apply(tree, Head(wire)) /\ Bump
                          ELSE UNCHANGED <<tree, moved, draining>>
    /\ UNCHANGED <<connected, status, rows, roster, name, groups, ready, queue>>

\* handleClientEnterView, handleClientLeftView, handleClientMoved, dropChannel
RosterAfter(m) ==
    CASE m.type = "enter" -> [roster EXCEPT ![m.clid] = m.cid]
      [] m.type = "left"  -> [roster EXCEPT ![m.clid] = Absent]
      [] m.type = "moved" -> [roster EXCEPT ![m.clid] = IF @ = Absent THEN Absent ELSE m.cid]
      [] m.type = "unsubscribed" ->
            [x \in Clients |-> IF roster[x] = m.cid /\ x # Self THEN Absent ELSE roster[x]]

\* The roster reports every entry that is set, and every one that is deleted.
ReadClient ==
    \E type \in {"enter", "left", "moved", "unsubscribed"} :
        /\ Takes(type)
        /\ roster' = RosterAfter(Head(wire))
        /\ BumpIf(type = "enter" \/ (type = "moved" /\ roster[Head(wire).clid] # Absent) \/ roster' # roster)
        /\ UNCHANGED <<connected, status, rows, tree, name, groups, ready, queue>>

\* patchServer and mergeServer
ReadServer ==
    /\ Takes("server")
    /\ name' = IF status \in {"loading", "live"} THEN Head(wire).name ELSE name
    /\ BumpIf(name' # name)
    /\ UNCHANGED <<connected, status, rows, tree, roster, groups, ready, queue>>

\* setServerGroups and setChannelGroups: the set, and whether both are there.
ReadGroups ==
    /\ Takes("groups")
    /\ groups' = IF status \in {"loading", "live"}
                 THEN [groups EXCEPT ![Head(wire).list] = Head(wire).set] ELSE groups
    /\ BumpIf(groups' # groups)
    /\ UNCHANGED <<connected, status, rows, tree, roster, name, ready, queue>>

----------------------------------------------------------------------------
(* The events.                                                             *)

\* Mutant: only a live view is announced.
Announces_LiveOnly == status = "live" /\ moved

\* announce: there is something to say.
Announces == status \in {"live", "stale"} /\ moved

\* A run of #drain: everything queued, and then whether the view moved.  A listener
\* looks at the view as it is by then.
Drain ==
    /\ draining
    /\ draining' = FALSE /\ queue' = <<>>
    /\ moved' = IF Announces THEN FALSE ELSE moved
    /\ shown' = IF Announces \/ "viewReady" \in Range(queue) THEN View ELSE shown
    /\ UNCHANGED <<server, line, status, rows, tree, roster, name, groups, ready>>

----------------------------------------------------------------------------
Init ==
    /\ \E t \in Trees : \E at \in Places :
        /\ \A x \in Clients : at[x] # Absent => t.parent[at[x]] # Absent
        /\ srv = [parent |-> t.parent, order |-> t.order, at |-> at, subscribed |-> Channels,
                  name |-> 0, groups |-> [k \in GroupLists |-> 0]]
    /\ wire = <<>> /\ ops = 0 /\ garbled = FALSE /\ sessions = 0
    /\ online = FALSE /\ connected = FALSE
    /\ status = "empty" /\ rows = <<>> /\ tree = EmptyTree
    /\ roster = [x \in Clients |-> Absent] /\ name = Absent
    /\ groups = [k \in GroupLists |-> Absent]
    /\ moved = FALSE /\ ready = "idle" /\ queue = <<>> /\ draining = FALSE
    /\ shown = View

Handling == ReadInit \/ ReadRows \/ ReadFinished \/ ReadChannel \/ ReadClient \/ ReadServer \/ ReadGroups

Next == Handling \/ Drain \/ Begin \/ End \/ WhenReady \/ ServerOp \/ Stray \/ Welcome \/ WrongWelcome

Spec == Init /\ [][Next]_vars

----------------------------------------------------------------------------
\* The view's channels are a tree with one place for each, whatever came: a listing that
\* is no tree, events that cannot be placed (channel-tree.ts:77 and 214).
TreeIsATree == ListsAgree(tree) /\ Rooted(tree)

\* A listing makes a consistent tree exactly if it describes one, and then that very one,
\* in whatever order its rows came (channel-tree.ts:77).
ListingIsRead ==
    (status = "loading" /\ wire # <<>> /\ Head(wire).type = "finished") =>
        LET t == From(rows) IN
        /\ t.consistent <=> DescribeATree(rows)
        /\ t.consistent => \A i \in DOMAIN rows : /\ t.parent[rows[i].id] = rows[i].parent
                                                  /\ t.order[rows[i].id] = rows[i].order

\* A live view that has read everything is the server's state: the place of every channel,
\* although the server says nothing of the sibling behind a change, the clients in view,
\* the server's properties and the groups (view.ts:334).
ViewMirrorsServer ==
    (status = "live" /\ wire = <<>> /\ ~garbled) =>
        /\ tree.consistent /\ tree.parent = srv.parent /\ tree.order = srv.order
        /\ roster = Visible
        /\ name = srv.name /\ groups = srv.groups

\* Whoever looks at the view at viewReady and viewChanged, and at no other time, has seen
\* it as it is once the deliveries are done, also its end (client.ts:2156, view.ts:455).
ListenersAreUpToDate == (~draining /\ status \in {"live", "stale"}) => shown = View

\* A whenReady() waits only while a connection may still come to it: the one that is
\* being made settles it, however it ends (view.ts:472 and 598).
ReadyIsSettled == ready = "waiting" => status \in {"empty", "loading"}
=============================================================================
