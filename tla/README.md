# A TLA+ model of teamspeak-js

teamspeak-js is a TeamSpeak 3 and 6 client in TypeScript: a voice client with
its own UDP protocol, a ServerQuery client, and the signalling of TeamSpeak 6
screen shares. It runs on one JavaScript thread, against a network that loses,
delays, repeats and reorders datagrams, and against a server it cannot trust to
answer. This directory models the parts whose correctness depends on the order
in which things happen, checks them with TLC on small instances, and proves with
TLAPS, for instances of any size, the safety of the transport (that commands come
out whole, in order and once included), of the handshake's keys, of the lives of
both clients and of the query client's commands.

Paths below are relative to the repository (`src/...` is its source directory).
`PROJECT.json` lists, for each definition, the lines it models (`map`), the runs,
for each checked property a plausible bug that violates it (`mutants`; each is a
definition marked as a mutant beside the one it replaces), the hazards the
properties are aimed at, and the theorems.

## 1. Inventory

| Part | State it keeps | Operations | What is hard | What makes it correct |
| --- | --- | --- | --- | --- |
| **Generation window** `client/transport/generation-window.ts` | base id and generation | advance, placing an id in or out of the window, its generation | 16-bit ids wrap; the generation is never sent | an id near the window gets the generation it was sent in |
| **Packet handler, receiving** `client/transport/handler.ts` | a window per kind of packet; two command queues, the next id of each, their bytes; the time each packet came | take a datagram, acknowledge, hold, reassemble, release, close on a stalled hole | loss, repeats, reordering, lost acknowledgements, a byte limit shared by two queues | commands come out once, whole and in order; what is acknowledged is not lost |
| **Packet handler, sending** same file | id and generation counters, a send window, the packets not yet acknowledged, the Init1 packet | send, split, resend, take an acknowledgement, time out | resends across a wrap, acknowledgements that name only an id | a resend repeats what was sent; nothing is dropped that the server lacks |
| **Handshake** `client/handshake.ts`, `client/handshake/*` | the Init1 step, the puzzle being solved, the key material | Init1 steps, puzzle, expand2 or initiv, clientek, clientinit | every step may be lost or repeated; solving takes seconds; the key changes while packets wait to be resent | both sides hold the same keys; the attempt ends |
| **Voice client lifecycle** `client/client.ts`, `client/reconnect.ts` | status, attempt, session, `#leaving`, the reconnect loop, the event queue | connect, disconnect, abort, drop, the loop's delay and attempt, delivery of events | every `await` lets other calls in | each session ends once, nothing survives it, calls return, promises about reconnecting are kept |
| **Commands and answers** `client/commands.ts`, `client/client.ts` | pending commands, buffered rows, whether the welcome is over | register, buffer, match, resolve, give up, reset | rows do not say whose they are | an answer is whole and holds nothing foreign |
| **Events and view** `client/view.ts`, `client/client.ts` | the server's channels, clients, properties and groups; a revision; `events()` iterators | collect, finish, apply, merge, announce, end, whenReady | the server changes while it sends its welcome; changes are read while earlier ones are delivered | a view that has read everything is the server's state, and listeners have seen it |
| **Channel tree** `core/channel-tree.ts` | channels with parent and predecessor, lists of siblings | read a listing; create, edit, move, remove | a notification says nothing of the siblings it affects; listings may be broken | it stays a tree, and the server's |
| **Query client** `query/client.ts`, `query/late-rows.ts` | one command on the wire, a queue, answers owed to nobody, the session, the loop | exec, a line, give up, connect, disconnect, close, reconnect | an answer after its timeout; rows after their error line; awaits in every attempt | no command gets another's answer; every call ends; no transport is left behind |
| **Query transports** `query/stream.ts`, `tcp.ts`, `ssh.ts`, `web.ts`, `lines.ts` | a byte stream, the line being read; WebQuery's requests | open, send, data, close | closing takes time; a send fails after its command gave up | the close is reported once |
| **Streams** `stream/*` | streams known, attempts to publish, own streams with viewers and requests, watches | discover, publish, watch, accept, deny, leave, stop, dispose, reset | answers overtake notifications; every call can give up while its command is under way | no stream runs unowned, and all sides agree on who watches |
| **File transfers** `client/transfer.ts` | a TCP connection and its byte count | open, read, write, abort | end of data against end of connection | a short transfer is an error |
| **Address resolution** `client/discovery/*` | lookups racing a budget | SRV, TSDNS, direct | late answers | the order of preference holds |
| **Cryptography, identities** `client/crypto/*` | keys | EAX, curves, hashcash | — | byte-level; out of a model checker's reach |
| **Command language, typed commands, tables** `core/command/*`, `core/api/*`, `versions/*` | none | format, parse | — | stateless text, covered by the repository's unit and fuzz tests |

How they interact: `Client` owns a `PacketHandler`, a `Crypt` and a
`CommandTracker` per attempt or session and replaces them in `#resetForConnect`;
the handler calls back with whole commands and with errors (callbacks of a
replaced handler are ignored); `Client` feeds the handshake functions, the
tracker, the view store and the event queue from `#handleCommandStr`. Callers
reach all of this through promises, so a call resumes some turns after the
event that settled it. The view store is fed from the same lines and is read by
applications and by `Streams`, which sits on the client's events and its
`send()`. `QueryClient` shares no state with `Client`; it owns one transport per
session and delivers events where they are emitted.

## 2. Modules

| Module | Models | Uses |
| --- | --- | --- |
| `GenerationWindow` | `GenerationWindow`, and which packets decrypt (`Decrypts`) | — |
| `UnackedReceive` | the window of voice, whisper, ping and pong packets | `GenerationWindow` |
| `CommandReceive` | both command queues, acknowledgements, byte limit, reassembly, hole timeout | `GenerationWindow` |
| `OrderedCommands` | abstract: a log of whole commands, in order, each once | instanced by `CommandReceive` |
| `CommandSend` | ids, generations, resends, acknowledgements, time-outs of sent commands | `GenerationWindow` |
| `Handshake` | one attempt from Init1 to initserver | — |
| `CommandTracker` | commands and their answers | — |
| `ClientLifecycle` | connect, disconnect, the loop, delivery | — |
| `QueryCommands` | the query client's commands: queue, answers, late rows, giving up, sends that fail | — |
| `QueryLifecycle` | the query client's connect, disconnect, transports and loop | — |
| `ChannelTree` | the tree and its four changes, as functions | — |
| `ChannelListing` | the tree a `channellist` makes | `ChannelTree` |
| `ServerView` | the view store on a server that changes, and what listeners see of it | `ChannelListing` |
| `JoinRequests` | the requests and viewers of one published stream, as functions | — |
| `Streams` | a publisher's and the viewers' `Streams`, and the server between them | `JoinRequests` |
| `MCCommandReceive`, `MCHandshake`, `MCQueryCommands`, `MCServerView`, `MCStreams` | streams of packets, symmetry, mixes of commands, trees and scenes for TLC | |
| `GenerationWindowProof`, `CommandReceiveProof`, `ClientLifecycleProof`, `QueryLifecycleProof`, `QueryCommandsProof`, `ServerViewProof` | theorems | the module of the same name, `TLAPS` |
| `CommandsProof` | theorems about `CommandSend` and `CommandTracker` | both, `GenerationWindowProof`, `TLAPS` |
| `TransportProof` | theorems about `UnackedReceive` and `Handshake` | both, `GenerationWindowProof`, `TLAPS` |

The modules meet at their interfaces. `CommandReceive` implements
`OrderedCommands`; `CommandTracker` assumes what `OrderedCommands` says, that
lines arrive in order and once. `Handshake` runs inside what `ClientLifecycle`
sees as the two steps `CryptoDone` and `InitServer`, and is closed by its
`Drop`, `Abort` and `Disconnect`. `ServerView` and `Streams` take the lines of a
connection to arrive in order and once (`OrderedCommands`), and deliver events
as `ClientLifecycle` does. `QueryLifecycle` sees the commands of a setup as one
step that ends or fails; `QueryCommands` sees a session as up or not.

## 3. How the models correspond to the code

**Packets are known by their number.** The wire carries a 16-bit id and the key
depends on the generation. The models number the packets of a kind 0, 1, 2, ...
(`Id(n) = n % Mod`, `Gen(n) = n \div Mod`), so a property can say which packet
something *is*, while every action sees only what the code sees: `Decrypts`
holds when one of the generations that `#decryptPacketData` tries is the right
one. `Position(w)` is the number a window stands at.

**The network is a set, or a permission.** What was sent may arrive at any time,
any number of times, or never; there are no lose or duplicate steps except where
the handshake needs a datagram to be gone for good (`LoseAny`).

**`CommandReceive`.** `Receive` is `#handleRawPacket` up to the loop of
`#handlePacketQueue`; one round of that loop is `TakeCommand`, and `EndOfLoop`
leaves it. Splitting the synchronous loop only adds observable states; `busy`
keeps every other handler out until it ends. `reaches` says whether the
acknowledgement gets to the server. `Tick` is a pass of `#checkResends` as far
as the receive side goes. Payloads have sizes; a command that does not
decompress is a flag of the packet.

**`CommandSend`.** `SendPacket` is `#nextPacketIdentity`, `#trackResend` and the
first send; a split command is consecutive `SendPacket`s. A tick is
`MAX_RETRY_INTERVAL_MS`, the longest the backoff grows to, within which every
pending packet is sent again; a datagram once sent may arrive any number of
times, so sending it more often within a tick adds nothing. An acknowledgement names an id, as on
the wire. The model lets the caller have fewer than `Mod` packets unacknowledged
(`InFlight`), because `#ackManager` is keyed by id and nothing in the code bounds
it, and lets acknowledgements live for up to a cycle of ids.

**`Handshake`.** One attempt. The server is external: it keeps nothing between
Init1 steps, builds its keys from the first answer it accepts, and resends its
command until answered. Whether its license and proof fit is nondeterministic
(`fits`). Acknowledgements of the server's own commands are left out: clientek
counts as the answer to initivexpand2, and the ordering of commands is
`CommandReceive`'s business. `Fresh` distinguishes servers that set a new puzzle
each time they are asked from ones that repeat it.

**`CommandTracker`.** One action per kind of line the server sends; a line is
handled where it is sent, because `OrderedCommands` holds. The table in
`core/command/responses.ts` is reduced to its three kinds of entry, and
`echoKey`, `correlated.key` and `ownRowsOnly` to one field, the target. A request
or a notification without that field has the target `Any`: a row that names
nobody, or a request that does, is not checked (`NamesNoOther`, as in
`#answers`), and a request without the key of `correlated` is not matched with a
notification and does not wait for one (`IsMatched`). So a command may be given a
notification that somebody else's change caused, and the property says so. A
command sent without a return code is answered too, with rows of any kind. Each
row carries, for the properties only, the command it was sent for. Line
middleware is left out: it sits between the caller and `Exec`.

**`ClientLifecycle`.** JavaScript's order is part of the model. `turn` is the
turn of the event loop that is running (a datagram, or the delivery of events);
`Micro` says that a continuation is due, and no new turn starts while it is.
Among continuations the model keeps the order the code's `await`s give: a
rejected attempt's call, and the loop's return, go before callers that were
waiting for the end to be delivered; a loop whose call threw at once goes after
them; among woken callers any order is possible. Delays may be zero, so the
loop's timer may fire before a delivery. `Disconnect` also stands for the
client's own `disconnect()` after a ban. `shouldRetry` answers
nondeterministically. Trace hooks and a refusal during the goodbye (a no-op) are
left out.

**`QueryCommands`.** A call is one of six kinds that `late-rows.ts` tells
apart: plain, a create with one late row (two of them, with different keys), one
whose late row has other keys beside its own (`servercreate`, `apikeyadd`), a
create of several, and a read whose row may follow its error line. A row keeps,
for the properties, the command it was written for; the client looks only at its
keys (`Keys`), and takes a row for a stray one only if it has a single key. A line
holds one row. `link` is a line stream (`ssh`, the one with nudges; TCP is the
same without lines kept back) or WebQuery, whose send carries the whole round
trip. The wait for late rows, 250 ms for the first or 25 ms for one more, may be
over at any time (`HeldTimer`), also while a row is on its way or the server keeps
it back, because the timer sees neither; `ranOut` records the commands to which
that happened. Sends that are pending when a connection
ends fail before the next is installed. Line middleware is left out.

**`QueryLifecycle`.** `body` is the await an attempt is at, `line` its
transport. A stream that closes says `quit` and closes some time later, and its
close is reported to whatever session there is then, as `#handleClose` does not
look; WebQuery closes at once. The query client emits where it stands, so
`emitting` is a state in which listeners call `connect()` and `disconnect()` in
the middle of `#announceDisconnected`.

**`ChannelTree`, `ChannelListing`, `ServerView`.** The tree is a record of
parents, orders and lists of siblings, as the class keeps them, and an event
that cannot be placed marks it inconsistent as `#change` does. The server is
external and keeps parents and predecessors only, so the orders of the siblings
behind a change are the client's own inference, and `ViewMirrorsServer` compares
them. A deleted channel has no channel below it and no client in it, as the
server sends those first; this client stays in its channel. The welcome is sent
as a whole, and the server goes on changing while it is on its way and read: the
changes come behind it, and the client reads them when its view is live. That the
server sends no channel event among the rows of its welcome is an assumption; the
view drops one that comes while it is loading (`view.ts:511`). What changes
between a connection and its welcome is what the server had before. Listings
that are no tree, and events no server sends, occur in behaviours of their own
(`garbled`). `shown` is the view as a listener of `viewReady` and `viewChanged`
saw it last.

**`JoinRequests`, `Streams`.** The state of a `Streams` object is a record and
each handler a function on it, so that the delivery of a whole queue is a fold;
what a handler sends is put on the wire when the handler is over. The answer to
a command runs its continuation when it is read, notifications wait for the next
run of the queue (`ReadAnswer`, `Deliver`). The server is external: it reads one
command at a time, ends the answer to a `setupstream` before it reads another
(it may stop the stream in between), sets the streaming flag before it announces
a stream and clears it before it reports the stop, refuses an answer to a
request that does not stand, may refuse a `requeststreaminfo`, and notices a
lost connection at once. Lookups of a viewer's name are answered at any time. A timer cannot fire between the
reading of a notification and the run of the queue.

## 4. Runs

`tlc -workers 2 -config <cfg> <module>` in this directory; every run takes less
than three minutes on two cores.

| Run | Configuration | Shows |
| --- | --- | --- |
| `unacked_window` | `UnackedReceive.cfg`: 8 ids, window 4, 30 packets (three wraps) | `WindowFollows`, `NearPacketsArePlaced` |
| `command_order` | `CommandReceive.cfg`: 6 ids, window 3, both queues, a byte limit of 2 packets | `HeldInWindow`, `NothingWholeWaits`, `BytesAreBounded`, `AckedIsKept`, refinement `ImplementsOrderedCommands` |
| `command_live` | `CommandReceiveLive.cfg`: byte limit of 1 packet, the server sends 5 ahead of a window of 3 | `EverythingArrives`: each packet is dealt with, and its acknowledgement heard |
| `command_send` | `CommandSend.cfg`: 5 ids, 11 packets (two wraps), 4 in flight | `CountersAgree`, `SentUnderItsNumber`, `NoneForgotten`, `PacketsSettle` |
| `handshake` | `Handshake.cfg`: three puzzles, one too hard, fresh each time, one restart | `KeysAgree`, `ResendsKeepTheirKey` |
| `handshake_live` | `HandshakeLive.cfg`: the same puzzle each time | `HandshakeEnds` |
| `tracker` | `CommandTracker.cfg`: two commands and one without a return code, two sessions, two targets or none named | `AnswersAreWhole`, `AnswersAreItsOwn`, `CommandsEnd` |
| `lifecycle` | `ClientLifecycle.cfg`: two callers, four attempts, two disconnects | `EventsAreInPlace`, `OnlyCurrentAttemptLives`, `LoopKeepsItsWord`, `CallsReturn`, `PromiseIsKept` |
| `query_commands` | `QueryCommands.cfg`: three commands of four mixes of kinds, both links, one drop | `AbandonedIsExact`, `AnswersAreItsOwn`, `AnswersAreWhole`, `CallsEnd` |
| `query_lifecycle` | `QueryLifecycle.cfg`: two callers, four attempts, one disconnect, both links | `NothingLeftOpen`, `DisconnectStopsTheLoop`, `CallsReturn`, `PromiseIsKept` |
| `view` | `ServerView.cfg`: every tree of up to three channels, two clients, three steps (connections, changes) | `TreeIsATree`, `ListingIsRead`, `ViewMirrorsServer`, `ListenersAreUpToDate`, `ReadyIsSettled` |
| `streams` | `Streams.cfg`: scenes of a publisher and one viewer (two streams and two watches, four steps; two streams or two watches, five) or two viewers of one stream (four), a step being a call, give-up or failure | `NothingRunsUnowned`, `KnownIsRunning`, `SessionsAgree`, `NoRequestIsLost` |

The comment before each property says in words what it states, and which cases
it excepts. The exceptions are history variables that record exactly when the
code or the protocol cannot do better: a row later than the wait for it, a
`setupstream` announced after its window, an answer to a withdrawn request.

### Where the code departs from its comments

Found while modelling, and left as they are in the models; the properties above
do not hide them but are stated of what the code does promise.

* *A hole outlasts its timeout* (`handler.ts:832`). A packet that arrives again
  replaces the one held, with a new time, and `#hasStalledHole` goes by those
  times: a hole can last as long as the packets behind it keep coming.
  `handler.ts:45` speaks of how long a packet may stay missing.
* *A command longer than the window never ends* (`handler.ts:882`). Its end
  marker stays outside the window while its first packets are held, so it is
  neither released nor dropped, and there is no hole to time out. `handler.ts:877`
  says an oversize command is released to its end marker.
* *Answers while solving* (`crypt-handshake.ts:151`). Only another puzzle is
  held back; a repeated step 1 or a restart is answered, although
  `crypt-handshake.ts:43` says that nothing else is.
* *A refused drop is retried* (`client.ts:2193`). The loop sleeps, `connect()` by
  hand succeeds, and the session is kicked: `disconnected` says `willReconnect`
  false, and the loop, which only looks at the status when it wakes, connects.
  `core/events.ts:459` says it will not.
* *A close is taken for another's* (`query/client.ts:1340`). After a failed
  `connect()` over a line stream the old transport is still saying `quit`; a
  prompt second `connect()` has its own transport dropped, without being closed,
  when the first one's close is reported. Likewise `#failConnection`
  (`query/client.ts:1375`) does not look whether its attempt is the current one.
* *A waiting `connect()` is not cancelled* (`query/client.ts:415`). One that waits
  for an earlier end goes on after a later `disconnect()`; the voice client keeps
  a count for this.
* *A caller's failure is announced as the loop's* (`query/client.ts:1386`). While
  the loop sleeps, the `willReconnect` of a caller's failed `connect()` is asked
  for the loop's attempt.
* *A late row with several keys is not known again* (`query/client.ts:1215`). The
  rows of `servercreate` and `apikeyadd` carry other keys beside the one that is
  remembered, so that one which comes after the wait goes to the next command,
  although `query/client.ts:1188` says that it is not the next command's.
* *A response names no request* (`stream/streams.ts:678`). The answer to a
  withdrawn join request is taken for that to the next, and an accept can meet a
  request made after the one it was for; the protocol offers nothing better.

### Bounds

* *Ids and windows.* The arithmetic depends on `Mod` and `Window` only through
  `2 * Window <= Mod`, which the code satisfies (65 536 ids against 1 024 or
  32 768). The runs use the smallest sizes with room for an old, a current and
  a next generation; the proofs remove the bound.
* *Streams.* `MCCommandReceive` sends single commands, fragments of two and
  three packets, one that is oversize and one that does not decompress, and
  passes the wrap in the middle of a fragmented command.
* *Ticks.* Time is a small number of passes of the resend loop: enough that a
  packet can be sent again before and after its time-out.
* *Attempts, calls, sessions.* Two callers are needed for a call that waits on
  another's; four attempts for a drop, a manual connect and a loop attempt after
  it; two commands of each kind, with one given up, for rows to be mistaken.
* *Query commands.* Three, so that a command that gave up, one that may take its
  rows and a third that may be shifted by it meet. The mixes put each kind of
  late row before a command of the same key, of another and of none.
* *Channels.* Three: a parent, and two siblings whose order can be confused, or
  a chain. `From` was also compared with its reference on every listing of up to
  three rows.
* *Publishing and watching.* Two streams so that the flag and the last stream
  differ, two watches so that a second request can be mistaken for the first, and
  two viewers so that a request stands behind another one that stands. Together
  they are too many states, so that each run of `Streams` plays one of the
  scenes of `MCStreams`, which bound the steps as well. Viewers are alike, and
  `Symmetry` says so; whether the publisher sees them, which decides who is looked
  up and whether their going is noticed, is varied with one viewer.
* `CHECK_DEADLOCK FALSE` where the system really stops: a closed handler, a
  disconnected client with nobody calling, or the bound on the run reached. In
  `unacked_window` packets can always arrive again, and deadlock is checked.

### Fairness

* `CommandReceive`: the server goes on sending, and a packet or an
  acknowledgement sent again and again arrives at last (SF). The premise is that
  the server runs less than `Mod - Window` ahead of its oldest unacknowledged
  packet and that no command is longer than a window (see above).
* `CommandSend`: only that time passes (WF of `Tick`).
* `Handshake`: time passes, the solver ends, the server resends its command
  (WF), and a datagram sent again and again arrives (SF). `HandshakeEnds` needs
  a server that repeats its puzzle. With new puzzles a late step 1 after a lost
  answer leaves the attempt asking for puzzles it will not solve, until the
  caller's signal or the loop's 30 s ends it.
* `CommandTracker`: a session that is up ends its welcome, answers and sends the
  notifications due. Nothing is assumed of time-outs, so `CommandsEnd` shows
  that commands do not depend on them.
* `ClientLifecycle`: turns end, continuations run, timers fire; a lookup has a
  budget and a socket opens or fails; the goodbye has a 1 s time-out. Nothing is
  assumed of the application or of the server, and the idle time-out of the
  handler is not counted on: it goes by what was heard last (`handler.ts:985`),
  so that a server which keeps answering without getting on holds a `connect()`
  without a signal for as long. `CallsReturn` excepts such a call, in an attempt
  that lives on for good, and no other. `attempt = MaxConnects` in the liveness
  properties is the edge of the bounded run. `PromiseIsKept` does not speak of
  the ends of callers' own attempts.
* `QueryCommands`: the event loop runs, the timers of held answers and of the
  nudge fire, and a connected server answers. Nothing is assumed of the
  command's timeout or of a reconnection, so `CallsEnd` shows that neither is
  needed.
* `QueryLifecycle`: continuations run, listeners return, timers fire, transports
  open or fail, setups end (each of their commands has a timeout) and closes end
  (`QUIT_WAIT_MS`). Nothing is assumed of the application or of the server.
* `ServerView` and `Streams` are checked for safety; their properties speak of
  states in which everything that was sent has been read, so that no fairness
  enters.

## 5. Proofs

`tlapm <module>.tla` checks each proof module. The theorems hold for every value
of the constants: every number of ids, every window of at most half of them,
every stream of packets and byte limit, any puzzles, restarts and time-outs of the
handshake, any number of callers, attempts, disconnects and commands, answers of
any length. They rest on the named assumptions of the specification modules
(`WindowAssumption`, `PacketsAssumption`, `StreamAssumption`, `SendAssumption`,
`HandshakeAssumption`, `LifecycleAssumption` of either client,
`CommandsAssumption`, `ChannelsAssumption`, `ViewAssumption` and
`TreesAssumption`), which TLC also
evaluates on the instances of the runs.
`MaxGen * Mod` bounds the number of packets, because generations saturate at
`MaxGen` (2^32 - 1 in the code). `StreamAssumption` says what the server does: it
numbers its commands 1, 2, 3, ... and sends each as a run of packets of which, if
there are several, the first and the last carry the fragment flag (`IsCommand`).
`TreesAssumption` says that the channels a server begins with are a tree, by what
their rows describe. The inductive invariants were checked with TLC before they
were proved, on the instances of the runs, but for the parts about `ServerView`'s
wire that TLC cannot evaluate (`IsWire` and `Leads` say that a set, or a sequence
of stores, exists).

| Theorem | States |
| --- | --- |
| `TransportProof!Follows` | `[]WindowFollows` |
| `TransportProof!NearPackets` | `[]NearPacketsArePlaced` |
| `CommandReceiveProof!TypeCorrect` | `[]TypeOK` |
| `CommandReceiveProof!HeldPacketsAreInPlace` | `[]HeldInWindow` |
| `CommandReceiveProof!AcknowledgedPacketsAreKept` | `[]AckedIsKept` |
| `CommandReceiveProof!BytesAlwaysBounded` | `[]BytesAreBounded` |
| `CommandReceiveProof!NothingWholeEverWaits` | `[]NothingWholeWaits` |
| `CommandReceiveProof!HandlerImplementsOrderedCommands` | `ImplementsOrderedCommands`: the step simulation of `OrderedCommands` |
| `CommandsProof!CountersAlwaysAgree` | `[]CountersAgree` |
| `CommandsProof!DatagramsKeepTheirNumber` | `[]SentUnderItsNumber` |
| `CommandsProof!UnansweredPacketsAreKept` | `[]NoneForgotten` |
| `TransportProof!KeysAlwaysAgree` | `[]KeysAgree` |
| `TransportProof!CommandsKeepTheirKey` | `[]ResendsKeepTheirKey` |
| `ClientLifecycleProof!EventsAlwaysInPlace` | `[]EventsAreInPlace` |
| `ClientLifecycleProof!OnlyTheCurrentAttempt` | `[]OnlyCurrentAttemptLives` |
| `ClientLifecycleProof!LoopAlwaysKeepsItsWord` | `LoopKeepsItsWord`, an action property |
| `CommandsProof!AnswersAlwaysWhole` | `[]AnswersAreWhole` |
| `CommandsProof!AnswersAlwaysItsOwn` | `[]AnswersAreItsOwn` |
| `QueryLifecycleProof!NothingIsLeftOpen` | `[]NothingLeftOpen` |
| `QueryLifecycleProof!DisconnectAlwaysStopsTheLoop` | `DisconnectStopsTheLoop`, an action property |
| `QueryCommandsProof!AbandonedIsAlwaysExact` | `[]AbandonedIsExact` |
| `QueryCommandsProof!AnswersAreAlwaysItsOwn` | `[]AnswersAreItsOwn` |
| `QueryCommandsProof!AnswersAreAlwaysWhole` | `[]AnswersAreWhole` |
| `ServerViewProof!EventsKeepTheTree` | `Apply` makes a tree of a tree, for every event |
| `ServerViewProof!ListingsMakeATree` | `From` makes a tree of every listing |
| `ServerViewProof!TreeIsAlwaysATree` | `[]TreeIsATree` |
| `ServerViewProof!ViewAlwaysMirrorsServer` | `[]ViewMirrorsServer` |
| `ServerViewProof!ListingIsAlwaysRead` | `[]ListingIsRead` |
| `ServerViewProof!ListenersAlwaysUpToDate` | `[]ListenersAreUpToDate` |
| `ServerViewProof!ReadyIsAlwaysSettled` | `[]ReadyIsSettled` |

**The argument.** `GenerationWindowProof` turns the code's case distinctions into
arithmetic on packet numbers, once and for all: a number is its generation times
`Mod` plus its id, in one way only; `Advance` adds to the position
(`AdvanceExact`); and if a packet decrypts, `MappedToIndex` is the distance of
its number from the position (`IndexExact`), so "in the window" and "old" mean
what they say. After that no proof looks at wraps again.

* *Unacknowledged packets.* `WindowFollows` with the types is inductive.
* *Command queues.* `TypeOK /\ HeldInWindow /\ AckedIsKept`. `AckedIsKept` alone
  is not inductive: that a release takes exactly the packets it passes, and that
  no other packet has the id of a held one, needs `HeldInWindow`. Two numbers of
  one window with one id are equal because a window is shorter than a cycle.
  For `NothingWholeWaits` the queue whose loop runs is the exception
  (`OnlyBusyIsWhole`): a packet can complete a command only in the queue it is put
  in, and the loop over that queue ends only when nothing whole is left.
* *The refinement of `OrderedCommands`.* The window of a queue always stands at
  the first packet of a command or at the end of the stream (`AlwaysAtStart`).
  From there the two flags that `#tryReassemble` looks for are those of that
  command's own first and last packet (`WholeCommand`), so a release takes the
  packets of one command and no others, and the handler drops it exactly when the
  stream's command is over the limit or does not decompress (`DropsExactly`). Then
  the window stands at the next command (`CommandAfter`), and the release is a
  `Take` of the abstract specification (`TakeSimulates`); every other step
  stutters.
* *The byte limit.* `BytesAreBounded` speaks of sums over what the queues hold. A
  byte is known by its packet and its place in it, so that a sum of sizes is the
  cardinality of a union of disjoint sets, and the library's facts about cardinalities give what a
  packet adds to it and a release takes away. That needs finitely many queues
  (`IsFiniteSet(Queues)`; the code has two).
* *Sending.* `NoneForgotten` alone is not inductive: an acknowledgement names an
  id, and that the packet kept under it is the one the server acknowledged needs
  `KeptInPlace` (what is kept is under its own id and less than a cycle old),
  `NothingInvented` (the server has, and acknowledges, only what was sent) and
  `CountersAgree` (the next packet takes an id that is free).
* *Handshake.* A step that builds keys needs that the alpha the client holds is
  the one the server answered. An attempt chooses one alpha only, when the solving
  of its one puzzle ends (`OneAlpha`); every answer on its way or kept to be sent
  again carries it (`AnswersCarryIt`), and the server has a session, and offers
  keys, only for an answer (`OffersAreForIt`). That resends keep their key needs
  that acknowledgements come under the key of their command (`AcksKeepTheirKey`) and
  that what is pending was kept with the key it first went out under
  (`KeptWithItsKey`).
* *The voice client's life.* The argument is about order. The end of an attempt
  queues one `disconnected` (`QueueShape`), the queue is drained only in a turn in
  which no continuation is due (`DrainIsBetween`), and the next attempt starts only
  when it has been drained. So what an ended attempt leaves behind, its aborted
  socket (`BodiesAreInPlace`), its call (`CallsGoOn`) and the loop's decision
  (`WordIsKept`), is dealt with before the next one starts. `CancelIsSeen` follows
  the loop that `disconnect()` found, for `LoopKeepsItsWord`.
* *The voice client's commands.* What a call gets is picked out of the lines
  between its own start and its end. `BufferInv` says what the tracker has buffered
  for the oldest call, `HeadInv` which call that is, `InboxInv` what the lines still
  to come are, and `CallInv` what each finished call was given.
* *The query client's life.* `#connect` looks for a `disconnect()` under way when
  it is called and not after its waits, so an attempt may start while `#teardown`
  runs. What saves the transport is order again: between the end of a session and
  the last call it wakes nothing is installed (`NothingInstalled`), a teardown that
  finds callers awake has nothing to wait for (`WaitersAreInPlace`), and its own end
  is over before the attempt that slipped past it opens anything
  (`TeardownIsInPlace`).
* *The query client's commands.* Commands are written, and answered, in the order
  of their calls (`WireInOrder`), and the one on the wire that has not given up is
  the last of them (`PendingIsLast`): the next `error` line is of a command that
  gave up exactly while one of those is owed. A row that comes when none is owed
  follows its own `error` line, and its command is then known
  (`LateRowsAreKnown`). Wholeness has an invariant of its own on top: the rows on
  their way are numbered as the server wrote them (`RowsAreNumbered`), and what the
  pending command was given is the beginning of its answer while the rest is on its
  way (`AnswerInStep`).
* *The channel tree.* Trees are rooted if every set of channels that is closed
  upwards and not empty reaches the top level: said so, with sets in place of
  paths, a change of one parent is first-order reasoning. While an event is
  applied one channel is in no list (`Lacks`), and while a listing is read some
  channels may hang on each other (a `Draft`); each operation is proved to take one
  such form to the next. `sortSiblings` is a loop with a stack. It gives every
  sibling once because the length of the stack and the number of siblings that are
  still to be put on it shrink together, by one a step, from twice the number of
  siblings.
  Exactly the listings that describe a tree are found consistent: all rows are kept
  if their ids are distinct, `repairCycles` finds nothing if every set of channels
  that is not empty has one whose parent is not in it, and `sortSiblings` finds no
  fault if each sibling names the one before it in some order of them, which its walk
  then gives (`SiblingsChained`, `DraftedConsistent`).
* *The view and the server.* `ViewMirrorsServer` looks at states in which everything
  is read. The inductive invariant is about the others: reading the lines on their
  way, one by one, leads from the store to one that is the server's state
  (`Leads`, `Reflects`), unless the welcome is still to be sent. Three things are
  behind it. A line that is taken does to the store what `Read` says
  (`HandlingReads`). Each change of the server puts lines on the wire that carry
  exactly that change (`Carries`): for a channel event, that `Apply` makes of a tree
  with the server's orders the tree with its new ones, although the event names
  one channel and the server has rewritten the predecessor of two more
  (`CreatedMirrors`, `MovedMirrors`, `DeletedMirrors`; `NotWithin` for the channels
  that may not go under themselves). And a welcome read to its end makes a fresh
  store the server's state (`WelcomeReflects`), because the rows of a tree describe
  it (`TreeDescribes`) and rows that describe a tree are read as that tree.
* *The listeners.* Whatever changes the view makes it `moved` or queues
  `viewReady`, and then a drain is due (`Told`, `QueueDrains`).

*Loops over data.* The loops are recursive functions on `0 .. n`. The library's
induction theorems take an operator, which the provers cannot instantiate; what is
used instead is that a set of numbers that is not empty has a least one
(`WFMin` of `WellFoundedInduction`): the least step at which a claim fails is not
the first, so it holds a step before, and the step keeps it.

**Only model-checked.** Liveness, since the prover has no rule for fairness. The
invariants of `Streams`: they speak of states in which nothing is on its way, so an inductive
invariant would have to say what every sequence of messages and events still on
its way makes of three parties' state, and a client delivers all its queued events
in one run, a fold of the handlers over a sequence of any length. It could be done
as for `ServerView`, from the least event at which a claim fails, but for far more
kinds of messages; it has not been.

## 6. Not modelled

Cryptography and the license chain are byte-level mathematics; the models assume
that a packet decrypts under its own key and generation and under no other. The
layout of packets, the command language, the typed commands and the tables of
versions and names are stateless. Voice data, the keepalive ping and its
round-trip figures, diagnostics and trace hooks change no state the properties
speak of. Of the parts modelled in part, these are left out:

* the `events()` iterator with its bounded buffer, and the contents of events
  other than those about channels, clients in view, the server and groups;
* the query client's `login()`, `use()` and event registrations, the line
  splitter, host keys, and line middleware of both clients;
* a `fetch` of WebQuery that ignores its signal (`query/client.ts:1115`): the
  request of a command that gave up would then count as owed while the next
  command's answer is read, which is passed over;
* more than 65 535 commands in flight (`handler.ts:978`): the next one would take
  the place of the oldest under its id;
* of the streams, the content of signalling and what arrives before a view
  exists, an acceptance without an offer (`stream/streams.ts:689`), what the server
  tells the others of a viewer that leaves (`stream/streams.ts:752`), a publisher
  that changes channel (its streams may then stay in `list()`,
  `stream/streams.ts:120`), a `stopstream` that is refused, a request relayed
  before the answer to `setupstream` (ignored, `stream/streams.ts:622`), the caps on
  remembered orphans, stops and denials, viewers that change channel (`clientLeave`
  then drops the request of a viewer that is still there, `stream/streams.ts:189`),
  and a `Streams` attached to a client that is connected already.

File transfers and address resolution are planned. Most of the repository's
lines, the tables of versions, permissions and error codes, the typed commands
of `core/api`, the probes and the examples, hold no state to model.

## 7. Plan

In the order of what the library's users depend on. Done: the transport, the
handshake, the commands and lifecycles of both clients, the channel tree, the
view, and the streams.

1. Proofs: `NothingRunsUnowned` of
   `Streams`, of the publisher and the server alone.
2. The `events()` iterator on the event queue of `ClientLifecycle`.
3. `Transfer` and the resolver's race, one small module each.
4. Compositions: `CommandTracker` on `OrderedCommands` instead of on its
   assumption; `Handshake` under `ClientLifecycle`'s view of an attempt;
   `QueryCommands` inside the setup of `QueryLifecycle`.
