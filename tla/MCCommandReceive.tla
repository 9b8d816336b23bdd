-------------------------- MODULE MCCommandReceive --------------------------
(***************************************************************************)
(* Models of CommandReceive for TLC.                                       *)
(***************************************************************************)
EXTENDS CommandReceive

Single(c)       == <<[cmd |-> c, frag |-> FALSE, size |-> 1, bad |-> FALSE]>>
Garbled(c)      == <<[cmd |-> c, frag |-> FALSE, size |-> 1, bad |-> TRUE]>>
Fragment(c, f)  == [cmd |-> c, frag |-> f, size |-> 1, bad |-> FALSE]
InTwo(c)        == <<Fragment(c, TRUE), Fragment(c, TRUE)>>
InThree(c)      == <<Fragment(c, TRUE), Fragment(c, FALSE), Fragment(c, TRUE)>>

\* Both queues, sharing a byte limit that is smaller than a window.  The first goes
\* past the wrap of six ids with commands of every shape; the one in three packets
\* is over the reassembly limit.
BothQueues == {"command", "low"}
WrapStream == [q \in BothQueues |->
    IF q = "command" THEN Single(1) \o InTwo(2) \o Garbled(3) \o InThree(4) \o Single(5) ELSE InTwo(1)]

\* For liveness: one queue.
OneQueue == {"command"}
ShortStream == [q \in OneQueue |-> Single(1) \o InThree(2)]

=============================================================================
