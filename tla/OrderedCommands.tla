--------------------------- MODULE OrderedCommands ---------------------------
(***************************************************************************)
(* What the receive side of the transport promises the client above it:    *)
(* the commands of a queue come out in the order the server sent them,     *)
(* each whole and once.  A command the handler cannot pass on (over the    *)
(* reassembly limit, or not decompressible) is left out, and costs no      *)
(* other command.                                                          *)
(***************************************************************************)
EXTENDS Naturals, Sequences

CONSTANTS Queues,        \* the command queues
          Commands,      \* how many commands the server sends on each
          Undeliverable  \* of each, the commands that cannot be passed on

VARIABLES taken,   \* how many commands of each queue have been dealt with
          log      \* the commands handed over, in order

Init ==
    /\ taken = [q \in Queues |-> 0]
    /\ log = [q \in Queues |-> <<>>]

Take(q) ==
    /\ taken[q] < Commands[q]
    /\ taken' = [taken EXCEPT ![q] = @ + 1]
    /\ log' = IF taken[q] + 1 \in Undeliverable[q] THEN log
              ELSE [log EXCEPT ![q] = Append(@, taken[q] + 1)]

Next == \E q \in Queues : Take(q)

Spec == Init /\ [][Next]_<<taken, log>>
=============================================================================
