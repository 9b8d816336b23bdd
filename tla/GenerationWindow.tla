-------------------------- MODULE GenerationWindow --------------------------
(***************************************************************************)
(* The class GenerationWindow of client/transport/generation-window.ts.    *)
(*                                                                         *)
(* A packet carries only the low 16 bits of its number; the receiver has   *)
(* to find out which generation (how many wraps) the id belongs to, since  *)
(* the generation is an input of the packet's key.  A window is the record *)
(* [base, gen]: base is the next id expected, gen how often the base has   *)
(* wrapped.  The methods that mutate the object are operators from windows *)
(* to windows here, the ones that inspect it are operators on a window.    *)
(***************************************************************************)
EXTENDS Integers

CONSTANTS Mod,      \* the number of ids: 1 << 16 in the code
          Window,   \* the receive window: 1024 for commands, 1 << 15 otherwise
          MaxGen    \* the generation saturates here: 0xffffffff in the code

ASSUME WindowAssumption ==
    /\ Mod \in Nat \ {0}
    /\ Window \in Nat \ {0}
    /\ 2 * Window <= Mod
    /\ MaxGen \in Nat \ {0}

Ids == 0 .. (Mod - 1)

WindowType == [base : Ids, gen : 0 .. MaxGen]

NewWindow == [base |-> 0, gen |-> 0]

\* advance(amount)
Advance(w, amount) ==
    IF amount <= 0 THEN w
    ELSE LET sum  == w.base + amount
             gens == w.gen + (sum \div Mod)
         IN  [base |-> sum % Mod, gen |-> IF gens <= MaxGen THEN gens ELSE MaxGen]

\* advanceToExcluded(mappedValue): the send windows move past the id just used
AdvanceToExcluded(w, v) ==
    LET dist == v - w.base
    IN  Advance(w, (IF dist < 0 THEN dist + Mod ELSE dist) + 1)

\* #isNextGen(mappedValue)
IsNextGen(w, v) == w.base > Mod - Window /\ v < w.base + Window - Mod

\* #isBehindAcrossWrap(index)
IsBehindAcrossWrap(w, index) ==
    w.gen > 0 /\ index >= Window /\ index >= Mod - Window

\* mappedToIndex(mappedValue): the signed distance of an id from the base
MappedToIndex(w, v) ==
    LET index == v - w.base
    IN  IF IsNextGen(w, v) THEN v + Mod - w.base
        ELSE IF IsBehindAcrossWrap(w, index) THEN index - Mod
        ELSE index

\* Mutant: a stale packet moves the base, as if it were nearly a cycle ahead.
AdvanceAfter_Stale(w, v) == AdvanceToExcluded(w, v)

\* advanceAfter(mappedValue)
AdvanceAfter(w, v) ==
    LET index == MappedToIndex(w, v)
    IN  IF index < 0 THEN w ELSE Advance(w, index + 1)

\* isInWindow(mappedValue)
IsInWindow(w, v) ==
    LET maxOffset == w.base + Window
    IN  IF maxOffset < Mod THEN v >= w.base /\ v < maxOffset
                           ELSE v >= w.base \/ v < maxOffset - Mod

\* isOldPacket(mappedValue)
IsOldPacket(w, v) == MappedToIndex(w, v) < 0

\* Mutant: a late packet from before the last wrap is put in this generation.
GetGeneration_NoBehind(w, v) == IF IsNextGen(w, v) THEN w.gen + 1 ELSE w.gen

\* getGeneration(mappedValue)
GetGeneration(w, v) ==
    IF IsNextGen(w, v) THEN w.gen + 1
    ELSE IF IsBehindAcrossWrap(w, v - w.base) THEN w.gen - 1
    ELSE w.gen

(***************************************************************************)
(* What the windows are about: the packets of one kind are numbered        *)
(* 0, 1, 2, ... by the sender, which puts the low part of the number on    *)
(* the wire and the rest into the key.  A window stands for the number of  *)
(* the next packet.                                                        *)
(***************************************************************************)
Id(n)  == n % Mod
Gen(n) == n \div Mod
Position(w) == w.gen * Mod + w.base

\* Mutant: when the generation does not fit, the one before is tried too.
Decrypts_TriesBefore(w, n) == Gen(n) \in {GetGeneration(w, Id(n)), GetGeneration(w, Id(n)) - 1}

\* A packet decrypts only under the generation it was encrypted with.
Decrypts(w, n) == GetGeneration(w, Id(n)) = Gen(n)
=============================================================================
