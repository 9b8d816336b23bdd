---------------------------- MODULE MCHandshake ----------------------------
(***************************************************************************)
(* Handshake for TLC: two puzzles that can be solved, and are alike, and   *)
(* one over the limit.                                                     *)
(***************************************************************************)
EXTENDS Handshake, TLC

CONSTANTS c1, c2, hard

Alike == Permutations({c1, c2})
=============================================================================
