----------------------------- MODULE MCMergeArena -----------------------------
(* Small instances of MergeArena.                                            *)
EXTENDS MergeArena

CONSTANTS c1, c2, c3

TwoWinners   == <<c1, c2>>
ThreeWinners == <<c1, c2, c3>>
=============================================================================
