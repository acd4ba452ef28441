--------------------------- MODULE MCDeckPresses ---------------------------
(* DeckPresses on a small deck and rig.                                    *)
EXTENDS DeckPresses, TLC

CONSTANTS w1, w2, w3

WorkerSymmetry == Permutations(Workers)
=============================================================================
