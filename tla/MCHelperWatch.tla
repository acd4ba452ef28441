---------------------------- MODULE MCHelperWatch ----------------------------
(* The supervisor with the values TLC checks it with.                       *)
EXTENDS HelperWatch
CONSTANT v

\* Which of the wants comes first is the same.
MCInit == saved = v /\ Init
MCSpec == MCInit /\ [][Next]_vars /\ Fairness
=============================================================================
