---------------------------- MODULE MCBridgePool ----------------------------
(* BridgePool on small sets of connections and workers.                    *)
EXTENDS BridgePool, TLC

CONSTANTS c1, c2, c3, c4, c5, c6, w1, w2

ConnSymmetry == Permutations(Conns) \cup Permutations(Workers)

(* Served, of one connection: the names of connections are alike, and none *)
(* is preferred to another anywhere in BridgePool, so one stands for all.  *)
OneServed == IsServed(c1)
=============================================================================
