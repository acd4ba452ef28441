--------------------------- MODULE MCLightOutput ---------------------------
(* The light output with the values TLC checks it with.                    *)
EXTENDS LightOutput
CONSTANTS b, c, u

\* A rig of two universes that streams at the start, or is held, with a route.
MCInit ==
  /\ saved \in {[armed |-> a, bridge |-> b, level |-> "full", patched |-> Universes]
                 : a \in BOOLEAN}
  /\ wire = "good"
  /\ Init
MCSpec == MCInit /\ [][Next]_vars /\ Fairness

\* The archive has one light less, on another bridge.
MCArchives == {[armed |-> TRUE, bridge |-> c, level |-> "zero", patched |-> {u}]}
=============================================================================
