--------------------------- MODULE MCEngineBridge ---------------------------
(* The bridge with the values TLC checks it with.                           *)
EXTENDS EngineBridge
=============================================================================
