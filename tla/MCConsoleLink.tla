--------------------------- MODULE MCConsoleLink ---------------------------
(* ConsoleLink on a small desk that starts with one fader off.             *)
EXTENDS ConsoleLink

Budget(edits, turns, pulls, faults) ==
    [edits |-> edits, turns |-> turns, pulls |-> pulls, faults |-> faults]
MCBudgets == {Budget(2, 1, 0, 0), Budget(2, 0, 0, 1), Budget(1, 1, 1, 0), Budget(0, 1, 1, 1)}

MCExcused == Mishaps
MCExcusedLateEnd == Mishaps \ {"late end"}

MCInit == Init /\ desk = [k \in Keys |-> IF k = CHOOSE j \in Faders : TRUE THEN 0 ELSE Top]
MCSpec == MCInit /\ [][Next]_vars
=============================================================================
