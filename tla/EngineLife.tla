----------------------------- MODULE EngineLife -----------------------------
(* What the desktop shell promises of the hardware link it starts: one at a *)
(* time, and each one's end told once, as a stop that was asked for exactly *)
(* when it was.                                                             *)
EXTENDS Naturals

CONSTANT MaxLaunches
ASSUME LaunchesAssumption == MaxLaunches \in Nat

VARIABLES
    life,    \* what each launch is doing
    asked,   \* whether somebody asked it to stop
    said     \* what was told of its end
vars == <<life, asked, said>>

Launches == 1..MaxLaunches

Init ==
    /\ life = [g \in Launches |-> "none"]
    /\ asked = [g \in Launches |-> FALSE]
    /\ said = [g \in Launches |-> "nothing"]

\* The next launch, when none before it runs.
Launch(g) ==
    /\ life[g] = "none"
    /\ \A h \in Launches : life[h] = (IF h < g THEN "gone" ELSE "none")
    /\ life' = [life EXCEPT ![g] = "up"]
    /\ UNCHANGED <<asked, said>>

Ask(g) ==
    /\ life[g] # "none" /\ said[g] = "nothing"
    /\ asked' = [asked EXCEPT ![g] = TRUE]
    /\ UNCHANGED <<life, said>>

End(g) ==
    /\ life[g] = "up"
    /\ life' = [life EXCEPT ![g] = "gone"]
    /\ UNCHANGED <<asked, said>>

Tell(g) ==
    /\ life[g] = "gone" /\ said[g] = "nothing"
    /\ said' = [said EXCEPT ![g] = IF asked[g] THEN "asked for" ELSE "by itself"]
    /\ UNCHANGED <<life, asked>>

Next == \E g \in Launches : Launch(g) \/ Ask(g) \/ End(g) \/ Tell(g)

Safety == Init /\ [][Next]_vars
\* An end is told in the end.
Spec == Safety /\ \A g \in Launches : WF_vars(Tell(g))
=============================================================================
