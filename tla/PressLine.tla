----------------------------- MODULE PressLine -----------------------------
(***************************************************************************)
(* What the deck's bridge promises of a key's presses, whatever lines and  *)
(* threads they pass through: each waits once, they are begun in the order *)
(* they came, and one that is turned away leaves the others in their       *)
(* order.  BridgePool implements it.                                       *)
(***************************************************************************)
CONSTANT Presses

VARIABLES
    coming,     \* the presses that wait
    before,     \* their order: <<p, q>> if p came before q
    begun       \* the presses a worker reads or acts on

pressVars == <<coming, before, begun>>

PressesInit == coming = {} /\ before = {} /\ begun = {}

Come(p) ==
    /\ p \notin coming \cup begun
    /\ coming' = coming \cup {p}
    /\ before' = before \cup (coming \X {p})
    /\ UNCHANGED begun

Leaves(p) ==
    /\ p \in coming
    /\ coming' = coming \ {p}
    /\ before' = before \cap (coming' \X coming')

(* The one that none of the others came before.                            *)
Begin(p) ==
    /\ Leaves(p)
    /\ \A q \in coming : <<q, p>> \notin before
    /\ begun' = begun \cup {p}

TurnAway(p) == Leaves(p) /\ UNCHANGED begun

Done(p) ==
    /\ p \in begun
    /\ begun' = begun \ {p} /\ UNCHANGED <<coming, before>>

PressesNext == \E p \in Presses : Come(p) \/ Begin(p) \/ TurnAway(p) \/ Done(p)

PressesSpec == PressesInit /\ [][PressesNext]_pressVars

(* The order is one: of any two that wait, one came first.                 *)
OneLine ==
    /\ before \subseteq coming \X coming
    /\ \A p, q \in coming : p # q => (<<p, q>> \in before <=> <<q, p>> \notin before)
    /\ \A p \in coming : <<p, p>> \notin before
    /\ \A p, q, r \in coming : <<p, q>> \in before /\ <<q, r>> \in before => <<p, r>> \in before
=============================================================================
