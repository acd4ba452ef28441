------------------------- MODULE HelperWatch_proofs -------------------------
(***************************************************************************)
(* The supervisor holds at most one helper, tells the pages what that one  *)
(* says and waits between two as long as it doubled, for any number of     *)
(* starts, changes and words and any lengths of its waits.                 *)
(*                                                                         *)
(* None of these is inductive.  Held adds that a helper that is up is the  *)
(* one the supervisor knows, that it knows none wherever it may start one, *)
(* and that a supervisor that is over holds none.  That it never starts    *)
(* one before the doubled wait is over needs Patient: the wait it keeps is *)
(* never less than what the helpers that ended soon, one after another,    *)
(* call for.                                                               *)
(***************************************************************************)
EXTENDS HelperWatch, TLAPS

Held ==
    /\ \A g \in Helpers : proc[g] \in {"up", "hung"} => running = g
    /\ proc = [g \in Helpers |-> proc[g]]
    /\ phase \in {"waiting", "missing"} => running = None
    /\ pass \in {"begin", "first start", "over"} => running = None
    /\ stop = "ended" => pass = "over"

HelperInv == Held /\ StatusOfTheHelper

-----------------------------------------------------------------------------
LEMMA NoneIsNoHelper == None \notin Helpers
  BY WatchAssumption DEF Helpers

LEMMA HelperInvInit == Init => HelperInv
  BY DEF Init, HelperInv, Held, StatusOfTheHelper, Status

(* An end leaves no helper up, and a wait.                                  *)
LEMMA EndHolds ==
  ASSUME Held, End
  PROVE  /\ \A g \in Helpers : proc'[g] \notin {"up", "hung"}
         /\ proc' = [g \in Helpers |-> proc'[g]]
         /\ running' = None /\ status' = Status("restarting", None, None)
  <1>1. proc' = [proc EXCEPT ![running] = IF @ = "closed" THEN @ ELSE "gone"]
    BY DEF End
  <1>2. running' = None /\ status' = Status("restarting", None, None)
    BY DEF End, WaitsAgain
  <1>3. ASSUME NEW g \in Helpers
        PROVE  proc'[g] \notin {"up", "hung"}
    <2>1. CASE g = running
      BY <1>1, <2>1 DEF Held
    <2>2. CASE g # running
      <3>1. proc'[g] = proc[g]
        BY <1>1, <2>2 DEF Held
      <3> QED  BY <2>2, <3>1 DEF Held
    <2> QED  BY <2>1, <2>2
  <1> QED  BY <1>1, <1>2, <1>3 DEF Held

(* A start, from where none is held, holds the one it started or none.      *)
LEMMA StartHolds ==
  ASSUME Held, running = None, NEW w, Start(w)
  PROVE  /\ \A g \in Helpers : proc'[g] \in {"up", "hung"} => running' = g
         /\ proc' = [g \in Helpers |-> proc'[g]]
         /\ phase' \in {"waiting", "missing"} => running' = None
         /\ \/ status' = Status("missing", None, None) /\ running' = None
            \/ status' = Status("restarting", None, None) /\ running' = None
            \/ status' = Status("starting", running', None)
  <1>1. \A g \in Helpers : proc[g] \notin {"up", "hung"}
    BY NoneIsNoHelper DEF Held
  <1>2. CASE /\ phase' = "missing" /\ status' = Status("missing", None, None)
             /\ UNCHANGED <<proc, running>>
    BY <1>1, <1>2 DEF Held
  <1>3. CASE WaitsAgain /\ UNCHANGED <<proc, running>>
    BY <1>1, <1>3 DEF Held, WaitsAgain
  <1>4. CASE \E g : /\ g = launched + 1 /\ running' = g /\ proc' = [proc EXCEPT ![g] = "up"]
                    /\ phase' = "running" /\ status' = Status("starting", g, None)
    BY <1>1, <1>4 DEF Held
  <1> QED  BY <1>2, <1>3, <1>4 DEF Start, helper

LEMMA HelperInvStep ==
  ASSUME HelperInv, [Next]_vars
  PROVE  HelperInv'
  <1> USE DEF HelperInv, StatusOfTheHelper
  <1>0. Held
    OBVIOUS
  <1>1. CASE UNCHANGED <<proc, running, phase, pass, status, stop>>
    BY <1>1 DEF Held
  <1>2. ASSUME NEW g \in Helpers, Fails(g) \/ Closes(g)
        PROVE  HelperInv'
    <2>1. PICK how \in {"hung", "gone", "closed"} : proc' = [proc EXCEPT ![g] = how]
      BY <1>2 DEF Fails, Closes
    <2>2. UNCHANGED <<running, phase, pass, status, stop>>
      BY <1>2 DEF Fails, Closes, supervision, stopping
    <2>3. \A h \in Helpers : proc'[h] \in {"up", "hung"} => proc[h] \in {"up", "hung"}
      <3>1. how = "hung" => proc[g] = "up"
        BY <1>2, <2>1 DEF Fails, Closes, Held
      <3> QED  BY <2>1, <3>1 DEF Held
    <2> QED  BY <2>1, <2>2, <2>3 DEF Held
  <1>3. CASE ReadsSaved
    BY <1>3 DEF ReadsSaved, Held, helper, supervision, stopping
  <1>4. CASE StartsFirst
    <2>1. running = None /\ Start(wanted) /\ pass' = "receive" /\ stop' = stop /\ pass # "over"
      BY <1>4 DEF StartsFirst, Held, stopping
    <2> QED  BY <1>0, <2>1, StartHolds DEF Held, Status
  <1>5. ASSUME End, pass' \in {"exit", "tail", "receive"}, stop' = stop, pass # "over"
        PROVE  HelperInv'
    <2>1. /\ \A g \in Helpers : proc'[g] \notin {"up", "hung"}
          /\ proc' = [g \in Helpers |-> proc'[g]]
          /\ running' = None /\ status' = Status("restarting", None, None)
      BY <1>0, <1>5, EndHolds
    <2>2. stop' # "ended"
      BY <1>5 DEF Held
    <2>3. Held'
      BY <1>5, <2>1, <2>2 DEF Held
    <2>4. StatusOfTheHelper'
      BY <2>1 DEF Status
    <2> QED  BY <2>3, <2>4
  <1>6. CASE Receives
    <2>1. pass' = "exit" /\ pass = "receive" /\ stop' = stop
      BY <1>6 DEF Receives, stopping
    <2>2. CASE UNCHANGED <<proc, running, phase, status>>
      BY <2>1, <2>2 DEF Held
    <2>3. ASSUME NEW m, HearsLine(m)
          PROVE  HelperInv'
      <3>1. UNCHANGED <<proc, running, phase>> /\ status' = Status("running", running, m.what)
        BY <2>3 DEF HearsLine, IsCurrent, helper
      <3> QED  BY <2>1, <3>1 DEF Held, Status
    <2>4. ASSUME NEW m, HearsClosed(m)
          PROVE  HelperInv'
      BY <1>5, <2>1, <2>4 DEF HearsClosed
    <2>5. ASSUME NEW m, HearsOld(m) \/ HearsWant(m) \/ HearsShowing(m)
          PROVE  UNCHANGED <<proc, running, phase, status>>
      BY <2>5 DEF HearsOld, HearsWant, HearsShowing, helper, supervision
    <2> QED  BY <1>6, <2>2, <2>3, <2>4, <2>5 DEF Receives, helper, supervision
  <1>7. CASE SeesExit
    <2>1. pass' = "tail" /\ pass = "exit" /\ stop' = stop
      BY <1>7 DEF SeesExit, stopping
    <2>2. CASE UNCHANGED <<proc, running, phase, status>>
      BY <2>1, <2>2 DEF Held
    <2> QED  BY <1>5, <1>7, <2>1, <2>2 DEF SeesExit, helper, supervision
  <1>8. CASE SeesTail
    BY <1>8 DEF SeesTail, Held, supervision, stopping
  <1>9. CASE SeesTime
    <2>1. pass' = "receive" /\ pass = "tick" /\ stop' = stop
      BY <1>9 DEF SeesTime, stopping
    <2>2. CASE UNCHANGED <<proc, running, phase, status>>
      BY <2>1, <2>2 DEF Held
    <2>3. CASE phase = "waiting" /\ Start(wanted)
      <3>1. running = None
        BY <2>3 DEF Held
      <3> QED  BY <1>0, <2>1, <2>3, <3>1, StartHolds DEF Held, Status
    <2> QED  BY <1>5, <1>9, <2>1, <2>2, <2>3 DEF SeesTime, helper, supervision
  <1>10. CASE HearsStop
    <2>1. pass = "receive" /\ phase' = "none" /\ UNCHANGED <<proc, running, status, stop>>
      BY <1>10 DEF HearsStop, helper, stopping
    <2>2. pass' = IF running = None THEN "over" ELSE "stopping"
      BY <1>10 DEF HearsStop
    <2> QED  BY <2>1, <2>2 DEF Held
  <1>11. CASE StopsHelper
    <2>1. PICK g \in Helpers :
            g = running /\ proc' = [proc EXCEPT ![g] = IF @ = "closed" THEN @ ELSE "gone"]
      BY <1>11 DEF StopsHelper
    <2>2. running' = None /\ pass' = "over" /\ UNCHANGED <<phase, status, stop>>
      BY <1>11 DEF StopsHelper, supervision, stopping
    <2>3. \A h \in Helpers : proc'[h] \notin {"up", "hung"}
      BY <2>1 DEF Held
    <2> QED  BY <2>1, <2>2, <2>3 DEF Held
  <1>12. CASE AsksStop
    BY <1>12 DEF AsksStop, Held, helper, supervision
  <1>13. CASE Finishes
    <2>1. stop' = "ended" => pass = "over"
      BY <1>13 DEF Finishes, HasEnded
    <2>2. /\ UNCHANGED <<proc, running, phase, pass>>
          /\ status' = Status("unknown", None, None)
      BY <1>13 DEF Finishes, helper, supervision
    <2> QED  BY <2>1, <2>2 DEF Held, Status
  <1> QED
    BY <1>1, <1>2, <1>3, <1>4, <1>6, <1>7, <1>8, <1>9, <1>10, <1>11, <1>12, <1>13
    DEF Next, vars, Changes, Shows, Reads, Speaks, Supervises, Time, helper, supervision, stopping

(* One helper at a time is up, and none once the stop heard that its         *)
(* supervisor ended (Supervisor::end, PicturesHelper::finish).               *)
THEOREM OneHelperAtATime == Spec => []OneHelper
  <1>1. Init => HelperInv
    BY HelperInvInit
  <1>2. HelperInv /\ [Next]_vars => HelperInv'
    BY HelperInvStep
  <1>3. HelperInv => OneHelper
    <2>1. Held => OneHelper
      BY NoneIsNoHelper DEF Held, OneHelper
    <2> QED  BY <2>1 DEF HelperInv
  <1> QED  BY <1>1, <1>2, <1>3, PTL DEF Spec

(* What the pages are told is about the helper of the moment, whatever lines *)
(* the ones before it left (Supervision, is_current).                        *)
THEOREM StatusIsOfTheHelper == Spec => []StatusOfTheHelper
  <1>1. Init => HelperInv
    BY HelperInvInit
  <1>2. HelperInv /\ [Next]_vars => HelperInv'
    BY HelperInvStep
  <1>3. HelperInv => StatusOfTheHelper
    BY DEF HelperInv
  <1> QED  BY <1>1, <1>2, <1>3, PTL DEF Spec

-----------------------------------------------------------------------------
(* The doubling                                                            *)

LEMMA LessOf ==
  ASSUME NEW a \in Nat, NEW b \in Nat
  PROVE  Min({a, b}) = IF a <= b THEN a ELSE b
  BY DEF Min

LEMMA DelayIsPositive == LongestDelay \in Nat /\ Silence \in Nat /\ LongestDelay >= 1 /\ None \notin Nat
  <1>1. {LongestDelay, Silence} \subseteq {Silence, LongestDelay, ShowingTail, MaxStarts, MaxWords}
    OBVIOUS
  <1>2. LongestDelay \in Nat \ {0} /\ Silence \in Nat \ {0}
    BY <1>1, WatchAssumption
  <1>3. None \notin Nat
    BY WatchAssumption
  <1> QED  BY <1>2, <1>3

(* A longer run of ends waits at least as long, and beyond LongestDelay    *)
(* ends the wait is the longest there is.                                  *)
LEMMA DoubledGrows ==
  ASSUME NEW m \in Nat, NEW n \in Nat, m <= n \/ n >= LongestDelay
  PROVE  Doubled(m) \in 1..LongestDelay /\ Doubled(m) <= Doubled(n)
  <1> DEFINE a == IF m <= 16 THEN m ELSE 16
             b == IF n <= 16 THEN n ELSE 16
  <1>1. LongestDelay \in Nat /\ Silence \in Nat /\ LongestDelay >= 1
    BY DelayIsPositive
  <1>2. a \in 0..16 /\ b \in 0..16 /\ (a <= b \/ b >= LongestDelay)
    BY <1>1
  <1>3. Min({m, 16}) = a /\ Min({n, 16}) = b
    BY LessOf
  <1>4. /\ 2 ^ a \in Nat /\ a < 2 ^ a /\ 2 ^ b \in Nat /\ b < 2 ^ b
        /\ a <= b => 2 ^ a <= 2 ^ b
    <2> HIDE DEF a, b
    <2>1. a <= a /\ b <= b
      BY <1>2
    <2> QED  BY <1>2, <2>1, PowersAssumption, Zenon
  <1> HIDE DEF a, b
  <1>5. /\ Doubled(m) = IF 2 ^ a <= LongestDelay THEN 2 ^ a ELSE LongestDelay
        /\ Doubled(n) = IF 2 ^ b <= LongestDelay THEN 2 ^ b ELSE LongestDelay
    BY <1>1, <1>3, <1>4, LessOf DEF Doubled
  <1> QED  BY <1>1, <1>2, <1>4, <1>5

LEMMA UpToIsLess ==
  ASSUME NEW top \in Nat, NEW n \in Nat
  PROVE  UpTo(top, n) = IF n + 1 <= top THEN n + 1 ELSE top
  BY LessOf DEF UpTo

LEMMA OneLess == ASSUME NEW n \in Nat, n >= 1 PROVE n - 1 \in Nat
  OBVIOUS

CountsType ==
    /\ since \in 0..LongestDelay + Silence /\ restarts \in 0..LongestDelay
    /\ fails \in 0..LongestDelay + 1 /\ until \in 0..LongestDelay
    /\ gap \in 0..LongestDelay \cup {None}

(* The supervisor's count keeps up with the helpers that were up too       *)
(* short: only one that stays up puts it back.                             *)
CountKeepsUp == since >= LongestDelay \/ fails <= restarts \/ restarts >= LongestDelay

(* The supervisor has not tried its first start yet.                       *)
Opening == pass \in {"begin", "first start"}

Patient ==
    /\ CountsType /\ CountKeepsUp
    /\ phase # "running" => since = 0
    /\ Opening => gap = None /\ phase = "none"
    /\ phase = "waiting" => gap # None /\ fails >= 1 /\ gap + until >= Doubled(fails - 1)

LEMMA PatientInit == Init => Patient
  BY DelayIsPositive DEF Init, Patient, Opening, CountsType, CountKeepsUp

(* An end, or a start that failed, waits the doubled time of the ends      *)
(* before it, one more than this one not counted.                          *)
LEMMA WaitIsDoubled ==
  ASSUME Patient, WaitsAgain, ~Opening'
  PROVE  Patient'
  <1>1. LongestDelay \in Nat /\ Silence \in Nat /\ LongestDelay >= 1 /\ None \notin Nat
    BY DelayIsPositive
  <1>2. /\ since \in Nat /\ restarts \in Nat /\ fails \in Nat
        /\ restarts <= LongestDelay /\ fails <= LongestDelay + 1
    <2>1. CountsType
      BY DEF Patient
    <2> QED  BY <1>1, <2>1 DEF CountsType
  <1>3. /\ phase' = "waiting" /\ until' = Doubled(restarts) /\ since' = 0 /\ gap' = 0
        /\ restarts' = IF restarts + 1 <= LongestDelay THEN restarts + 1 ELSE LongestDelay
    BY <1>1, <1>2, UpToIsLess DEF WaitsAgain
  <1>4. fails' = IF since >= LongestDelay THEN 1
                 ELSE IF fails + 1 <= LongestDelay + 1 THEN fails + 1 ELSE LongestDelay + 1
    BY <1>1, <1>2, UpToIsLess DEF WaitsAgain
  <1>5. /\ fails' \in Nat /\ fails' >= 1 /\ fails' <= LongestDelay + 1
        /\ fails' - 1 <= restarts \/ restarts >= LongestDelay
        /\ fails' <= restarts' \/ restarts' >= LongestDelay
    BY <1>1, <1>2, <1>3, <1>4 DEF Patient, CountKeepsUp
  <1>6. Doubled(restarts) \in 1..LongestDelay /\ Doubled(fails' - 1) <= Doubled(restarts)
    <2>1. fails' - 1 \in Nat
      BY <1>5, OneLess
    <2>2. Doubled(fails' - 1) <= Doubled(restarts)
      BY <1>2, <1>5, <2>1, DoubledGrows
    <2>3. Doubled(restarts) \in 1..LongestDelay
      BY <1>2, DoubledGrows
    <2> QED  BY <2>2, <2>3
  <1>7. CountsType'
    BY <1>1, <1>2, <1>3, <1>5, <1>6 DEF CountsType
  <1>8. 0 + until' >= Doubled(fails' - 1)
    <2>1. fails' - 1 \in Nat
      BY <1>5, OneLess
    <2>2. Doubled(fails' - 1) \in 1..LongestDelay
      BY <2>1, DoubledGrows
    <2> QED  BY <1>1, <1>3, <1>6, <2>2
  <1> QED  BY <1>1, <1>3, <1>5, <1>7, <1>8 DEF Patient, CountKeepsUp

(* A start, of a first helper or after a wait that is over.                *)
LEMMA StartIsPatient ==
  ASSUME Patient, NEW w, Start(w), ~Opening',
         Opening \/ (phase = "waiting" /\ until = 0)
  PROVE  /\ Patient'
         /\ launched' # launched => gap = None \/ gap >= Doubled(fails - 1)
  <1>1. LongestDelay \in Nat /\ Silence \in Nat /\ LongestDelay >= 1 /\ None \notin Nat
    BY DelayIsPositive
  <1>2. CASE WaitsAgain /\ UNCHANGED <<helper, running, launched>>
    BY <1>2, WaitIsDoubled
  <1>3. CASE phase' = "missing" /\ until' = 0 /\ UNCHANGED <<launched, since, restarts, gap, fails>>
    BY <1>1, <1>3 DEF Patient, CountsType, CountKeepsUp
  <1>4. CASE /\ phase' = "running" /\ since' = 0 /\ until' = 0 /\ gap' = None
             /\ UNCHANGED <<restarts, fails>>
    <2>1. since = 0
      BY DEF Patient
    <2>2. Patient'
      BY <1>1, <1>4, <2>1 DEF Patient, CountsType, CountKeepsUp
    <2>3. gap = None \/ gap >= Doubled(fails - 1)
      BY <1>1 DEF Patient, CountsType
    <2> QED  BY <2>2, <2>3
  <1> QED  BY <1>2, <1>3, <1>4 DEF Start, marks

LEMMA PatientStep ==
  ASSUME Patient, [Next]_vars
  PROVE  /\ Patient'
         /\ launched' # launched => gap = None \/ gap >= Doubled(fails - 1)
  <1> DEFINE Goal == /\ Patient'
                     /\ launched' # launched => gap = None \/ gap >= Doubled(fails - 1)
  <1>0. LongestDelay \in Nat /\ Silence \in Nat /\ LongestDelay >= 1 /\ None \notin Nat
    BY DelayIsPositive
  <1>1. CASE /\ UNCHANGED <<since, until, restarts, phase, gap, fails, launched>>
             /\ Opening' => Opening
    BY <1>1 DEF Patient, CountsType, CountKeepsUp
  <1>2. ASSUME \/ Changes \/ Shows \/ ReadsSaved \/ SeesTail \/ StopsHelper \/ AsksStop \/ Finishes
               \/ \E g \in Helpers : Reads(g) \/ Speaks(g) \/ Fails(g) \/ Closes(g)
               \/ UNCHANGED vars
        PROVE  Goal
    BY <1>1, <1>2 DEF Changes, Shows, ReadsSaved, SeesTail, StopsHelper, AsksStop, Finishes,
       Opening, Reads, Speaks, Fails, Closes, vars, supervision, times, marks
  <1>3. CASE StartsFirst
    <2>1. Opening /\ ~Opening' /\ Start(wanted)
      BY <1>3 DEF StartsFirst, Opening
    <2> QED  BY <2>1, StartIsPatient
  <1>4. ASSUME End, launched' = launched, ~Opening'
        PROVE  Goal
    BY <1>4, WaitIsDoubled DEF End
  <1>5. ASSUME Receives
        PROVE  Goal
    <2>1. ~Opening /\ ~Opening' /\ launched' = launched
      BY <1>5 DEF Receives, Opening
    <2>2. ASSUME NEW m, HearsLine(m)
          PROVE  Goal
      <3>1. /\ restarts' = IF since >= LongestDelay THEN 0 ELSE restarts
            /\ UNCHANGED <<since, until, phase, gap, fails>>
        BY <2>2 DEF HearsLine, Cleared, marks
      <3> QED  BY <1>0, <2>1, <3>1 DEF Patient, CountsType, CountKeepsUp
    <2>3. ASSUME NEW m, HearsClosed(m)
          PROVE  Goal
      BY <1>4, <2>1, <2>3 DEF HearsClosed
    <2>4. ASSUME NEW m, HearsOld(m) \/ HearsWant(m) \/ HearsShowing(m)
          PROVE  Goal
      BY <1>1, <2>1, <2>4 DEF HearsOld, HearsWant, HearsShowing, supervision, times, marks
    <2>5. ASSUME UNCHANGED <<supervision, marks>>
          PROVE  Goal
      BY <1>1, <2>1, <2>5 DEF supervision, times, marks
    <2> QED  BY <1>5, <2>2, <2>3, <2>4, <2>5 DEF Receives
  <1>6. CASE SeesExit
    <2>1. ~Opening /\ ~Opening' /\ launched' = launched
      BY <1>6 DEF SeesExit, Opening
    <2>2. End \/ UNCHANGED <<supervision, marks>>
      BY <1>6 DEF SeesExit
    <2> QED  BY <1>1, <1>4, <2>1, <2>2 DEF supervision, times, marks
  <1>7. CASE SeesTime
    <2>1. ~Opening /\ ~Opening'
      BY <1>7 DEF SeesTime, Opening
    <2>2. \/ End /\ launched' = launched
          \/ phase = "waiting" /\ until = 0 /\ Start(wanted)
          \/ launched' = launched /\ UNCHANGED <<supervision, marks>>
      BY <1>7 DEF SeesTime
    <2> QED  BY <1>1, <1>4, <2>1, <2>2, StartIsPatient DEF supervision, times, marks
  <1>8. CASE HearsStop
    <2>1. /\ ~Opening' /\ launched' = launched
          /\ phase' = "none" /\ since' = 0 /\ restarts' = 0 /\ gap' = None /\ fails' = 0
          /\ until' \in {0, 1}
      BY <1>8 DEF HearsStop, StopGrace, Opening
    <2> QED  BY <1>0, <2>1 DEF Patient, CountsType, CountKeepsUp
  <1>9. CASE Time
    <2>1. /\ UNCHANGED <<launched, phase, restarts, fails>> /\ Opening' = Opening
          /\ since' = IF phase = "running" THEN UpTo(LongestDelay + Silence, since) ELSE since
          /\ until' = IF until = 0 \/ until = None THEN until ELSE until - 1
          /\ gap' = IF gap = None THEN None ELSE UpTo(LongestDelay, gap)
      BY <1>9 DEF Time, Less, Opening
    <2>2. since' \in Nat /\ since <= since' /\ since' <= LongestDelay + Silence
          /\ (phase # "running" => since' = since)
      BY <1>0, <2>1, UpToIsLess DEF Patient, CountsType
    <2>3. until' \in 0..LongestDelay /\ until' >= until - 1
      BY <1>0, <2>1 DEF Patient, CountsType
    <2>4. ASSUME gap # None
          PROVE  /\ gap' \in 0..LongestDelay /\ gap' # None
                 /\ gap' >= gap + 1 \/ gap' = LongestDelay
      BY <1>0, <2>1, <2>4, UpToIsLess DEF Patient, CountsType
    <2>5. CountsType' /\ CountKeepsUp'
      BY <1>0, <2>1, <2>2, <2>3, <2>4 DEF Patient, CountsType, CountKeepsUp
    <2>6. ASSUME phase = "waiting"
          PROVE  gap' # None /\ fails' >= 1 /\ gap' + until' >= Doubled(fails' - 1)
      <3>1. /\ gap # None /\ fails >= 1 /\ gap + until >= Doubled(fails - 1)
            /\ gap \in Nat /\ until \in Nat /\ fails \in Nat
        BY <1>0, <2>6 DEF Patient, CountsType
      <3>2. Doubled(fails - 1) \in 1..LongestDelay
        <4>1. fails - 1 \in Nat
          BY <3>1
        <4> QED  BY <4>1, DoubledGrows
      <3> QED  BY <1>0, <2>1, <2>3, <2>4, <3>1, <3>2
    <2> QED  BY <2>1, <2>2, <2>5, <2>6 DEF Patient
  <1> QED
    BY <1>2, <1>3, <1>5, <1>6, <1>7, <1>8, <1>9 DEF Next, Supervises

(* However soon the last helpers ended and whatever they said first, the   *)
(* wait before the next start is the doubled one (Supervision::take,       *)
(* delay): only a helper that stayed up as long as the longest wait starts *)
(* the doubling anew.                                                      *)
THEOREM RestartsBackOff == Spec => BacksOff
  <1>1. Init => Patient
    BY PatientInit
  <1>2. Patient /\ [Next]_vars => Patient'
    BY PatientStep
  <1>3. Patient /\ [Next]_vars =>
            [launched' # launched => gap = None \/ gap >= Doubled(fails - 1)]_vars
    BY PatientStep
  <1> QED  BY <1>1, <1>2, <1>3, PTL DEF Spec, BacksOff

(* A helper heard once it had stayed up has put the count back, and every  *)
(* helper begins unheard and young.                                        *)
Afresh ==
    /\ since \in Nat /\ heard \in Nat
    /\ heard <= Silence /\ since - heard >= LongestDelay => restarts = 0

LEMMA AfreshStep ==
  ASSUME Afresh, [Next]_vars
  PROVE  /\ Afresh'
         /\ phase = "running" /\ heard <= Silence /\ since - heard >= LongestDelay
               /\ phase' = "waiting" => until' = Doubled(0)
  <1> DEFINE Goal == /\ Afresh'
                     /\ phase = "running" /\ heard <= Silence /\ since - heard >= LongestDelay
                           /\ phase' = "waiting" => until' = Doubled(0)
  <1>0. LongestDelay \in Nat /\ Silence \in Nat /\ LongestDelay >= 1
    BY DelayIsPositive
  <1>1. CASE UNCHANGED <<phase, since, heard, restarts>>
    BY <1>1 DEF Afresh
  <1>2. ASSUME WaitsAgain
        PROVE  Goal
    <2>1. since' = 0 /\ heard' = 0 /\ until' = Doubled(restarts)
      BY <1>2 DEF WaitsAgain
    <2> QED  BY <1>0, <2>1 DEF Afresh
  <1>3. ASSUME NEW w, Start(w), phase # "running"
        PROVE  Goal
    <2>1. Afresh' \/ WaitsAgain
      <3>1. \/ WaitsAgain
            \/ UNCHANGED <<since, heard, restarts>>
            \/ since' = 0 /\ heard' = 0
        BY <1>3 DEF Start
      <3> QED  BY <1>0, <3>1 DEF Afresh
    <2> QED  BY <1>2, <1>3, <2>1
  <1>4. ASSUME End
        PROVE  Goal
    BY <1>2, <1>4 DEF End
  <1>5. CASE \/ Changes \/ Shows \/ ReadsSaved \/ SeesTail \/ StopsHelper \/ AsksStop \/ Finishes
             \/ \E g \in Helpers : Reads(g) \/ Speaks(g) \/ Fails(g) \/ Closes(g)
             \/ UNCHANGED vars
    BY <1>1, <1>5 DEF Changes, Shows, ReadsSaved, SeesTail, StopsHelper, AsksStop, Finishes,
       Reads, Speaks, Fails, Closes, vars, supervision, times
  <1>6. CASE StartsFirst
    <2>1. Start(wanted)
      BY <1>6 DEF StartsFirst
    <2>2. CASE phase # "running"
      BY <1>3, <2>1, <2>2
    <2>3. CASE phase = "running"
      <3>1. \/ WaitsAgain
            \/ UNCHANGED <<since, heard, restarts>> /\ phase' = "missing"
            \/ since' = 0 /\ heard' = 0 /\ phase' = "running"
        BY <2>1 DEF Start
      <3> QED  BY <1>0, <1>2, <3>1 DEF Afresh
    <2> QED  BY <2>2, <2>3
  <1>7. CASE Receives
    <2>1. ASSUME NEW m, HearsLine(m)
          PROVE  Goal
      <3>1. /\ restarts' = IF since >= LongestDelay THEN 0 ELSE restarts
            /\ heard' = 0 /\ UNCHANGED <<since, phase>>
        BY <2>1 DEF HearsLine, Cleared
      <3> QED  BY <1>0, <3>1 DEF Afresh
    <2>2. ASSUME NEW m, HearsClosed(m)
          PROVE  Goal
      BY <1>4, <2>2 DEF HearsClosed
    <2>3. ASSUME NEW m, HearsOld(m) \/ HearsWant(m) \/ HearsShowing(m)
          PROVE  Goal
      BY <1>1, <2>3 DEF HearsOld, HearsWant, HearsShowing, supervision, times
    <2>4. ASSUME UNCHANGED supervision
          PROVE  Goal
      BY <1>1, <2>4 DEF supervision, times
    <2> QED  BY <1>7, <2>1, <2>2, <2>3, <2>4 DEF Receives
  <1>8. CASE SeesExit
    <2>1. End \/ UNCHANGED supervision
      BY <1>8 DEF SeesExit
    <2> QED  BY <1>1, <1>4, <2>1 DEF supervision, times
  <1>9. CASE SeesTime
    <2>1. End \/ (phase # "running" /\ Start(wanted)) \/ UNCHANGED supervision
      BY <1>9 DEF SeesTime
    <2> QED  BY <1>1, <1>3, <1>4, <2>1 DEF supervision, times
  <1>10. CASE HearsStop
    <2>1. since' = 0 /\ heard' = 0 /\ phase' = "none"
      BY <1>10 DEF HearsStop
    <2> QED  BY <1>0, <2>1 DEF Afresh
  <1>11. CASE Time
    <2>1. /\ UNCHANGED <<phase, restarts>>
          /\ since' = IF phase = "running" THEN UpTo(LongestDelay + Silence, since) ELSE since
          /\ heard' = IF phase = "running" THEN UpTo(Silence + 1, heard) ELSE heard
      BY <1>11 DEF Time
    <2>2. CASE phase # "running"
      BY <2>1, <2>2 DEF Afresh
    <2>3. CASE phase = "running"
      <3>1. /\ since' = IF since + 1 <= LongestDelay + Silence THEN since + 1
                        ELSE LongestDelay + Silence
            /\ heard' = IF heard + 1 <= Silence + 1 THEN heard + 1 ELSE Silence + 1
        BY <1>0, <2>1, <2>3, UpToIsLess DEF Afresh
      <3> QED  BY <1>0, <2>1, <3>1 DEF Afresh
    <2> QED  BY <2>2, <2>3
  <1> QED
    BY <1>5, <1>6, <1>7, <1>8, <1>9, <1>10, <1>11 DEF Next, Supervises

(* A helper that was heard after it had stayed up, however long the run of *)
(* short-lived ones before it, is started again after the first delay only *)
(* (Supervision::take, delay).                                             *)
THEOREM LongRunsStartSoonAgain == Spec => StartsSoonAgain
  <1>1. Init => Afresh
    BY DelayIsPositive DEF Init, Afresh
  <1>2. Afresh /\ [Next]_vars => Afresh'
    BY AfreshStep
  <1>3. Afresh /\ [Next]_vars =>
            [phase = "running" /\ heard <= Silence /\ since - heard >= LongestDelay
                /\ phase' = "waiting" => until' = Doubled(0)]_vars
    BY AfreshStep
  <1> QED  BY <1>1, <1>2, <1>3, PTL DEF Spec, StartsSoonAgain

=============================================================================
