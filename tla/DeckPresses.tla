---------------------------- MODULE DeckPresses ----------------------------
(***************************************************************************)
(* What a press of a Stream Deck key does once a worker of the bridge has  *)
(* read it (control_surface.rs, control_surface_presses.rs): the keys that *)
(* ask first (All Off, Del Scene), the keys that switch at one press and   *)
(* drop a second within the dwell.  The deck's last event, kept after it,  *)
(* is left out.                                                            *)
(*                                                                         *)
(* The workers begin presses in the order they came (BridgePool), and then *)
(* run at the same time: a press carries the moment it came, and may be    *)
(* handled after a later one.  A LIGHTS key is handled under the lighting  *)
(* lock, as the screen's requests are; a dwelling press is taken before    *)
(* it, and given back after it when it failed.                             *)
(***************************************************************************)
EXTENDS Naturals, FiniteSets, FiniteSetsExt

CONSTANTS
    Workers, Nobody,
    None,           \* Rust's None
    Keys,           \* the keys pressed, of LightKeys and "playPause"
    Scenes,         \* the scenes' ids: natural numbers, in the list's order
    Dwell,          \* PRESS_DWELL, in ticks
    Window,         \* ASK_WINDOW, in ticks
    MaxNow,         \* bound: the clock
    MaxPresses,     \* bound: presses
    MaxChanges      \* bound: what the screen changes

AskingKeys == {"allOff", "deleteScene"}
LightKeys == AskingKeys \cup {"toggleLight", "selectNextScene"}
Dwelling == {"toggleLight", "playPause"}    \* dwelling_press

ASSUME PressesAssumption ==
    /\ Keys \subseteq LightKeys \cup Dwelling
    /\ Scenes \subseteq Nat /\ Scenes # {} /\ IsFiniteSet(Scenes)
    /\ Dwell \in Nat \ {0} /\ Window \in Nat /\ Dwell <= Window
    /\ MaxNow \in Nat /\ MaxPresses \in Nat /\ MaxChanges \in Nat
    /\ None \notin Nat

VARIABLES
    now, came,      \* the clock, and when the newest press came
    worker,         \* the press each worker handles, and how far it is
    arm, acted,     \* Presses
    scenes, selected, previewing,   \* the rig, as the asking keys see it
    switched,       \* the moments of the dwelling presses that acted
    asked,          \* what the last press that armed a key asked, till another key
    presses, changes        \* the bounded counts

pressVars == <<arm, acted>>
rigVars == <<scenes, selected, previewing>>
ghostVars == <<switched, asked>>
countVars == <<came, presses, changes>>
vars == <<now, worker, pressVars, rigVars, ghostVars, countVars>>

Free == [pc |-> "free", key |-> Nobody, at |-> 0, before |-> None]

-----------------------------------------------------------------------------
(* The two asking keys (control_surface_presses.rs).                       *)

Since(moment, at) == IF at > moment THEN at - moment ELSE 0
Within(moment, at, span) == moment # None /\ Since(moment, at) < span

(* resolve_selected_inventory_id: the first scene when none is selected.   *)
SelectedScene ==
    IF selected \in scenes THEN selected
    ELSE IF scenes = {} THEN None ELSE Min(scenes)

Target(key) == IF key = "allOff" THEN <<"previewing", previewing>>
                                 ELSE <<"scene", SelectedScene>>

ArmRuns(key, at) ==
    arm # None /\ arm.key = key /\ Since(arm.at, at) <= Window

(* ask.                                                                    *)
Keeps(key, at) ==
    \/ Within(acted[key], at, Dwell)
    \/ ArmRuns(key, at) /\ arm.target = Target(key) /\ Within(arm.at, at, Dwell)

Disarms(key, at) ==
    ~Within(acted[key], at, Dwell) /\ ArmRuns(key, at) /\ arm.target # Target(key)

Acts(key, at) ==
    /\ ~Within(acted[key], at, Dwell)
    /\ ArmRuns(key, at) /\ arm.target = Target(key) /\ ~Within(arm.at, at, Dwell)

Arms(key, at) ==
    ~Within(acted[key], at, Dwell) /\ ~ArmRuns(key, at)

-----------------------------------------------------------------------------
(* A press.                                                                *)

Goes(w, pc) == worker' = [worker EXCEPT ![w].pc = pc]
Ends(w) == worker' = [worker EXCEPT ![w] = Free]

(* A worker begins the next press: they are begun in the order they came.  *)
Begins(w, key, at) ==
    /\ worker[w].pc = "free" /\ presses < MaxPresses
    /\ at \in came..now
    /\ came' = at /\ presses' = presses + 1
    /\ worker' = [worker EXCEPT ![w] =
            [pc |-> IF key \in Dwelling THEN "take" ELSE "handle",
             key |-> key, at |-> at, before |-> None]]
    /\ UNCHANGED <<now, pressVars, rigVars, ghostVars, changes>>

(* take_dwelling_press: the moment is written first.                       *)
Takes(w) ==
    LET press == worker[w]
        same == Within(acted[press.key], press.at, Dwell)
    IN  /\ press.pc = "take"
        /\ \/ same /\ Ends(w) /\ UNCHANGED acted
           \/ /\ ~same
              /\ acted' = [acted EXCEPT ![press.key] = press.at]
              /\ worker' = [worker EXCEPT ![w].pc = "handle",
                                          ![w].before = acted[press.key]]
        /\ UNCHANGED <<now, arm, rigVars, ghostVars, countVars>>

(* Mutant: another key of the page leaves the arm.                         *)
EndsNoArm(key) ==
    IF key \in LightKeys THEN asked' = None /\ UNCHANGED arm ELSE UNCHANGED <<arm, asked>>

(* A key that does not ask is handled: on the LIGHTS page it ends an arm   *)
(* first, whether it succeeds or fails.  Only its selection of a scene     *)
(* matters to the keys that ask.                                           *)
EndsArm(key) ==
    IF key \in LightKeys THEN arm' = None /\ asked' = None ELSE UNCHANGED <<arm, asked>>

NextScene ==
    LET later == {s \in scenes : s > SelectedScene}
    IN  IF scenes = {} THEN None ELSE IF later = {} THEN Min(scenes) ELSE Min(later)

Succeeds(w) ==
    LET press == worker[w]
    IN  /\ press.pc = "handle" /\ press.key \notin AskingKeys
        /\ EndsArm(press.key)
        /\ selected' = IF press.key = "selectNextScene" THEN NextScene ELSE selected
        /\ switched' = IF press.key \in Dwelling
                       THEN [switched EXCEPT ![press.key] = @ \cup {press.at}] ELSE switched
        /\ Ends(w)
        /\ UNCHANGED <<now, acted, scenes, previewing, countVars>>

Fails(w) ==
    /\ worker[w].pc = "handle" /\ worker[w].key \notin AskingKeys
    /\ EndsArm(worker[w].key)
    /\ IF worker[w].key \in Dwelling THEN Goes(w, "release") ELSE Ends(w)
    /\ UNCHANGED <<now, acted, rigVars, switched, countVars>>

(* Mutant: a later press that took the key is not looked for.              *)
ReleasesAny(w) ==
    LET press == worker[w]
    IN  /\ press.pc = "release"
        /\ acted' = [acted EXCEPT ![press.key] = press.before]
        /\ Ends(w)
        /\ UNCHANGED <<now, arm, rigVars, ghostVars, countVars>>

(* release_dwelling_press: what stood before stands again, unless a later  *)
(* press has taken the key since.                                          *)
Releases(w) ==
    LET press == worker[w]
    IN  /\ press.pc = "release"
        /\ acted' = [acted EXCEPT ![press.key] = IF @ = press.at THEN press.before ELSE @]
        /\ Ends(w)
        /\ UNCHANGED <<now, arm, rigVars, ghostVars, countVars>>

(* asked_light_action, under the lighting lock: the press arms the key ... *)
PressArms(w) ==
    LET press == worker[w]
        armed == [key |-> press.key, at |-> press.at, target |-> Target(press.key)]
    IN  /\ press.pc = "handle" /\ press.key \in AskingKeys
        /\ Target(press.key) # <<"scene", None>>
        /\ Arms(press.key, press.at)
        /\ arm' = armed /\ asked' = armed
        /\ Ends(w)
        /\ UNCHANGED <<now, acted, rigVars, switched, countVars>>

(* ... or is the same press again ...                                      *)
PressKept(w) ==
    LET press == worker[w]
    IN  /\ press.pc = "handle" /\ press.key \in AskingKeys
        /\ Target(press.key) # <<"scene", None>>
        /\ Keeps(press.key, press.at)
        /\ Ends(w)
        /\ UNCHANGED <<now, pressVars, rigVars, ghostVars, countVars>>

(* ... or is about something else, which ends the arm ...                  *)
PressDisarms(w) ==
    LET press == worker[w]
    IN  /\ press.pc = "handle" /\ press.key \in AskingKeys
        /\ Target(press.key) # <<"scene", None>>
        /\ Disarms(press.key, press.at)
        /\ arm' = None /\ asked' = None
        /\ Ends(w)
        /\ UNCHANGED <<now, acted, rigVars, switched, countVars>>

(* The scene the deck selects once the one at its place in the list is     *)
(* deleted: the one that follows, else the last.                           *)
SceneAfter(s) ==
    LET left == scenes \ {s}
        later == {t \in left : t > s}
    IN  IF left = {} THEN None ELSE IF later # {} THEN Min(later) ELSE Max(left)

(* ... or acts.                                                            *)
PressActs(w) ==
    LET press == worker[w]
    IN  /\ press.pc = "handle" /\ press.key \in AskingKeys
        /\ Target(press.key) # <<"scene", None>>
        /\ Acts(press.key, press.at)
        /\ acted' = [acted EXCEPT ![press.key] = press.at]
        /\ arm' = None /\ asked' = None
        /\ IF press.key = "deleteScene"
           THEN /\ scenes' = scenes \ {SelectedScene}
                /\ selected' = SceneAfter(SelectedScene)
           ELSE UNCHANGED <<scenes, selected>>
        /\ Ends(w)
        /\ UNCHANGED <<now, previewing, switched, countVars>>

(* It fails: what it asks about is not there or cannot be read, or the act *)
(* failed, before its write or between the scene's and the selection's.    *)
(* The arm ends.                                                           *)
PressFails(w) ==
    LET press == worker[w]
        halfDone == /\ press.key = "deleteScene"
                    /\ SelectedScene # None /\ Acts(press.key, press.at)
    IN  /\ press.pc = "handle" /\ press.key \in AskingKeys
        /\ arm' = None /\ asked' = None
        /\ \/ UNCHANGED scenes
           \/ halfDone /\ scenes' = scenes \ {SelectedScene}
        /\ Ends(w)
        /\ UNCHANGED <<now, acted, selected, previewing, switched, countVars>>

-----------------------------------------------------------------------------
(* The screen's requests, under the lighting lock, and time.               *)

ScreenPreviews ==
    /\ changes < MaxChanges /\ changes' = changes + 1
    /\ previewing' = ~previewing
    /\ UNCHANGED <<now, worker, pressVars, scenes, selected, ghostVars, came, presses>>

ScreenDeletes(s) ==
    /\ changes < MaxChanges /\ changes' = changes + 1
    /\ s \in scenes /\ scenes' = scenes \ {s}
    /\ UNCHANGED <<now, worker, pressVars, selected, previewing, ghostVars, came, presses>>

ScreenAdds(s) ==
    /\ changes < MaxChanges /\ changes' = changes + 1
    /\ s \notin scenes /\ scenes' = scenes \cup {s}
    /\ UNCHANGED <<now, worker, pressVars, selected, previewing, ghostVars, came, presses>>

TimePasses ==
    /\ now < MaxNow /\ now' = now + 1
    /\ UNCHANGED <<worker, pressVars, rigVars, ghostVars, countVars>>

Init ==
    /\ now = 0 /\ came = 0
    /\ worker = [w \in Workers |-> Free]
    /\ arm = None /\ acted = [k \in AskingKeys \cup Dwelling |-> None]
    /\ scenes = Scenes /\ selected = None /\ previewing = FALSE
    /\ switched = [k \in Dwelling |-> {}] /\ asked = None
    /\ presses = 0 /\ changes = 0

Press(w) ==
    \/ \E key \in Keys, at \in 0..MaxNow : Begins(w, key, at)
    \/ Takes(w) \/ Succeeds(w) \/ Fails(w) \/ Releases(w)
    \/ PressArms(w) \/ PressKept(w) \/ PressDisarms(w) \/ PressActs(w) \/ PressFails(w)

Next ==
    \/ \E w \in Workers : Press(w)
    \/ \E s \in Scenes : ScreenDeletes(s) \/ ScreenAdds(s)
    \/ ScreenPreviews \/ TimePasses

Spec == Init /\ [][Next]_vars

-----------------------------------------------------------------------------
(* Properties.                                                             *)

Moments == 0..MaxNow
Targets == ({"previewing"} \X BOOLEAN) \cup ({"scene"} \X (Scenes \cup {None}))
ArmType == [key : AskingKeys, at : Moments, target : Targets]

TypeOK ==
    /\ now \in Moments /\ came \in Moments
    /\ worker \in [Workers -> [pc : {"free", "take", "handle", "release"},
                               key : Keys \cup {Nobody}, at : Moments,
                               before : Moments \cup {None}]]
    /\ arm \in ArmType \cup {None} /\ asked \in ArmType \cup {None}
    /\ acted \in [AskingKeys \cup Dwelling -> Moments \cup {None}]
    /\ scenes \subseteq Scenes /\ selected \in Scenes \cup {None} /\ previewing \in BOOLEAN
    /\ switched \in [Dwelling -> SUBSET Moments]

(* A press that arrives twice switches once: two presses of a dwelling key *)
(* that acted are a dwell apart by the moments they came, whichever worker *)
(* handled which first, and whatever failed in between.                    *)
SwitchOnce ==
    \A k \in Dwelling : \A m, n \in switched[k] : m < n => n - m >= Dwell

(* All Off and Del Scene act only when the press before them on the LIGHTS *)
(* page asked about the very thing they act on, a dwell to a window        *)
(* earlier, and has not been answered yet: no other key of the page and no *)
(* other act came in between, and one question is answered once.           *)
AskedAbout(key, at) ==
    /\ asked # None /\ asked.key = key /\ asked.target = Target(key)
    /\ at \in (asked.at + Dwell)..(asked.at + Window)

ActsAsAsked ==
    [][\A w \in Workers : worker'[w] # worker[w] =>
          /\ scenes' # scenes =>
                /\ AskedAbout("deleteScene", worker[w].at)
                /\ scenes' = scenes \ {SelectedScene}
          /\ \A key \in AskingKeys :
                acted'[key] # acted[key] => AskedAbout(key, worker[w].at)]_vars

=============================================================================
