------------------------- MODULE DeckPresses_proofs -------------------------
(***************************************************************************)
(* A press that arrives twice switches once, for every number of workers,  *)
(* presses and keys, and whatever fails in between.                        *)
(*                                                                         *)
(* SwitchOnce is not inductive: it says nothing of the presses that are    *)
(* still being handled, nor of what a failed one gives back.  DwellInv     *)
(* adds that the moments of the presses that acted or still may are a      *)
(* dwell apart, that the key's moment is the newest of them, and that each *)
(* press remembers a moment (before) no older than any that came before it *)
(* and still counts: when it fails, what it gives back covers them all.    *)
(*                                                                         *)
(* All Off and Del Scene act only on what the press before them asked      *)
(* about: AskInv ties what a key remembers to what was asked last.         *)
(***************************************************************************)
EXTENDS DeckPresses, TLAPS

PressType ==
    /\ now \in Nat
    /\ worker \in [Workers -> [pc : {"free", "take", "handle", "release"},
                               key : Keys \cup {Nobody}, at : Nat, before : Nat \cup {None}]]
    /\ acted \in [AskingKeys \cup Dwelling -> Nat \cup {None}]
    /\ switched \in [Dwelling -> SUBSET Nat]
    /\ \A w \in Workers : worker[w].pc \in {"take", "release"} => worker[w].key \in Dwelling

(* The press w has taken the key k, and has not acted or given it back.    *)
Holds(w, k) == worker[w].key = k /\ worker[w].pc \in {"handle", "release"}

Apart(m, n) == m + Dwell <= n \/ n + Dwell <= m

NoLater(m, moment) == moment # None /\ m <= moment

Newest(k) ==
    /\ \A w \in Workers : Holds(w, k) => NoLater(worker[w].at, acted[k])
    /\ \A m \in switched[k] : NoLater(m, acted[k])

DwellApart(k) ==
    /\ \A v, w \in Workers :
          v # w /\ Holds(v, k) /\ Holds(w, k) => Apart(worker[v].at, worker[w].at)
    /\ \A w \in Workers : \A m \in switched[k] : Holds(w, k) => Apart(worker[w].at, m)
    /\ \A m, n \in switched[k] : m # n => Apart(m, n)

Remembers(k) ==
    \A w \in Workers : Holds(w, k) =>
        /\ \A v \in Workers :
              Holds(v, k) /\ worker[v].at < worker[w].at => NoLater(worker[v].at, worker[w].before)
        /\ \A m \in switched[k] : m < worker[w].at => NoLater(m, worker[w].before)

DwellInv == \A k \in Dwelling : Newest(k) /\ DwellApart(k) /\ Remembers(k)

-----------------------------------------------------------------------------
(* The types hold in every state.                                          *)
LEMMA PressTypeInit == Init => PressType
  BY PressesAssumption DEF Init, PressType, Free

LEMMA PressTypeStep ==
  ASSUME PressType, [Next]_vars
  PROVE  PressType'
<1> USE PressesAssumption
<1>1. ASSUME NEW w \in Workers, NEW key \in Keys, NEW at \in 0..MaxNow, Begins(w, key, at)
      PROVE  PressType'
  <2> DEFINE begun == [pc |-> IF key \in Dwelling THEN "take" ELSE "handle",
                       key |-> key, at |-> at, before |-> None]
  <2>1. now' = now /\ acted' = acted /\ switched' = switched
    BY <1>1 DEF Begins, pressVars, ghostVars
  <2>2. worker' = [worker EXCEPT ![w] = begun]
    BY <1>1 DEF Begins
  <2>3. /\ begun \in [pc : {"free", "take", "handle", "release"}, key : Keys \cup {Nobody},
                      at : Nat, before : Nat \cup {None}]
        /\ begun.pc \in {"take", "release"} => begun.key \in Dwelling
    <3>1. CASE key \in Dwelling
      BY <3>1
    <3>2. CASE key \notin Dwelling
      BY <3>2
    <3> QED
      BY <3>1, <3>2
  <2> QED
    BY <2>1, <2>2, <2>3 DEF PressType
<1>2. ASSUME NEW w \in Workers, Takes(w)
      PROVE  PressType'
  BY <1>2 DEF PressType, Takes, Ends, Free, ghostVars, Dwelling
<1>3. ASSUME NEW w \in Workers, Succeeds(w)
      PROVE  PressType'
  BY <1>3 DEF PressType, Succeeds, Ends, Free, Dwelling
<1>4. ASSUME NEW w \in Workers, Fails(w)
      PROVE  PressType'
  BY <1>4 DEF PressType, Fails, Ends, Goes, Free, Dwelling
<1>5. ASSUME NEW w \in Workers, Releases(w)
      PROVE  PressType'
  BY <1>5 DEF PressType, Releases, Ends, Free, ghostVars, Dwelling
<1>6. ASSUME NEW w \in Workers, PressArms(w) \/ PressKept(w) \/ PressDisarms(w) \/ PressFails(w)
      PROVE  PressType'
  BY <1>6 DEF PressType, PressArms, PressKept, PressDisarms, PressFails, Ends, Free, pressVars,
              ghostVars
<1>7. ASSUME NEW w \in Workers, PressActs(w)
      PROVE  PressType'
  BY <1>7 DEF PressType, PressActs, Ends, Free, AskingKeys
<1>8. ASSUME NEW s \in Scenes, ScreenDeletes(s) \/ ScreenAdds(s)
      PROVE  PressType'
  BY <1>8 DEF PressType, ScreenDeletes, ScreenAdds, pressVars, ghostVars
<1>9. CASE ScreenPreviews \/ TimePasses
  BY <1>9 DEF PressType, ScreenPreviews, TimePasses, pressVars, ghostVars
<1>10. CASE UNCHANGED vars
  BY <1>10 DEF PressType, vars, pressVars, ghostVars
<1> QED
  BY <1>1, <1>2, <1>3, <1>4, <1>5, <1>6, <1>7, <1>8, <1>9, <1>10 DEF Next, Press

-----------------------------------------------------------------------------
(* A step that leaves the dwelling keys' moments, and takes no key, keeps  *)
(* the invariant: presses may only leave.                                  *)
LEMMA DwellFrame ==
  ASSUME DwellInv,
         \A k \in Dwelling : acted'[k] = acted[k] /\ switched'[k] = switched[k],
         \A w \in Workers, k \in Dwelling :
            Holds(w, k)' => /\ Holds(w, k)
                            /\ worker'[w].at = worker[w].at
                            /\ worker'[w].before = worker[w].before
  PROVE  DwellInv'
<1> SUFFICES ASSUME NEW k \in Dwelling
             PROVE  (Newest(k) /\ DwellApart(k) /\ Remembers(k))'
  BY DEF DwellInv
<1>1. Newest(k)'
  BY DEF DwellInv, Newest
<1>2. DwellApart(k)'
  BY DEF DwellInv, DwellApart
<1>3. Remembers(k)'
  BY DEF DwellInv, Remembers
<1> QED
  BY <1>1, <1>2, <1>3

(* A press takes the key: it is a dwell later than all that count.         *)
LEMMA DwellTakes ==
  ASSUME PressType, PressType', DwellInv, NEW w \in Workers, Takes(w)
  PROVE  DwellInv'
<1> USE PressesAssumption
<1> DEFINE key == worker[w].key
           at == worker[w].at
<1>1. CASE Within(acted[key], at, Dwell)
  <2>1. acted' = acted /\ switched' = switched
    BY <1>1 DEF Takes, ghostVars
  <2>2. worker' = [worker EXCEPT ![w] = Free]
    BY <1>1 DEF Takes, Ends
  <2> QED
    BY <2>1, <2>2, DwellFrame DEF Holds, Free, PressType
<1>2. CASE ~Within(acted[key], at, Dwell)
  <2>1. /\ key \in Dwelling /\ switched' = switched
        /\ acted' = [acted EXCEPT ![key] = at]
        /\ worker[w].pc = "take"
        /\ worker' = [worker EXCEPT ![w].pc = "handle", ![w].before = acted[key]]
    BY <1>2 DEF Takes, ghostVars, PressType
  <2>2. /\ worker'[w] = [worker[w] EXCEPT !.pc = "handle", !.before = acted[key]]
        /\ \A v \in Workers : v # w => worker'[v] = worker[v]
        /\ acted'[key] = at
        /\ \A k \in Dwelling : k # key => acted'[k] = acted[k]
    BY <2>1 DEF PressType
  <2>3. /\ worker'[w].key = key /\ worker'[w].at = at /\ worker'[w].before = acted[key]
        /\ worker'[w].pc = "handle"
    BY <2>2 DEF PressType
  <2>4. at \in Nat /\ (acted[key] # None => acted[key] \in Nat /\ acted[key] + Dwell <= at)
    BY <1>2, <2>1 DEF PressType, Within, Since
  <2>5. \A v \in Workers : v # w =>
            /\ worker'[v].at = worker[v].at /\ worker'[v].at \in Nat
            /\ worker'[v].before = worker[v].before
            /\ \A k \in Dwelling : Holds(v, k)' = Holds(v, k)
    BY <2>2 DEF PressType, Holds
  <2>6. \A k \in Dwelling : Holds(w, k)' <=> k = key
    BY <2>3 DEF Holds
  <2>7. \A v \in Workers : ~Holds(w, key) /\ (Holds(v, key) => NoLater(worker[v].at, acted[key]))
    BY <2>1 DEF DwellInv, Newest, Holds
  <2>8. \A m \in switched[key] : m \in Nat /\ NoLater(m, acted[key])
    BY <2>1 DEF DwellInv, Newest, PressType
  <2> SUFFICES ASSUME NEW k \in Dwelling
               PROVE  (Newest(k) /\ DwellApart(k) /\ Remembers(k))'
    BY DEF DwellInv
  <2>9. CASE k # key
    <3>1. Newest(k)'
      BY <2>1, <2>2, <2>5, <2>6, <2>9 DEF DwellInv, Newest
    <3>2. DwellApart(k)'
      BY <2>1, <2>5, <2>6, <2>9 DEF DwellInv, DwellApart
    <3>3. Remembers(k)'
      BY <2>1, <2>5, <2>6, <2>9 DEF DwellInv, Remembers
    <3> QED
      BY <3>1, <3>2, <3>3
  <2>10. CASE k = key
    <3>0. \A v \in Workers : v # w /\ Holds(v, key) => NoLater(worker[v].at, at)
      BY <2>4, <2>5, <2>7 DEF NoLater
    <3>00. NoLater(at, at) /\ \A m \in switched[key] : NoLater(m, at)
      BY <2>4, <2>8 DEF NoLater
    <3>1. Newest(k)'
      <4>1. ASSUME NEW v \in Workers, Holds(v, k)'
            PROVE  NoLater(worker'[v].at, acted'[k])
        <5>1. CASE v = w
          BY <2>2, <2>3, <2>10, <3>00, <5>1
        <5>2. CASE v # w
          BY <2>2, <2>5, <2>10, <3>0, <4>1, <5>2
        <5> QED
          BY <5>1, <5>2
      <4>2. \A m \in switched'[k] : NoLater(m, acted'[k])
        BY <2>1, <2>2, <2>10, <3>00
      <4> QED
        BY <4>1, <4>2 DEF Newest
    <3>2. \A v \in Workers : v # w /\ Holds(v, key) => Apart(worker[v].at, at) /\ Apart(at, worker[v].at)
      BY <2>4, <2>5, <2>7 DEF NoLater, Apart
    <3>3. \A m \in switched[key] : Apart(at, m)
      BY <2>4, <2>8 DEF NoLater, Apart
    <3>4. DwellApart(k)'
      <4>1. ASSUME NEW u \in Workers, NEW v \in Workers, u # v, Holds(u, k)', Holds(v, k)'
            PROVE  Apart(worker'[u].at, worker'[v].at)
        <5>1. CASE u # w /\ v # w
          BY <2>1, <2>5, <2>10, <4>1, <5>1 DEF DwellInv, DwellApart
        <5>2. CASE u = w
          BY <2>3, <2>5, <2>10, <3>2, <4>1, <5>2
        <5>3. CASE v = w
          BY <2>3, <2>5, <2>10, <3>2, <4>1, <5>3
        <5> QED
          BY <5>1, <5>2, <5>3
      <4>2. ASSUME NEW u \in Workers, NEW m \in switched'[k], Holds(u, k)'
            PROVE  Apart(worker'[u].at, m)
        <5>1. CASE u # w
          BY <2>1, <2>5, <4>2, <5>1 DEF DwellInv, DwellApart
        <5>2. CASE u = w
          BY <2>1, <2>3, <2>10, <3>3, <4>2, <5>2
        <5> QED
          BY <5>1, <5>2
      <4>3. \A m, n \in switched'[k] : m # n => Apart(m, n)
        BY <2>1 DEF DwellInv, DwellApart
      <4> QED
        BY <4>1, <4>2, <4>3 DEF DwellApart
    <3>5. \A v \in Workers : v # w /\ Holds(v, key) => ~(at < worker[v].at)
      BY <2>4, <2>5, <2>7 DEF NoLater
    <3>6. ASSUME NEW u \in Workers, Holds(u, k)'
          PROVE  /\ \A v \in Workers :
                      Holds(v, k)' /\ worker'[v].at < worker'[u].at
                        => NoLater(worker'[v].at, worker'[u].before)
                 /\ \A m \in switched'[k] :
                      m < worker'[u].at => NoLater(m, worker'[u].before)
      <4>1. CASE u = w
        <5>1. ASSUME NEW v \in Workers, Holds(v, k)', worker'[v].at < at
              PROVE  NoLater(worker'[v].at, acted[key])
          <6>1. v # w
            BY <2>3, <2>4, <5>1
          <6> QED
            BY <2>5, <2>7, <2>10, <5>1, <6>1
        <5> QED
          BY <2>1, <2>3, <2>8, <2>10, <4>1, <5>1
      <4>2. CASE u # w
        BY <2>1, <2>3, <2>5, <2>10, <3>5, <3>6, <4>2 DEF DwellInv, Remembers
      <4> QED
        BY <4>1, <4>2
    <3>7. Remembers(k)'
      BY <3>6 DEF Remembers
    <3> QED
      BY <3>1, <3>4, <3>7
  <2> QED
    BY <2>9, <2>10
<1> QED
  BY <1>1, <1>2

(* A press acts: its moment goes from those that may to those that did.    *)
LEMMA DwellSucceeds ==
  ASSUME PressType, PressType', DwellInv, NEW w \in Workers, Succeeds(w)
  PROVE  DwellInv'
<1> DEFINE key == worker[w].key
           at == worker[w].at
<1>1. /\ worker[w].pc = "handle" /\ acted' = acted
      /\ worker' = [worker EXCEPT ![w] = Free]
      /\ switched' = IF key \in Dwelling
                     THEN [switched EXCEPT ![key] = @ \cup {at}] ELSE switched
  BY DEF Succeeds, Ends
<1>2. \A v \in Workers, k \in Dwelling :
          Holds(v, k)' => /\ v # w /\ Holds(v, k)
                          /\ worker'[v].at = worker[v].at
                          /\ worker'[v].before = worker[v].before
  BY <1>1 DEF Holds, Free, PressType
<1>3. CASE key \notin Dwelling
  BY <1>1, <1>2, <1>3, DwellFrame
<1>4. CASE key \in Dwelling
  <2>1. Holds(w, key)
    BY <1>1 DEF Holds
  <2>2. /\ switched'[key] = switched[key] \cup {at}
        /\ \A k \in Dwelling : k # key => switched'[k] = switched[k]
    BY <1>1, <1>4 DEF PressType
  <2> SUFFICES ASSUME NEW k \in Dwelling
               PROVE  (Newest(k) /\ DwellApart(k) /\ Remembers(k))'
    BY DEF DwellInv
  <2>3. CASE k # key
    <3>1. Newest(k)'
      BY <1>1, <1>2, <2>2, <2>3 DEF DwellInv, Newest
    <3>2. DwellApart(k)'
      BY <1>2, <2>2, <2>3 DEF DwellInv, DwellApart
    <3>3. Remembers(k)'
      BY <1>2, <2>2, <2>3 DEF DwellInv, Remembers
    <3> QED
      BY <3>1, <3>2, <3>3
  <2>4. CASE k = key
    <3>1. Newest(k)'
      BY <1>1, <1>2, <2>1, <2>2, <2>4 DEF DwellInv, Newest
    <3>2. \A m \in switched[key] : Apart(at, m) /\ Apart(m, at)
      BY <1>4, <2>1 DEF DwellInv, DwellApart, Apart
    <3>3. \A v \in Workers : v # w /\ Holds(v, key) => Apart(worker[v].at, at)
      BY <1>4, <2>1 DEF DwellInv, DwellApart
    <3>4. DwellApart(k)'
      BY <1>2, <2>2, <2>4, <3>2, <3>3 DEF DwellInv, DwellApart
    <3>5. Remembers(k)'
      BY <1>2, <2>1, <2>2, <2>4 DEF DwellInv, Remembers
    <3> QED
      BY <3>1, <3>4, <3>5
  <2> QED
    BY <2>3, <2>4
<1> QED
  BY <1>3, <1>4

(* A press that failed gives the key back: what it remembers is no older   *)
(* than any moment that still counts.                                      *)
LEMMA DwellReleases ==
  ASSUME PressType, PressType', DwellInv, NEW w \in Workers, Releases(w)
  PROVE  DwellInv'
<1> USE PressesAssumption
<1> DEFINE key == worker[w].key
           at == worker[w].at
<1>1. /\ worker[w].pc = "release" /\ key \in Dwelling /\ switched' = switched
      /\ worker' = [worker EXCEPT ![w] = Free]
      /\ acted' = [acted EXCEPT ![key] = IF @ = at THEN worker[w].before ELSE @]
  BY DEF Releases, Ends, ghostVars, PressType
<1>2. \A v \in Workers, k \in Dwelling :
          Holds(v, k)' => /\ v # w /\ Holds(v, k)
                          /\ worker'[v].at = worker[v].at
                          /\ worker'[v].before = worker[v].before
  BY <1>1 DEF Holds, Free, PressType
<1>3. Holds(w, key)
  BY <1>1 DEF Holds
<1>4. CASE acted[key] # at
  <2>1. \A k \in Dwelling : acted'[k] = acted[k] /\ switched'[k] = switched[k]
    BY <1>1, <1>4 DEF PressType
  <2> QED
    BY <1>2, <2>1, DwellFrame
<1>5. CASE acted[key] = at
  <2>1. /\ acted'[key] = worker[w].before
        /\ \A k \in Dwelling : k # key => acted'[k] = acted[k]
    BY <1>1, <1>5 DEF PressType
  <2>2. at \in Nat /\ \A v \in Workers : worker[v].at \in Nat
    BY DEF PressType
  <2>3. \A v \in Workers : v # w /\ Holds(v, key) => worker[v].at < at
    <3>1. \A v \in Workers : v # w /\ Holds(v, key) => worker[v].at <= at /\ Apart(worker[v].at, at)
      BY <1>1, <1>3, <1>5 DEF DwellInv, Newest, DwellApart, NoLater
    <3> QED
      BY <2>2, <3>1 DEF Apart
  <2>4. \A m \in switched[key] : m \in Nat /\ m < at
    <3>1. \A m \in switched[key] : m \in Nat /\ m <= at /\ Apart(at, m)
      BY <1>1, <1>3, <1>5 DEF DwellInv, Newest, DwellApart, NoLater, PressType
    <3> QED
      BY <2>2, <3>1 DEF Apart
  <2> SUFFICES ASSUME NEW k \in Dwelling
               PROVE  (Newest(k) /\ DwellApart(k) /\ Remembers(k))'
    BY DEF DwellInv
  <2>5. Newest(k)'
    <3>1. CASE k # key
      BY <1>1, <1>2, <2>1, <3>1 DEF DwellInv, Newest
    <3>2. CASE k = key
      <4>1. \A v \in Workers : v # w /\ Holds(v, key) => NoLater(worker[v].at, worker[w].before)
        BY <1>1, <1>3, <2>3 DEF DwellInv, Remembers
      <4>2. \A m \in switched[key] : NoLater(m, worker[w].before)
        BY <1>1, <1>3, <2>4 DEF DwellInv, Remembers
      <4> QED
        BY <1>1, <1>2, <2>1, <3>2, <4>1, <4>2 DEF Newest
    <3> QED
      BY <3>1, <3>2
  <2>6. DwellApart(k)'
    BY <1>1, <1>2 DEF DwellInv, DwellApart
  <2>7. Remembers(k)'
    BY <1>1, <1>2 DEF DwellInv, Remembers
  <2> QED
    BY <2>5, <2>6, <2>7
<1> QED
  BY <1>4, <1>5

-----------------------------------------------------------------------------
LEMMA DwellInit == Init => DwellInv
  BY DEF Init, DwellInv, Newest, DwellApart, Remembers, Holds, Free

LEMMA DwellStep ==
  ASSUME PressType, PressType', DwellInv, [Next]_vars
  PROVE  DwellInv'
<1>1. ASSUME NEW w \in Workers, NEW key \in Keys, NEW at \in 0..MaxNow, Begins(w, key, at)
      PROVE  DwellInv'
  <2>1. acted' = acted /\ switched' = switched
    BY <1>1 DEF Begins, pressVars, ghostVars
  <2>2. \A v \in Workers, k \in Dwelling : v # w => Holds(v, k)' = Holds(v, k) /\ worker'[v] = worker[v]
    BY <1>1 DEF Begins, PressType, Holds
  <2>3. \A k \in Dwelling : ~Holds(w, k)'
    BY <1>1 DEF Begins, PressType, Holds, Free
  <2> QED
    BY <2>1, <2>2, <2>3, DwellFrame
<1>2. ASSUME NEW w \in Workers, Takes(w)
      PROVE  DwellInv'
  BY <1>2, DwellTakes
<1>3. ASSUME NEW w \in Workers, Succeeds(w)
      PROVE  DwellInv'
  BY <1>3, DwellSucceeds
<1>4. ASSUME NEW w \in Workers, Fails(w)
      PROVE  DwellInv'
  BY <1>4, DwellFrame DEF Fails, Goes, Ends, Free, PressType, Holds
<1>5. ASSUME NEW w \in Workers, Releases(w)
      PROVE  DwellInv'
  BY <1>5, DwellReleases
<1>6. ASSUME NEW w \in Workers,
             PressArms(w) \/ PressKept(w) \/ PressDisarms(w) \/ PressActs(w) \/ PressFails(w)
      PROVE  DwellInv'
  <2>1. worker' = [worker EXCEPT ![w] = Free] /\ switched' = switched
    BY <1>6 DEF PressArms, PressKept, PressDisarms, PressActs, PressFails, Ends, ghostVars
  <2>2. \A k \in Dwelling : acted'[k] = acted[k]
    BY <1>6 DEF PressArms, PressKept, PressDisarms, PressActs, PressFails, pressVars, AskingKeys,
                Dwelling, PressType
  <2> QED
    BY <2>1, <2>2, DwellFrame DEF Holds, Free, PressType
<1>7. ASSUME NEW s \in Scenes, ScreenDeletes(s) \/ ScreenAdds(s)
      PROVE  DwellInv'
  BY <1>7, DwellFrame DEF ScreenDeletes, ScreenAdds, pressVars, ghostVars, Holds
<1>8. CASE ScreenPreviews \/ TimePasses \/ UNCHANGED vars
  BY <1>8, DwellFrame DEF ScreenPreviews, TimePasses, vars, pressVars, ghostVars, Holds
<1> QED
  BY <1>1, <1>2, <1>3, <1>4, <1>5, <1>6, <1>7, <1>8 DEF Next, Press

(* A dwelling key (Toggle, DIM, a mute, PLAY) never acts on two presses    *)
(* that came less than a dwell apart: whichever worker handles which press *)
(* first, and however the ones between them fail.                          *)
THEOREM PressesSwitchOnce == Spec => []SwitchOnce
<1>1. Init => PressType /\ DwellInv
  BY PressTypeInit, DwellInit
<1>2. PressType /\ DwellInv /\ [Next]_vars => (PressType /\ DwellInv)'
  BY PressTypeStep, DwellStep
<1>3. PressType /\ DwellInv => SwitchOnce
  <2> SUFFICES ASSUME PressType, DwellInv, NEW k \in Dwelling,
                      NEW m \in switched[k], NEW n \in switched[k], m < n
               PROVE  n - m >= Dwell
    BY DEF SwitchOnce
  <2>1. m \in Nat /\ n \in Nat /\ Apart(m, n)
    BY DEF PressType, DwellInv, DwellApart
  <2> QED
    BY <2>1, PressesAssumption DEF Apart
<1> QED
  BY <1>1, <1>2, <1>3, PTL DEF Spec

-----------------------------------------------------------------------------
(* The arm is what was asked last: nothing ends or sets the one alone.  It *)
(* is an arm of the asking keys, and a moment is a natural number.         *)
AskInv ==
    /\ arm = asked
    /\ arm # None => arm.at \in Nat /\ arm.key \in AskingKeys

LEMMA AskInit == Init => AskInv
  BY DEF Init, AskInv

LEMMA AskStep ==
  ASSUME PressType, AskInv, [Next]_vars
  PROVE  AskInv'
<1>1. CASE arm' = arm /\ asked' = asked
  BY <1>1 DEF AskInv
<1>2. CASE arm' = None /\ asked' = None
  BY <1>2 DEF AskInv
<1>3. ASSUME NEW w \in Workers, PressArms(w)
      PROVE  AskInv'
  BY <1>3 DEF PressArms, AskInv, PressType
<1>4. ASSUME NEW w \in Workers, Succeeds(w) \/ Fails(w)
      PROVE  AskInv'
  BY <1>1, <1>2, <1>4 DEF Succeeds, Fails, EndsArm
<1>5. ASSUME NEW w \in Workers, PressActs(w) \/ PressDisarms(w) \/ PressFails(w)
      PROVE  AskInv'
  BY <1>2, <1>5 DEF PressActs, PressDisarms, PressFails
<1>6. ASSUME NEW w \in Workers,
             \/ \E key \in Keys, at \in 0..MaxNow : Begins(w, key, at)
             \/ Takes(w) \/ Releases(w) \/ PressKept(w)
      PROVE  AskInv'
  BY <1>1, <1>6 DEF Begins, Takes, Releases, PressKept, pressVars, ghostVars
<1>7. ASSUME NEW s \in Scenes, ScreenDeletes(s) \/ ScreenAdds(s)
      PROVE  AskInv'
  BY <1>1, <1>7 DEF ScreenDeletes, ScreenAdds, pressVars, ghostVars
<1>8. CASE ScreenPreviews \/ TimePasses \/ UNCHANGED vars
  BY <1>1, <1>8 DEF ScreenPreviews, TimePasses, vars, pressVars, ghostVars
<1> QED
  BY <1>3, <1>4, <1>5, <1>6, <1>7, <1>8 DEF Next, Press

(* A press that acts answers what was asked about the same thing, a dwell  *)
(* to a window earlier.                                                    *)
LEMMA ActsOnWhatWasAsked ==
  ASSUME AskInv, NEW key, NEW at \in Nat, Acts(key, at)
  PROVE  AskedAbout(key, at)
<1> USE PressesAssumption
<1>1. /\ arm = asked /\ arm # None /\ arm.key = key /\ arm.target = Target(key)
      /\ arm.at \in Nat /\ Since(arm.at, at) <= Window /\ ~Within(arm.at, at, Dwell)
  BY DEF AskInv, Acts, ArmRuns
<1>2. at > arm.at /\ at - arm.at >= Dwell /\ at - arm.at <= Window
  BY <1>1 DEF Within, Since
<1>3. at \in (arm.at + Dwell)..(arm.at + Window)
  BY <1>1, <1>2
<1> QED
  BY <1>1, <1>3 DEF AskedAbout

(* What one worker does with its press, whichever the step is.             *)
AnswersWhatWasAsked(w) ==
    /\ scenes' # scenes =>
          /\ AskedAbout("deleteScene", worker[w].at)
          /\ scenes' = scenes \ {SelectedScene}
    /\ \A key \in AskingKeys : acted'[key] # acted[key] => AskedAbout(key, worker[w].at)

LEMMA EachStepAnswers ==
  ASSUME PressType, AskInv, NEW w \in Workers, Press(w)
  PROVE  AnswersWhatWasAsked(w) /\ \A v \in Workers : v # w => worker'[v] = worker[v]
<1> DEFINE key == worker[w].key
           at == worker[w].at
<1>1. at \in Nat
  BY DEF PressType
<1>2. CASE \E k \in Keys, m \in 0..MaxNow : Begins(w, k, m)
  BY <1>2 DEF Begins, AnswersWhatWasAsked, pressVars, rigVars, PressType
<1>3. CASE Takes(w) \/ Releases(w)
  <2>1. key \in Dwelling /\ scenes' = scenes
    BY <1>3 DEF Takes, Releases, rigVars, PressType
  <2>2. \A k \in AskingKeys : acted'[k] = acted[k]
    BY <1>3, <2>1 DEF Takes, Releases, PressType, Dwelling, AskingKeys
  <2>3. \A v \in Workers : v # w => worker'[v] = worker[v]
    BY <1>3 DEF Takes, Releases, Ends, PressType
  <2> QED
    BY <2>1, <2>2, <2>3 DEF AnswersWhatWasAsked
<1>4. CASE Succeeds(w) \/ Fails(w) \/ PressArms(w) \/ PressKept(w) \/ PressDisarms(w)
  <2>1. scenes' = scenes /\ acted' = acted
    BY <1>4 DEF Succeeds, Fails, PressArms, PressKept, PressDisarms, rigVars, pressVars
  <2>2. \A v \in Workers : v # w => worker'[v] = worker[v]
    BY <1>4 DEF Succeeds, Fails, PressArms, PressKept, PressDisarms, Ends, Goes, PressType
  <2> QED
    BY <2>1, <2>2 DEF AnswersWhatWasAsked
<1>5. CASE PressActs(w)
  <2>1. /\ Acts(key, at) /\ key \in AskingKeys
        /\ acted' = [acted EXCEPT ![key] = at]
        /\ scenes' # scenes => key = "deleteScene" /\ scenes' = scenes \ {SelectedScene}
    BY <1>5 DEF PressActs
  <2>2. AskedAbout(key, at)
    BY <1>1, <2>1, ActsOnWhatWasAsked
  <2>3. \A k \in AskingKeys : acted'[k] # acted[k] => k = key
    BY <2>1 DEF PressType
  <2>4. \A v \in Workers : v # w => worker'[v] = worker[v]
    BY <1>5 DEF PressActs, Ends, PressType
  <2> QED
    BY <2>1, <2>2, <2>3, <2>4 DEF AnswersWhatWasAsked
<1>6. CASE PressFails(w)
  <2>1. acted' = acted
    BY <1>6 DEF PressFails
  <2>2. scenes' # scenes =>
            key = "deleteScene" /\ Acts(key, at) /\ scenes' = scenes \ {SelectedScene}
    BY <1>6 DEF PressFails
  <2>3. scenes' # scenes => AskedAbout("deleteScene", at)
    BY <1>1, <2>2, ActsOnWhatWasAsked
  <2>4. \A v \in Workers : v # w => worker'[v] = worker[v]
    BY <1>6 DEF PressFails, Ends, PressType
  <2> QED
    BY <2>1, <2>2, <2>3, <2>4 DEF AnswersWhatWasAsked
<1> QED
  BY <1>2, <1>3, <1>4, <1>5, <1>6 DEF Press

(* All Off and Del Scene act only on what the press before them asked      *)
(* about, a dwell to a window earlier and not answered since: another key, *)
(* another act or the screen's delete in between is never overlooked       *)
(* (asked_light_action, ask).                                              *)
THEOREM AskingKeysActAsAsked == Spec => ActsAsAsked
<1>1. Init => PressType /\ AskInv
  BY PressTypeInit, AskInit
<1>2. PressType /\ AskInv /\ [Next]_vars => (PressType /\ AskInv)'
  BY PressTypeStep, AskStep
<1>3. ASSUME PressType, AskInv, [Next]_vars
      PROVE  \A w \in Workers : worker'[w] # worker[w] => AnswersWhatWasAsked(w)
  <2> SUFFICES ASSUME NEW w \in Workers, worker'[w] # worker[w]
               PROVE  AnswersWhatWasAsked(w)
    OBVIOUS
  <2>1. \A s \in Scenes : ~ScreenDeletes(s) /\ ~ScreenAdds(s)
    BY DEF ScreenDeletes, ScreenAdds
  <2>2. ~ScreenPreviews /\ ~TimePasses /\ ~UNCHANGED vars
    BY DEF ScreenPreviews, TimePasses, vars
  <2>3. PICK v \in Workers : Press(v)
    BY <1>3, <2>1, <2>2 DEF Next
  <2>4. v = w /\ AnswersWhatWasAsked(v)
    BY <1>3, <2>3, EachStepAnswers
  <2> QED
    BY <2>4
<1>4. PressType /\ AskInv /\ [Next]_vars =>
        [\A w \in Workers : worker'[w] # worker[w] =>
          /\ scenes' # scenes =>
                /\ AskedAbout("deleteScene", worker[w].at)
                /\ scenes' = scenes \ {SelectedScene}
          /\ \A key \in AskingKeys :
                acted'[key] # acted[key] => AskedAbout(key, worker[w].at)]_vars
  BY <1>3 DEF AnswersWhatWasAsked
<1> QED
  BY <1>1, <1>2, <1>4, PTL DEF Spec, ActsAsAsked

=============================================================================
