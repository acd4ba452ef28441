------------------------- MODULE EngineBridge_proofs -------------------------
(***************************************************************************)
(* The bridge keeps its promise for every number of launches, calls and    *)
(* stops: no call waits on a process whose end has failed the ids, a stop  *)
(* lets go of a process that is gone, and each end is told once.           *)
(*                                                                         *)
(* None of the three is inductive.  OneHeld says what the slot means: the  *)
(* newest launch or nothing, every older one gone and its exit taken once. *)
(* CallsHeld carries WaiterHeld back to the moment a call finds the        *)
(* writer, and StopsMet says which processes a stop may have met.          *)
(***************************************************************************)
EXTENDS EngineBridge, TLAPS

CallRecord == [at : {"idle", "registered", "found", "waiting"},
               of : Slot, reply : {"none", "answer", "exited", "dropped"}]

ProcessType ==
    /\ slot \in Slot /\ launched \in 0..MaxLaunches
    /\ child \in [Engines -> {"none", "up", "gone"}]
    /\ expected \in [Engines -> BOOLEAN] /\ open \in [Engines -> BOOLEAN]
PipeType ==
    /\ inbox \in [Engines -> SUBSET Requests]
    /\ stdout \in [Engines -> SUBSET Requests]
CallType ==
    /\ request \in [Requests -> CallRecord]
    /\ pending \in SUBSET {r \in Requests : request[r].at # "idle"}
EndType ==
    /\ report \in [Engines -> {"none", "taken", "drained", "said"}]
    /\ said \in [Engines -> {"nothing", "asked for", "by itself"}]
StopType == stop \in [Stops -> [at : {"idle", "polling", "reporting", "clearing"}, of : Slot]]

OneHeld ==
    /\ slot # Nobody => slot = launched /\ report[slot] = "none"
    /\ \A g \in Engines :
        /\ g > launched => child[g] = "none" /\ report[g] = "none" /\ ~open[g]
        /\ g <= launched => child[g] # "none"
        /\ g <= launched /\ slot # g => child[g] = "gone" /\ report[g] # "none"

ToldOnce ==
    \A g \in Engines :
        /\ said[g] # "nothing" <=> report[g] = "said"
        /\ expected[g] <=> child[g] # "none" /\ ~open[g]

StopsMet ==
    \A s \in Stops :
        /\ stop[s].at = "polling" => stop[s].of \in Engines /\ stop[s].of <= launched
        /\ stop[s].at \in {"reporting", "clearing"} /\ stop[s].of # Nobody =>
            child[stop[s].of] = "gone" /\ slot # stop[s].of

CallsHeld ==
    \A r \in Requests :
        request[r].at # "idle" /\ request[r].reply = "none" =>
            /\ r \in pending
            /\ request[r].at # "registered" =>
                /\ request[r].of \in Engines
                /\ slot = request[r].of \/ report[request[r].of] = "taken"

BridgeInv == TypeOK /\ OneHeld /\ ToldOnce /\ StopsMet /\ CallsHeld

-----------------------------------------------------------------------------
(* The types, part by part.                                                 *)
LEMMA TypeParts == TypeOK <=> ProcessType /\ PipeType /\ CallType /\ EndType /\ StopType
  BY DEF TypeOK, ProcessType, PipeType, CallType, EndType, StopType, CallRecord

(* What a reply does to the calls: each keeps its type and what it wrote to, *)
(* one that has a reply is left alone, and one told is at rest or has one.  *)
LEMMA RepliedType ==
  ASSUME CallType, NEW ids \in SUBSET Requests, NEW reply \in {"answer", "exited", "dropped"}
  PROVE  /\ Replied(ids, reply) \in [Requests -> CallRecord]
         /\ \A r \in Requests :
              /\ Replied(ids, reply)[r].reply = "none" =>
                    \/ Replied(ids, reply)[r].at = "idle"
                    \/ (Replied(ids, reply)[r] = request[r] /\ r \notin ids)
              /\ r \notin ids => Replied(ids, reply)[r] = request[r]
              /\ Replied(ids, reply)[r].at = "idle" => r \in ids \/ request[r].at = "idle"
  <1>1. ASSUME NEW r \in Requests
        PROVE  /\ Replied(ids, reply)[r] \in CallRecord
               /\ Replied(ids, reply)[r].reply = "none" =>
                    \/ Replied(ids, reply)[r].at = "idle"
                    \/ (Replied(ids, reply)[r] = request[r] /\ r \notin ids)
               /\ r \notin ids => Replied(ids, reply)[r] = request[r]
               /\ Replied(ids, reply)[r].at = "idle" => r \in ids \/ request[r].at = "idle"
    <2>1. request[r] \in CallRecord
      BY DEF CallType
    <2>2. Replied(ids, reply)[r] =
            IF r \notin ids \/ request[r].reply # "none" THEN request[r]
            ELSE IF request[r].at = "waiting" THEN Idle
            ELSE [request[r] EXCEPT !.reply = reply]
      BY DEF Replied
    <2>3. Idle \in CallRecord /\ Idle.at = "idle"
      BY DEF Idle, CallRecord, Slot
    <2>4. /\ [request[r] EXCEPT !.reply = reply] \in CallRecord
          /\ [request[r] EXCEPT !.reply = reply].at = request[r].at
          /\ [request[r] EXCEPT !.reply = reply].reply = reply
      BY <2>1 DEF CallRecord
    <2>5. CASE r \notin ids \/ request[r].reply # "none"
      BY <2>1, <2>2, <2>5
    <2>6. CASE r \in ids /\ request[r].reply = "none" /\ request[r].at = "waiting"
      BY <2>2, <2>3, <2>6
    <2>7. CASE r \in ids /\ request[r].reply = "none" /\ request[r].at # "waiting"
      BY <2>2, <2>4, <2>7
    <2> QED  BY <2>5, <2>6, <2>7
  <1>2. Replied(ids, reply) = [r \in Requests |-> Replied(ids, reply)[r]]
    BY DEF Replied
  <1>3. Replied(ids, reply) \in [Requests -> CallRecord]
    BY <1>1, <1>2
  <1> QED  BY <1>1, <1>3
(* The types hold in every state.                                           *)
LEMMA TypeInit == Init => TypeOK
  BY BridgeAssumption DEF Init, TypeOK, Engines, Slot, Idle, Call

LEMMA TypeStep ==
  ASSUME TypeOK, StopsMet, [Next]_vars
  PROVE  TypeOK'
  <1>0. ProcessType /\ PipeType /\ CallType /\ EndType /\ StopType
    BY TypeParts
  <1>1. ProcessType'
    <2>0. ProcessType
      BY <1>0
    <2> USE DEF ProcessType
    <2>1. CASE UNCHANGED processes
      BY <2>0, <2>1 DEF processes
    <2>2. CASE Launch
      <3>1. PICK g : g = launched + 1 /\ launched' = g /\ slot' = g
                     /\ child' = [child EXCEPT ![g] = "up"]
                     /\ open' = [open EXCEPT ![g] = TRUE] /\ expected' = expected
        BY <2>2 DEF Launch
      <3>2. g \in Engines /\ g \in 0..MaxLaunches
        BY <2>0, <2>2, <3>1, BridgeAssumption DEF Launch, Engines
      <3> QED  BY <2>0, <3>1, <3>2 DEF Slot
    <2>3. ASSUME NEW g \in Engines, Exits(g)
          PROVE  ProcessType'
      BY <2>0, <2>3 DEF Exits
    <2>4. ASSUME NEW g \in Engines, WatcherTakes(g)
          PROVE  ProcessType'
      BY <2>0, <2>4 DEF WatcherTakes, Slot
    <2>5. ASSUME NEW s \in Stops, StopMarks(s)
          PROVE  ProcessType'
      BY <2>0, <2>5 DEF StopMarks, Expects
    <2>6. ASSUME NEW s \in Stops, StopTakes(s)
          PROVE  ProcessType'
      BY <2>0, <2>6 DEF StopTakes, Slot
    <2> QED
      BY <2>1, <2>2, <2>3, <2>4, <2>5, <2>6
      DEF Next, vars, CallGoesOn, Registers, Looks, Sends, Hears, TimesOut, Answers, Reads,
          Reports, ReportDrains, ReportTells, StopGoesOn, StopLeaves, StopClears
  <1>2. PipeType'
    <2>0. PipeType
      BY <1>0
    <2> USE DEF PipeType
    <2>1. CASE UNCHANGED pipes
      BY <2>0, <2>1 DEF pipes
    <2>2. ASSUME NEW r \in Requests, Sends(r)
          PROVE  PipeType'
      <3>1. stdout' = stdout
        BY <2>2 DEF Sends
      <3>2. inbox' = inbox \/ inbox' = [inbox EXCEPT ![request[r].of] = @ \cup {r}]
        BY <2>2 DEF Sends
      <3> QED  BY <2>0, <3>1, <3>2
    <2>3. ASSUME NEW g \in Engines, NEW r \in Requests, Answers(g, r) \/ Reads(g, r)
          PROVE  PipeType'
      <3>1. inbox' = inbox \/ inbox' = [inbox EXCEPT ![g] = @ \ {r}]
        BY <2>3 DEF Answers, Reads
      <3>2. stdout' = [stdout EXCEPT ![g] = @ \cup {r}] \/ stdout' = [stdout EXCEPT ![g] = @ \ {r}]
        BY <2>3 DEF Answers, Reads
      <3> QED  BY <2>0, <3>1, <3>2
    <2>4. ASSUME NEW g \in Engines, Exits(g)
          PROVE  PipeType'
      BY <2>0, <2>4 DEF Exits
    <2>5. ASSUME NEW s \in Stops, StopTakes(s)
          PROVE  PipeType'
      BY <2>0, <2>5 DEF StopTakes
    <2> QED
      BY <2>1, <2>2, <2>3, <2>4, <2>5
      DEF Next, vars, Launch, CallGoesOn, Registers, Looks, Hears, TimesOut, WatcherTakes,
          Reports, ReportDrains, ReportTells, StopMarks, StopGoesOn, StopLeaves, StopClears
  <1>3. CallType'
    <2>0. CallType
      BY <1>0
    <2> USE DEF CallType
    <2>1. CASE UNCHANGED calls
      BY <2>0, <2>1 DEF calls
    <2>2. ASSUME NEW r \in Requests, Goes(r)
          PROVE  CallType'
      BY <2>0, <2>2 DEF Goes, Idle, CallRecord, Slot
    <2>3. ASSUME NEW r \in Requests, Registers(r) \/ Looks(r) \/ Sends(r)
          PROVE  CallType'
      <3>0. request[r] \in CallRecord /\ pending \subseteq Requests
        BY <2>0
      <3>1. CASE Registers(r)
        <4>1. pending' = pending \cup {r} /\ request' = [request EXCEPT ![r].at = "registered"]
          BY <3>1 DEF Registers
        <4> QED  BY <2>0, <3>0, <4>1 DEF CallRecord
      <3>2. CASE Looks(r)
        <4>1. CASE Goes(r)
          BY <2>2, <4>1
        <4>2. CASE /\ slot \in Engines /\ pending' = pending
                   /\ request' = [request EXCEPT ![r].at = "found", ![r].of = slot]
          BY <2>0, <3>0, <4>2 DEF CallRecord, Slot
        <4> QED  BY <3>2, <4>1, <4>2 DEF Looks
      <3>3. CASE Sends(r)
        <4>1. CASE Goes(r)
          BY <2>2, <4>1
        <4>2. CASE pending' = pending /\ request' = [request EXCEPT ![r].at = "waiting"]
          BY <2>0, <3>0, <4>2 DEF CallRecord
        <4> QED  BY <3>3, <4>1, <4>2 DEF Sends
      <3> QED  BY <2>3, <3>1, <3>2, <3>3
    <2>4. ASSUME NEW ids \in SUBSET pending, NEW reply \in {"answer", "exited", "dropped"},
                 request' = Replied(ids, reply), pending' = pending \ ids
          PROVE  CallType'
      <3>1. ids \in SUBSET Requests
        BY <2>0
      <3>2. /\ request' \in [Requests -> CallRecord]
            /\ \A r \in Requests : request'[r].at = "idle" => r \in ids \/ request[r].at = "idle"
        BY <2>0, <2>4, <3>1, RepliedType
      <3>3. \A r \in pending' : r \in Requests /\ request'[r].at # "idle"
        BY <2>0, <2>4, <3>2
      <3> QED  BY <3>2, <3>3
    <2>5. ASSUME NEW g \in Engines, NEW r \in Requests, Reads(g, r)
          PROVE  CallType'
      <3>1. pending' = pending \ ({r} \cap pending) /\ request' = Replied({r} \cap pending, "answer")
        BY <2>5 DEF Reads
      <3> QED  BY <2>4, <3>1
    <2>6. ASSUME NEW g \in Engines, ReportDrains(g)
          PROVE  CallType'
      BY <2>4, <2>6 DEF ReportDrains, Drained
    <2>7. ASSUME NEW s \in Stops, StopClears(s)
          PROVE  CallType'
      <3>1. pending' = pending \ pending /\ request' = Replied(pending, "dropped")
        BY <2>7 DEF StopClears
      <3> QED  BY <2>4, <3>1
    <2> QED
      BY <2>1, <2>2, <2>3, <2>5, <2>6, <2>7
      DEF Next, vars, Launch, CallGoesOn, Hears, TimesOut, Answers, Exits, WatcherTakes,
          Reports, ReportTells, StopMarks, StopGoesOn, StopTakes, StopLeaves
  <1>4. EndType'
    <2>0. EndType
      BY <1>0
    <2> USE DEF EndType
    <2>1. CASE UNCHANGED ends
      BY <2>0, <2>1 DEF ends
    <2>2. ASSUME NEW g \in Engines, WatcherTakes(g) \/ Reports(g)
          PROVE  EndType'
      BY <2>0, <2>2 DEF WatcherTakes, Reports, ReportDrains, ReportTells
    <2>3. ASSUME NEW s \in Stops, StopTakes(s)
          PROVE  EndType'
      BY <2>0, <2>3 DEF StopTakes
    <2> QED
      BY <2>1, <2>2, <2>3
      DEF Next, vars, ends, Launch, CallGoesOn, Registers, Looks, Sends, Hears, TimesOut, Answers,
          Reads, Exits, StopMarks, StopGoesOn, StopLeaves, StopClears
  <1>5. StopType'
    <2>0. StopType
      BY <1>0
    <2> USE DEF StopType
    <2>1. CASE UNCHANGED stop
      BY <2>0, <2>1
    <2>2. ASSUME NEW s \in Stops, StopMarks(s) \/ StopGoesOn(s)
          PROVE  StopType'
      <3>1. \/ stop' = [stop EXCEPT ![s].at = "reporting"]
            \/ stop' = [stop EXCEPT ![s].at = "clearing"]
            \/ \E at \in {"polling", "clearing", "idle"}, of \in Slot : stop' = [stop EXCEPT ![s] = Call(at, of)]
        BY <2>0, <2>2 DEF StopMarks, StopGoesOn, StopTakes, StopLeaves, StopClears, Slot
      <3>2. CASE \E at \in {"polling", "clearing", "idle"}, of \in Slot : stop' = [stop EXCEPT ![s] = Call(at, of)]
        BY <2>0, <3>2 DEF Call
      <3>3. CASE \E at \in {"reporting", "clearing"} : stop' = [stop EXCEPT ![s].at = at]
        BY <2>0, <3>3
      <3> QED  BY <3>1, <3>2, <3>3
    <2>3. ASSUME Next, ~ \E s \in Stops : StopMarks(s) \/ StopGoesOn(s)
          PROVE  stop' = stop
      BY <2>3
      DEF Next, Launch, CallGoesOn, Registers, Looks, Sends, Hears, TimesOut, Answers,
          Reads, Exits, WatcherTakes, Reports, ReportDrains, ReportTells
    <2>4. CASE UNCHANGED vars
      <3>1. stop' = stop
        BY <2>4 DEF vars
      <3> QED  BY <2>1, <3>1
    <2>5. CASE Next
      <3>1. CASE \E s \in Stops : StopMarks(s) \/ StopGoesOn(s)
        BY <2>2, <3>1
      <3>2. CASE ~ \E s \in Stops : StopMarks(s) \/ StopGoesOn(s)
        <4>1. stop' = stop
          BY <2>3, <2>5, <3>2
        <4> QED  BY <2>1, <4>1
      <3> QED  BY <3>1, <3>2
    <2> QED  BY <2>4, <2>5
  <1> QED
    BY <1>1, <1>2, <1>3, <1>4, <1>5
    DEF TypeOK, ProcessType, PipeType, CallType, EndType, StopType, CallRecord

-----------------------------------------------------------------------------
(* A start takes the next launch, and leaves all but the process alone.      *)
LEMMA LaunchFacts ==
  ASSUME ProcessType, Launch
  PROVE  /\ slot = Nobody /\ launched + 1 \in Engines
         /\ launched \in Nat /\ launched + 1 > launched
         /\ Engines \subseteq Nat /\ Nobody \notin Engines
         /\ launched' = launched + 1 /\ slot' = launched + 1
         /\ child' = [child EXCEPT ![launched + 1] = "up"]
         /\ open' = [open EXCEPT ![launched + 1] = TRUE]
         /\ UNCHANGED <<expected, inbox, stdout, pending, request, report, said, stop>>
  <1>1. launched \in Nat /\ launched < MaxLaunches /\ MaxLaunches \in Nat
    BY BridgeAssumption DEF ProcessType, Launch
  <1>2. launched + 1 \in Engines
    BY <1>1 DEF Engines
  <1>3. Engines \subseteq Nat /\ Nobody \notin Engines
    BY BridgeAssumption DEF Engines
  <1>4. launched + 1 > launched
    BY <1>1
  <1> QED  BY <1>1, <1>2, <1>3, <1>4 DEF Launch, pipes, calls

(* Between the newest launch and the next there is none.                    *)
LEMMA NextLaunch ==
  ASSUME NEW n \in Nat, NEW h \in Nat
  PROVE  /\ h # n + 1 => (h > n + 1 => h > n) /\ (h <= n + 1 => h <= n)
         /\ ~(h > h) /\ h <= h
  OBVIOUS

(* A launch in the slot is the newest, up to now without a report.           *)
LEMMA SlotFacts ==
  ASSUME ProcessType, OneHeld, slot \in Engines
  PROVE  slot = launched /\ report[slot] = "none" /\ child[slot] # "none"
  <1>1. slot # Nobody
    BY BridgeAssumption DEF Engines
  <1>2. slot = launched /\ report[slot] = "none"
    BY <1>1 DEF OneHeld
  <1>3. slot <= launched
    BY <1>2 DEF Engines
  <1> QED  BY <1>2, <1>3 DEF OneHeld

-----------------------------------------------------------------------------
(* Init and each kind of step keep the slot's meaning.                      *)
LEMMA OneHeldInit == Init => OneHeld
  BY BridgeAssumption DEF Init, OneHeld, Engines

LEMMA OneHeldStep ==
  ASSUME TypeOK, OneHeld, StopsMet, [Next]_vars
  PROVE  OneHeld'
  <1>0. ProcessType /\ EndType
    BY TypeParts
  <1> USE <1>0, BridgeAssumption DEF ProcessType, EndType, OneHeld, Slot
  <1>1. CASE UNCHANGED <<processes, report>>
    BY <1>1 DEF processes
  <1>2. CASE Launch
    <2>1. PICK g \in Engines : /\ g = launched + 1 /\ launched' = g /\ slot' = g
                               /\ child' = [child EXCEPT ![g] = "up"]
                               /\ open' = [open EXCEPT ![g] = TRUE]
                               /\ report' = report
      BY <1>2, LaunchFacts
    <2>2. /\ slot \notin Engines /\ launched \in Nat /\ g > launched
          /\ Engines \subseteq Nat /\ Nobody \notin Engines
      BY <1>2, <2>1, LaunchFacts
    <2>3. ASSUME NEW h \in Engines
          PROVE  /\ h > launched' => child'[h] = "none" /\ report'[h] = "none" /\ ~open'[h]
                 /\ h <= launched' => child'[h] # "none"
                 /\ h <= launched' /\ slot' # h => child'[h] = "gone" /\ report'[h] # "none"
      <3>0. g \in Nat /\ h \in Nat /\ launched \in Nat /\ g = launched + 1 /\ launched' = g
        BY <2>1, <2>2
      <3>1. CASE h = g
        <4>1. child'[h] = "up"
          BY <2>1, <3>1
        <4>2. launched' = h /\ slot' = h /\ ~(h > h) /\ h <= h
          BY <2>1, <3>0, <3>1, NextLaunch
        <4> QED  BY <4>1, <4>2
      <3>2. CASE h # g
        <4>1. child'[h] = child[h] /\ open'[h] = open[h] /\ report'[h] = report[h]
          BY <2>1, <3>2
        <4>2. (h > launched' => h > launched) /\ (h <= launched' => h <= launched)
          BY <3>0, <3>2, NextLaunch
        <4> QED  BY <2>2, <4>1, <4>2
      <3> QED  BY <3>1, <3>2
    <2>4. report'[slot'] = "none"
      BY <2>1, <2>2
    <2> QED  BY <2>1, <2>3, <2>4
  <1>3. ASSUME NEW g \in Engines, Exits(g)
        PROVE  OneHeld'
    BY <1>3 DEF Exits, ends, Engines
  <1>4. ASSUME NEW g \in Engines, WatcherTakes(g)
        PROVE  OneHeld'
    BY <1>4 DEF WatcherTakes, Engines
  <1>5. ASSUME NEW g \in Engines, Reports(g)
        PROVE  OneHeld'
    <2>1. UNCHANGED <<slot, launched, child, open>>
      BY <1>5 DEF Reports, ReportDrains, ReportTells, processes
    <2>2. /\ report[g] # "none"
          /\ \E to \in {"drained", "said"} : report' = [report EXCEPT ![g] = to]
      BY <1>5 DEF Reports, ReportDrains, ReportTells
    <2> QED  BY <2>1, <2>2 DEF Engines
  <1>6. ASSUME NEW s \in Stops, StopMarks(s)
        PROVE  OneHeld'
    BY <1>6 DEF StopMarks, ends, Expects, Engines
  <1>7. ASSUME NEW s \in Stops, StopTakes(s)
        PROVE  OneHeld'
    BY <1>7 DEF StopTakes, StopsMet, Engines
  <1> QED
    BY <1>1, <1>2, <1>3, <1>4, <1>5, <1>6, <1>7
    DEF Next, vars, CallGoesOn, Registers, Looks, Sends, Hears, TimesOut, Answers, Reads,
        StopGoesOn, StopLeaves, StopClears, ends

-----------------------------------------------------------------------------
(* An end is told when its report is over, and asked for is what was kept.  *)
LEMMA ToldOnceInit == Init => ToldOnce
  BY DEF Init, ToldOnce

LEMMA ToldOnceStep ==
  ASSUME TypeOK, OneHeld, ToldOnce, StopsMet, [Next]_vars
  PROVE  ToldOnce'
  <1>0. ProcessType /\ EndType
    BY TypeParts
  <1> USE <1>0, BridgeAssumption DEF ProcessType, EndType, ToldOnce
  <1>1. CASE UNCHANGED <<processes, ends>>
    BY <1>1 DEF processes, ends
  <1>2. CASE Launch
    <2>1. PICK g \in Engines : /\ g = launched + 1 /\ child' = [child EXCEPT ![g] = "up"]
                               /\ open' = [open EXCEPT ![g] = TRUE]
      BY <1>2, LaunchFacts
    <2>2. UNCHANGED <<report, said, expected>>
      BY <1>2, LaunchFacts
    <2>3. g > launched
      BY <1>2, <2>1, LaunchFacts
    <2>4. ~expected[g]
      BY <2>3 DEF OneHeld
    <2> QED  BY <2>1, <2>2, <2>4
  <1>3. ASSUME NEW g \in Engines, Exits(g)
        PROVE  ToldOnce'
    BY <1>3 DEF Exits, ends
  <1>4. ASSUME NEW g \in Engines, WatcherTakes(g)
        PROVE  ToldOnce'
    <2>1. report[g] = "none" /\ report' = [report EXCEPT ![g] = "taken"]
      BY <1>4, SlotFacts DEF WatcherTakes
    <2>2. UNCHANGED <<child, expected, open, said>>
      BY <1>4 DEF WatcherTakes
    <2> QED  BY <2>1, <2>2
  <1>5. ASSUME NEW g \in Engines, Reports(g)
        PROVE  ToldOnce'
    <2>1. UNCHANGED <<child, expected, open>>
      BY <1>5 DEF Reports, ReportDrains, ReportTells, processes
    <2>2. CASE ReportDrains(g)
      BY <2>1, <2>2 DEF ReportDrains
    <2>3. CASE ReportTells(g)
      <3>1. report' = [report EXCEPT ![g] = "said"]
        BY <2>3 DEF ReportTells
      <3>2. \E told \in {"asked for", "by itself"} : said' = [said EXCEPT ![g] = told]
        BY <2>3 DEF ReportTells
      <3> QED  BY <2>1, <3>1, <3>2
    <2> QED  BY <1>5, <2>2, <2>3 DEF Reports
  <1>6. ASSUME NEW s \in Stops, StopMarks(s)
        PROVE  ToldOnce'
    <2>1. UNCHANGED <<child, report, said>>
      BY <1>6 DEF StopMarks, ends
    <2>2. CASE slot \in Engines
      <3>1. /\ expected' = [expected EXCEPT ![slot] = TRUE]
            /\ open' = [open EXCEPT ![slot] = FALSE]
        BY <1>6, <2>2 DEF StopMarks, Expects
      <3>2. child[slot] # "none"
        BY <2>2, SlotFacts
      <3>3. expected'[slot] /\ ~open'[slot]
        BY <2>2, <3>1
      <3>4. ASSUME NEW g \in Engines, g # slot
            PROVE  expected'[g] = expected[g] /\ open'[g] = open[g]
        BY <3>1, <3>4
      <3> QED  BY <2>1, <2>2, <3>2, <3>3, <3>4
    <2>3. CASE slot \notin Engines
      BY <1>6, <2>1, <2>3 DEF StopMarks
    <2> QED  BY <2>2, <2>3
  <1>7. ASSUME NEW s \in Stops, StopTakes(s)
        PROVE  ToldOnce'
    <2>1. PICK g : /\ g = stop[s].of /\ slot = g
                   /\ child' = [child EXCEPT ![g] = "gone"]
                   /\ report' = [report EXCEPT ![g] = "taken"]
      BY <1>7 DEF StopTakes
    <2>2. UNCHANGED <<expected, open, said>>
      BY <1>7 DEF StopTakes
    <2>3. g \in Engines
      BY <1>7, <2>1 DEF StopTakes, StopsMet
    <2>4. child[g] # "none" /\ report[g] = "none"
      BY <2>1, <2>3, SlotFacts
    <2> QED  BY <2>1, <2>2, <2>3, <2>4
  <1> QED
    BY <1>1, <1>2, <1>3, <1>4, <1>5, <1>6, <1>7
    DEF Next, vars, CallGoesOn, Registers, Looks, Sends, Hears, TimesOut, Answers, Reads,
        StopGoesOn, StopLeaves, StopClears

-----------------------------------------------------------------------------
(* What a stop met is gone when the stop goes on, and stays so.             *)
LEMMA StopsMetInit == Init => StopsMet
  BY DEF Init, StopsMet, Call

LEMMA StopsMetStep ==
  ASSUME TypeOK, OneHeld, StopsMet, [Next]_vars
  PROVE  StopsMet'
  <1>0. ProcessType /\ StopType
    BY TypeParts
  <1> USE <1>0, BridgeAssumption DEF ProcessType, StopType, StopsMet, Slot
  <1>1. CASE UNCHANGED <<processes, stop>>
    BY <1>1 DEF processes
  <1>2. CASE Launch
    <2>1. PICK g \in Engines : /\ g = launched + 1 /\ launched' = g /\ slot' = g
                               /\ child' = [child EXCEPT ![g] = "up"]
      BY <1>2, LaunchFacts
    <2>2. stop' = stop /\ launched \in Nat
      BY <1>2, LaunchFacts
    <2>3. child[g] = "none"
      BY <2>1, <2>2 DEF OneHeld
    <2>4. ASSUME NEW h \in Engines
          PROVE  h <= launched => h <= launched'
      BY <2>1, <2>2 DEF Engines
    <2> QED  BY <2>1, <2>2, <2>3, <2>4
  <1>3. ASSUME NEW g \in Engines, Exits(g)
        PROVE  StopsMet'
    BY <1>3 DEF Exits
  <1>4. ASSUME NEW g \in Engines, WatcherTakes(g)
        PROVE  StopsMet'
    BY <1>4 DEF WatcherTakes
  <1>5. ASSUME NEW s \in Stops, StopMarks(s)
        PROVE  StopsMet'
    <2>1. UNCHANGED <<slot, launched, child>>
      BY <1>5 DEF StopMarks
    <2>2. CASE slot \in Engines
      <3>1. stop' = [stop EXCEPT ![s] = Call("polling", slot)]
        BY <1>5, <2>2 DEF StopMarks
      <3>2. slot <= launched
        BY <2>2, SlotFacts DEF Engines
      <3> QED  BY <2>1, <2>2, <3>1, <3>2 DEF Call
    <2>3. CASE slot \notin Engines
      <3>1. stop' = [stop EXCEPT ![s] = Call("clearing", Nobody)]
        BY <1>5, <2>3 DEF StopMarks
      <3> QED  BY <2>1, <3>1 DEF Call
    <2> QED  BY <2>2, <2>3
  <1>6. ASSUME NEW s \in Stops, StopTakes(s)
        PROVE  StopsMet'
    <2>1. PICK g : /\ g = stop[s].of /\ slot' = Nobody
                   /\ child' = [child EXCEPT ![g] = "gone"]
                   /\ stop' = [stop EXCEPT ![s].at = "reporting"]
      BY <1>6 DEF StopTakes
    <2>2. launched' = launched /\ g \in Engines
      BY <1>6, <2>1 DEF StopTakes
    <2> QED  BY <2>1, <2>2 DEF Engines
  <1>7. ASSUME NEW s \in Stops, StopLeaves(s)
        PROVE  StopsMet'
    <2>1. UNCHANGED <<slot, launched, child>> /\ stop' = [stop EXCEPT ![s].at = "clearing"]
      BY <1>7 DEF StopLeaves, processes
    <2>2. child[stop[s].of] = "gone" /\ slot # stop[s].of
      BY <1>7 DEF StopLeaves, OneHeld
    <2> QED  BY <2>1, <2>2
  <1>8. ASSUME NEW s \in Stops, StopClears(s)
        PROVE  StopsMet'
    <2>1. UNCHANGED <<slot, launched, child>> /\ stop' = [stop EXCEPT ![s] = Call("idle", Nobody)]
      BY <1>8 DEF StopClears, processes
    <2> QED  BY <2>1 DEF Call
  <1> QED
    BY <1>1, <1>2, <1>3, <1>4, <1>5, <1>6, <1>7, <1>8
    DEF Next, vars, CallGoesOn, Registers, Looks, Sends, Hears, TimesOut, Answers, Reads,
        Reports, ReportDrains, ReportTells, StopGoesOn

-----------------------------------------------------------------------------
(* A call without a reply waits under its id, on a process in the slot or    *)
(* one whose exit has yet to fail the ids.                                   *)
LEMMA CallsHeldInit == Init => CallsHeld
  BY DEF Init, CallsHeld, Idle

LEMMA CallsHeldStep ==
  ASSUME TypeOK, OneHeld, StopsMet, CallsHeld, [Next]_vars
  PROVE  CallsHeld'
  <1>0. ProcessType /\ CallType /\ EndType
    BY TypeParts
  <1> USE DEF CallsHeld
  <1>1. CASE UNCHANGED <<slot, report, calls>>
    BY <1>1 DEF calls
  <1>2. CASE Launch
    <2>1. UNCHANGED <<pending, request, report>> /\ slot \notin Engines
      BY <1>0, <1>2, LaunchFacts
    <2> QED  BY <2>1
  <1>3. ASSUME NEW r \in Requests, Goes(r), UNCHANGED <<slot, report>>
        PROVE  CallsHeld'
    BY <1>0, <1>3 DEF Goes, Idle, CallType
  <1>4. ASSUME NEW r \in Requests, Registers(r)
        PROVE  CallsHeld'
    <2>1. pending' = pending \cup {r} /\ request' = [request EXCEPT ![r].at = "registered"]
      BY <1>4 DEF Registers
    <2>2. UNCHANGED <<slot, report>>
      BY <1>4 DEF Registers, processes, ends
    <2> QED  BY <1>0, <2>1, <2>2 DEF CallType, CallRecord
  <1>5. ASSUME NEW r \in Requests, Looks(r)
        PROVE  CallsHeld'
    <2>1. UNCHANGED <<slot, report>>
      BY <1>5 DEF Looks, processes, ends
    <2>2. CASE /\ slot \in Engines /\ pending' = pending /\ request[r].at = "registered"
               /\ request' = [request EXCEPT ![r].at = "found", ![r].of = slot]
      BY <1>0, <2>1, <2>2 DEF CallType, CallRecord
    <2> QED  BY <1>3, <1>5, <2>1, <2>2 DEF Looks
  <1>6. ASSUME NEW r \in Requests, Sends(r)
        PROVE  CallsHeld'
    <2>1. UNCHANGED <<slot, report>>
      BY <1>6 DEF Sends, processes, ends
    <2>2. CASE /\ pending' = pending /\ request[r].at = "found"
               /\ request' = [request EXCEPT ![r].at = "waiting"]
      BY <1>0, <2>1, <2>2 DEF CallType, CallRecord
    <2> QED  BY <1>3, <1>6, <2>1, <2>2 DEF Sends
  <1>7. ASSUME NEW ids \in SUBSET Requests, NEW reply \in {"answer", "exited", "dropped"},
               request' = Replied(ids, reply), pending' = pending \ ids,
               NEW r \in Requests, request'[r].at # "idle", request'[r].reply = "none"
        PROVE  /\ request'[r] = request[r] /\ r \notin ids
               /\ r \in pending /\ r \in pending'
    <2>1. request'[r] = request[r] /\ r \notin ids
      BY <1>0, <1>7, RepliedType
    <2> QED  BY <1>7, <2>1
  <1>8. ASSUME NEW ids \in SUBSET Requests, NEW reply \in {"answer", "exited", "dropped"},
               request' = Replied(ids, reply), pending' = pending \ ids,
               UNCHANGED <<slot, report>>
        PROVE  CallsHeld'
    BY <1>7, <1>8
  <1>9. ASSUME NEW g \in Engines, NEW r \in Requests, Reads(g, r)
        PROVE  CallsHeld'
    <2>1. pending' = pending \ ({r} \cap pending) /\ request' = Replied({r} \cap pending, "answer")
      BY <1>9 DEF Reads
    <2>2. UNCHANGED <<slot, report>>
      BY <1>9 DEF Reads, processes, ends
    <2> QED  BY <1>8, <2>1, <2>2
  <1>10. ASSUME NEW g \in Engines, ReportDrains(g)
         PROVE  CallsHeld'
    <2>1. pending' = pending \ pending /\ request' = Replied(pending, "exited")
      BY <1>10 DEF ReportDrains, Drained
    <2>2. pending \in SUBSET Requests
      BY <1>0 DEF CallType
    <2>3. ~ \E r \in Requests : request'[r].at # "idle" /\ request'[r].reply = "none"
      BY <1>7, <2>1, <2>2
    <2> QED  BY <2>3
  <1>11. ASSUME NEW s \in Stops, StopClears(s)
         PROVE  CallsHeld'
    <2>1. pending' = pending \ pending /\ request' = Replied(pending, "dropped")
      BY <1>11 DEF StopClears
    <2>2. UNCHANGED <<slot, report>> /\ pending \in SUBSET Requests
      BY <1>0, <1>11 DEF StopClears, processes, ends, CallType
    <2> QED  BY <1>8, <2>1, <2>2
  <1>12. ASSUME NEW g \in Engines, slot = g, report' = [report EXCEPT ![g] = "taken"],
                UNCHANGED <<pending, request>>
         PROVE  CallsHeld'
    BY <1>0, <1>12 DEF EndType
  <1>13. ASSUME NEW g \in Engines, WatcherTakes(g)
         PROVE  CallsHeld'
    BY <1>12, <1>13 DEF WatcherTakes, calls
  <1>14. ASSUME NEW s \in Stops, StopTakes(s)
         PROVE  CallsHeld'
    BY <1>12, <1>14 DEF StopTakes, StopsMet, calls
  <1>15. ASSUME NEW g \in Engines, ReportTells(g)
         PROVE  CallsHeld'
    <2>1. report[g] = "drained" /\ report' = [report EXCEPT ![g] = "said"]
      BY <1>15 DEF ReportTells
    <2>2. UNCHANGED <<slot, pending, request>>
      BY <1>15 DEF ReportTells, processes, calls
    <2>3. slot # g
      BY <1>0, <2>1, SlotFacts
    <2> QED  BY <1>0, <2>1, <2>2, <2>3 DEF EndType
  <1>16. CASE UNCHANGED vars
    BY <1>1, <1>16 DEF vars, processes, ends
  <1>17. CASE \E r \in Requests : Registers(r) \/ CallGoesOn(r) \/ TimesOut(r)
    <2>1. ASSUME NEW r \in Requests, Hears(r) \/ TimesOut(r)
          PROVE  CallsHeld'
      BY <1>3, <2>1 DEF Hears, TimesOut, processes, ends
    <2> QED  BY <1>4, <1>5, <1>6, <1>17, <2>1 DEF CallGoesOn
  <1>18. CASE \E g \in Engines, r \in Requests : Answers(g, r) \/ Reads(g, r)
    BY <1>1, <1>9, <1>18 DEF Answers, processes, ends
  <1>19. CASE \E g \in Engines : Exits(g) \/ WatcherTakes(g) \/ Reports(g)
    <2>1. ASSUME NEW g \in Engines, Exits(g)
          PROVE  CallsHeld'
      BY <1>1, <2>1 DEF Exits, ends
    <2> QED  BY <1>10, <1>13, <1>15, <1>19, <2>1 DEF Reports
  <1>20. CASE \E s \in Stops : StopMarks(s) \/ StopGoesOn(s)
    <2>1. ASSUME NEW s \in Stops, StopMarks(s) \/ StopLeaves(s)
          PROVE  CallsHeld'
      BY <1>1, <2>1 DEF StopMarks, StopLeaves, processes, ends
    <2> QED  BY <1>11, <1>14, <1>20, <2>1 DEF StopGoesOn
  <1> QED  BY <1>2, <1>16, <1>17, <1>18, <1>19, <1>20 DEF Next

-----------------------------------------------------------------------------
(* The inductive invariant holds in every state.                             *)
THEOREM BridgeInvHolds == Spec => []BridgeInv
  <1>1. Init => BridgeInv
    BY TypeInit, OneHeldInit, ToldOnceInit, StopsMetInit, CallsHeldInit DEF BridgeInv
  <1>2. BridgeInv /\ [Next]_vars => BridgeInv'
    BY TypeStep, OneHeldStep, ToldOnceStep, StopsMetStep, CallsHeldStep DEF BridgeInv
  <1> QED  BY <1>1, <1>2, PTL DEF Spec

(* No call is left to its time-out by a process that is gone: it waits under *)
(* its id, on a process that is held or whose report has yet to fail the ids *)
(* (request, report_engine_exit).                                            *)
THEOREM WaitersAreHeld == Spec => []WaiterHeld
  <1>1. BridgeInv => WaiterHeld
    BY DEF BridgeInv, CallsHeld, WaiterHeld
  <1> QED  BY <1>1, BridgeInvHolds, PTL

(* A stop lets go of a process that is gone and that nothing holds           *)
(* (stop_with_grace).                                                        *)
THEOREM StopsEndWhatTheyMet == Spec => []StopEnds
  <1>1. BridgeInv => StopEnds
    <2>1. Nobody \notin Engines
      BY BridgeAssumption DEF Engines
    <2> QED  BY <2>1 DEF BridgeInv, StopsMet, StopEnds, Call
  <1> QED  BY <1>1, BridgeInvHolds, PTL

-----------------------------------------------------------------------------
(* Each step of the bridge is a step of its promise, or none.                *)
LEMMA LifeInit == Init => Life!Init
  BY DEF Init, Life!Init, Life!Launches, Engines

LEMMA LifeStep ==
  ASSUME BridgeInv, [Next]_vars
  PROVE  [Life!Next]_(Life!vars)
  <1> DEFINE asked == [g \in Engines |-> child[g] # "none" /\ ~open[g]]
  <1>0. /\ ProcessType /\ EndType /\ OneHeld /\ ToldOnce /\ StopsMet
        /\ Life!Launches = Engines
    BY TypeParts DEF BridgeInv, Life!Launches, Engines
  <1>1. CASE UNCHANGED <<child, open, said>>
    BY <1>1 DEF Life!vars
  <1>2. CASE Launch
    <2>1. PICK g \in Engines : /\ g = launched + 1 /\ launched \in Nat
                               /\ child' = [child EXCEPT ![g] = "up"]
                               /\ open' = [open EXCEPT ![g] = TRUE] /\ said' = said
      BY <1>0, <1>2, LaunchFacts
    <2>2. slot \notin Engines /\ Engines \subseteq Nat
      BY <1>0, <1>2, LaunchFacts
    <2>3. child[g] = "none"
      BY <1>0, <2>1 DEF OneHeld
    <2>4. ASSUME NEW h \in Engines
          PROVE  child[h] = (IF h < g THEN "gone" ELSE "none")
      <3>1. (h < g => h <= launched) /\ (~(h < g) => h > launched)
        BY <2>1, <2>2
      <3> QED  BY <1>0, <2>2, <3>1 DEF OneHeld
    <2>5. asked' = asked
      <3>1. ASSUME NEW h \in Engines
            PROVE  (child'[h] # "none" /\ ~open'[h]) <=> (child[h] # "none" /\ ~open[h])
        BY <1>0, <2>1, <2>3 DEF ProcessType
      <3> QED  BY <3>1
    <2>6. Life!Launch(g)
      BY <1>0, <2>1, <2>3, <2>4, <2>5 DEF Life!Launch
    <2> QED  BY <1>0, <2>6 DEF Life!Next
  <1>3. ASSUME NEW g \in Engines, child[g] # "none", child' = [child EXCEPT ![g] = "gone"],
               UNCHANGED <<open, said>>
        PROVE  [Life!Next]_(Life!vars)
    <2>1. asked' = asked
      <3>1. ASSUME NEW h \in Engines
            PROVE  (child'[h] # "none" /\ ~open'[h]) <=> (child[h] # "none" /\ ~open[h])
        BY <1>0, <1>3 DEF ProcessType
      <3> QED  BY <3>1
    <2>2. CASE child[g] = "up"
      <3>1. Life!End(g)
        BY <1>3, <2>1, <2>2 DEF Life!End
      <3> QED  BY <1>0, <3>1 DEF Life!Next
    <2>3. CASE child[g] = "gone"
      <3>1. child' = child
        BY <1>0, <1>3, <2>3 DEF ProcessType
      <3> QED  BY <1>3, <2>1, <3>1 DEF Life!vars
    <2> QED  BY <1>0, <1>3, <2>2, <2>3 DEF ProcessType
  <1>4. ASSUME NEW g \in Engines, Exits(g)
        PROVE  [Life!Next]_(Life!vars)
    BY <1>3, <1>4 DEF Exits, ends
  <1>5. ASSUME NEW s \in Stops, StopTakes(s)
        PROVE  [Life!Next]_(Life!vars)
    <2>1. PICK g \in Engines : slot = g /\ child' = [child EXCEPT ![g] = "gone"]
      BY <1>0, <1>5 DEF StopTakes, StopsMet
    <2>2. child[g] # "none"
      BY <1>0, <2>1, SlotFacts
    <2>3. UNCHANGED <<open, said>>
      BY <1>5 DEF StopTakes
    <2> QED  BY <1>3, <2>1, <2>2, <2>3
  <1>6. ASSUME NEW s \in Stops, StopMarks(s)
        PROVE  [Life!Next]_(Life!vars)
    <2>1. UNCHANGED <<child, said>>
      BY <1>6 DEF StopMarks, ends
    <2>2. CASE slot \in Engines
      <3>1. open' = [open EXCEPT ![slot] = FALSE]
        BY <1>6, <2>2 DEF StopMarks
      <3>2. child[slot] # "none" /\ report[slot] = "none"
        BY <1>0, <2>2, SlotFacts
      <3>3. said[slot] = "nothing"
        BY <1>0, <2>2, <3>2 DEF ToldOnce
      <3>4. asked' = [asked EXCEPT ![slot] = TRUE]
        <4>1. ASSUME NEW h \in Engines
              PROVE  (child'[h] # "none" /\ ~open'[h]) <=> (h = slot \/ (child[h] # "none" /\ ~open[h]))
          BY <1>0, <2>1, <2>2, <3>1, <3>2 DEF ProcessType
        <4>2. asked' = [h \in Engines |-> IF h = slot THEN TRUE ELSE child[h] # "none" /\ ~open[h]]
          BY <4>1
        <4> QED  BY <2>2, <4>2
      <3>5. PICK g \in Engines : g = slot
        BY <2>2
      <3>6. Life!Ask(g)
        BY <2>1, <3>2, <3>3, <3>4, <3>5 DEF Life!Ask
      <3> QED  BY <1>0, <3>6 DEF Life!Next
    <2>3. CASE slot \notin Engines
      BY <1>1, <1>6, <2>1, <2>3 DEF StopMarks
    <2> QED  BY <2>2, <2>3
  <1>7. ASSUME NEW g \in Engines, ReportTells(g)
        PROVE  [Life!Next]_(Life!vars)
    <2>1. /\ report[g] = "drained"
          /\ said' = [said EXCEPT ![g] = IF expected[g] THEN "asked for" ELSE "by itself"]
      BY <1>7 DEF ReportTells
    <2>2. UNCHANGED <<child, open>>
      BY <1>7 DEF ReportTells, processes
    <2>3. said[g] = "nothing" /\ (expected[g] <=> asked[g])
      BY <1>0, <2>1 DEF ToldOnce
    <2>4. child[g] = "gone"
      <3>1. slot # g
        BY <1>0, <2>1, SlotFacts
      <3>2. g <= launched
        <4>1. ~(g > launched)
          BY <1>0, <2>1 DEF OneHeld
        <4>2. g \in Nat /\ launched \in Nat
          BY <1>0, BridgeAssumption DEF ProcessType, Engines
        <4> QED  BY <4>1, <4>2
      <3> QED  BY <1>0, <3>1, <3>2 DEF OneHeld
    <2>5. asked' = asked
      BY <2>2
    <2>6. Life!Tell(g)
      BY <2>1, <2>2, <2>3, <2>4, <2>5 DEF Life!Tell
    <2> QED  BY <1>0, <2>6 DEF Life!Next
  <1>8. CASE Next /\ ~Launch /\ ~(\E g \in Engines : Exits(g) \/ ReportTells(g))
        /\ ~(\E s \in Stops : StopMarks(s) \/ StopTakes(s))
    <2>1. UNCHANGED <<child, open, said>>
      BY <1>8 DEF Next, CallGoesOn, Registers, Looks, Sends, Hears, TimesOut, Answers, Reads,
        WatcherTakes, Reports, ReportDrains, StopGoesOn, StopLeaves, StopClears, processes, ends
    <2> QED  BY <1>1, <2>1
  <1>9. CASE UNCHANGED vars
    BY <1>1, <1>9 DEF vars, processes, ends
  <1> QED  BY <1>2, <1>4, <1>5, <1>6, <1>7, <1>8, <1>9

(* The bridge does what it promises of the processes it starts: one at a     *)
(* time, the end of each told at most once, after it, and as asked for       *)
(* exactly when a stop met it (launch_with_link, stop_with_grace,            *)
(* report_engine_exit).                                                      *)
THEOREM BridgeKeepsItsPromise == Spec => Life!Safety
  <1>1. Init => Life!Init
    BY LifeInit
  <1>2. BridgeInv /\ [Next]_vars => [Life!Next]_(Life!vars)
    BY LifeStep
  <1> QED  BY <1>1, <1>2, BridgeInvHolds, PTL DEF Spec, Life!Safety
=============================================================================
