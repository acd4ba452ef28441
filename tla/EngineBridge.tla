---------------------------- MODULE EngineBridge ----------------------------
(* The desktop shell's bridge to the hardware link's process: the slot that *)
(* holds the process, the requests that wait for its answers, its reader,   *)
(* its exit watcher and the calls that stop it.  Calls (a start, a stop, a  *)
(* request) run on threads of their own and interleave at every lock.       *)
EXTENDS Naturals

CONSTANTS
    Requests,      \* who asks: one call each at a time, each with a new id
    Stops,         \* who stops: the page's restart, the close
    MaxLaunches,   \* bound: launches of one life of the shell
    Nobody

ASSUME BridgeAssumption == MaxLaunches \in Nat /\ Nobody \notin Nat

Engines == 1..MaxLaunches

VARIABLES
    slot,       \* process: the launch it holds, or Nobody
    launched,   \* generations
    child,      \* each process: "none", "up", "gone"
    expected,   \* expected_exit, kept by whoever holds the process
    open,       \* its stdin's sender is there
    inbox,      \* lines its request loop has not answered
    stdout,     \* what it wrote and the reader has not read
    pending,    \* the ids that wait
    request,    \* each request call: where it is, who it wrote to, its reply
    report,     \* each exit's report: "none", "taken", "drained", "said"
    stop,       \* each stop call: where it is and which launch it stops
    said        \* what was told of each exit

processes == <<slot, launched, child, expected, open>>
pipes == <<inbox, stdout>>
calls == <<pending, request>>
ends == <<report, said>>
vars == <<processes, pipes, calls, ends, stop>>

Call(at, of) == [at |-> at, of |-> of]

(***************************************************************************)
(* engine_start: a process in the slot, gone or not, is answered as it is, *)
(* which changes nothing; so does a process that could not be spawned.     *)
(***************************************************************************)
Launch ==
    /\ slot = Nobody /\ launched < MaxLaunches
    /\ LET g == launched + 1 IN
        /\ launched' = g /\ slot' = g
        /\ child' = [child EXCEPT ![g] = "up"]
        /\ open' = [open EXCEPT ![g] = TRUE]
    /\ UNCHANGED <<expected, pipes, calls, report, said, stop>>

(***************************************************************************)
(* A request: its id waits, the writer is looked up, the line is handed to *)
(* it, and the caller waits for ten seconds.                               *)
(***************************************************************************)
Idle == [at |-> "idle", of |-> Nobody, reply |-> "none"]
\* The caller goes, and takes its id back if it still waits: nobody else has it.
Goes(r) ==
    /\ request' = [request EXCEPT ![r] = Idle]
    /\ pending' = pending \ {r}

\* A new id, which nobody holds; the check for an id that waits never bites.
Registers(r) ==
    /\ request[r].at = "idle"
    /\ \A g \in Engines : r \notin inbox[g] \cup stdout[g]
    /\ pending' = pending \cup {r}
    /\ request' = [request EXCEPT ![r].at = "registered"]
    /\ UNCHANGED <<processes, pipes, ends, stop>>

Looks(r) ==
    /\ request[r].at = "registered"
    /\ IF slot \in Engines /\ open[slot]
       THEN /\ request' = [request EXCEPT ![r].at = "found", ![r].of = slot]
            /\ UNCHANGED pending
       ELSE Goes(r)
    /\ UNCHANGED <<processes, pipes, ends, stop>>

\* The writer of a process that is gone took the line or was over already.
Sends(r) ==
    /\ request[r].at = "found"
    /\ LET g == request[r].of IN
        \/ /\ request' = [request EXCEPT ![r].at = "waiting"]
           /\ inbox' = IF child[g] = "up" THEN [inbox EXCEPT ![g] = @ \cup {r}] ELSE inbox
           /\ UNCHANGED pending
        \/ /\ child[g] = "gone"
           /\ Goes(r)
           /\ UNCHANGED inbox
    /\ UNCHANGED <<processes, stdout, ends, stop>>

Hears(r) ==
    /\ request[r].at = "waiting" /\ request[r].reply # "none"
    /\ Goes(r)
    /\ UNCHANGED <<processes, pipes, ends, stop>>

TimesOut(r) ==
    /\ request[r].at = "waiting" /\ request[r].reply = "none"
    /\ Goes(r)
    /\ UNCHANGED <<processes, pipes, ends, stop>>

\* What the calls of these ids are told, once each: one that waits goes with it,
\* one on its way there finds it.
Replied(ids, reply) ==
    [r \in Requests |->
        IF r \notin ids \/ request[r].reply # "none" THEN request[r]
        ELSE IF request[r].at = "waiting" THEN Idle
        ELSE [request[r] EXCEPT !.reply = reply]]

(***************************************************************************)
(* The process answers what it reads when it does, and may end at any      *)
(* moment.                                                                 *)
(***************************************************************************)
Answers(g, r) ==
    /\ child[g] = "up" /\ r \in inbox[g]
    /\ inbox' = [inbox EXCEPT ![g] = @ \ {r}]
    /\ stdout' = [stdout EXCEPT ![g] = @ \cup {r}]
    /\ UNCHANGED <<processes, calls, ends, stop>>

Exits(g) ==
    /\ child[g] = "up"
    /\ child' = [child EXCEPT ![g] = "gone"]
    /\ inbox' = [inbox EXCEPT ![g] = {}]
    /\ UNCHANGED <<slot, launched, expected, open, stdout, calls, ends, stop>>

\* The reader: an answer goes to the call that waits under its id.
Reads(g, r) ==
    /\ r \in stdout[g]
    /\ stdout' = [stdout EXCEPT ![g] = @ \ {r}]
    /\ pending' = pending \ {r}
    /\ request' = Replied({r} \cap pending, "answer")
    /\ UNCHANGED <<processes, inbox, ends, stop>>

(***************************************************************************)
(* The exit: whoever takes the process out of the slot reports it.         *)
(***************************************************************************)
\* A launch's watcher polls while its process is in the slot, and is over then.
WatcherTakes(g) ==
    /\ slot = g /\ child[g] = "gone"
    /\ slot' = Nobody
    /\ report' = [report EXCEPT ![g] = "taken"]
    /\ UNCHANGED <<launched, child, expected, open, pipes, calls, said, stop>>

\* Mutated: the calls that have their line in, alone; none.
DrainedWritten == {r \in pending : request[r].at = "waiting"}
DrainedNone == {}

\* Every id that waits is failed, whichever process it waits for.
Drained == pending
ReportDrains(g) ==
    /\ report[g] = "taken"
    /\ report' = [report EXCEPT ![g] = "drained"]
    /\ pending' = pending \ Drained
    /\ request' = Replied(Drained, "exited")
    /\ UNCHANGED <<processes, pipes, said, stop>>

ReportTells(g) ==
    /\ report[g] = "drained"
    /\ report' = [report EXCEPT ![g] = "said"]
    /\ said' = [said EXCEPT ![g] = IF expected[g] THEN "asked for" ELSE "by itself"]
    /\ UNCHANGED <<processes, pipes, calls, stop>>

(***************************************************************************)
(* engine_stop: the flag and the pipe, a poll until the process is gone or *)
(* its grace is over, and every id that still waits is let go.             *)
(***************************************************************************)
\* Mutated: the flag is forgotten.
ExpectsNothing(g) == expected

Expects(g) == [expected EXCEPT ![g] = TRUE]

StopMarks(s) ==
    /\ stop[s].at = "idle"
    /\ IF slot \in Engines
       THEN /\ stop' = [stop EXCEPT ![s] = Call("polling", slot)]
            /\ expected' = Expects(slot)
            /\ open' = [open EXCEPT ![slot] = FALSE]
       ELSE /\ stop' = [stop EXCEPT ![s] = Call("clearing", Nobody)]
            /\ UNCHANGED <<expected, open>>
    /\ UNCHANGED <<slot, launched, child, pipes, calls, ends>>

\* Mutated: killed, and not waited for.
StopTakesAtOnce(s) ==
    LET g == stop[s].of IN
    /\ stop[s].at = "polling" /\ slot = g
    /\ slot' = Nobody
    /\ report' = [report EXCEPT ![g] = "taken"]
    /\ stop' = [stop EXCEPT ![s].at = "reporting"]
    /\ UNCHANGED <<launched, child, expected, open, pipes, calls, said>>

\* The process is gone, or its grace is over and it is killed.
StopTakes(s) ==
    LET g == stop[s].of IN
    /\ stop[s].at = "polling" /\ slot = g
    /\ slot' = Nobody
    /\ child' = [child EXCEPT ![g] = "gone"]
    /\ inbox' = [inbox EXCEPT ![g] = {}]
    /\ report' = [report EXCEPT ![g] = "taken"]
    /\ stop' = [stop EXCEPT ![s].at = "reporting"]
    /\ UNCHANGED <<launched, expected, open, stdout, calls, said>>

\* Somebody else took it.
StopLeaves(s) ==
    /\ stop[s].at = "polling" /\ slot # stop[s].of
    /\ stop' = [stop EXCEPT ![s].at = "clearing"]
    /\ UNCHANGED <<processes, pipes, calls, ends>>

\* A caller whose sender is dropped reads it as a time out.
StopClears(s) ==
    /\ \/ stop[s].at = "clearing"
       \/ stop[s].at = "reporting" /\ report[stop[s].of] = "said"
    /\ pending' = {}
    /\ request' = Replied(pending, "dropped")
    /\ stop' = [stop EXCEPT ![s] = Call("idle", Nobody)]
    /\ UNCHANGED <<processes, pipes, ends>>

Init ==
    /\ slot = Nobody /\ launched = 0
    /\ child = [g \in Engines |-> "none"]
    /\ expected = [g \in Engines |-> FALSE]
    /\ open = [g \in Engines |-> FALSE]
    /\ inbox = [g \in Engines |-> {}]
    /\ stdout = [g \in Engines |-> {}]
    /\ pending = {}
    /\ request = [r \in Requests |-> Idle]
    /\ report = [g \in Engines |-> "none"]
    /\ said = [g \in Engines |-> "nothing"]
    /\ stop = [s \in Stops |-> Call("idle", Nobody)]

CallGoesOn(r) == Looks(r) \/ Sends(r) \/ Hears(r)
Reports(g) == ReportDrains(g) \/ ReportTells(g)
StopGoesOn(s) == StopTakes(s) \/ StopLeaves(s) \/ StopClears(s)

Next ==
    \/ Launch
    \/ \E r \in Requests : Registers(r) \/ CallGoesOn(r) \/ TimesOut(r)
    \/ \E g \in Engines, r \in Requests : Answers(g, r) \/ Reads(g, r)
    \/ \E g \in Engines : Exits(g) \/ WatcherTakes(g) \/ Reports(g)
    \/ \E s \in Stops : StopMarks(s) \/ StopGoesOn(s)

Spec == Init /\ [][Next]_vars

\* The shell's threads run and a stop's grace passes.  Nobody has to call, to
\* answer or to end, and no call has to time out.
FairSpec ==
    /\ Spec
    /\ \A r \in Requests : WF_vars(CallGoesOn(r))
    /\ \A g \in Engines : WF_vars(WatcherTakes(g)) /\ WF_vars(Reports(g))
    /\ \A s \in Stops : WF_vars(StopGoesOn(s))

(***************************************************************************)
(* Properties                                                              *)
(***************************************************************************)
Slot == Engines \cup {Nobody}

\* Every variable keeps its range, and no id waits that no call waits under.
TypeOK ==
    /\ slot \in Slot /\ launched \in 0..MaxLaunches
    /\ child \in [Engines -> {"none", "up", "gone"}]
    /\ expected \in [Engines -> BOOLEAN] /\ open \in [Engines -> BOOLEAN]
    /\ inbox \in [Engines -> SUBSET Requests] /\ stdout \in [Engines -> SUBSET Requests]
    /\ pending \in SUBSET {r \in Requests : request[r].at # "idle"}
    /\ request \in [Requests -> [at : {"idle", "registered", "found", "waiting"},
        of : Slot, reply : {"none", "answer", "exited", "dropped"}]]
    /\ report \in [Engines -> {"none", "taken", "drained", "said"}]
    /\ said \in [Engines -> {"nothing", "asked for", "by itself"}]
    /\ stop \in [Stops -> [at : {"idle", "polling", "reporting", "clearing"}, of : Slot]]

\* A call that waits without an answer has its id in the map, and its process
\* is held and watched or its exit's report has yet to fail the ids that wait:
\* a process that is gone leaves no call to its ten seconds.
WaiterHeld == \A r \in Requests :
    request[r].at = "waiting" /\ request[r].reply = "none" =>
        /\ r \in pending
        /\ \E g \in Engines :
            /\ g = request[r].of
            /\ slot = g \/ report[g] = "taken"

\* The process a stop asked to end is gone when the stop lets go: a start after
\* a restart's stop never meets it.
StopEnds == \A s \in Stops : \A g \in Engines :
    stop[s] \in {Call("reporting", g), Call("clearing", g)} => child[g] = "gone" /\ slot # g

\* The shell keeps its promise about the processes it starts: one at a time,
\* and each one's end told once, as asked for exactly when a stop closed its
\* pipe while the shell held it.
Life == INSTANCE EngineLife WITH
    life <- child,
    asked <- [g \in Engines |-> child[g] # "none" /\ ~open[g]]
TellsEachEnd == Life!Spec

\* A call that waits for a process that is gone goes without its time-out.
WaiterTold == \A r \in Requests :
    (request[r].at = "waiting" /\ (\E g \in Engines : request[r].of = g /\ child[g] = "gone"))
        ~> request[r].at # "waiting"
=============================================================================
