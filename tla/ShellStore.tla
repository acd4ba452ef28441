----------------------------- MODULE ShellStore -----------------------------
(* The operator's page over the processes the shell starts: how it starts,  *)
(* what it hears of a process and when, how it restarts, and the close.     *)
(* The shell is what EngineLife promises; EngineBridge keeps that promise.  *)
EXTENDS EngineLife, Sequences

CONSTANT
    RestartLimit,    \* AUTOMATIC_RESTART_LIMIT
    Nobody
ASSUME StoreAssumption == RestartLimit \in Nat /\ Nobody \notin Nat

VARIABLES
    word,       \* each process' first event: "unsaid", "ready", "startup failed"
    unread,     \* the processes whose first event the shell has yet to read
    listening,  \* the page listens
    events,     \* what was emitted to it and it has not handled
    start,      \* its engine_start or engine_stop: "none", "asked", "answered",
                \* "stopping", "ending"
    answer,     \* the launch engine_start answered, or Nobody
    ping,       \* its ping: "none", "asked", "answered"
    read,       \* its reads: "none", "asked", "answered", "refused", "exited"
    at,         \* its start: "stopped", "launching", "gate", "reading",
                \* "landing", "ready", "failed"
    of,         \* engineGeneration
    failed,     \* engineStartupFailure is there
    landed,     \* the app has opened on its landing page
    restarts,   \* automaticRestartsAt, within its five minutes
    due,        \* the automatic restart's timer runs
    astray      \* the engine_start and engine_stop in flight of a page or a
                \* start that was left: "asked", "stopping"

calls == <<start, answer, ping, read>>
heard == <<listening, events>>
place == <<at, of, failed, landed, restarts, due>>
store == <<calls, place, astray>>
wrote == <<word, unread>>
all == <<vars, wrote, heard, store>>

\* An event reaches a page that listens when it is emitted.
Emit(event) == events' = IF listening THEN Append(events, event) ELSE events

(***************************************************************************)
(* The processes, as the shell promises them                               *)
(***************************************************************************)
Newest(g) == life[g] # "none" /\ \A h \in Launches : h > g => life[h] = "none"

\* engine_start: a process the shell still holds, gone or not, or a new one.
StartAnswers(g) ==
    /\ start = "asked"
    /\ start' = "answered" /\ answer' = g
    /\ \/ Newest(g) /\ said[g] = "nothing" /\ UNCHANGED vars
       \/ Launch(g)
    /\ UNCHANGED <<wrote, heard, ping, read, place, astray>>

StartFails ==
    /\ start = "asked" /\ \A g \in Launches : life[g] # "up"
    /\ start' = "answered" /\ answer' = Nobody
    /\ UNCHANGED <<vars, wrote, heard, ping, read, place, astray>>

Writes(g) ==
    /\ life[g] = "up" /\ word[g] = "unsaid"
    /\ \E w \in {"ready", "startup failed"} : word' = [word EXCEPT ![g] = w]
    /\ unread' = unread \cup {g}
    /\ UNCHANGED <<vars, heard, store>>

\* The shell's reader, which goes on over what a process left behind.
ReadsWord(g) ==
    /\ g \in unread
    /\ Emit([name |-> word[g]])
    /\ unread' = unread \ {g}
    /\ UNCHANGED <<vars, word, listening, store>>

\* A process whose start failed answers backups alone.
Serves(g) == life[g] = "up" /\ word[g] = "ready"

AnswersPing ==
    /\ ping = "asked" /\ \E g \in Launches : Serves(g)
    /\ ping' = "answered"
    /\ UNCHANGED <<vars, wrote, heard, start, answer, read, place, astray>>

AnswersRead ==
    /\ read = "asked"
    /\ \/ /\ \E g \in Launches : Serves(g)
          /\ read' = "answered"
       \/ (\E g \in Launches : life[g] = "gone") /\ read' = "exited"
       \/ read' = "refused"
    /\ UNCHANGED <<vars, wrote, heard, start, answer, ping, place, astray>>

\* The page's engine_stop takes the process the shell holds, if it finds one.
StopLooks ==
    /\ start = "stopping"
    /\ \/ \E g \in Launches : Newest(g) /\ Ask(g) /\ start' = "ending"
       \/ (\A g \in Launches : life[g] # "up") /\ start' = "none" /\ UNCHANGED vars
    /\ UNCHANGED <<wrote, heard, answer, ping, read, place, astray>>

\* The process it took is gone: engine_stop is back.
StopsIn ==
    /\ start = "ending" /\ \A g \in Launches : asked[g] => life[g] # "up"
    /\ start' = "none"
    /\ UNCHANGED <<vars, wrote, heard, answer, ping, read, place, astray>>

\* What a start or a page that was left had asked comes to nobody, but does
\* what it was to do.
StrayStarts ==
    /\ "asked" \in astray /\ astray' = astray \ {"asked"}
    /\ UNCHANGED vars \/ \E g \in Launches : Launch(g)
    /\ UNCHANGED <<wrote, heard, calls, place>>

StrayStops ==
    /\ "stopping" \in astray /\ astray' = astray \ {"stopping"}
    /\ UNCHANGED vars \/ \E g \in Launches : Newest(g) /\ Ask(g)
    /\ UNCHANGED <<wrote, heard, calls, place>>

Ends(g) == End(g) /\ UNCHANGED <<wrote, heard, store>>

Tells(g) ==
    /\ Tell(g)
    /\ Emit([name |-> "exited", of |-> g, graceful |-> asked[g]])
    /\ UNCHANGED <<wrote, listening, store>>

(***************************************************************************)
(* bootstrap                                                               *)
(***************************************************************************)
\* The first start, or one after a restart's stop, which leaves no process.
Boots ==
    /\ at = "stopped" /\ start = "none"
    /\ at' = "launching" /\ of' = Nobody /\ failed' = FALSE /\ due' = FALSE
    /\ start' = "asked" /\ listening' = TRUE
    /\ UNCHANGED <<vars, wrote, events, answer, ping, read, landed, restarts, astray>>

\* A failure that came first ends the start; the gate waits beside a ping.
Launched ==
    /\ at = "launching" /\ start = "answered" /\ answer # Nobody
    /\ start' = "none" /\ answer' = Nobody /\ of' = answer /\ ping' = "asked"
    /\ at' = IF failed THEN "failed" ELSE "gate"
    /\ UNCHANGED <<vars, wrote, heard, read, failed, landed, restarts, due, astray>>

NotLaunched ==
    /\ at = "launching" /\ start = "answered" /\ answer = Nobody
    /\ start' = "none" /\ listening' = FALSE /\ events' = <<>> /\ at' = "failed"
    /\ UNCHANGED <<vars, wrote, answer, ping, read, of, failed, landed, restarts, due, astray>>

PingAnswered ==
    /\ at = "gate" /\ ping = "answered"
    /\ at' = "reading" /\ read' = "asked"
    /\ UNCHANGED <<vars, wrote, heard, start, answer, ping, of, failed, landed, restarts, due, astray>>

GateTimesOut ==
    /\ at = "gate"
    /\ at' = "failed"
    /\ UNCHANGED <<vars, wrote, heard, calls, of, failed, landed, restarts, due, astray>>

\* The reads are in: the first start of the app writes its landing page.
ReadsIn ==
    /\ at = "reading" /\ read \in {"answered", "refused", "exited"}
    /\ at' = IF read # "answered" THEN "failed" ELSE IF landed THEN "ready" ELSE "landing"
    /\ read' = IF at' = "landing" THEN "asked" ELSE "none"
    /\ UNCHANGED <<vars, wrote, heard, start, answer, ping, of, failed, landed, restarts, due, astray>>

\* A refused write is recorded; a process that stopped fails the start.
Lands ==
    /\ at = "landing" /\ read \in {"answered", "refused", "exited"}
    /\ at' = IF failed \/ read = "exited" THEN "failed" ELSE "ready"
    /\ landed' = (at' = "ready")
    /\ read' = "none"
    /\ UNCHANGED <<vars, wrote, heard, start, answer, ping, of, failed, restarts, due, astray>>

(***************************************************************************)
(* What the page hears of the process                                      *)
(***************************************************************************)
Stale(event) == of # Nobody /\ event.of # of
\* Mutated: heard by a page at the gate or a ready one, alone.
StopsOutsideReads(event) ==
    event.name = "exited" /\ ~event.graceful /\ ~Stale(event) /\ ~failed /\ at \in {"gate", "ready"}

Stops(event) == event.name = "exited" /\ ~event.graceful /\ ~Stale(event) /\ ~failed

\* A failure ends a start that waits at the gate and a page that is ready;
\* a start that launches or reads goes on until it looks.
AfterFailure == IF at \in {"gate", "ready"} THEN "failed" ELSE at

HearsReady ==
    /\ Head(events).name = "ready"
    /\ IF at = "gate" THEN at' = "reading" /\ read' = "asked" ELSE UNCHANGED <<at, read>>
    /\ UNCHANGED <<failed, restarts, due>>

HearsFailedStart ==
    /\ Head(events).name = "startup failed"
    /\ failed' = TRUE /\ at' = AfterFailure
    /\ UNCHANGED <<read, restarts, due>>

HearsStop ==
    /\ Stops(Head(events))
    /\ failed' = TRUE /\ at' = AfterFailure
    /\ IF restarts < RestartLimit
       THEN due' = TRUE /\ restarts' = restarts + 1
       ELSE UNCHANGED <<due, restarts>>
    /\ UNCHANGED read

HearsNothingNew ==
    /\ Head(events).name = "exited" /\ ~Stops(Head(events))
    /\ UNCHANGED <<at, read, failed, restarts, due>>

HearsEvent ==
    /\ listening /\ events # <<>>
    /\ events' = Tail(events)
    /\ HearsReady \/ HearsFailedStart \/ HearsStop \/ HearsNothingNew
    /\ UNCHANGED <<vars, wrote, listening, start, answer, ping, of, landed, astray>>

(***************************************************************************)
(* Restarts, a reload, the close                                           *)
(***************************************************************************)
Starting == at \in {"launching", "gate", "reading", "landing"}

\* Mutated: initializePromise is kept, so that a start that was left is taken
\* for the one to come.
LetsGoKeepsStart ==
    /\ at' = (IF Starting THEN at ELSE "stopped") /\ due' = FALSE
    /\ listening' = FALSE /\ events' = <<>>
    /\ answer' = Nobody /\ ping' = "none" /\ read' = "none"
    /\ astray' = astray \cup ({start} \cap {"asked", "stopping"})

\* What the page had asked and heard is nothing to it any more; a call that is
\* in flight goes on without it.
LetsGo ==
    /\ at' = "stopped" /\ due' = FALSE
    /\ listening' = FALSE /\ events' = <<>>
    /\ answer' = Nobody /\ ping' = "none" /\ read' = "none"
    /\ astray' = astray \cup ({start} \cap {"asked", "stopping"})

\* "Retry startup", the automatic restart, or a restored database: engine_stop.
Restarts ==
    /\ at \in {"failed", "ready"} \/ (failed /\ at # "stopped")
    /\ LetsGo
    /\ start' = "stopping"
    /\ UNCHANGED <<vars, wrote, of, failed, landed, restarts>>

\* "Reload" of the error surface: the page's own state starts over.
Reloads ==
    /\ at # "stopped" \/ start # "none"
    /\ LetsGo
    /\ start' = "none"
    /\ of' = Nobody /\ failed' = FALSE /\ landed' = FALSE /\ restarts' = 0
    /\ UNCHANGED <<vars, wrote>>

\* A confirmed close: the shell's own stop, of a page that goes with its window.
Closes ==
    /\ \E g \in Launches : Newest(g) /\ Ask(g)
    /\ UNCHANGED <<wrote, heard, store>>

StoreInit ==
    /\ Init
    /\ word = [g \in Launches |-> "unsaid"] /\ unread = {}
    /\ listening = FALSE /\ events = <<>>
    /\ start = "none" /\ answer = Nobody /\ ping = "none" /\ read = "none"
    /\ at = "stopped" /\ of = Nobody /\ failed = FALSE /\ landed = FALSE
    /\ restarts = 0 /\ due = FALSE /\ astray = {}

StoreNext ==
    \/ StartFails \/ AnswersPing \/ AnswersRead
    \/ \E g \in Launches :
        StartAnswers(g) \/ Writes(g) \/ ReadsWord(g) \/ Ends(g) \/ Tells(g)
    \/ Boots \/ Launched \/ NotLaunched \/ PingAnswered \/ GateTimesOut \/ ReadsIn \/ Lands
    \/ HearsEvent \/ Restarts \/ StopLooks \/ StopsIn \/ StrayStarts \/ StrayStops
    \/ Reloads \/ Closes

\* What the shell promises: an end is told, a process that a stop took ends, and
\* every call comes back.
ShellFairness ==
    /\ \A g \in Launches : WF_all(Tells(g)) /\ WF_all(asked[g] /\ Ends(g))
    /\ WF_all(StartFails \/ \E g \in Launches : StartAnswers(g))
    /\ WF_all(StopLooks \/ StopsIn) /\ WF_all(AnswersRead)

\* A page that goes on with what comes, and whose timers run out.
PageFairness ==
    /\ WF_all(HearsEvent) /\ WF_all(due /\ Restarts)
    /\ WF_all(Boots \/ Launched \/ NotLaunched \/ GateTimesOut \/ ReadsIn \/ Lands)

StoreSpec == StoreInit /\ [][StoreNext]_all /\ ShellFairness /\ PageFairness

(***************************************************************************)
(* Properties                                                              *)
(***************************************************************************)
EventOf == [name : {"ready", "startup failed"}]
    \cup [name : {"exited"}, of : Launches, graceful : BOOLEAN]

\* Every variable keeps its range.
StoreTypeOK ==
    /\ life \in [Launches -> {"none", "up", "gone"}]
    /\ asked \in [Launches -> BOOLEAN]
    /\ said \in [Launches -> {"nothing", "asked for", "by itself"}]
    /\ word \in [Launches -> {"unsaid", "ready", "startup failed"}]
    /\ unread \in SUBSET Launches
    /\ listening \in BOOLEAN /\ events \in Seq(EventOf)
    /\ start \in {"none", "asked", "answered", "stopping", "ending"}
    /\ answer \in Launches \cup {Nobody}
    /\ ping \in {"none", "asked", "answered"}
    /\ read \in {"none", "asked", "answered", "refused", "exited"}
    /\ at \in {"stopped", "launching", "gate", "reading", "landing", "ready", "failed"}
    /\ of \in Launches \cup {Nobody} /\ failed \in BOOLEAN /\ landed \in BOOLEAN
    /\ restarts \in 0..RestartLimit /\ due \in BOOLEAN
    /\ astray \subseteq {"asked", "stopping"}

\* A page that shows a process that stopped by itself hears of it, whichever of
\* the start's answer and the exit came first.
PageHears ==
    (at = "ready" /\ \E g \in Launches : g = of /\ life[g] = "gone" /\ ~asked[g])
        ~> (at # "ready" \/ failed \/ \E g \in Launches : g = of /\ asked[g])

\* A restart that the page promised comes to a start, and a start comes to its
\* end, whatever the process does and whatever was in flight when the start
\* before it was left (restartEngine, bootstrap, waitForEngineReady).
StartsEnd ==
    /\ due ~> at = "launching"
    /\ Starting ~> ~Starting
=============================================================================
