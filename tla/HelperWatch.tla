----------------------------- MODULE HelperWatch -----------------------------
(* The pictures helper's supervisor in the hardware link: it starts the     *)
(* helper, hears its lines, ends one that is silent, waits longer before    *)
(* each next start, tells it what the Cameras page wants, and ends it at    *)
(* the hardware link's stop.  Times are in ticks; the supervisor may be     *)
(* late by any number of them.                                              *)
EXTENDS Integers, Sequences, FiniteSetsExt, SequencesExt

CONSTANTS
    Wanted,         \* what the saved cameras want: inputs and the selected one
    Silence,        \* SILENCE
    LongestDelay,   \* LONGEST_RESTART_DELAY; the first delay is one tick
    ShowingTail,    \* SHOWING_TAIL
    MaxStarts,      \* bound: helpers started
    MaxWords,       \* bound: changes of what is wanted and words that it shows
    None

ASSUME WatchAssumption ==
    /\ {Silence, LongestDelay, ShowingTail, MaxStarts, MaxWords} \subseteq Nat \ {0}
    /\ None \notin Nat \cup Wanted

\* The powers of two up to the sixteenth, for the proofs: a fact of arithmetic.
ASSUME PowersAssumption == \A m, n \in 0..16 :
    m <= n => 2 ^ m \in Nat /\ m < 2 ^ m /\ 2 ^ m <= 2 ^ n

Helpers == 1..MaxStarts
StopGrace == 1

VARIABLES
    saved,      \* what the cameras want
    words,      \* changes, and words of the page that it shows the pictures
    proc,       \* each helper: "none", "up", "hung", "gone", "closed" (its
                \* output's end was handed over)
    stdin,      \* the last line written to it, until it reads it: one before
                \* tells it nothing more
    knows,      \* what it read last
    messages,   \* the supervisor's channel
    pass,       \* where the supervisor is: "begin", "first start", "receive",
                \* "exit", "tail", "tick", "stopping", "over"
    running,    \* its helper, or None
    launched,   \* generation
    phase,      \* "none", "running", "waiting", "missing"
    since,      \* ticks since the helper started
    heard,      \* ticks since it was heard, or started
    until,      \* ticks until the next start, or until a stop kills
    restarts,   \* ends in a row of helpers that did not stay up
    wanted,     \* what a helper is told
    showing,    \* ticks the pictures are still shown, or None
    status,     \* what the pages are told, and of which helper (a mark)
    stop,       \* the hardware link's stop: "no", "asked", "ended", "gave up"
    waited,     \* ticks since it was asked for
    gap,        \* ticks since a helper ended or could not be started (a mark)
    fails       \* ends in a row of helpers that were up too short (a mark)

helper == <<proc, stdin, knows>>
times == <<since, heard, until>>
supervision == <<phase, times, restarts>>
told == <<wanted, showing>>
stopping == <<stop, waited>>
marks == <<gap, fails>>
vars == <<saved, words, helper, messages, pass, running, launched, supervision, told,
          status, stopping, marks>>

Line(g, w) == [kind |-> "line", of |-> g, what |-> w]
Closed(g) == [kind |-> "closed", of |-> g, what |-> None]
Want(w) == [kind |-> "want", of |-> None, what |-> w]
Showing == [kind |-> "showing", of |-> None, what |-> None]
Stop == [kind |-> "stop", of |-> None, what |-> None]

Status(name, g, w) == [name |-> name, of |-> g, what |-> w]

\* Supervision::delay.
Doubled(n) == Min({2 ^ Min({n, 16}), LongestDelay})
\* A count or a time past `top` tells nothing more.
UpTo(top, n) == Min({n + 1, top})

\* The rest of a pass looks at the helper's process once, first: what others say
\* or do meanwhile is as if they had done it after.
BetweenPasses == pass \notin {"exit", "tail", "tick"}

(***************************************************************************)
(* The cameras and the page                                                *)
(***************************************************************************)
\* Mutated: the supervisor's sender is registered once its thread has begun.
SentOnceBegun(m) == IF pass \in {"begin", "first start", "over"} THEN messages ELSE Append(messages, m)

\* A supervisor that is over hears nothing.
Sent(m) == IF pass = "over" THEN messages ELSE Append(messages, m)

\* A vMix input or the selection changed, under the cameras' lock.
Changes ==
    /\ BetweenPasses /\ words < MaxWords
    /\ words' = words + 1
    /\ \E w \in Wanted \ {saved} : saved' = w /\ messages' = Sent(Want(w))
    /\ UNCHANGED <<helper, pass, running, launched, supervision, told, status, stopping, marks>>

\* The Cameras page shows the pictures, while requests are served.
Shows ==
    /\ BetweenPasses /\ stop = "no" /\ words < MaxWords
    /\ words' = words + 1
    /\ messages' = Sent(Showing)
    /\ UNCHANGED <<saved, helper, pass, running, launched, supervision, told,
                   status, stopping, marks>>

(***************************************************************************)
(* The helper and the reader of its output                                 *)
(***************************************************************************)
Reads(g) ==
    /\ proc[g] = "up" /\ stdin[g] # None
    /\ knows' = [knows EXCEPT ![g] = stdin[g]]
    /\ stdin' = [stdin EXCEPT ![g] = None]
    /\ UNCHANGED <<saved, words, proc, messages, pass, running, launched, supervision,
                   told, status, stopping, marks>>

\* Its beat, which says what it knows; one unread at a time.
Speaks(g) ==
    /\ BetweenPasses /\ proc[g] = "up" /\ knows[g] # None
    /\ \A m \in ToSet(messages) : m.kind = "line" => m.of # g
    /\ messages' = Sent(Line(g, knows[g].what))
    /\ UNCHANGED <<saved, words, helper, pass, running, launched, supervision, told,
                   status, stopping, marks>>

\* It hangs, or ends: by itself, or because its stdin was closed.
Fails(g) ==
    /\ BetweenPasses /\ proc[g] = "up"
    /\ \E how \in {"hung", "gone"} : proc' = [proc EXCEPT ![g] = how]
    /\ stdin' = [stdin EXCEPT ![g] = None] /\ knows' = [knows EXCEPT ![g] = None]
    /\ UNCHANGED <<saved, words, messages, pass, running, launched,
                   supervision, told, status, stopping, marks>>

Closes(g) ==
    /\ BetweenPasses /\ proc[g] = "gone"
    /\ proc' = [proc EXCEPT ![g] = "closed"]
    /\ messages' = Sent(Closed(g))
    /\ UNCHANGED <<saved, words, stdin, knows, pass, running, launched, supervision, told,
                   status, stopping, marks>>

(***************************************************************************)
(* What the supervisor does to the helper                                  *)
(***************************************************************************)
Now(w, shows) == [what |-> w, shows |-> shows]
\* One line of what is wanted, for the helper g.
Told(g, w, shows) ==
    IF g = None THEN stdin
    ELSE IF proc[g] # "up" THEN stdin
    ELSE [stdin EXCEPT ![g] = Now(w, shows)]

Shown(left) == left \notin {None, 0}

\* Supervision::take of an end, or of a start that failed.
WaitsAgain ==
    /\ phase' = "waiting" /\ until' = Doubled(restarts) /\ since' = 0 /\ heard' = 0
    /\ restarts' = UpTo(LongestDelay, restarts)
    /\ gap' = 0 /\ fails' = IF since >= LongestDelay THEN 1 ELSE UpTo(LongestDelay + 1, fails)
    /\ status' = Status("restarting", None, None)

\* Mutated: a helper whose output closed is taken for gone.
EndNotKilled ==
    /\ running' = None /\ UNCHANGED <<proc, stdin, knows>>
    /\ WaitsAgain

\* Killed and waited for.
End ==
    /\ proc' = [proc EXCEPT ![running] = IF @ = "closed" THEN @ ELSE "gone"]
    /\ stdin' = [stdin EXCEPT ![running] = None]
    /\ knows' = [knows EXCEPT ![running] = None]
    /\ running' = None
    /\ WaitsAgain

\* The program is not there or not this build's own; or it could not be started;
\* or it starts, and is told what is wanted.
Start(w) ==
    \/ /\ phase' = "missing" /\ status' = Status("missing", None, None)
       /\ until' = 0
       /\ UNCHANGED <<helper, running, launched, since, heard, restarts, marks>>
    \/ WaitsAgain /\ UNCHANGED <<helper, running, launched>>
    \/ LET g == launched + 1 IN
        /\ launched < MaxStarts
        /\ launched' = g /\ running' = g
        /\ proc' = [proc EXCEPT ![g] = "up"] /\ stdin' = [stdin EXCEPT ![g] = Now(w, Shown(showing))]
        /\ phase' = "running" /\ since' = 0 /\ heard' = 0 /\ until' = 0
        /\ status' = Status("starting", g, None)
        /\ gap' = None
        /\ UNCHANGED <<knows, restarts, fails>>

(***************************************************************************)
(* The supervisor's thread: saved_inputs and the first start, then a pass  *)
(* at a time: one message, if any, the helper's exit, the showing's tail   *)
(* and the supervision's look at the time.                                 *)
(***************************************************************************)
ReadsSaved ==
    /\ pass = "begin" /\ pass' = "first start"
    /\ \/ wanted' = saved
       \/ wanted' = None     \* could not be read: no camera
    /\ UNCHANGED <<saved, words, helper, messages, running, launched, supervision, showing,
                   status, stopping, marks>>

StartsFirst ==
    /\ pass = "first start" /\ pass' = "receive"
    /\ Start(wanted)
    /\ UNCHANGED <<saved, words, messages, told, stopping>>

\* Mutated: a line of a helper that was replaced is heard too.
IsCurrentAny(m) == running # None

IsCurrent(m) == running = m.of /\ running # None

\* Mutated: any line clears the doubling.
ClearedAtOnce == 0

\* Mutated: nothing clears the doubling.
NeverCleared == restarts

\* Only a helper that stayed up clears the doubling.
Cleared == IF since >= LongestDelay THEN 0 ELSE restarts

HearsLine(m) ==
    /\ m.kind = "line" /\ IsCurrent(m)
    /\ heard' = 0 /\ restarts' = Cleared
    /\ status' = Status("running", m.of, m.what)
    /\ UNCHANGED <<helper, running, phase, since, until, told, marks>>

HearsClosed(m) ==
    /\ m.kind = "closed" /\ IsCurrent(m)
    /\ End
    /\ UNCHANGED told

HearsOld(m) ==
    /\ m.kind \in {"line", "closed"} /\ ~IsCurrent(m)
    /\ UNCHANGED <<helper, running, supervision, told, status, marks>>

HearsWant(m) ==
    /\ m.kind = "want"
    /\ wanted' = m.what
    /\ stdin' = Told(running, m.what, Shown(showing))
    /\ UNCHANGED <<proc, knows, running, supervision, showing, status, marks>>

HearsShowing(m) ==
    /\ m.kind = "showing"
    /\ showing' = ShowingTail
    /\ stdin' = IF Shown(showing) THEN stdin ELSE Told(running, wanted, TRUE)
    /\ UNCHANGED <<proc, knows, running, supervision, wanted, status, marks>>

Receives ==
    /\ pass = "receive"
    /\ \/ /\ messages = <<>>
          /\ pass' = "exit"
          /\ UNCHANGED <<messages, helper, running, supervision, told, status, marks>>
       \/ LET m == Head(messages) IN
           /\ messages # <<>> /\ m # Stop
           /\ pass' = "exit" /\ messages' = Tail(messages)
           /\ HearsLine(m) \/ HearsClosed(m) \/ HearsOld(m) \/ HearsWant(m) \/ HearsShowing(m)
    /\ UNCHANGED <<saved, words, launched, stopping>>

SeesExit ==
    /\ pass = "exit" /\ pass' = "tail"
    /\ IF running # None /\ \E g \in Helpers : g = running /\ proc[g] \in {"gone", "closed"}
       THEN End
       ELSE UNCHANGED <<helper, running, supervision, status, marks>>
    /\ UNCHANGED <<saved, words, messages, launched, told, stopping>>

SeesTail ==
    /\ pass = "tail" /\ pass' = "tick"
    /\ IF showing = 0
       THEN showing' = None /\ stdin' = Told(running, wanted, FALSE)
       ELSE UNCHANGED <<showing, stdin>>
    /\ UNCHANGED <<saved, words, proc, knows, messages, running, launched, supervision,
                   wanted, status, stopping, marks>>

SeesTime ==
    /\ pass = "tick" /\ pass' = "receive"
    /\ \/ phase = "running" /\ heard > Silence /\ End /\ UNCHANGED launched
       \/ phase = "waiting" /\ until = 0 /\ Start(wanted)
       \/ /\ ~(phase = "running" /\ heard > Silence) /\ ~(phase = "waiting" /\ until = 0)
          /\ UNCHANGED <<helper, running, launched, supervision, status, marks>>
    /\ UNCHANGED <<saved, words, messages, told, stopping>>

\* The helper's stdin is closed; without a helper the supervisor is over.  What it
\* knew goes with it.
HearsStop ==
    /\ pass = "receive" /\ messages # <<>> /\ Head(messages) = Stop
    /\ messages' = <<>>
    /\ pass' = (IF running = None THEN "over" ELSE "stopping")
    /\ until' = (IF running = None THEN 0 ELSE StopGrace)
    /\ phase' = "none" /\ since' = 0 /\ heard' = 0 /\ restarts' = 0
    /\ wanted' = None /\ showing' = None /\ gap' = None /\ fails' = 0
    /\ UNCHANGED <<saved, words, helper, running, launched, status, stopping>>

\* It ended by itself, or its grace is over and it is killed.
StopsHelper ==
    /\ pass = "stopping" /\ pass' = "over"
    /\ running' = None
    /\ \E g \in Helpers :
        /\ g = running
        /\ proc[g] \in {"gone", "closed"} \/ until = 0
        /\ proc' = [proc EXCEPT ![g] = IF @ = "closed" THEN @ ELSE "gone"]
    /\ UNCHANGED <<saved, words, stdin, knows, messages, launched, supervision, told,
                   status, stopping, marks>>

(***************************************************************************)
(* The hardware link's stop: begin_stop, and finish after the backup       *)
(***************************************************************************)
AsksStop ==
    /\ BetweenPasses /\ stop = "no"
    /\ stop' = "asked" /\ waited' = 0
    /\ messages' = Sent(Stop)
    /\ UNCHANGED <<saved, words, helper, pass, running, launched, supervision, told,
                   status, marks>>

\* Mutated: finish goes on once the grace has passed.
HasEndedByNow == waited >= StopGrace

\* The supervisor said it has ended.
HasEnded == pass = "over"

Finishes ==
    /\ BetweenPasses /\ stop = "asked"
    /\ \/ HasEnded /\ stop' = "ended"
       \/ ~HasEnded /\ waited > StopGrace /\ stop' = "gave up"
    /\ status' = Status("unknown", None, None) /\ waited' = 0
    /\ UNCHANGED <<saved, words, helper, messages, pass, running, launched, supervision,
                   told, marks>>

Less(t) == IF t \in {None, 0} THEN t ELSE t - 1

Time ==
    /\ since' = IF phase = "running" THEN UpTo(LongestDelay + Silence, since) ELSE since
    /\ heard' = IF phase = "running" THEN UpTo(Silence + 1, heard) ELSE heard
    /\ until' = Less(until) /\ showing' = Less(showing)
    /\ waited' = IF stop = "asked" THEN UpTo(StopGrace + 1, waited) ELSE waited
    /\ gap' = IF gap = None THEN None ELSE UpTo(LongestDelay, gap)
    /\ UNCHANGED <<saved, words, helper, messages, pass, running, launched, phase,
                   restarts, wanted, status, stop, fails>>

Init ==
    /\ saved \in Wanted /\ words = 0
    /\ proc = [g \in Helpers |-> "none"]
    /\ stdin = [g \in Helpers |-> None] /\ knows = [g \in Helpers |-> None]
    /\ messages = <<>> /\ pass = "begin" /\ running = None /\ launched = 0
    /\ phase = "none" /\ since = 0 /\ heard = 0 /\ until = 0 /\ restarts = 0
    /\ wanted = None /\ showing = None
    /\ status = Status("unknown", None, None)
    /\ stop = "no" /\ waited = 0 /\ gap = None /\ fails = 0

Supervises ==
    \/ ReadsSaved \/ StartsFirst \/ Receives \/ SeesExit \/ SeesTail \/ SeesTime
    \/ HearsStop \/ StopsHelper

Next ==
    \/ Changes \/ Shows
    \/ \E g \in Helpers : Reads(g) \/ Speaks(g) \/ Fails(g) \/ Closes(g)
    \/ Supervises \/ AsksStop \/ Finishes \/ Time

\* The supervisor's thread runs and time passes; a helper that is up reads.
Spec == Init /\ [][Next]_vars
Fairness ==
    /\ WF_vars(Supervises) /\ WF_vars(Time)
    /\ WF_vars(\E g \in Helpers : Reads(g))
FairSpec == Spec /\ Fairness

(***************************************************************************)
(* Properties                                                              *)
(***************************************************************************)
Message == {Line(g, w) : g \in Helpers, w \in Wanted \cup {None}} \cup {Closed(g) : g \in Helpers}
    \cup {Want(w) : w \in Wanted} \cup {Showing, Stop}

\* Every variable keeps its range.
TypeOK ==
    /\ saved \in Wanted /\ words \in 0..MaxWords
    /\ proc \in [Helpers -> {"none", "up", "hung", "gone", "closed"}]
    /\ {stdin[g] : g \in Helpers} \cup {knows[g] : g \in Helpers} \subseteq
        {None} \cup [what : Wanted \cup {None}, shows : BOOLEAN]
    /\ messages \in Seq(Message)
    /\ pass \in {"begin", "first start", "receive", "exit", "tail", "tick", "stopping", "over"}
    /\ running \in Helpers \cup {None} /\ launched \in 0..MaxStarts
    /\ phase \in {"none", "running", "waiting", "missing"}
    /\ restarts \in 0..LongestDelay
    /\ since \in 0..LongestDelay + Silence /\ heard \in 0..Silence + 1
    /\ fails \in 0..LongestDelay + 1
    /\ until \in 0..LongestDelay
    /\ wanted \in Wanted \cup {None} /\ showing \in 0..ShowingTail \cup {None}
    /\ status \in [name : {"unknown", "starting", "running", "restarting", "missing"},
                   of : Helpers \cup {None}, what : Wanted \cup {None}]
    /\ stop \in {"no", "asked", "ended", "gave up"} /\ waited \in 0..StopGrace + 1
    /\ gap \in 0..LongestDelay \cup {None}

\* One helper at a time holds the PC's pictures, and none once the hardware
\* link's stop has heard that its supervisor ended.
OneHelper ==
    /\ \A g, h \in Helpers : {proc[g], proc[h]} \subseteq {"up", "hung"} => g = h
    /\ stop = "ended" => \A g \in Helpers : proc[g] \notin {"up", "hung"}

\* What the pages are told of the pictures is what the helper of the moment
\* says: a line that one ended for its silence left behind never brings its
\* pictures back.
StatusOfTheHelper ==
    /\ status.name \in {"starting", "running"} =>
        status.of = running \/ pass = "over"
    /\ status.name \in {"restarting", "missing"} => running = None

\* The wait doubles over helpers that end soon after their start, whatever
\* they say first.
BacksOff == [][launched' # launched =>
    gap = None \/ gap >= Doubled(fails - 1)]_vars

\* A helper that was heard after it had stayed up is not made to wait for the
\* ends of those before it: when it ends, by itself, for its silence or with its
\* output, the next start is one first delay away.
StartsSoonAgain == [][
    phase = "running" /\ heard <= Silence /\ since - heard >= LongestDelay
        /\ phase' = "waiting" => until' = Doubled(0)]_vars

\* A helper that hangs is ended, whatever the page says meanwhile.
SilenceEnds == \A g \in Helpers : proc[g] = "hung" ~> proc[g] # "hung"

\* What the cameras want reaches the helper of the moment, however the change
\* met the supervisor's start, unless the saved cameras could not be read.
WantReaches == \A w \in Wanted :
    (saved = w /\ wanted # None /\ running # None) ~>
        \/ saved # w \/ stop # "no"
        \/ \A g \in Helpers : proc[g] = "up" => knows[g] # None /\ knows[g].what = w
=============================================================================
