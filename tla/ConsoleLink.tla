----------------------------- MODULE ConsoleLink -----------------------------
(***************************************************************************)
(* What the app knows of TotalMix's console (rme_console_link.rs,          *)
(* audio/console_link.rs, audio/sync.rs, audio/load.rs): the sends that    *)
(* wait for their read-back, the reports that wait for a flush, the flush  *)
(* that writes them under the audio state's lock, the Sync and the load    *)
(* that read the desk whole, and the confidence the Console shows.         *)
(*                                                                         *)
(* The desk is TotalMix: it takes, ignores and reports values.  It hears a *)
(* message at once; its lines wait until the engine reads them.  Times are *)
(* ages in ticks of the link's clock (link_now_ms), so two things of one   *)
(* tick have one stamp.  Time passes at any point, also while the metering *)
(* thread waits for the database with lines unread.                        *)
(*                                                                         *)
(* Some orders of events make a Console read aligned over a wrong value.   *)
(* The model takes them all and only notes, in doubted, which values they  *)
(* befell: what is said of a Console is said of the others.                *)
(***************************************************************************)
EXTENDS Naturals, Sequences, SequencesExt, FiniteSets

CONSTANTS
    Faders,         \* mix nodes of one output's submix
    Switches,       \* channel flags, each of a channel of its own
    Submix, Status, Dump, Load, \* names of messages
    None,           \* nothing
    Top,            \* the highest level; 0 is off
    ReadbackDelay, ReplyQuiet, ConfirmTimeout,  \* READBACK_DELAY_MS ...
    PullQuiet, PullTimeout,                     \* PullTiming
    Budgets,        \* Bound: how many edits, turns, pulls and faults happen
    Latest,         \* Bound: how late a pass of the metering thread may be
    Excused         \* the mishaps whose values are noted as doubted

Keys == Faders \cup Switches
Values == 0..Top
Group(k) == IF k \in Faders THEN Submix ELSE k
Groups == {Submix} \cup Switches

(* Orders of events the code does not defend against, see the README.      *)
Mishaps == {"crossed twice", "tied", "unread before a pull", "expired in a pull",
            "outage in a pull", "write lost in a pull", "late end", "load unwritten"}

ASSUME ConsoleAssumption ==
    /\ IsFiniteSet(Keys) /\ Faders \cap Switches = {}
    /\ {Submix, Status, Dump, Load, None} \cap Keys = {} /\ Load \notin {Dump, None}
    /\ Top \in Nat \ {0}
    /\ ReadbackDelay \in Nat \ {0} /\ ReplyQuiet \in Nat \ {0}
    /\ ConfirmTimeout \in Nat /\ ReadbackDelay < ConfirmTimeout /\ PullQuiet \in Nat \ {0} /\ PullTimeout \in Nat
    /\ Budgets \subseteq [{"edits", "turns", "pulls", "faults"} -> Nat]
    /\ Latest \in Nat /\ Excused \subseteq Mishaps

(* A send that waits, a read-back that was asked, a pull, who holds the    *)
(* lock, a line of the desk's, a Sync or load.                             *)
Sends == [value : Values, sent : Nat, asked : Nat \cup {None}]
Requests == [asked : Nat, last : Nat \cup {None}]
PullProgress == [started : Nat, last : Nat \cup {None}, seen : SUBSET Faders]
Marks == [expired : BOOLEAN, gone : BOOLEAN, unread : BOOLEAN, outOfTouch : BOOLEAN]
Edits == [of : Keys, value : Values]
Flushes == [by : {"metering", "pull"}, marks : Marks, reports : [Keys -> Values \cup {None}]]
Lines == [of : Keys \cup {Status}, value : Values]
Syncs == [at : {"idle", "loading", "begun", "waiting", "ended", "flushed"},
          cause : {Load, Dump, None}, complete : BOOLEAN, seen : SUBSET Faders]

ASSUME NoneAssumption ==
    None \notin Nat \cup Sends \cup Requests \cup PullProgress \cup Edits \cup Flushes

VARIABLES
    desk,       \* what each of the desk's values is
    hidden,     \* the channels its layout hides
    touch,      \* whether remote 4 is on: "in", "out", "back" and not heard, or "again"
    toApp,      \* the lines on their way to the engine
    pending, outstanding, queued, pull,     \* ConsoleLinkState
    marks,      \* its expired sends and its three marks
    app, confidence,    \* the saved state
    editing, flushing,  \* who holds AUDIO_STATE_LOCK: an edit, a flush
    sync,       \* the request thread's Sync or load
    behind,     \* how many ticks ago the metering thread had its last pass
    doubted,    \* history: the values an excused mishap befell since they were read
    anew,       \* history: those of them it befell since the pull began
    left        \* how many edits, turns, pulls and faults are left

wires == <<desk, hidden, touch, toApp>>
link == <<pending, outstanding, queued, pull, marks>>
saved == <<app, confidence>>
doubts == <<doubted, anew>>
vars == <<wires, link, saved, editing, flushing, sync, behind, doubts, left>>

NoMarks == [expired |-> FALSE, gone |-> FALSE, unread |-> FALSE, outOfTouch |-> FALSE]
Idle == [at |-> "idle", cause |-> None, complete |-> FALSE, seen |-> {}]
NoReports == [k \in Keys |-> None]

LockFree == editing = None /\ flushing = None
Uses(what) == left[what] > 0 /\ left' = [left EXCEPT ![what] = @ - 1]

(* Values a mishap befalls are doubted until a pull that begins after it   *)
(* has read the desk.                                                      *)
Reads == sync.at \in {"begun", "waiting", "ended", "flushed"}
Hit(mishap, ks) == IF mishap \in Excused THEN ks ELSE {}
Befalls(ks) ==
    /\ doubted' = doubted \cup ks
    /\ anew' = IF Reads THEN anew \cup ks ELSE {}

-----------------------------------------------------------------------------
(* The desk.  It hears a datagram at once, unless remote 4 is off; its     *)
(* lines wait to be read.                                                  *)

Line(k) == [of |-> k, value |-> desk[k]]
StatusLine == [of |-> Status, value |-> 1]
GoneLine == [of |-> Status, value |-> 0]

(* A submix's answer lists no node that is off, and ends with a status.    *)
Listed(ks) == SetToSeq({Line(k) : k \in {k \in ks : k \in Switches \/ desk[k] > 0}})
AnswersOf(gs) ==
    Listed({k \in Keys : Group(k) \in gs}) \o IF Submix \in gs THEN <<StatusLine>> ELSE <<>>
TheDump == <<StatusLine>> \o Listed(Keys)

Hears == touch # "out"
(* It answers requests, takes a value, loads a mix it does not report.     *)
DeskAnswers(lines) == toApp' = IF Hears THEN toApp \o lines ELSE toApp
DeskTakes(k, v) ==
    desk' = IF Hears /\ k \notin hidden THEN [desk EXCEPT ![k] = v] ELSE desk
DeskLoads ==
    \E v \in {0, Top} : desk' = IF Hears THEN [k \in Keys |-> v] ELSE desk

(* Somebody changes a value at TotalMix, which reports it.                 *)
OnTheirWay(k) == Cardinality({i \in DOMAIN toApp : toApp[i].of = k})
DeskTurns(k, v) ==
    /\ v # desk[k] /\ Uses("turns")
    /\ desk' = [desk EXCEPT ![k] = v]
    /\ toApp' = IF touch = "out" THEN toApp ELSE Append(toApp, [of |-> k, value |-> v])
    /\ UNCHANGED <<hidden, touch, link, saved, editing, flushing, sync, behind, doubts>>

(* TotalMix's layout hides a channel: sends to it are dropped silently.    *)
DeskHides(k) ==
    /\ k \notin hidden /\ Uses("faults")
    /\ hidden' = hidden \cup {k}
    /\ UNCHANGED <<desk, touch, toApp, link, saved, editing, flushing, sync, behind, doubts>>

(* TotalMix says its interface is gone, and that it is back.               *)
DeskLosesInterface ==
    /\ touch \in {"in", "again"} /\ Uses("faults")
    /\ toApp' = toApp \o <<GoneLine, StatusLine>>
    /\ UNCHANGED <<desk, hidden, touch, link, saved, editing, flushing, sync, behind, doubts>>

(* Remote 4 is switched off, longer than two requests of the engine's and  *)
(* than the lines it sent before stay unread.                              *)
DeskGoesOut ==
    /\ touch = "in" /\ toApp = <<>> /\ Uses("faults")
    /\ touch' = "out"
    /\ UNCHANGED <<desk, hidden, toApp, link, saved, editing, flushing, sync, behind, doubts>>

(* It is on again; the engine's request for its values is the next asked.  *)
DeskComesBack ==
    /\ touch = "out"
    /\ touch' = "back"
    /\ toApp' = toApp \o TheDump
    /\ UNCHANGED <<desk, hidden, link, saved, editing, flushing, sync, behind, doubts, left>>

-----------------------------------------------------------------------------
(* The metering thread: it reads lines, advances the link's clocks, asks   *)
(* for read-backs and flushes.  While its flush waits it does nothing else.*)

MeteringRuns == flushing # None => flushing.by # "metering"

ValuesMatch(sent, reported) == sent = reported

(* A line answers a send that its own read-back, or a pull, was asked after*)
AskedByReadBack(request, send) == request # None /\ request.asked <= send.sent
AskedByPull(send) == pull # None /\ pull.started < send.sent

Answers(k) ==
    AskedByReadBack(outstanding[Group(k)], pending[k]) \/ AskedByPull(pending[k])

Queues(k, v) == queued' = [queued EXCEPT ![k] = v]
Settles(k) == pending' = [pending EXCEPT ![k] = None]

Confirms(k, v) == Settles(k) /\ Queues(k, v)

Replied(request) == IF request = None THEN None ELSE [request EXCEPT !.last = 0]

IngestValue(k, v) ==
    /\ outstanding' = [outstanding EXCEPT ![Group(k)] = Replied(outstanding[Group(k)])]
    /\ \/ pending[k] = None /\ Queues(k, v) /\ UNCHANGED pending
       \/ /\ pending[k] # None /\ ValuesMatch(pending[k].value, v)
          /\ Confirms(k, v)
       \/ /\ pending[k] # None /\ ~ValuesMatch(pending[k].value, v)
          /\ IF Answers(k) THEN Settles(k) /\ Queues(k, v)
                           ELSE UNCHANGED <<pending, queued>>

(* A status line ends a submix's answer that listed nothing.               *)
IngestStatus ==
    /\ outstanding' = IF outstanding[Submix] # None /\ outstanding[Submix].last = None
                      THEN [outstanding EXCEPT ![Submix] = Replied(outstanding[Submix])]
                      ELSE outstanding
    /\ UNCHANGED <<pending, queued>>

(* What a pull has read, until it is written.                              *)
Seen == IF pull # None THEN pull.seen ELSE sync.seen

(* Mishap: a level the dump left out is read between its end and aligned,  *)
(* or one it listed was turned off in an outage since.                     *)
ReadLate(line) ==
    Hit("late end", IF sync.at \in {"ended", "flushed"} THEN {line.of} \cap (Faders \ sync.seen) ELSE {})
MissedOff == Hit("outage in a pull", IF Reads /\ touch = "back" THEN Seen ELSE {})

(* read_global_packets, ingest: one line.                                  *)
Ingest ==
    /\ toApp # <<>> /\ MeteringRuns
    /\ toApp' = Tail(toApp)
    /\ touch' = IF touch = "back" THEN "again" ELSE touch
    /\ LET line == Head(toApp) IN
       /\ marks' = [marks EXCEPT !.outOfTouch = @ \/ touch = "back",
                                 !.gone = @ \/ line = GoneLine]
       /\ pull' = IF pull = None THEN None
                  ELSE [pull EXCEPT !.last = 0, !.seen = @ \cup ({line.of} \cap Faders)]
       /\ IF line.of = Status THEN IngestStatus ELSE IngestValue(line.of, line.value)
       /\ Befalls(ReadLate(line) \cup MissedOff)
    /\ UNCHANGED <<desk, hidden, saved, editing, flushing, sync, behind, left>>

(* tick, its first half: answers that went quiet.                          *)
Quiet(g) ==
    /\ outstanding[g] # None
    /\ outstanding[g].last # None /\ outstanding[g].last >= ReplyQuiet

(* Mutant: only the request's own sends are answered.                      *)
ReadBackAnswersExactly(k) ==
    /\ pending[k].asked # None /\ pending[k].asked = outstanding[Group(k)].asked
ReadBackAnswers(k) ==
    /\ pending[k].asked # None /\ pending[k].asked >= outstanding[Group(k)].asked

ConfirmedByAbsence(k) ==
    /\ k \in Faders /\ pending[k] # None /\ pending[k].value = 0
    /\ Quiet(Submix) /\ ReadBackAnswers(k)

(* tick, its second half: sends that were never answered.                  *)
Expires(k) ==
    pending[k] # None /\ ~ConfirmedByAbsence(k) /\ pending[k].sent >= ConfirmTimeout

DueReadback(k) ==
    /\ pending[k] # None /\ ~ConfirmedByAbsence(k) /\ ~Expires(k)
    /\ pending[k].asked = None /\ pending[k].sent >= ReadbackDelay

(* Mishap: a send expires before the pull it was made in has written.      *)
ExpiresInPull ==
    Hit("expired in a pull",
        {k \in Keys : Reads /\ Expires(k) /\ (pull # None => pending[k].sent <= pull.started)})

(* service_console_link, once a pass has read every line: tick, then       *)
(* due_readbacks.                                                          *)
Service ==
    /\ MeteringRuns /\ toApp = <<>>
    /\ LET asks == {Group(k) : k \in {k \in Keys : DueReadback(k)}} IN
       /\ pending' = [k \in Keys |->
              IF ConfirmedByAbsence(k) \/ Expires(k) THEN None
              ELSE IF DueReadback(k) THEN [pending[k] EXCEPT !.asked = 0] ELSE pending[k]]
       /\ outstanding' = [g \in Groups |->
              IF g \in asks THEN [asked |-> 0, last |-> None]
              ELSE IF outstanding[g] = None \/ Quiet(g) THEN None
              ELSE IF outstanding[g].asked >= ConfirmTimeout THEN None ELSE outstanding[g]]
       /\ DeskAnswers(AnswersOf(asks))
    /\ queued' = [k \in Keys |-> IF ConfirmedByAbsence(k) THEN 0 ELSE queued[k]]
    /\ marks' = [marks EXCEPT !.expired = @ \/ \E k \in Keys : Expires(k)]
    /\ behind' = 0
    /\ Befalls(ExpiresInPull)
    /\ UNCHANGED <<desk, hidden, touch, pull, saved, editing, flushing, sync, left>>

(* PullProgress::is_complete.                                              *)
Complete == pull.last # None /\ pull.last >= PullQuiet

(* The link's clock: every age grows.  The metering thread may be late by  *)
(* Latest; the request thread polls before its pull is older than its      *)
(* timeout (a bound: an older one ends no other way).                      *)
Older(age) == IF age = None THEN None ELSE age + 1

Waits ==
    \/ pull # None
    \/ \E k \in Keys : pending[k] # None
    \/ \E g \in Groups : outstanding[g] # None

Tick ==
    /\ Waits /\ behind < Latest
    /\ pull # None => pull.started < PullTimeout
    /\ pending' = [k \in Keys |-> IF pending[k] = None THEN None ELSE
           [pending[k] EXCEPT !.sent = Older(@), !.asked = Older(@)]]
    /\ outstanding' = [g \in Groups |-> IF outstanding[g] = None THEN None ELSE
           [asked |-> Older(outstanding[g].asked), last |-> Older(outstanding[g].last)]]
    /\ pull' = IF pull = None THEN None
               ELSE [pull EXCEPT !.started = Older(@), !.last = Older(@)]
    /\ behind' = behind + 1
    /\ UNCHANGED <<desk, hidden, touch, toApp, queued, marks, saved, editing, flushing, sync, doubts, left>>

-----------------------------------------------------------------------------
(* An edit (update_audio_channel, update_audio_mix_target): under the lock *)
(* it is sent, then registered with the link, then written.  Nobody reads  *)
(* or writes the saved state before the lock is free, so the write is one  *)
(* with the registration.                                                  *)

Registers(k, v) ==
    pending' = [pending EXCEPT ![k] = [value |-> v, sent |-> 0, asked |-> None]]

(* Mishap: a second line of the value was on its way when it was sent, or  *)
(* the desk drops the send: a line can confirm a send it is older than.    *)
CrossedTwice(k) ==
    Hit("crossed twice", IF OnTheirWay(k) > 1 \/ (OnTheirWay(k) = 1 /\ k \in hidden)
                         THEN {k} ELSE {})

EditSends(k, v) ==
    /\ LockFree /\ Uses("edits")
    /\ editing' = [of |-> k, value |-> v]
    /\ DeskTakes(k, v)
    /\ Befalls(CrossedTwice(k))
    /\ UNCHANGED <<hidden, touch, toApp, link, saved, flushing, sync, behind>>

(* Mishap: the send has the stamp of its submix's request, so a line from  *)
(* before the send is taken as the request's answer to it.                 *)
Tied(k) ==
    Hit("tied", IF outstanding[Group(k)] # None /\ outstanding[Group(k)].asked = 0
                   /\ OnTheirWay(k) > 0 THEN {k} ELSE {})

EditEnds ==
    /\ editing # None
    /\ Registers(editing.of, editing.value)
    /\ Befalls(Tied(editing.of))
    /\ editing' = None
    /\ \/ app' = [app EXCEPT ![editing.of] = editing.value] /\ UNCHANGED left
       \/ Uses("faults") /\ UNCHANGED app       \* the write fails
    /\ UNCHANGED <<wires, outstanding, queued, pull, marks, confidence, flushing, sync, behind>>

-----------------------------------------------------------------------------
(* A flush (flush_console_link): the metering thread's, and a pull's own.  *)

HasActivity == marks # NoMarks \/ \E k \in Keys : queued[k] # None

Takes(by) ==
    /\ flushing' = [by |-> by, marks |-> marks,
           reports |-> [k \in Keys |-> IF pending[k] = None THEN queued[k] ELSE None]]
    /\ queued' = NoReports
    /\ marks' = NoMarks
    /\ UNCHANGED <<wires, pending, outstanding, pull, saved, editing, sync, behind, doubts, left>>

(* Mutant: the reports are taken before the lock is held.                  *)
MayTakeUnlocked == flushing = None
MayTake == LockFree

FlushTakes ==
    /\ HasActivity /\ MayTake
    /\ Takes("metering") \/ (sync.at = "ended" /\ Takes("pull"))

(* apply_console_activity_locked: which confidence its last write leaves.  *)
ConfidenceAfter(held) ==
    IF held.gone \/ held.unread THEN "unknown"
    ELSE IF held.expired \/ (held.outOfTouch /\ confidence # "unknown") THEN "assumed"
    ELSE confidence

(* Mutant: a failed write is not told to the link.                         *)
MarksAfterFailureForgotten == marks

(* What the link is told of a write that failed: mark_reports_lost.        *)
MarksAfterFailure == [marks EXCEPT !.unread = TRUE]

PullGoesOn(written) ==
    sync' = IF flushing.by # "pull" THEN sync
            ELSE IF written THEN [sync EXCEPT !.at = "flushed"] ELSE Idle

FlushWrites ==
    /\ flushing # None /\ editing = None
    /\ app' = [k \in Keys |-> IF flushing.reports[k] = None THEN app[k] ELSE flushing.reports[k]]
    /\ confidence' = ConfidenceAfter(flushing.marks)
    /\ PullGoesOn(TRUE)
    /\ flushing' = None
    /\ UNCHANGED <<wires, link, editing, behind, doubts, left>>

(* Mishap: the reports a pull counts as read are lost.                     *)
LostInPull ==
    Hit("write lost in a pull", {k \in Keys : Reads /\ flushing.reports[k] # None})

FlushFails ==
    /\ flushing # None /\ editing = None
    /\ Uses("faults")
    /\ marks' = MarksAfterFailure
    /\ PullGoesOn(FALSE)
    /\ IF flushing.by = "metering" THEN Befalls(LostInPull) ELSE doubted' = doubted /\ anew' = {}
    /\ flushing' = None
    /\ UNCHANGED <<wires, pending, outstanding, queued, pull, saved, editing, behind>>

-----------------------------------------------------------------------------
(* A Sync and a load (pull_console_state, load_audio_console_snapshot).    *)

LoadGoesOut ==
    /\ sync = Idle /\ Uses("pulls")
    /\ DeskLoads
    /\ sync' = [Idle EXCEPT !.at = "loading", !.cause = Load]
    /\ UNCHANGED <<hidden, touch, toApp, link, saved, editing, flushing, behind, doubts>>

(* Mishap: an unread line of before the load, or of before a send, will be *)
(* taken as the pull's.                                                    *)
Unread ==
    Hit("unread before a pull",
        {k \in Keys : /\ OnTheirWay(k) > 0
                      /\ sync.at = "loading" \/ (pending[k] # None /\ pending[k].sent > 0)})

(* begin_pull: a Sync's, or a load's once its wait for TotalMix's word is  *)
(* over.  It reads every value anew.                                       *)
PullBegins ==
    /\ \/ sync = Idle /\ Uses("pulls") /\ sync' = [Idle EXCEPT !.at = "begun", !.cause = Dump]
       \/ sync.at = "loading" /\ sync' = [sync EXCEPT !.at = "begun"] /\ UNCHANGED left
    /\ doubted' = doubted \cup Unread
    /\ anew' = Unread \cup {k \in doubted : OnTheirWay(k) > 0}
    /\ pull' = [started |-> 0, last |-> None, seen |-> {}]
    /\ UNCHANGED <<wires, pending, outstanding, queued, marks, saved, editing, flushing, behind>>

PullAsks ==
    /\ sync.at = "begun"
    /\ DeskAnswers(TheDump)
    /\ sync' = [sync EXCEPT !.at = "waiting"]
    /\ UNCHANGED <<desk, hidden, touch, link, saved, editing, flushing, behind, doubts, left>>

PullEnds ==
    /\ sync.at = "waiting"
    /\ ~Complete => pull.started >= PullTimeout
    /\ sync' = [sync EXCEPT !.at = "ended", !.complete = Complete, !.seen = pull.seen]
    /\ pull' = None
    /\ UNCHANGED <<wires, pending, outstanding, queued, marks, saved, editing, flushing, behind, doubts, left>>

(* Its own flush finds nothing to write.                                   *)
PullHasNothing ==
    /\ sync.at = "ended" /\ ~HasActivity
    /\ flushing # None => flushing.by # "pull"
    /\ sync' = [sync EXCEPT !.at = "flushed"]
    /\ UNCHANGED <<wires, link, saved, editing, flushing, behind, doubts, left>>

(* zero_absent_mix_nodes.                                                  *)
AbsentOff == [k \in Keys |-> IF k \in Faders \ sync.seen THEN 0 ELSE app[k]]

PullAligns ==
    /\ sync.at = "flushed" /\ sync.complete /\ LockFree
    /\ app' = AbsentOff
    /\ confidence' = "aligned"
    /\ sync' = Idle
    /\ doubted' = anew /\ anew' = {}
    /\ UNCHANGED <<wires, link, editing, flushing, behind, left>>

(* No answer, or a dump that never ended; and what a load does about it.   *)
PullFails ==
    /\ sync.at = "flushed" /\ ~sync.complete /\ LockFree
    /\ confidence' = "unknown"
    /\ sync' = Idle
    /\ anew' = {}
    /\ UNCHANGED <<wires, link, app, editing, flushing, behind, doubted, left>>

(* Its last write fails.  Mishap: a load's, which changed the whole desk.  *)
PullUnwritten ==
    /\ sync.at = "flushed" /\ LockFree
    /\ Uses("faults")
    /\ sync' = Idle
    /\ doubted' = doubted \cup Hit("load unwritten", IF sync.cause = Load THEN Keys ELSE {})
    /\ anew' = {}
    /\ UNCHANGED <<wires, link, saved, editing, flushing, behind>>

-----------------------------------------------------------------------------
(* mark_console_unread_at_start.                                           *)
ConfidenceAtStart == IF confidence = "unknown" THEN "unknown" ELSE "assumed"

(* The engine ends, wherever it is, and is started again.  A desk that is  *)
(* out is still marked when it is heard; the code marks nothing that was   *)
(* out before the start, which took aligned away already.                  *)
Restart ==
    /\ Uses("faults")
    /\ touch' = IF touch = "back" THEN "again" ELSE touch
    /\ toApp' = <<>>
    /\ pending' = [k \in Keys |-> None] /\ outstanding' = [g \in Groups |-> None]
    /\ queued' = NoReports /\ marks' = NoMarks /\ pull' = None
    /\ editing' = None /\ flushing' = None /\ sync' = Idle /\ behind' = 0
    /\ doubted' = {} /\ anew' = {}
    /\ confidence' = ConfidenceAtStart
    /\ UNCHANGED <<desk, hidden, app>>

Init ==
    /\ desk \in [Keys -> Values] /\ hidden = {} /\ touch = "in" /\ toApp = <<>>
    /\ pending = [k \in Keys |-> None] /\ outstanding = [g \in Groups |-> None]
    /\ queued = NoReports /\ marks = NoMarks /\ pull = None
    /\ app = desk /\ confidence = "aligned"
    /\ editing = None /\ flushing = None /\ sync = Idle /\ behind = 0
    /\ doubted = {} /\ anew = {}
    /\ left \in Budgets

DeskStep ==
    \/ \E k \in Keys, v \in Values : DeskTurns(k, v)
    \/ (\E k \in Keys : DeskHides(k)) \/ DeskLosesInterface \/ DeskGoesOut \/ DeskComesBack
Metering == Ingest \/ Service \/ Tick
Edit == (\E k \in Keys, v \in Values : EditSends(k, v)) \/ EditEnds
Flush == FlushTakes \/ FlushWrites \/ FlushFails
Pull == \/ LoadGoesOut \/ PullBegins \/ PullAsks \/ PullEnds \/ PullHasNothing
        \/ PullAligns \/ PullFails \/ PullUnwritten

Next == DeskStep \/ Metering \/ Edit \/ Flush \/ Pull \/ Restart
Spec == Init /\ [][Next]_vars

-----------------------------------------------------------------------------
TypeOK ==
    /\ desk \in [Keys -> Values] /\ app \in [Keys -> Values]
    /\ hidden \subseteq Keys /\ touch \in {"in", "out", "back", "again"}
    /\ toApp \in Seq(Lines)
    /\ pending \in [Keys -> Sends \cup {None}]
    /\ outstanding \in [Groups -> Requests \cup {None}]
    /\ queued \in [Keys -> Values \cup {None}]
    /\ marks \in Marks /\ pull \in PullProgress \cup {None}
    /\ confidence \in {"aligned", "assumed", "unknown"}
    /\ editing \in Edits \cup {None} /\ flushing \in Flushes \cup {None}
    /\ sync \in Syncs
    /\ behind \in Nat /\ doubted \subseteq Keys /\ anew \subseteq Keys
    /\ left \in [{"edits", "turns", "pulls", "faults"} -> Nat]

(* Nothing about k is on its way, waits in the link or is being written.   *)
Still(k) ==
    /\ pending[k] = None /\ queued[k] = None /\ LockFree /\ sync = Idle
    /\ marks = NoMarks /\ touch \in {"in", "again"} /\ toApp = <<>>

(* A Console that reads aligned shows what the desk holds, once what is    *)
(* under way has ended, of every value no mishap befell since a pull read  *)
(* it (audio/sync.rs: only then it writes aligned).                        *)
AlignedIsTrue ==
    confidence = "aligned" => \A k \in Keys \ doubted : Still(k) => app[k] = desk[k]

SentAgain(k) == editing # None /\ editing.of = k

(* A send whose value the desk holds is answered before it expires,        *)
(* whatever other sends restamp its read-back (rme_console_link.rs,        *)
(* read_back_answers), as long as the desk never went out of touch, tells  *)
(* what it holds (a Sync has asked after a load), lets the answers to      *)
(* those sends go quiet, and the metering thread is not so late that the   *)
(* send's time is over before a pass could ask for it.                     *)
AnsweredInTime ==
    touch = "in" /\ sync.at \notin {"loading", "begun"} =>
        \A k \in Keys : Expires(k) =>
            \/ pending[k].value # desk[k] \/ OnTheirWay(k) > 0 \/ SentAgain(k)
            \/ outstanding[Group(k)] # None /\ ~Quiet(Group(k))
            \/ pending[k].asked = None /\ behind > ConfirmTimeout - ReadbackDelay

(* A flush never writes a report over a value the app sent after the       *)
(* report was taken (flush_console_link: the lock is held from before the  *)
(* reports are taken to the write).                                        *)
EditStands ==
    [][\A k \in Keys : flushing # None /\ app' # app /\ pending[k] # None
           => app'[k] = app[k] \/ editing # None]_vars
=============================================================================
