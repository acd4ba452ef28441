----------------------------- MODULE CameraTake -----------------------------
(***************************************************************************)
(* CAM 1's takes: the camera's link (cameras/pocket/link.rs, winrt.rs,     *)
(* state.rs), what the runtime keeps of the camera (cameras/runtime.rs,    *)
(* real_link.rs), a press in its two spells under the cameras' lock with   *)
(* the wait between them (commands.rs, sending.rs), and the deck's REC,    *)
(* which starts a take at one press and stops it at two (deck.rs).         *)
(*                                                                         *)
(* A spell under the lock is one action, the read of the camera it begins  *)
(* with included.  The link's thread, its notifier, the camera, the wait   *)
(* of the press and time run beside it.  A link that was let go may still  *)
(* have orders to take while the next is held.                             *)
(***************************************************************************)
EXTENDS Naturals, Sequences

CONSTANTS
    None,           \* Rust's None
    Links,          \* 1..n: the links that may run at once, an ended one's place free again
    Dwell,          \* STOP_ARM_DWELL, in ticks
    Window,         \* STOP_ARM_WINDOW
    ShownFor,       \* STOP_SHOWN_FOR
    MaxInbox,       \* bound: orders that wait for a link's thread
    MaxNow          \* bound: the clock

ASSUME CameraAssumption ==
    /\ Links \subseteq Nat \ {0} /\ 1 \in Links
    /\ Dwell \in Nat \ {0} /\ Window \in Nat /\ ShownFor \in Nat
    /\ Dwell <= Window /\ Window <= ShownFor
    /\ MaxInbox \in Nat /\ MaxNow \in Nat
    /\ None \notin {"on", "off", "unknown"} \cup Nat

VARIABLES
    camera,     \* whether the camera records: "on" or "off"
    link,       \* each link: thread, inbox, LinkState, notifier
    cam,        \* the runtime's CAM 1 (CameraRuntime, Cameras, RealLinks)
    press,      \* the press that holds the gate
    now,
    over,       \* since the stop was armed a read found the take over, or CAM 1 gone
    acted       \* the latest deck press that started or stopped a take

vars == <<camera, link, cam, press, now, over, acted>>

Takes == {"on", "off"}

(* What reaches a link's thread.  A late order's press has stopped waiting. *)
Order(what, rec) == [what |-> what, rec |-> rec, late |-> FALSE]

LetGo == Order("letgo", "unknown")

NoLink == [thread |-> "none", subscribed |-> FALSE, conn |-> "starting", rec |-> "unknown",
           reported |-> FALSE, fresh |-> FALSE, inbox |-> <<>>, writes |-> Order("none", "unknown"),
           queued |-> FALSE, notifier |-> "idle"]

(* PocketLink::start, from what the camera last reported.                  *)
Started(last) == [NoLink EXCEPT !.thread = "session",
                                !.rec = IF last = None THEN "unknown" ELSE last]

NoPress == [pc |-> "none", rec |-> "off", deck |-> FALSE, at |-> 0, ok |-> FALSE]

-----------------------------------------------------------------------------
(* What the runtime reads.                                                 *)

Answers(c) == c.pocket # 0 /\ link[c.pocket].conn = "connected"

(* take_changes has moved on: an armed stop is about a take that may be    *)
(* over.                                                                   *)
CountsChange(c) == IF c.arm = None THEN c ELSE [c EXCEPT !.arm.stale = TRUE]

(* Mutant: a camera that answers again does not count.                     *)
ReadCountingTakesOnly(c) ==
    IF ~c.setUp \/ c.released THEN c
    ELSE IF ~Answers(c) THEN [c EXCEPT !.failure = TRUE]
    ELSE LET lk == link[c.pocket]
             rec == IF c.rec # None /\ ~lk.reported THEN c.rec ELSE lk.rec
             read == [c EXCEPT !.rec = rec, !.failure = FALSE]
         IN  IF (IF c.rec = None THEN "unknown" ELSE c.rec) # rec
             THEN CountsChange(read) ELSE read

(* Cameras::read with take_reading: while the camera has reported nothing  *)
(* since it connected, what was read last stays.                           *)
Read(c) ==
    IF ~c.setUp \/ c.released THEN c
    ELSE IF ~Answers(c) THEN [c EXCEPT !.failure = TRUE]
    ELSE LET lk == link[c.pocket]
             rec == IF c.rec # None /\ ~lk.reported THEN c.rec ELSE lk.rec
             read == [c EXCEPT !.rec = rec, !.failure = FALSE]
         IN  IF c.failure \/ (IF c.rec = None THEN "unknown" ELSE c.rec) # rec
             THEN CountsChange(read) ELSE read

Held(c) == c.setUp /\ ~c.released /\ ~c.failure

TakeMayBeOver(c) == ~Held(c) \/ c.rec # "on"

(* A spell under the lock leaves the runtime as c.                         *)
Keeps(c) ==
    /\ cam' = c
    /\ over' = (over \/ TakeMayBeOver(c))

-----------------------------------------------------------------------------
(* The link's thread.                                                      *)

Open(lk) == lk.thread = "open"
Next1(lk) == Head(lk.inbox)
Takes1(lk) == [lk EXCEPT !.inbox = Tail(@)]

(* Something the page shows changed.                                       *)
Noticed(lk) == [lk EXCEPT !.queued = TRUE]

(* What a link that was let go has heard nobody reads any more (a look of  *)
(* its notifier is a look like any other).                                 *)
Unread(lk) == [NoLink EXCEPT !.thread = lk.thread, !.subscribed = lk.subscribed,
                             !.conn = "stopped", !.inbox = lk.inbox, !.writes = lk.writes]

LinkStep(l, lk) ==
    /\ link' = [link EXCEPT ![l] = IF cam.pocket = l \/ lk = NoLink THEN lk ELSE Unread(lk)]
    /\ UNCHANGED <<camera, cam, now, over, acted>>

(* The end of a pass of serve: a link nobody holds any more ends.          *)
Passes(l, lk) == [lk EXCEPT !.thread = IF cam.pocket = l THEN "open" ELSE "ends"]

(* A message handled by serve, or by wait_to_retry.                        *)
Handled(l, lk) == IF Open(link[l]) THEN Passes(l, lk) ELSE lk

(* The press that waits hears how it went; nobody else does.               *)
Replies(order, ok) ==
    press' = IF order.late \/ press.pc # "waiting" THEN press
             ELSE [press EXCEPT !.pc = "answered", !.ok = ok]

(* session: the device, its pairing and the GATT session stand ...         *)
SessionOpens(l) ==
    /\ link[l].thread = "session"
    /\ LinkStep(l, [link[l] EXCEPT !.thread = "open"])
    /\ UNCHANGED press

(* ... or not: the link says why, and tries again after RETRY.  The same   *)
(* failure again says nothing.                                             *)
SessionFails(l) ==
    LET lk == link[l]
        failed == [lk EXCEPT !.thread = "retry", !.conn = "stopped"]
    IN  /\ lk.thread = "session"
        /\ LinkStep(l, IF lk.conn = "stopped" THEN failed ELSE Noticed(failed))
        /\ UNCHANGED press

Retries(l) ==
    /\ link[l].thread = "retry"
    /\ LinkStep(l, [link[l] EXCEPT !.thread = "session"])
    /\ UNCHANGED press

(* The subscriptions are made: connected, and nothing reported yet.  The   *)
(* camera sends its settings, or nothing until one changes.                *)
Subscribes(l) ==
    LET lk == link[l]
    IN  /\ Open(lk) /\ ~lk.subscribed
        /\ \E sent \in {<<>>, <<Order("control", camera)>>} :
              LinkStep(l, Noticed([lk EXCEPT !.subscribed = TRUE, !.conn = "connected",
                                             !.reported = FALSE, !.fresh = FALSE,
                                             !.inbox = @ \o sent]))
        /\ UNCHANGED press

(* A press whose deadline has passed is not sent, nor one while the camera *)
(* is not connected.                                                       *)
RefusesOrder(l) ==
    LET lk == link[l]
    IN  /\ lk.thread \in {"retry", "open"} /\ lk.inbox # <<>> /\ Next1(lk).what = "send"
        /\ lk.thread = "retry" \/ Next1(lk).late \/ ~lk.subscribed
        /\ Replies(Next1(lk), FALSE)
        /\ LinkStep(l, Handled(l, Takes1(lk)))

BeginsWrite(l) ==
    LET lk == link[l]
    IN  /\ Open(lk) /\ lk.subscribed /\ lk.inbox # <<>>
        /\ Next1(lk).what = "send" /\ ~Next1(lk).late
        /\ LinkStep(l, [Takes1(lk) EXCEPT !.thread = "writing", !.writes = Next1(lk)])
        /\ UNCHANGED press

(* The camera's reports reach every link that listens, unless its          *)
(* connection has just gone.                                               *)
Listens(lk) ==
    lk.subscribed /\ \A i \in 1..Len(lk.inbox) : lk.inbox[i].what # "dropped"

HearsOf(rec, links) ==
    [l \in Links |-> IF Listens(links[l])
                     THEN [links[l] EXCEPT !.inbox = Append(@, Order("control", rec))]
                     ELSE links[l]]

(* The message reaches the camera: a start or a stop of a take.            *)
WriteLands(l) ==
    LET rec == link[l].writes.rec
        written == [link EXCEPT ![l].thread = "written"]
    IN  /\ link[l].thread = "writing"
        /\ camera' = rec
        /\ link' = IF rec = camera THEN written ELSE HearsOf(rec, written)
        /\ UNCHANGED <<cam, press, now, over, acted>>

(* The write is done; or it failed, or was withdrawn at the deadline, and  *)
(* may have reached the camera all the same.                               *)
WriteEnds(l) ==
    LET lk == link[l]
    IN  /\ lk.thread \in {"writing", "written"}
        /\ \/ lk.thread = "written" /\ ~lk.writes.late /\ Replies(lk.writes, TRUE)
           \/ Replies(lk.writes, FALSE)
        /\ LinkStep(l, Passes(l, [lk EXCEPT !.writes = NoLink.writes]))

(* What the camera reported is read into the link's reading.               *)
HearsReport(l) ==
    LET lk == link[l]
        heard == Passes(l, [Takes1(lk) EXCEPT !.rec = Next1(lk).rec, !.reported = TRUE])
    IN  /\ lk.inbox # <<>> /\ Next1(lk).what = "control"
        /\ \/ Open(lk) /\ LinkStep(l, IF lk.rec = Next1(lk).rec THEN heard
                                      ELSE Noticed([heard EXCEPT !.fresh = TRUE]))
           \/ lk.thread = "retry" /\ LinkStep(l, Takes1(lk))
        /\ UNCHANGED press

(* The connection went: Windows has mended it meanwhile and the            *)
(* subscriptions are renewed, or it is lost.                               *)
HearsDrop(l) ==
    LET lk == link[l]
        lost == Passes(l, [Takes1(lk) EXCEPT !.subscribed = FALSE, !.conn = "lost"])
    IN  /\ lk.inbox # <<>> /\ Next1(lk).what = "dropped"
        /\ \/ /\ (Open(lk) /\ lk.subscribed) \/ lk.thread = "retry"
              /\ LinkStep(l, Handled(l, Takes1(lk)))
           \/ Open(lk) /\ LinkStep(l, IF lk.conn = "lost" THEN lost ELSE Noticed(lost))
        /\ UNCHANGED press

(* Let go: the thread ends, and what still waited for it is dropped; a     *)
(* press among it hears that the thread is gone.                           *)
ThreadEnds(l) ==
    LET lk == link[l]
        waits == \E i \in 1..Len(lk.inbox) : lk.inbox[i].what = "send" /\ ~lk.inbox[i].late
    IN  /\ \/ lk.thread = "ends"
           \/ lk.thread \in {"open", "retry"} /\ lk.inbox # <<>> /\ Next1(lk) = LetGo
        /\ press' = IF waits /\ press.pc = "waiting" THEN [press EXCEPT !.pc = "answered"] ELSE press
        /\ LinkStep(l, NoLink)

LinkThread(l) ==
    \/ SessionOpens(l) \/ SessionFails(l) \/ Retries(l) \/ Subscribes(l)
    \/ RefusesOrder(l) \/ BeginsWrite(l) \/ WriteLands(l) \/ WriteEnds(l)
    \/ HearsReport(l) \/ HearsDrop(l) \/ ThreadEnds(l)

-----------------------------------------------------------------------------
(* The notifier: what queued up is folded into one look at the cameras.    *)

NotifierFolds(l) ==
    /\ link[l].queued /\ link[l].notifier = "idle"
    /\ link' = [link EXCEPT ![l].queued = FALSE, ![l].notifier = "calls"]
    /\ UNCHANGED <<camera, cam, press, now, over, acted>>

(* notice.                                                                 *)
NotifierCalls(l) ==
    /\ link[l].notifier = "calls"
    /\ link' = [link EXCEPT ![l].notifier = "called"]
    /\ Keeps(Read(cam))
    /\ UNCHANGED <<camera, press, now, acted>>

(* Mutant: what queued up during the look is folded into it.               *)
NotifierForgets(l) ==
    /\ link[l].notifier = "called"
    /\ link' = [link EXCEPT ![l].notifier = "idle", ![l].queued = FALSE]
    /\ UNCHANGED <<camera, cam, press, now, over, acted>>

NotifierReturns(l) ==
    /\ link[l].notifier = "called"
    /\ link' = [link EXCEPT ![l].notifier = "idle"]
    /\ UNCHANGED <<camera, cam, press, now, over, acted>>

Notifier(l) == NotifierFolds(l) \/ NotifierCalls(l) \/ NotifierReturns(l)

-----------------------------------------------------------------------------
(* The camera, its radio and the clock.                                    *)

HasRoom(l) == Len(link[l].inbox) < MaxInbox

(* The body's button, or the card's end: a take starts or ends unasked.    *)
CameraChanges ==
    /\ \A l \in Links : Listens(link[l]) => HasRoom(l)
    /\ \E rec \in Takes \ {camera} :
          camera' = rec /\ link' = HearsOf(rec, link)
    /\ UNCHANGED <<cam, press, now, over, acted>>

Drops(l) ==
    /\ Listens(link[l]) /\ HasRoom(l)
    /\ link' = [link EXCEPT ![l].inbox = Append(@, Order("dropped", "unknown"))]
    /\ UNCHANGED <<camera, cam, press, now, over, acted>>

TimePasses ==
    /\ now < MaxNow
    /\ now' = now + 1
    /\ UNCHANGED <<camera, link, cam, press, over, acted>>

-----------------------------------------------------------------------------
(* The requests.                                                           *)

(* Any request, and a press that sends nothing and changes nothing.        *)
Looks ==
    /\ Keeps(Read(cam))
    /\ UNCHANGED <<camera, link, press, now, acted>>

(* begin_send: the order is handed to the link's thread, and the press     *)
(* keeps the gate while it waits.                                          *)
Begins(c, rec, deck, at) ==
    /\ HasRoom(c.pocket)
    /\ link' = [link EXCEPT ![c.pocket].inbox = Append(@, Order("send", rec))]
    /\ press' = [pc |-> "waiting", rec |-> rec, deck |-> deck, at |-> at, ok |-> FALSE]

(* cameras.record.start and .stop, by what CAM 1 was read to do.           *)
ScreenPress ==
    LET c == Read(cam)
    IN  /\ press.pc = "none" /\ Held(c)
        /\ Begins(c, IF c.rec = "on" THEN "off" ELSE "on", FALSE, 0)
        /\ Keeps(c)
        /\ UNCHANGED <<camera, now, acted>>

(* saturating_duration_since.                                              *)
Since(at, then) == IF at > then THEN at - then ELSE 0

Dwells(c, at) == c.recAt # None /\ Since(at, c.recAt) < Dwell

InWindow(c, at) == c.arm # None /\ Since(at, c.arm.at) <= Window

ItsTakeRuns(c) == c.rec = "on" /\ ~c.arm.stale

ReadsStop(c, at) == c.arm # None /\ Since(at, c.arm.at) <= ShownFor

(* The deck's key, pressed at `at`, may act.                               *)
DeckPress(c, at) ==
    /\ press.pc = "none" /\ at \in 0..now
    /\ Held(c) /\ ~Dwells(c, at)

DeckSends(c, rec, at) ==
    /\ Begins(c, rec, TRUE, at)
    /\ Keeps(c)
    /\ UNCHANGED <<camera, now, acted>>

DeckStops(at) ==
    LET c == Read(cam)
    IN  /\ DeckPress(c, at) /\ InWindow(c, at)
        /\ ItsTakeRuns(c) /\ Since(at, c.arm.at) >= Dwell
        /\ DeckSends(c, "off", at)

(* The arm's take is over, or may be: the arm ends and nothing is sent.    *)
DeckDisarms(at) ==
    LET c == Read(cam)
    IN  /\ DeckPress(c, at)
        /\ \/ InWindow(c, at) /\ ~ItsTakeRuns(c)
           \/ ~InWindow(c, at) /\ ReadsStop(c, at) /\ c.rec # "on"
        /\ Keeps([c EXCEPT !.arm = None])
        /\ UNCHANGED <<camera, link, press, now, acted>>

DeckStarts(at) ==
    LET c == Read(cam)
    IN  /\ DeckPress(c, at) /\ c.rec # "on"
        /\ ~InWindow(c, at) /\ ~ReadsStop(c, at)
        /\ DeckSends(c, "on", at)

DeckArms(at) ==
    LET c == Read(cam)
    IN  /\ DeckPress(c, at) /\ c.rec = "on" /\ ~InWindow(c, at)
        /\ cam' = [c EXCEPT !.arm = [at |-> at, stale |-> FALSE]]
        /\ over' = FALSE
        /\ UNCHANGED <<camera, link, press, now, acted>>

(* A press within the dwell of its arm, or of what the key did last, is    *)
(* kept, and one while CAM 1 is not held is refused: each only looks.      *)
DeckRec(at) == DeckStops(at) \/ DeckDisarms(at) \/ DeckStarts(at) \/ DeckArms(at)

Withdrawn(order) == IF order.what = "send" THEN [order EXCEPT !.late = TRUE] ELSE order

GivesUp(lk) == [lk EXCEPT !.inbox = [i \in DOMAIN @ |-> Withdrawn(@[i])],
                          !.writes = Withdrawn(@)]

(* SEND_TIMEOUT: the press waits no longer, and the link's thread sends it *)
(* no more.                                                                *)
DeadlinePasses ==
    /\ press.pc = "waiting"
    /\ press' = [press EXCEPT !.pc = "answered", !.ok = FALSE]
    /\ link' = [l \in Links |-> GivesUp(link[l])]
    /\ UNCHANGED <<camera, cam, now, over, acted>>

(* Mutant: a stop of the deck's does not count as a press of its own.      *)
AppliedToStarts(c) ==
    LET answered == IF press.rec = "on" THEN [c EXCEPT !.arm = None] ELSE c
    IN  IF press.deck /\ press.rec = "on"
        THEN [answered EXCEPT !.arm = None, !.recAt = press.at] ELSE [answered EXCEPT !.arm = None]

(* What the deck's key does once its press was taken.                      *)
Applied(c) ==
    LET answered == IF press.rec = "on" THEN [c EXCEPT !.arm = None] ELSE c
    IN  IF press.deck THEN [answered EXCEPT !.arm = None, !.recAt = press.at] ELSE answered

(* The second spell: the camera's answer or its silence taken, the camera  *)
(* read back, and the gate let go.                                         *)
PressSettles ==
    LET c == Read(cam)
        taken == press.ok /\ Held(c)
    IN  /\ press.pc = "answered"
        /\ Keeps(CASE ~press.ok -> [c EXCEPT !.failure = TRUE]
                   [] taken -> Applied(c)
                   [] OTHER -> c)
        /\ acted' = IF taken /\ press.deck /\ press.at > acted THEN press.at ELSE acted
        /\ press' = NoPress
        /\ UNCHANGED <<camera, link, now>>

LetsGo(links, l) ==
    IF l = 0 THEN links
    ELSE [links EXCEPT ![l] = [Unread(links[l]) EXCEPT !.inbox = Append(@, LetGo)]]

Release ==
    LET c == Read(cam)
    IN  /\ c.setUp /\ ~c.released
        /\ link' = LetsGo(link, c.pocket)
        /\ Keeps([CountsChange(c) EXCEPT !.released = TRUE, !.failure = FALSE, !.pocket = 0])
        /\ UNCHANGED <<camera, press, now, acted>>

(* RealLinks::hold, then the camera is read: a link that runs stays, one   *)
(* that stopped is let go and the next started.                            *)
HoldsAndReads(c) ==
    IF c.pocket # 0 /\ link[c.pocket].conn # "stopped"
    THEN Keeps(Read(c)) /\ link' = link
    ELSE \E l \in Links :
            /\ link[l].thread = "none" /\ \A k \in Links : k < l => link[k].thread # "none"
            /\ link' = [LetsGo(link, c.pocket) EXCEPT ![l] = Started(c.rec)]
            /\ Keeps([c EXCEPT !.pocket = l, !.failure = TRUE])

(* A released camera taken back, or one out of reach tried again.          *)
Connect ==
    LET c == Read(cam)
    IN  /\ c.setUp /\ (c.released \/ c.failure)
        /\ HoldsAndReads([c EXCEPT !.released = FALSE])
        /\ UNCHANGED <<camera, press, now, acted>>

Forgotten(c) == [c EXCEPT !.released = FALSE, !.rec = None, !.failure = FALSE]

(* take_setup: CAM 1 is paired, perhaps again, or forgotten.               *)
Pairs ==
    /\ HoldsAndReads([Forgotten(Read(cam)) EXCEPT !.setUp = TRUE])
    /\ UNCHANGED <<camera, press, now, acted>>

Forgets ==
    LET c == Read(cam)
    IN  /\ c.setUp
        /\ link' = LetsGo(link, c.pocket)
        /\ Keeps([Forgotten(c) EXCEPT !.setUp = FALSE, !.pocket = 0])
        /\ UNCHANGED <<camera, press, now, acted>>

-----------------------------------------------------------------------------
(* Cameras::load: the saved reading, if any, and the first link started.   *)
Init ==
    /\ camera \in Takes
    /\ \E saved \in Takes \cup {None} :
          /\ cam = [setUp |-> TRUE, released |-> FALSE, pocket |-> 1, failure |-> TRUE,
                    rec |-> saved, arm |-> None, recAt |-> None]
          /\ link = [l \in Links |-> IF l = 1 THEN Started(saved) ELSE NoLink]
    /\ press = NoPress /\ now = 0 /\ over = FALSE /\ acted = 0

Next ==
    \/ \E l \in Links : LinkThread(l) \/ Notifier(l) \/ Drops(l)
    \/ CameraChanges \/ TimePasses
    \/ Looks \/ ScreenPress \/ (\E at \in 0..MaxNow : DeckRec(at))
    \/ DeadlinePasses \/ PressSettles
    \/ Release \/ Connect \/ Pairs \/ Forgets

Spec == Init /\ [][Next]_vars

-----------------------------------------------------------------------------
(* Everything is of its kind, and the press waits only with an order on    *)
(* its way.                                                                *)
OrderType == [what : {"none", "send", "control", "dropped", "letgo"},
              rec : Takes \cup {"unknown"}, late : BOOLEAN]

TypeOK ==
    /\ camera \in Takes /\ now \in 0..MaxNow /\ over \in BOOLEAN /\ acted \in 0..MaxNow
    /\ DOMAIN link = Links
    /\ \A l \in Links :
          /\ link[l].thread \in {"none", "session", "retry", "open", "writing", "written", "ends"}
          /\ link[l].conn \in {"starting", "connected", "lost", "stopped"}
          /\ link[l].rec \in Takes \cup {"unknown"}
          /\ link[l].writes \in OrderType
          /\ \A i \in 1..Len(link[l].inbox) : link[l].inbox[i] \in OrderType
    /\ cam.pocket \in Links \cup {0}
    /\ cam.rec \in Takes \cup {"unknown", None}
    /\ cam.pocket = 0 => ~cam.setUp \/ cam.released
    /\ press.pc \in {"none", "waiting", "answered"}
    /\ press.pc = "waiting" =>
          \E l \in Links :
             \/ ~link[l].writes.late /\ link[l].writes.what = "send"
             \/ \E i \in 1..Len(link[l].inbox) :
                   link[l].inbox[i].what = "send" /\ ~link[l].inbox[i].late

DeckBegins == press.pc = "none" /\ press'.pc = "waiting" /\ press'.deck

(* rec (deck.rs:310-332): the second press stops the take the arm was made *)
(* for, and no other: not one that began after a take that may have ended  *)
(* unseen, while CAM 1 did not answer or was released.                     *)
StopsItsTake == [][DeckBegins /\ press'.rec = "off" => ~over']_vars

(* rec (deck.rs:313-317): a press sooner than the dwell after the deck's   *)
(* REC started or stopped a take is the same press again: it starts, stops *)
(* and arms nothing.                                                       *)
DoublePressKept ==
    [][/\ DeckBegins /\ acted > 0 => press'.at >= acted + Dwell
       /\ cam'.arm # None /\ (cam.arm = None \/ cam.arm.at # cam'.arm.at) /\ acted > 0
          => cam'.arm.at >= acted + Dwell]_vars

(* notice and run_notifier (link.rs): with no notice left to take, CAM 1   *)
(* is not shown as held over a link that is gone, and what the camera      *)
(* reported since it connected is what is shown.                           *)
LinkHeard ==
    \A l \in Links :
       (cam.pocket = l /\ cam.setUp /\ ~link[l].queued /\ link[l].notifier # "calls")
       => /\ link[l].conn # "connected" => cam.failure
          /\ link[l].fresh /\ ~cam.failure => cam.rec = link[l].rec

=============================================================================
