--------------------------- MODULE PrompterSaver ---------------------------
(***************************************************************************)
(* The Teleprompter's saver (prompter/saver.rs) with everything that       *)
(* shares its data: the prompter's memory under the prompter's lock        *)
(* (prompter/runtime.rs, prompter/commands.rs), the transactions that      *)
(* change the glass (put on, replace, update, clear), an archive restore,  *)
(* the flush before a copy of the saved data, the stop and a crash.        *)
(*                                                                         *)
(* Three actors run at the same time: whoever holds the prompter's lock    *)
(* (a request, a deck key, the clock), the saver's thread, and the request *)
(* loop while it waits in a flush or in the stop.  SQLite makes each       *)
(* transaction atomic; a transaction and the memory that follows it are    *)
(* two steps.                                                              *)
(*                                                                         *)
(* Every value handed over or written is numbered (n); the code has no     *)
(* such number and compares values (v) only.  The numbers, kept, lost and  *)
(* the bounds serve the properties; no step of the code reads them.  A     *)
(* look an archive's restore wrote on the disk is numbered 0.              *)
(***************************************************************************)
EXTENDS Integers

CONSTANTS
    Scripts,        \* the scripts' ids
    NoScript,       \* nothing is on the glass
    None,           \* Rust's None
    Places,         \* places in a text, as the properties tell them apart
    Top, End,       \* PrompterPlace::TOP and the end of a text
    Shown,          \* the part of a look that breaks no line (colour, mirror)
    Laid,           \* the part that does: size, spacing, margins
    StartStep,      \* LOOK_REVISIONS_A_START
    Threads,        \* whether the saver's thread may start, may fail to
    Archived,       \* the <<shown, laid>> an archive may bring back
    MaxHanded,    \* bound: values handed over or written
    MaxRevision,    \* bound: glass revisions
    MaxFailures,    \* bound: writes that fail
    MaxStarts       \* bound: starts of the engine

Urgencies == {"coalesced", "shortly", "now"}
GlassSaves == [script : Scripts, rev : Nat, place : Places]
LookSaves == [shown : Shown, laid : Laid, rev : Nat]
Numbered(S) == [v : S, n : Nat]

ASSUME ConstantsAssumption ==
    /\ Top \in Places /\ End \in Places
    /\ NoScript \notin Scripts
    /\ StartStep \in Nat
    /\ Threads \subseteq BOOLEAN
    /\ Archived \subseteq Shown \X Laid
    /\ MaxHanded \in Nat /\ MaxRevision \in Nat
    /\ MaxFailures \in Nat /\ MaxStarts \in Nat
    /\ None \notin GlassSaves \cup LookSaves
                   \cup Numbered(GlassSaves) \cup Numbered(LookSaves)

VARIABLES
    glass, look,    \* State.glass and State.look: what waits, due, taken, written
    threaded, stopping, stopped,    \* State's flags of the same names
    recent,     \* a write began less than COALESCE_FOR ago (last_write_at)
    retry,      \* the wait after a failed write is not over (retry_at)
    batch,      \* what the write on its way took (State.writing: flight # "no")
    flight,     \* how far that write is
    conn,       \* the thread holds its connection open
    asleep,     \* who waits on the condvar: the thread, a flush or a stop; and
                \* whether the thread's sleep ends when a save falls due
    mem,        \* the prompter's memory: script on the glass, revision, look
    req,        \* where the request loop is, and what the last wait told it
    disk,       \* the saved data
    rushed,     \* which slots were asked for sooner than the second since they were taken
    kept,       \* the newest value accepted for each slot
    lost,       \* the last write of a stop failed: the saver gave up
    failures, handed, run         \* the bounded counts

saverVars == <<glass, look, stopping, stopped, recent, retry, asleep, rushed>>
writeVars == <<batch, flight, conn>>
countVars == <<failures, handed, run>>
vars == <<glass, look, threaded, stopping, stopped, recent, retry, batch, flight, conn,
          asleep, mem, req, disk, rushed, kept, lost, failures, handed, run>>

NoBatch == [glass |-> None, look |-> None]
EmptySlot == [pending |-> None, due |-> "later", taken |-> FALSE, written |-> None]
NobodySleeps == [thread |-> FALSE, waiter |-> FALSE, until |-> FALSE]

-----------------------------------------------------------------------------
(* The saver's operations, on its slots.                                   *)

(* Mutant: the new value takes over the due of a value already taken.      *)
HandOverInheriting(sl, h, due) ==
    [sl EXCEPT !.pending = h, !.taken = FALSE,
               !.due = IF sl.pending # None /\ sl.due = "now" THEN "now" ELSE due]

(* Slot::hand_over: the newest value replaces what waits, and keeps an     *)
(* earlier due only when no write has taken it.                            *)
HandOver(sl, h, due) ==
    LET sooner == sl.pending # None /\ ~sl.taken /\ sl.due = "now"
    IN  [sl EXCEPT !.pending = h, !.taken = FALSE,
                   !.due = IF sooner THEN "now" ELSE due]

DueAt(urgency) ==
    IF urgency = "now" \/ (urgency = "coalesced" /\ ~recent) THEN "now" ELSE "later"

(* Nothing waits in the slot.                                              *)
Emptied(sl) == [sl EXCEPT !.pending = None, !.due = "later"]

(* take_batch: a value that equals the one last written waits no more ...  *)
Deduped(sl) ==
    IF sl.pending # None /\ sl.pending.v = sl.written THEN Emptied(sl) ELSE sl

(* ... and what is due, or at a stop everything, is taken.                 *)
TakenFrom(sl, all) ==
    IF sl.pending # None /\ (all \/ sl.due = "now") THEN sl.pending ELSE None

BatchOf(g, l, all) == [glass |-> TakenFrom(g, all), look |-> TakenFrom(l, all)]

Marked(sl, b) == [sl EXCEPT !.taken = b # None]

(* Mutant: the revision is not asked for.                                  *)
LandsOnScript(b) == b.glass # None /\ disk.script = b.glass.v.script

(* write_glass_save's condition: the glass still shows the script at the   *)
(* revision the place was taken at.                                        *)
Lands(b) == /\ b.glass # None
            /\ disk.script = b.glass.v.script
            /\ disk.rev = b.glass.v.rev

(* write_batch: one transaction.                                           *)
WrittenDisk(b) ==
    [disk EXCEPT
        !.place = [s \in Scripts |->
            IF Lands(b) /\ s = b.glass.v.script
            THEN [v |-> b.glass.v.place, n |-> b.glass.n] ELSE @[s]],
        !.look = IF b.look # None THEN b.look ELSE @]

(* Mutant: a newer value that took its place waits no more either.         *)
SettledWithNewer(sl, b, landed) ==
    IF b = None THEN [sl EXCEPT !.taken = FALSE]
    ELSE [Emptied(sl) EXCEPT !.taken = FALSE, !.written = IF landed THEN b.v ELSE None]

(* finish_batch after a write that committed: what it wrote waits no more, *)
(* unless a newer value took its place; a place refused is not "written".  *)
Settled(sl, b, landed) ==
    LET done == b # None /\ sl.pending # None /\ sl.pending.v = b.v
        left == IF done THEN Emptied(sl) ELSE sl
    IN  [left EXCEPT !.taken = FALSE,
                     !.written = IF b = None THEN @ ELSE IF landed THEN b.v ELSE None]

(* Mutant: a failed write is not tried again.                              *)
UnsettledForgetting(sl) == [Emptied(sl) EXCEPT !.taken = FALSE]

(* finish_batch after one that failed: everything still waits, except at   *)
(* the stop.                                                               *)
Unsettled(sl) ==
    [(IF stopping THEN Emptied(sl) ELSE sl) EXCEPT !.taken = FALSE]

(* write_here: without the thread everything waiting is written on the     *)
(* caller's thread, with the saver's lock held.                            *)
WriteHere(g, l) ==
    LET dg == Deduped(g)
        dl == Deduped(l)
        b == BatchOf(dg, dl, TRUE)
    IN  \/ /\ b = NoBatch
           /\ glass' = dg /\ look' = dl
           /\ UNCHANGED <<disk, retry, recent, failures, lost>>
        \/ /\ b # NoBatch
           /\ glass' = Settled(Marked(dg, b.glass), b.glass, Lands(b))
           /\ look' = Settled(Marked(dl, b.look), b.look, TRUE)
           /\ disk' = WrittenDisk(b)
           /\ retry' = FALSE /\ recent' = TRUE
           /\ UNCHANGED <<failures, lost>>
        \/ /\ b # NoBatch /\ failures < MaxFailures
           /\ failures' = failures + 1
           /\ glass' = Unsettled(Marked(dg, b.glass))
           /\ look' = Unsettled(Marked(dl, b.look))
           /\ retry' = TRUE /\ recent' = TRUE
           /\ lost' = (lost \/ stopping)
           /\ UNCHANGED disk

(* Mutant: hand-offs are refused only once the thread has ended.           *)
RefusesWhenStopped == stopped

(* From the stop's beginning hand-offs are refused.                        *)
Refuses == stopping \/ stopped

(* What waits now is left to the thread, or without it written here        *)
(* (handed_over).                                                          *)
HandedOver(g, l) ==
    IF threaded
    THEN /\ glass' = g /\ look' = l
         /\ asleep' = NobodySleeps
         /\ UNCHANGED <<retry, recent, disk, lost, failures>>
    ELSE WriteHere(g, l) /\ UNCHANGED asleep

Ignored == UNCHANGED <<glass, look, retry, recent, rushed, asleep, disk, kept, lost, failures>>

(* keep_glass: the newest place and pace is accepted.                      *)
KeepGlass(save, urgency) ==
    LET h == [v |-> save, n |-> handed + 1]
        due == DueAt(urgency)
    IN  /\ handed' = handed + 1
        /\ \/ Refuses /\ Ignored
           \/ /\ ~Refuses
              /\ kept' = [kept EXCEPT !.glass = h]
              /\ rushed' = [rushed EXCEPT !.glass = @ \/ due = "now"]
              /\ HandedOver(HandOver(glass, h, due), look)

(* keep_look: the newest look, size and look revision.                     *)
KeepLook(save, urgency) ==
    LET h == [v |-> save, n |-> handed + 1]
        due == DueAt(urgency)
    IN  /\ handed' = handed + 1
        /\ \/ Refuses /\ Ignored
           \/ /\ ~Refuses
              /\ kept' = [kept EXCEPT !.look = h]
              /\ rushed' = [rushed EXCEPT !.look = @ \/ due = "now"]
              /\ HandedOver(glass, HandOver(look, h, due))

(* make_due_now.                                                           *)
DueNow(sl) == IF sl.pending = None THEN sl ELSE [sl EXCEPT !.due = "now"]

MakeDueNow ==
    /\ glass' = DueNow(glass) /\ look' = DueNow(look)
    /\ rushed' = [glass |-> TRUE, look |-> TRUE]
    /\ retry' = FALSE

(* Mutant: only the place is looked at.                                    *)
NoPlacePending == glass.pending = None

NothingPending == glass.pending = None /\ look.pending = None
Quiet == NothingPending /\ flight = "no"

-----------------------------------------------------------------------------
(* The saver's thread (run).                                                *)

Alive == req.pc # "off"

ThreadIdle == Alive /\ threaded /\ flight = "no" /\ ~asleep.thread

(* Mutant: a flush is not told of what was let go of without a write.      *)
SleepsSilently(g, l) == [asleep EXCEPT !.thread = TRUE, !.until = ~(g.pending = None /\ l.pending = None)]

(* The thread sleeps, until the first save that waits falls due if one     *)
(* does (next_wake); before it does it tells a flush what it let go of     *)
(* without a write.                                                        *)
Sleeps(g, l) ==
    [thread |-> TRUE, waiter |-> FALSE, until |-> ~(g.pending = None /\ l.pending = None)]

(* One pass of the loop with the lock held: a batch is taken, or at a stop *)
(* the loop ends, or the thread sleeps.                                    *)
ThreadLooks ==
    LET may == stopping \/ ~retry
        dg == IF may THEN Deduped(glass) ELSE glass
        dl == IF may THEN Deduped(look) ELSE look
        b == IF may THEN BatchOf(dg, dl, stopping) ELSE NoBatch
    IN  /\ ThreadIdle
        /\ \/ /\ b # NoBatch
              /\ glass' = Marked(dg, b.glass) /\ look' = Marked(dl, b.look)
              /\ batch' = b /\ flight' = "begun"
              /\ recent' = TRUE
              /\ rushed' = [glass |-> rushed.glass /\ b.glass = None,
                            look |-> rushed.look /\ b.look = None]
              /\ UNCHANGED asleep
           \/ /\ b = NoBatch /\ stopping
              /\ glass' = dg /\ look' = dl
              /\ flight' = "closing"
              /\ UNCHANGED <<batch, asleep, recent, rushed>>
           \/ /\ b = NoBatch /\ ~stopping
              /\ glass' = dg /\ look' = dl
              /\ asleep' = Sleeps(dg, dl)
              /\ UNCHANGED <<batch, flight, recent, rushed>>
        /\ UNCHANGED <<threaded, stopping, stopped, retry, conn, mem, req, disk, kept, lost,
                       countVars>>

DueIn(sl) == sl.pending # None /\ sl.due = "now"

(* Mutant: the sleep lasts until every slot is due.                        *)
ThreadOversleeps ==
    /\ Alive /\ threaded /\ asleep.thread /\ asleep.until /\ ~retry
    /\ DueIn(glass) /\ DueIn(look)
    /\ asleep' = [asleep EXCEPT !.thread = FALSE, !.until = FALSE]
    /\ UNCHANGED <<glass, look, threaded, stopping, stopped, recent, retry, writeVars, mem, req, disk,
                   rushed, kept, lost, countVars>>

(* The thread's sleep is over: something is due, and no retry is awaited   *)
(* (next_wake).                                                            *)
ThreadWakes ==
    /\ Alive /\ threaded /\ asleep.thread /\ asleep.until /\ ~retry
    /\ DueIn(glass) \/ DueIn(look)
    /\ asleep' = [asleep EXCEPT !.thread = FALSE, !.until = FALSE]
    /\ UNCHANGED <<glass, look, threaded, stopping, stopped, recent, retry, writeVars, mem, req, disk,
                   rushed, kept, lost, countVars>>

(* write_batch committed, with the saver's lock let go.                    *)
ThreadWrites ==
    /\ flight = "begun"
    /\ disk' = WrittenDisk(batch)
    /\ flight' = IF batch.glass = None \/ Lands(batch) THEN "landed" ELSE "refused"
    /\ conn' = TRUE
    /\ UNCHANGED <<saverVars, threaded, batch, mem, req, kept, lost, countVars>>

(* It failed or panicked: nothing reached the disk, and the connection is  *)
(* dropped.                                                                *)
ThreadFails ==
    /\ flight = "begun" /\ failures < MaxFailures
    /\ flight' = "failed" /\ conn' = FALSE
    /\ failures' = failures + 1
    /\ UNCHANGED <<saverVars, threaded, batch, mem, req, disk, kept, lost, handed, run>>

(* finish_batch on the thread, under the lock again.                       *)
ThreadSettles ==
    /\ flight \in {"landed", "refused", "failed"}
    /\ \/ /\ flight = "failed"
          /\ glass' = Unsettled(glass) /\ look' = Unsettled(look)
          /\ retry' = TRUE
          /\ rushed' = [glass |-> rushed.glass \/ glass.taken,
                        look |-> rushed.look \/ look.taken]
          /\ lost' = (lost \/ stopping)
       \/ /\ flight # "failed"
          /\ glass' = Settled(glass, batch.glass, flight = "landed")
          /\ look' = Settled(look, batch.look, TRUE)
          /\ retry' = FALSE
          /\ UNCHANGED <<rushed, lost>>
    /\ flight' = "no" /\ batch' = NoBatch
    /\ asleep' = NobodySleeps
    /\ UNCHANGED <<threaded, stopping, stopped, recent, conn, mem, req, disk, kept, countVars>>

(* Mutant: the connection is left for the thread's end to drop.            *)
ThreadLeavesOpen ==
    /\ flight = "closing" /\ flight' = "closed"
    /\ UNCHANGED <<saverVars, threaded, batch, conn, mem, req, disk, kept, lost, countVars>>

(* At a stop the connection is closed first, and only then is the saver    *)
(* stopped.                                                                *)
ThreadCloses ==
    /\ flight = "closing"
    /\ conn' = FALSE /\ flight' = "closed"
    /\ UNCHANGED <<saverVars, threaded, batch, mem, req, disk, kept, lost, countVars>>

ThreadEnds ==
    /\ flight = "closed"
    /\ flight' = "no" /\ stopped' = TRUE /\ threaded' = FALSE
    /\ asleep' = NobodySleeps
    /\ UNCHANGED <<glass, look, stopping, recent, retry, batch, conn, mem, req, disk, rushed, kept, lost,
                   countVars>>

Thread == \/ ThreadLooks \/ ThreadWakes \/ ThreadWrites \/ ThreadFails
          \/ ThreadSettles \/ ThreadCloses \/ ThreadEnds

-----------------------------------------------------------------------------
(* Time.                                                                    *)

(* A save that could wait falls due.                                       *)
GlassDueComes ==
    /\ glass.pending # None /\ glass.due = "later"
    /\ glass' = [glass EXCEPT !.due = "now"]
    /\ rushed' = [rushed EXCEPT !.glass = TRUE]
    /\ UNCHANGED <<look, threaded, stopping, stopped, recent, retry, asleep, writeVars, mem, req,
                   disk, kept, lost, countVars>>

LookDueComes ==
    /\ look.pending # None /\ look.due = "later"
    /\ look' = [look EXCEPT !.due = "now"]
    /\ rushed' = [rushed EXCEPT !.look = TRUE]
    /\ UNCHANGED <<glass, threaded, stopping, stopped, recent, retry, asleep, writeVars, mem, req,
                   disk, kept, lost, countVars>>

(* A second has passed since the last write began.                         *)
SecondPasses ==
    /\ recent /\ recent' = FALSE
    /\ UNCHANGED <<glass, look, threaded, stopping, stopped, retry, asleep, rushed, writeVars, mem, req,
                   disk, kept, lost, countVars>>

(* The wait after a failed write is over.                                  *)
RetryPasses ==
    /\ retry /\ retry' = FALSE
    /\ UNCHANGED <<glass, look, threaded, stopping, stopped, recent, asleep, rushed, writeVars, mem, req,
                   disk, kept, lost, countVars>>

Time == GlassDueComes \/ LookDueComes \/ SecondPasses \/ RetryPasses

-----------------------------------------------------------------------------
(* The prompter, under its lock.  A request holds the lock from its commit  *)
(* until the memory has followed, and through an archive restore's last     *)
(* step; every other action on the prompter waits for it.                   *)

Unlocked == req.pc \notin {"off", "committed", "settling"}
Room == handed < MaxHanded

(* keep_place, with the place the text has reached: a pause, a jump, a     *)
(* dial, END, and each second of the scroll.                               *)
KeepPlace(place, urgency) ==
    /\ Unlocked /\ Room /\ mem.script # NoScript
    /\ KeepGlass([script |-> mem.script, rev |-> mem.rev, place |-> place], urgency)
    /\ UNCHANGED <<threaded, stopping, stopped, writeVars, mem, req, run>>

(* set_look: the look's revision moves on when the text is laid out again. *)
NextLook(shown, laid) ==
    [shown |-> shown, laid |-> laid,
     rev |-> mem.look.rev + (IF laid = mem.look.laid THEN 0 ELSE 1)]

(* text_size_request (the page and the deck) and look_request (the page,   *)
(* so only while the request loop is free).                                *)
SetLook(shown, laid) ==
    /\ Unlocked /\ Room
    /\ shown # mem.look.shown => req.pc = "idle"
    /\ mem' = [mem EXCEPT !.look = NextLook(shown, laid)]
    /\ KeepLook(NextLook(shown, laid), "coalesced")
    /\ req' = IF req.pc = "restored" THEN req ELSE [req EXCEPT !.back = None]
    /\ UNCHANGED <<threaded, stopping, stopped, writeVars, run>>

(* One transaction of put on, replace, update or clear: the script let go  *)
(* of keeps the place it was read to, the new one (or the new text) stands *)
(* at its own, and the glass's revision moves on.                          *)
CommitGlass(script, places) ==
    LET m == handed + 1
        v == [script |-> script, rev |-> disk.rev + 1, place |-> places[script]]
    IN  /\ req.pc = "idle" /\ Room /\ disk.rev < MaxRevision
        /\ disk' = [disk EXCEPT
               !.script = script, !.rev = @ + 1,
               !.place = [s \in Scripts |-> IF s \in DOMAIN places
                                            THEN [v |-> places[s], n |-> m] ELSE @[s]]]
        /\ kept' = [kept EXCEPT !.glass =
                        IF script = NoScript THEN None ELSE [v |-> v, n |-> m]]
        /\ handed' = m
        /\ req' = [req EXCEPT !.pc = "committed"]
        /\ UNCHANGED <<saverVars, threaded, writeVars, mem, lost, failures, run>>

(* A script left at its end starts at the top again.                       *)
StartOf(own) == IF own = End THEN Top ELSE own

(* put_on_request: at the script's own place, at the top when it was left  *)
(* at its end; the script replaced keeps the place read to.                *)
PutOn(script, readTo) ==
    /\ mem.script # script
    /\ CommitGlass(script,
           [s \in {script, mem.script} \ {NoScript} |->
               IF s = script THEN StartOf(disk.place[script].v) ELSE readTo])

(* update_request: the same script with its edited text, at the place      *)
(* carried into it.                                                        *)
Update(carried) ==
    /\ mem.script # NoScript
    /\ CommitGlass(mem.script, [s \in {mem.script} |-> carried])

(* clear_request.                                                          *)
Clear(readTo) ==
    /\ mem.script # NoScript
    /\ CommitGlass(NoScript, [s \in {mem.script} |-> readTo])

(* After the commit the memory follows, and what waited for the old glass  *)
(* is let go (glass_changed, let_go_of_glass).                             *)
Remember ==
    /\ req.pc = "committed"
    /\ mem' = [mem EXCEPT !.script = disk.script, !.rev = disk.rev]
    /\ glass' = [Emptied(glass) EXCEPT !.written = None]
    /\ asleep' = NobodySleeps
    /\ req' = [req EXCEPT !.pc = "idle"]
    /\ UNCHANGED <<look, threaded, stopping, stopped, recent, retry, writeVars, disk, rushed, kept, lost,
                   countVars>>

(* An edit, an import of an edited file, a version brought back: the place *)
(* moves with the text, except of the script on the glass, whose place     *)
(* counts in the glass's text.                                             *)
Edit(script, carried) ==
    /\ req.pc = "idle" /\ Room
    /\ script # mem.script
    /\ disk' = [disk EXCEPT !.place[script] = [v |-> carried, n |-> handed + 1]]
    /\ handed' = handed + 1
    /\ UNCHANGED <<saverVars, threaded, writeVars, mem, req, kept, lost, failures, run>>

(* restore_prompter_archive: the archive's look, when it is another, is    *)
(* written in the restore's own transaction, without the prompter's lock,  *)
(* and numbered 0: the saver has no part in it ...                         *)
RestoreCommits(archived) ==
    /\ req.pc = "idle" /\ Room
    /\ disk' = [disk EXCEPT !.look =
           IF archived = <<@.v.shown, @.v.laid>> THEN @
           ELSE [v |-> [shown |-> archived[1], laid |-> archived[2],
                        rev |-> @.v.rev + (IF @.v.laid = archived[2] THEN 0 ELSE 1)],
                 n |-> 0]]
    /\ handed' = handed + 1
    /\ req' = [req EXCEPT !.pc = "restored", !.back = archived]
    /\ UNCHANGED <<saverVars, threaded, writeVars, mem, kept, lost, failures, run>>

(* ... then, under the lock, the place is kept (after_archive_restore) ... *)
RestoreHolds(place) ==
    /\ req.pc = "restored" /\ Room
    /\ req' = [req EXCEPT !.pc = "settling"]
    /\ IF mem.script # NoScript
       THEN KeepGlass([script |-> mem.script, rev |-> mem.rev, place |-> place], "now")
       ELSE Ignored /\ UNCHANGED handed
    /\ UNCHANGED <<threaded, stopping, stopped, writeVars, mem, run>>

(* Mutant: the memory takes the look, and the saver is not told.           *)
RestoreSettlesInMemory ==
    /\ req.pc = "settling" /\ Room
    /\ req' = [req EXCEPT !.pc = "idle"]
    /\ mem' = [mem EXCEPT !.look = NextLook(req.back[1], req.back[2])]
    /\ UNCHANGED <<saverVars, threaded, writeVars, disk, kept, lost, countVars>>

(* ... and the memory takes the look when it has another.                  *)
RestoreSettles ==
    LET taken == NextLook(req.back[1], req.back[2])
    IN  /\ req.pc = "settling" /\ Room
        /\ req' = [req EXCEPT !.pc = "idle"]
        /\ IF taken # mem.look
           THEN mem' = [mem EXCEPT !.look = taken] /\ KeepLook(taken, "now")
           ELSE Ignored /\ UNCHANGED <<mem, handed>>
        /\ UNCHANGED <<threaded, stopping, stopped, writeVars, run>>

-----------------------------------------------------------------------------
(* The request loop's two waits for the saver: a flush before a copy of    *)
(* the saved data, and the stop.                                           *)

(* flush: with the thread everything is made due and waited for; without   *)
(* it the write is made here.                                              *)
FlushBegins ==
    /\ req.pc = "idle"
    /\ IF threaded
       THEN /\ MakeDueNow /\ asleep' = NobodySleeps
            /\ req' = [req EXCEPT !.pc = "flush"]
            /\ UNCHANGED <<recent, disk, lost, failures>>
       ELSE /\ WriteHere(glass, look) /\ UNCHANGED <<rushed, asleep>>
            /\ req' = [req EXCEPT !.pc = "flushed"]
    /\ UNCHANGED <<threaded, stopping, stopped, writeVars, mem, kept, handed, run>>

Answers(pc, ok) ==
    /\ req' = [req EXCEPT !.pc = pc, !.ok = ok]
    /\ asleep' = [asleep EXCEPT !.waiter = FALSE]

FlushLooks ==
    /\ req.pc = "flush" /\ ~asleep.waiter
    /\ IF Quiet THEN Answers("idle", TRUE)
                ELSE asleep' = [asleep EXCEPT !.waiter = TRUE] /\ UNCHANGED req
    /\ UNCHANGED <<glass, look, threaded, stopping, stopped, recent, retry, writeVars, mem, disk, rushed,
                   kept, lost, countVars>>

(* Its deadline passes first.                                              *)
FlushGivesUp ==
    /\ req.pc = "flush" /\ ~Quiet
    /\ Answers("idle", FALSE)
    /\ UNCHANGED <<glass, look, threaded, stopping, stopped, recent, retry, writeVars, mem, disk, rushed,
                   kept, lost, countVars>>

(* nothing_pending, under the lock taken anew.                             *)
FlushChecks ==
    /\ req.pc = "flushed"
    /\ Answers("idle", NothingPending)
    /\ UNCHANGED <<glass, look, threaded, stopping, stopped, recent, retry, writeVars, mem, disk, rushed,
                   kept, lost, countVars>>

(* finish_saving: the requests have ended; the place of this moment is     *)
(* kept when the prompter's lock can be had in time.                       *)
StopKeeps(place) ==
    /\ req.pc = "idle" /\ Room
    /\ req' = [req EXCEPT !.pc = "stop"]
    /\ IF mem.script # NoScript
       THEN KeepGlass([script |-> mem.script, rev |-> mem.rev, place |-> place], "now")
       ELSE Ignored /\ UNCHANGED handed
    /\ UNCHANGED <<threaded, stopping, stopped, writeVars, mem, run>>

StopSkips ==
    /\ req.pc = "idle"
    /\ req' = [req EXCEPT !.pc = "stop"]
    /\ UNCHANGED <<saverVars, threaded, writeVars, mem, disk, kept, lost, countVars>>

(* finish.                                                                 *)
FinishBegins ==
    /\ req.pc = "stop"
    /\ IF threaded
       THEN /\ MakeDueNow /\ asleep' = NobodySleeps /\ stopping' = TRUE
            /\ req' = [req EXCEPT !.pc = "finish"]
            /\ UNCHANGED <<recent, disk, lost, failures>>
       ELSE /\ WriteHere(glass, look) /\ UNCHANGED <<rushed, asleep, stopping>>
            /\ req' = [req EXCEPT !.pc = "finishing"]
    /\ UNCHANGED <<threaded, stopped, writeVars, mem, kept, handed, run>>

FinishLooks ==
    /\ req.pc = "finish" /\ ~asleep.waiter
    /\ IF stopped THEN Answers("stopped", TRUE)
                  ELSE asleep' = [asleep EXCEPT !.waiter = TRUE] /\ UNCHANGED req
    /\ UNCHANGED <<glass, look, threaded, stopping, stopped, recent, retry, writeVars, mem, disk, rushed,
                   kept, lost, countVars>>

FinishGivesUp ==
    /\ req.pc = "finish" /\ ~stopped
    /\ Answers("stopped", FALSE)
    /\ UNCHANGED <<glass, look, threaded, stopping, stopped, recent, retry, writeVars, mem, disk, rushed,
                   kept, lost, countVars>>

(* Without the thread: nothing_pending, then the flag, each under the lock *)
(* taken anew.                                                             *)
FinishChecks ==
    /\ req.pc = "finishing"
    /\ Answers("finished", NothingPending)
    /\ UNCHANGED <<glass, look, threaded, stopping, stopped, recent, retry, writeVars, mem, disk, rushed,
                   kept, lost, countVars>>

FinishEnds ==
    /\ req.pc = "finished"
    /\ stopped' = TRUE
    /\ Answers("stopped", req.ok)
    /\ UNCHANGED <<glass, look, threaded, stopping, recent, retry, writeVars, mem, disk, rushed, kept,
                   lost, countVars>>

-----------------------------------------------------------------------------
(* The process.                                                            *)

(* It ends: after its stop, or at any moment.  Only the saved data is left. *)
Crash ==
    /\ Alive
    /\ glass' = EmptySlot /\ look' = EmptySlot
    /\ threaded' = FALSE /\ stopping' = FALSE /\ stopped' = FALSE
    /\ recent' = FALSE /\ retry' = FALSE
    /\ batch' = NoBatch /\ flight' = "no" /\ conn' = FALSE
    /\ asleep' = NobodySleeps
    /\ rushed' = [glass |-> FALSE, look |-> FALSE]
    /\ mem' = [script |-> NoScript, rev |-> 0, look |-> disk.look.v]
    /\ req' = [pc |-> "off", ok |-> FALSE, back |-> None]
    /\ kept' = NoBatch /\ lost' = FALSE
    /\ UNCHANGED <<disk, countVars>>

(* It starts: Saver::start, then Prompter::load, which moves the look's    *)
(* revision on and hands it to the saver.                                  *)
Start ==
    LET loaded == [disk.look.v EXCEPT !.rev = @ + StartStep]
        h == [v |-> loaded, n |-> handed + 1]
        waiting == [EmptySlot EXCEPT !.pending = h, !.due = "now"]
        shown == [v |-> [script |-> disk.script, rev |-> disk.rev,
                         place |-> disk.place[disk.script].v],
                  n |-> disk.place[disk.script].n]
    IN  /\ req.pc = "off" /\ run < MaxStarts /\ Room
        /\ run' = run + 1 /\ handed' = handed + 1
        /\ threaded' \in Threads
        /\ mem' = [script |-> disk.script, rev |-> disk.rev, look |-> loaded]
        /\ req' = [req EXCEPT !.pc = "idle"]
        /\ kept' = [glass |-> IF disk.script = NoScript THEN None ELSE shown, look |-> h]
        /\ rushed' = [rushed EXCEPT !.look = TRUE]
        /\ glass' = EmptySlot
        /\ \/ /\ threaded'
              /\ look' = waiting
              /\ UNCHANGED <<disk, recent, retry, failures>>
           \/ /\ ~threaded'
              /\ look' = [EmptySlot EXCEPT !.written = loaded]
              /\ disk' = [disk EXCEPT !.look = h]
              /\ recent' = TRUE
              /\ UNCHANGED <<retry, failures>>
           \/ /\ ~threaded' /\ failures < MaxFailures
              /\ failures' = failures + 1
              /\ look' = waiting
              /\ retry' = TRUE /\ recent' = TRUE
              /\ UNCHANGED disk
        /\ UNCHANGED <<stopping, stopped, batch, flight, conn, asleep, lost>>

Init ==
    \E shown \in Shown, laid \in Laid :
        /\ glass = EmptySlot /\ look = EmptySlot
        /\ threaded = FALSE /\ stopping = FALSE /\ stopped = FALSE
        /\ recent = FALSE /\ retry = FALSE
        /\ batch = NoBatch /\ flight = "no" /\ conn = FALSE
        /\ asleep = NobodySleeps
        /\ rushed = [glass |-> FALSE, look |-> FALSE]
        /\ LET first == [shown |-> shown, laid |-> laid, rev |-> 0]
           IN  /\ disk = [script |-> NoScript, rev |-> 0,
                          place |-> [s \in Scripts |-> [v |-> Top, n |-> 0]],
                          look |-> [v |-> first, n |-> 0]]
               /\ mem = [script |-> NoScript, rev |-> 0, look |-> first]
        /\ req = [pc |-> "off", ok |-> FALSE, back |-> None]
        /\ kept = NoBatch /\ lost = FALSE
        /\ failures = 0 /\ handed = 0 /\ run = 0

Prompter ==
    \/ \E place \in Places, urgency \in Urgencies : KeepPlace(place, urgency)
    \/ \E shown \in Shown, laid \in Laid : SetLook(shown, laid)
    \/ \E script \in Scripts, place \in Places : PutOn(script, place) \/ Edit(script, place)
    \/ \E place \in Places : Update(place) \/ Clear(place) \/ RestoreHolds(place)
    \/ \E archived \in Archived : RestoreCommits(archived)
    \/ Remember \/ RestoreSettles

RequestLoop ==
    \/ FlushBegins \/ FlushLooks \/ FlushGivesUp \/ FlushChecks
    \/ (\E place \in Places : StopKeeps(place)) \/ StopSkips
    \/ FinishBegins \/ FinishLooks \/ FinishGivesUp \/ FinishChecks \/ FinishEnds

Next == Thread \/ Time \/ Prompter \/ RequestLoop \/ Start \/ Crash

Spec == Init /\ [][Next]_vars

(* The thread runs, time passes, and a request that holds the prompter's   *)
(* lock goes on.  Nothing obliges a write to fail, or to succeed: the      *)
(* failures are bounded, as for a disk that comes back.                    *)
Fairness ==
    /\ WF_vars(ThreadLooks \/ ThreadWakes \/ ThreadWrites \/ ThreadSettles)
    /\ WF_vars(ThreadCloses \/ ThreadEnds)
    /\ WF_vars(RetryPasses)
    /\ WF_vars(GlassDueComes) /\ WF_vars(LookDueComes)
    /\ WF_vars(Remember) /\ WF_vars(FlushLooks)

FairSpec == Spec /\ Fairness

-----------------------------------------------------------------------------
(* Properties.                                                             *)

Waiting(S) == {None} \cup Numbered(S)

SlotType(S) == [pending : Waiting(S), due : {"now", "later"}, taken : BOOLEAN,
                written : {None} \cup S]

SleepType == [thread : BOOLEAN, waiter : BOOLEAN, until : BOOLEAN]
BatchType == [glass : Waiting(GlassSaves), look : Waiting(LookSaves)]
MemoryType == [script : Scripts \cup {NoScript}, rev : Nat, look : LookSaves]
RequestType == [pc : {"off", "idle", "committed", "restored", "settling", "flush", "flushed",
                      "stop", "finish", "finishing", "finished", "stopped"},
                ok : BOOLEAN, back : Archived \cup {None}]
DiskType == [script : Scripts \cup {NoScript}, rev : Nat,
             place : [Scripts -> Numbered(Places)], look : Numbered(LookSaves)]

TypeOK ==
    /\ glass \in SlotType(GlassSaves) /\ look \in SlotType(LookSaves)
    /\ threaded \in BOOLEAN /\ stopping \in BOOLEAN /\ stopped \in BOOLEAN
    /\ recent \in BOOLEAN /\ retry \in BOOLEAN /\ conn \in BOOLEAN /\ lost \in BOOLEAN
    /\ batch \in BatchType /\ kept \in BatchType
    /\ flight \in {"no", "begun", "landed", "refused", "failed", "closing", "closed"}
    /\ asleep \in SleepType
    /\ rushed \in [glass : BOOLEAN, look : BOOLEAN]
    /\ mem \in MemoryType /\ req \in RequestType /\ disk \in DiskType
    /\ failures \in Nat /\ handed \in Nat /\ run \in Nat

PlaceOnDisk ==
    kept.glass # None =>
        disk.place[kept.glass.v.script].v = kept.glass.v.place

(* The saver wrote the look on the disk, and no archive's restore since.    *)
LookIsTheSavers == disk.look.n # 0

LookOnDisk == kept.look # None /\ LookIsTheSavers => disk.look.v = kept.look.v

(* When no place waits, the saved data holds the newest place there was:   *)
(* no hand-off is dropped for a value that is not on the disk, cleared for *)
(* a newer one, or taken for written when it was refused (a dial turned    *)
(* forward and back while a write is on its way).                          *)
PlaceKept ==
    ~lost /\ glass.pending = None => PlaceOnDisk

(* The same for the look, the take's size and the look's revision, wherever *)
(* the disk's look is the saver's own and not what a restore wrote.        *)
LookKept ==
    ~lost /\ look.pending = None => LookOnDisk

(* A look that was changed and changed back ends with what it came back to: *)
(* when no look waits, and no restore is under way, the disk holds the     *)
(* newest one.                                                             *)
LookComesBack ==
    ~lost /\ look.pending = None /\ req.pc \notin {"restored", "settling"}
          /\ kept.look # None => disk.look.v = kept.look.v

(* A script's place on the disk never goes back to an older one: a save    *)
(* taken before a put on, an Update or a clear never lands over the place  *)
(* that transaction wrote, whichever reaches the disk first.               *)
NeverBack == [][\A s \in Scripts : disk'.place[s].n >= disk.place[s].n]_vars

(* A flush that answers true left nothing unwritten: the copy that follows *)
(* it holds the newest place, pace and look.                               *)
FlushTold ==
    [][req.pc \in {"flush", "flushed"} /\ req'.pc = "idle" /\ req'.ok
          => PlaceOnDisk /\ LookOnDisk]_vars

(* Once the saver is stopped, its thread's connection is closed and the    *)
(* saver writes no more: the stop's backup and checkpoint run alone.       *)
AfterStop == [][stopped /\ stopped' => ~conn /\ disk' = disk]_vars

(* With the thread, a stop that was done in time has the last place and    *)
(* look on the disk, unless the thread's last write failed.                *)
StopTold ==
    req.pc = "stopped" /\ req.ok /\ stopping /\ ~lost
        => flight = "no" /\ PlaceOnDisk /\ LookOnDisk

(* A save is due at once only for a reason of its own since the slot was   *)
(* last taken: a value handed over while a write is on its way does not    *)
(* inherit the due of the one the write took, so a slow disk is not        *)
(* written back to back.                                                   *)
DueForAReason ==
    threaded => /\ DueIn(glass) /\ ~glass.taken => rushed.glass
                /\ DueIn(look) /\ ~look.taken => rushed.look

(* Nobody sleeps through what they wait for: a flush whose slots emptied   *)
(* without a write still hears of it, a stop hears of the thread's end,    *)
(* the thread hears of the stop, and it never sleeps with no deadline over *)
(* a place or a look that waits.                                           *)
SleepersHear ==
    /\ asleep.waiter /\ req.pc = "flush" /\ Quiet => threaded /\ ~asleep.thread
    /\ asleep.waiter /\ req.pc = "finish" => ~stopped
    /\ asleep.thread => ~stopping /\ (NothingPending \/ asleep.until)

(* A restored look stands: once the saver is quiet the disk has it, though *)
(* a write of an older look was on its way when the restore committed,     *)
(* until somebody changes the look again.                                  *)
RestoredLookStands ==
    req.pc = "idle" /\ req.back # None /\ look.pending = None /\ batch.look = None
        => <<disk.look.v.shown, disk.look.v.laid>> = req.back

(* What is handed to the thread does not wait for ever: once the disk      *)
(* takes writes it is written, replaced, or let go by a change of glass.   *)
WrittenInTime ==
    /\ (threaded /\ glass.pending # None) ~> (glass.pending = None)
    /\ (threaded /\ look.pending # None) ~> (look.pending = None)

=============================================================================
