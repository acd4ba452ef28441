# Studio Control: specification and proofs

TLA+ modules that model the concurrent parts of Studio Control (the Rust engine with its
Stream Deck bridge, the Teleprompter's saver, CAM 1's link, the audio console's link, the
light output and the pictures helper's supervisor; the desktop shell's hold on the engine and
the page over it), the TLC configurations that check them on small instances, and TLAPS
proofs of what holds for every instance. Paths below are relative to
`native/rust-engine/src/` unless they begin otherwise.

Contents: [the system](#the-system) · [modules](#modules) · [runs and bounds](#runs-and-bounds) ·
[fairness](#fairness) · [proofs](#proofs) · [findings](#findings) ·
[not modelled](#what-is-not-modelled) · [plan](#plan)

## The system

Four programs: the **engine** (`native/rust-engine`), the **desktop shell** (Tauri,
`native/tauri-shell`), the **pages** (React, `frontend`) and the **pictures helper**
(`native/pictures-link`). The shell starts the engine and passes the pages' requests to its standard
input as lines; the engine answers and sends events on its standard output. The engine
starts and watches the pictures helper over a pipe of its own.

Inside the engine one loop (`main.rs`, `commands.rs`) answers the requests one after
another. Beside it run: the Stream Deck bridge's acceptor, overflow thread and workers;
the prompter's saver and clock; a link and a notifier for each camera; the audio
console's link and metering; the sACN output; the session watch; the pictures helper's
supervision; the liveness watch. They share an SQLite database, whose transactions are
atomic and which every module below takes so, and one lock per area: the prompter's,
the cameras' (with a gate that a press holds while it waits), the lighting state's, the
audio state's.

| component | state it keeps | operations | what makes it hard | what makes it correct |
|---|---|---|---|---|
| Teleprompter's saver: `prompter/saver.rs`, with `runtime.rs`, `commands.rs`, `store.rs` | two slots (the glass script's place and pace; the look) with due times, the write on its way, what was written last; the memory of the glass; the saved data | hand over, write, settle, retry, flush, stop; put on, replace, update, clear, an archive's restore | a write runs with no lock held; the glass changes under it; a restore writes past it; disks fail; crash | the newest place and look is saved or waits; none goes back; a flush and a stop tell the truth; nobody sleeps through their wake |
| Teleprompter's scripts, clock and screen: `prompter/` | the place as a function of time, a generation, what the screen echoed | play, pause, jump, edit, import | the clock's thread and an echo from the prompter's window race the deck | an echo about an older text or generation moves nothing |
| Stream Deck bridge, its connections: `control_surface_http.rs`, `control_surface_http/overflow.rs`, `control_surface_pool.rs` | the unread line, the parked reads, the overflow line and its count | accept, offer, park, peek, refuse, read, answer | three kinds of threads, bounded lines, wakes, presses kept before reads | presses are begun in order; polls do not crowd presses out; everyone is answered |
| Stream Deck bridge, its keys: `control_surface.rs`, `control_surface_presses.rs` | which key asked, about what and when; when each key acted; the last event | take, ask, act, give back, note | a press is measured at its arrival and handled later, beside others and the screen | a doubled press switches once; a question is answered only about what it asked |
| Cameras: `cameras/` | a link per camera with its inbox and reading; the runtime's reading; REC's arm and last action | hold, write, read back, notice, release, connect, pair, forget; REC | a press waits with the lock let go; its deadline races the answer; the camera records by itself | a stop stops the take it was armed for; a doubled press is one; what is shown was heard |
| Audio console: `rme_console_link.rs`, `audio/console_link.rs`, `audio/sync.rs`, `audio/load.rs` | sends that wait for their read-back, reports not yet taken, the audio state and how far it is trusted | send, read back, confirm or adjust, expire, flush, Sync, load a snapshot | the console answers late, in bursts or by silence; somebody turns it meanwhile | "aligned" is shown only when what the app holds is what the desk holds |
| Lighting: `lighting/`, `lighting_sacn_output.rs` | fixtures, scenes, preview, fades, the render generation; the output's cached settings, streams and tally | set, patch, preview, fade, recall, arm, hold, move the bridge; probe; tick | the output's thread reads while writers commit; the probe writes with no lock; sends fail | edits stand; a pass renders what had returned; streams end; the lamp is not green over a frame whose send failed |
| Pictures helper, supervised: `pictures_helper.rs` | the running helper, its generation, the next wait, what is wanted and shown | start, hear, silence, end, restart, stop | lines of an older helper; an end racing a stop | at most one helper; an older generation's lines change nothing; a hung one is ended; one that stayed up starts again soon |
| Desktop shell: `native/tauri-shell/src/engine.rs`, `shell_commands.rs` | the engine's slot, the requests that wait | launch, request, watch the exit, stop, relaunch | a watcher, two stops and a launch share the slot | one process at a time, each end told once for what it was; no call waits on a dead process |
| The page over the engine: `frontend/packages/engine-client/src/store/createShellStore.ts` | the start it is in, the generation it shows, its automatic restarts | start, hear, restart, close | an exit and the start's answer come in either order | a page that shows a dead engine hears of it; a promised restart comes to a start, and every start ends |
| Shell's windows: `native/tauri-shell/src/` | windows, displays, the unanswered close | place, watch, close | displays come and go | a second close ends an engine that does not answer |
| Session: `session/` | folders, disks, vMix's answers | begin, end, watch | the watch measures for seconds | a report is about the session that is on |
| Storage, backups, settings | the database, its snapshots, archives | migrate, snapshot, prune, export, restore | a restore crosses every area | all or nothing |
| Requests, health, liveness | event numbers, threads' beats | answer, emit, watch | sequential | – |
| Protocol, pages, exports | a copy of the engine's state | – | conversions | – |

`PROJECT.json` lists the same components with their sources and status, and under
`hazards` what can go wrong in each, at the line where it would.

## Modules

In every module an action is a whole step of the code: what is done between taking a
lock and letting it go, or one effect outside a lock. What a module adds for its
properties alone (numbers on values, what was accepted, bounded counts) is named as such
where it is declared, and no action's guard reads it except for the bounds.

### PrompterSaver

`prompter/saver.rs` whole, with what shares its data. Three actors: whoever holds the
prompter's lock (`Prompter`), the saver's thread (`Thread`) and the request loop while it
waits in a flush or a stop (`RequestLoop`); beside them time, starts and crashes.

| TLA+ | code |
|---|---|
| `glass`, `look` | `State.glass`, `State.look` (`Slot`): pending, due, taken, written |
| `batch`, `flight`, `conn` | the `Batch` a write took, how far `write_batch` is, the thread's connection |
| `recent`, `retry` | `last_write_at` and `retry_at`, as "the second is not over" |
| `asleep` | who waits on the condvar, and whether the thread's wait has a deadline |
| `mem`, `disk` | `Prompter`'s memory; the saved data |
| `HandOver`, `Deduped`, `TakenFrom`, `Settled`, `Unsettled`, `WriteHere` | `Slot::hand_over`, `take_batch`, `finish_batch`, `write_here` |
| `ThreadLooks` … `ThreadEnds` | the loop of `run` |
| `PutOn`, `Update`, `Clear`, `Edit` then `Remember` | the glass's transaction (`store.rs`), then the memory that follows it |
| `RestoreCommits`, `RestoreHolds`, `RestoreSettles` | `write_restored_look` and what the runtime does after it |
| `FlushBegins` …, `FinishBegins` … | `flush`, `finish`, each spell under the lock |

Time is two predicates: a slot becomes due (`GlassDueComes`, `LookDueComes`), a second or
a retry's wait is over. The code compares values, never the numbers the model gives
them: a value turned forward and back is the same value with another number, which is
exactly the case `take_batch` and `finish_batch` must tell apart.

Properties:

* `PlaceKept`, `LookKept`: nothing that waits no more is missing from the saved data.
  `NeverBack`: no older place is written over a newer.
* `FlushTold`: what a flush answers is true. `StopTold`: the same of a stop that ends with the
  thread, unless the thread's last write failed: then the stop still answers true
  ([observed](#observed)). `AfterStop`: nothing is written once a stop is over.
* `SleepersHear`: nobody who waits on the condvar misses what they wait for, and the thread never
  sleeps without a deadline over a place or a look that waits. The code's thread wakes every
  minute (`IDLE_WAIT`, `saver.rs:54`) besides; the model leaves that out, so that nothing leans on it.
* `DueForAReason`: a save that is due was asked for (a slow disk is not written back to back).
* `RestoredLookStands`: a restored look is not written over by an older one.
* `WrittenInTime` (liveness).

### PressLine and BridgePool

`PressLine` is what the bridge promises of presses: each waits once, they are begun in
the order they came, one that is turned away leaves the others in order. It says it of a set
of presses and the pairs of them of which one came before the other. `BridgePool` is
the acceptor (`accept`), the overflow thread (`overflow_one`), the queue (`Pool`) and the
workers (`serve_next`), one action for each spell under the queue's lock and each channel
or counter operation. It implements `PressLine` (`InOrder`) with

    coming = the presses in: unread, the overflow thread, its line, the acceptor
    before = their order along those four, and along each line
    begun  = the presses a worker reads or acts on

which only holds because the acceptor sends everyone the overflow thread's way while
anyone waits for it (`AcceptorLooks`), and because the count goes down only after the
connection took its place (`OverflowLeaves`). `WorkersHear`: no wake is lost.
`RoomForPress`: a queue full of displays' polls refuses no press; the bound it states is
weaker than the comment's (`control_surface_pool.rs:15`) by one slot per worker, because
`park` never looks at the capacity (see [observed](#observed)). `TypeOK` bounds the count of the overflow line. `Served` is
liveness.

`Pool::close` has no action: the acceptor's loop over `listener.incoming()` has no end, so
it is called only when the thread unwinds.

### DeckPresses

`DeckPresses` is what a worker does with a press it has read: `take_dwelling_press`
(`Takes`), the handler (`Succeeds`, `Fails`), `release_dwelling_press` (`Releases`), and for
the keys that ask first, under the lighting lock, `asked_light_action` with its four
outcomes (`PressArms`, `PressKept`, `PressDisarms`, `PressActs`) and its failures
(`PressFails`, which includes the delete whose second write fails). The screen deletes,
adds and previews meanwhile. Presses are *begun* in order, which is what `BridgePool`
gives; from then on workers run beside each other, and a press carries the moment it came.

`SwitchOnce`: two presses that acted are a dwell apart. It holds because
`take_dwelling_press` writes the moment first, and because a press that failed gives the
key back only if no later press took it. `ActsAsAsked`: All Off and Del Scene act only on
what the press before them asked about, and one question is answered once.

### CameraTake

CAM 1's link thread and its inbox (`cameras/pocket/link.rs`, `winrt.rs`), its notifier, the
reading (`state.rs`) and the runtime's copy of it (`runtime.rs`, `real_link.rs`), a press in
its two spells under the cameras' lock with the wait between them (`commands.rs`,
`sending.rs`), and the deck's REC (`deck.rs`), which starts a take at one press and stops it
at two. The camera is an actor: its body's button, or a full card, starts and ends takes
too.

`Read(cam)` is the read of the camera every spell under the lock begins with
(`RealLinks::read` and what `take_reading` keeps of it); it is part of each action. A press
is `none`, `waiting` (the order is in the link's inbox or being written) or `answered`;
`DeadlinePasses` is the two seconds of `sending.rs`, after which the order is withdrawn,
though a write under way may still reach the camera.

`StopsItsTake`: REC's second press stops the take its STOP? was armed for and no other. It
rests on the arm's `stale` mark, which every change of the take or of CAM 1's answering sets.
"A take that ended" is what a read *found* to have ended (`over`): a take that ends and
another that begins between two reads without a notice are one take to the program, and
to the property. `DoublePressKept`: a press sooner than the dwell after REC's last act does
nothing. `LinkHeard`: when no notice is left to take, what is shown is what the link knows.

A release while a press waits in the link's inbox lets that press be written first: the
order to let go stands behind it (`LetsGo`). The model has it so; no doc says otherwise.

### ConsoleLink

What the app knows of TotalMix's console. The desk is an actor: it takes a value, ignores it
where its layout hides the channel, reports what somebody turns on it, loads a snapshot,
loses its interface, goes out of touch. It hears a datagram at once; its lines wait in
`toApp`. The engine's side is the link (`rme_console_link.rs`), the metering thread that reads
lines, runs the link's clocks and flushes (`Ingest`, `Service`, `Tick`, `FlushTakes`), an edit
under the audio state's lock (`EditSends`, `EditEnds`) and the request thread's Sync or load
(`PullBegins` … `PullAligns`).

| TLA+ | code |
|---|---|
| `pending`, `outstanding`, `queued`, `pull`, `marks` | `ConsoleLinkState`: the sends that wait, the read-backs asked, the reports, the pull, `expired` and the three marks |
| `app`, `confidence` | the saved audio state, `console_state_confidence` |
| `editing`, `flushing` | who holds `AUDIO_STATE_LOCK`, and the reports a flush took |
| `AbsentOff` | `zero_absent_mix_nodes` |
| `MarksAfterFailure` | `mark_reports_lost` |

Nothing holds the actors apart but what the code has: the lock, and the order within a thread. An
edit may start while lines are unread, while a read-back is out, in a pull; time passes while the
metering thread waits for the database (`behind`, its bound `Latest`), as
`rme_totalmix_osc.rs:684-688` says it may. Things of one tick have one stamp, as things of one
millisecond have in the code.

`EditStands`: a flush writes no report over a value sent after the report was taken, whatever
happens. `AnsweredInTime`: a send whose value the desk holds is answered before it expires,
however later sends restamp its read-back, as long as the desk is in touch, is not about to load,
lets the answers to those sends go quiet, and the passes are not so late that the send's time was
over before one could ask about it.

`AlignedIsTrue`: a Console that reads *aligned* shows what the desk holds, once nothing about the
value is under way, of every value that no mishap befell since a pull read it. Some orders of
events, each of a few milliseconds or of one failure inside another, make a Console read aligned
over a wrong value. The model takes all of them. It only notes, in the history variable `doubted`
(no guard reads it), which values they befell, until a pull that began later has read the desk.
These are the `Mishaps`:

| mishap | what happens |
|---|---|
| `"crossed twice"` | an edit crosses two lines of its value, or one line and a layout that hides the channel: the link drops the first line as old and takes the next for the answer |
| `"tied"` | a send of the same millisecond as its submix's read-back request, with an older line on its way: `requested_at >= sent_at_ms` (`rme_console_link.rs:967-968`) takes that line for the answer. The comment above it (`:961-963`) has no tie in mind; there is none within one send, but another send of the submix may have asked |
| `"unread before a pull"` | a line from before the load or the Sync is read as part of its dump |
| `"expired in a pull"` | a send expires before its pull has written, for a late pass say; the pull clears the mark |
| `"outage in a pull"` | the desk's interface goes and comes back inside a pull |
| `"write lost in a pull"` | the metering thread's flush fails while a Sync is in its pull, which clears the mark |
| `"late end"` | a change at the desk inside a Sync's last milliseconds (the first [finding](#findings)) |
| `"load unwritten"` | a load whose last write fails (`audio/load.rs:253-268`, where only a rejected load marks the Console unknown) |

`Excused` says which of them are noted. `console_link` and the theorem note all: what they show is
that these are the only ways. None can be left out of the list, each alone breaks the property;
`console_late_end` notes all but the one it is about.

### EngineLife, EngineBridge and ShellStore

`EngineLife` is what the desktop shell promises of a launched engine: one at a time, and each
one's end told once, as asked for exactly when somebody asked while the shell held it.
`EngineBridge` is `native/tauri-shell/src/engine.rs`: the slot (`process`), the ids that wait
(`pending`), a request in its four steps (registered, writer looked up, line handed over,
waiting), the reader, the exit watcher with its report, and `stop` in its three spells, any
number of them at once. It implements `EngineLife` (`TellsEachEnd`) with

    life  = each process's own state
    asked = it was launched and its standard input was closed

`WaiterHeld`: a call that waits has its id in the map, and its process is held or its exit's
report has yet to fail the ids. `StopEnds`: a stop lets go only of a process that is gone.
`WaiterTold` is liveness: a call that waits on a dead process goes without its time-out.
Ids are unique, so the refusal of a duplicate is never met; a poisoned mutex, an error of
`try_wait` and a failed start of a thread are left out; a timed-out caller's own removal of
its id is one step with its time-out.

`ShellStore` is the page (`createShellStore.ts`, with the shell's commands and the page's
transport) over `EngineLife` itself: `engine_start`'s answer, the first event of a process,
its exit, the ping and the reads behind it, the landing page, the automatic restarts with
their limit and timer, a reload and the close. Because it stands on the promise and not on
the bridge, `TellsEachEnd` is what makes it speak of the bridge. `PageHears`: a page that
shows a process that stopped comes to hear of it, whichever of the exit and the start's
answer came first. `StartsEnd`: a restart the page promised comes to a start, and every start comes to an
end, whatever the process does and whatever was still in flight when the start before it was left.

A page that reloads or restarts leaves a start with its calls unanswered: the shell still takes
them, starting or stopping a process the new page did not ask about. One stray call of each kind
is on its way at a time (`astray`, `StrayStarts`, `StrayStops`). An `engine_start` of a left start that fails late
also forgets the new page's listener (`tauriTransport.ts:82-86`), so that a further one is set and
later events come twice; every handler takes a second copy as nothing new, and the model leaves
the copies out.

### HelperWatch

`pictures_helper.rs`: the supervisor's thread (`ReadsSaved`, `StartsFirst`, then passes of
`Receives`, `SeesExit`, `SeesTail`, `SeesTime`), the readers of the helpers' output, the helpers
themselves (they read a line, speak, hang, end), the cameras and the page that tell it what
is wanted and shown, and the engine's stop (`AsksStop`, `HearsStop`, `StopsHelper`,
`Finishes`). The supervisor may be late by any number of ticks; the rest of a pass, once it took
a message, is interrupted only by time and by a helper's reading.

`OneHelper`: one helper is up at a time, and none once the engine heard that the supervisor
ended. `StatusOfTheHelper`: what the pages are told is about the helper of the moment.
`BacksOff`: the wait before a start is the doubled one, whatever the last helpers said before
they ended. `StartsSoonAgain`: a helper that was heard after it had stayed up leaves no long wait
behind, however many short-lived ones ended before it. `SilenceEnds`, `WantReaches`: liveness.
`gap`, `fails` and the helper a status is about are marks of the model; no guard reads them.

### LightOutput

The writers of the lighting, the commissioning probe and the output's thread
(`lighting_sacn_output.rs`). A writer, the request loop or a worker of the Stream Deck, loads the
lighting, persists it or refuses, and moves the render generation, all under the lighting
lock (`lighting/state_lock.rs`); only the loop patches, arms, moves the bridge and restores.
The probe (`main.rs`, `commissioning.rs`) runs aside the loop, writes the address it asked with
no lock and moves the generation only when its whole answer succeeded. The output wakes at a
tick, reads the settings when the generation moved or its copy is old (`ReadDue`), renders, ends
the streams that are over, sends what changed or is due (`Due`) and settles the tally into the
health entry (`Ticks`, one step for one call of `SacnOutput::tick`).

`EditsKept`: a write changes only what its edit is about. `RendersWhatReturned`: a pass renders
every change that had returned when it began, unless its read failed. `StreamsEnd`: after a pass
nothing is live elsewhere than the input says. `GreenLamp`: with the entry ok, the last frame that
left for each patched universe is the rendered one, so no failed send hides behind it.
`Settles`: with the wire good again for good the rig comes to show what is saved, also after a
probe that never moved the generation (`SETTINGS_SAFETY_REREAD`) and over frames that were lost
(`KEEPALIVE_INTERVAL`).

A send that fails and a frame that is lost are two things: on a `"bad"` wire sends may fail, on an
`"unplugged"` one (`lighting_sacn_output.rs:251-254`, `docs/HARDWARE.md`) none does and nobody hears
them. `told` is what left for each bridge, `lost` the universes whose last frame nobody heard. The
lamp speaks of the first alone; a bridge that is unplugged is the bridge watch's to say, and a
stream's end it did not hear is left to its own time-out.

One level stands for the slots of every patched universe; a bridge `None` is lighting that is off
or has no address of one machine; the three end packets are one, and one that is lost leaves the
stream `"adrift"`; the order of packets within a tick is reduced to whether the last one went.
Fades, identify, preview, simulated lights, logs and the bridge's watch are left out.

## Runs and bounds

| run | instance | shows |
|---|---|---|
| `prompter_saver` | 1 script, 2 places, 2 colours, an archive, 4 values, 2 glass revisions, 1 failing write, 2 starts, with and without the thread, fair; 0.71 million states | the saver's safety properties and `WrittenInTime` |
| `prompter_look_back` | 1 place, 2 colours, an archive, 1 failing write, the thread | the finding about a look changed back |
| `bridge_pool` | 6 connections, 2 workers, a queue of 1 and 3 slots for presses, an overflow line of 1 | the pool's safety, and `PressLine` as its specification |
| `bridge_served` | 4 connections that come again for ever, 2 workers, a queue of 1 and 2 slots for presses, fair; 0.64 million states | `OneServed`: `Served` of one connection, which stands for all because their names are alike |
| `deck_presses` | 2 workers, 2 scenes, 5 keys, 4 presses, a dwell of 2 and a window of 4 ticks, the clock to 5; 2.8 million states | `SwitchOnce`, `ActsAsAsked` |
| `camera_take` | 1 link at a time, an inbox of 2, a dwell and a window of 1 tick, STOP? shown for 2, the clock to 2; 1.6 million states | `LinkHeard`, `StopsItsTake`, `DoublePressKept` |
| `console_link` | 2 faders of one submix and a switch, levels on and off, budgets below, every mishap noted; 10.2 million states | `AlignedIsTrue`, `AnsweredInTime`, `EditStands` |
| `console_late_end` | the same, `"late end"` not noted | `AlignedIsTrue` is violated: the finding |
| `engine_bridge` | 2 launches, 2 askers, the restart's stop and the close's, fair; 0.4 million states | `WaiterHeld`, `StopEnds`, `WaiterTold`, and `EngineLife` as its specification |
| `shell_store` | 2 launches, 1 automatic restart, a stray call of each kind, fair; 0.48 million states | `PageHears`, `StartsEnd` |
| `helper_watch` | 2 helpers started and any number of failed starts, 2 wants, 1 change or word, a silence of 1, delays of 1 and 2, a tail of 1, fair; 0.92 million states | `OneHelper`, `StatusOfTheHelper`, `BacksOff`, `StartsSoonAgain`, `SilenceEnds`, `WantReaches` |
| `light_output` | the loop and a worker, 2 bridges, 2 universes, 2 levels, 1 archive, 2 changes, 1 failing read, every wait 2 ticks, a pass late by 1, a wire good, bad or unplugged, fair; 0.94 million states | `RendersWhatReturned`, `StreamsEnd`, `GreenLamp`, `EditsKept`, `Settles` |

Why these bounds are enough for the interesting cases to occur:

* `prompter_saver`: four values let a place go forward, back and forward again while a
  write of the first is on its way, with one value left for a start's own save; two glass
  revisions let a save of the first meet the second; two starts put a crash between
  any two steps. One failure is enough for a failed value to come back under a newer one.
* `bridge_pool`: six connections fill the queue, the reserve and the overflow line and leave
  one at the acceptor. A name is used again once its connection is closed, so this is no
  bound on how many come. Two kinds, `press` and `display`, are the two the queue treats
  unlike; `post` and `get` differ only in that they are no key's press. `CHECK_DEADLOCK` is on:
  the bridge can always go on.
* `deck_presses`: four presses are two questions with their answers, or a doubled press
  around one that failed and gave the key back; two workers handle any two in either order.
* `camera_take`: a window no longer than what is shown and a dwell of one tick keep every
  boundary (`<`, `<=`) of `deck.rs` apart. Two links at once (one let go with orders left to
  take, the next one held) are beyond a run of minutes with these properties.
* `console_link`: `Budgets` is a set of (edits, turns, pulls, faults): (2, 1, 0, 0), (2, 0, 0, 1),
  (1, 1, 1, 0) and (0, 1, 1, 1). Two edits let a second send restamp the first's read-back; a turn
  or a fault meets either; a pull meets one edit and one turn, or one turn and one fault. Every
  mishap breaks `AlignedIsTrue` within these when it alone is not noted. One fader starts off, so a dump leaves it out; a switch is
  never left out. The time-outs keep the order the code's constants have: a read-back after 1
  tick (120 ms), a send expires after 3 (1.5 s). A pass may be 3 late (`Latest`), which is past a
  send's expiry. A pull is given up after 2 ticks. Ages count from each send, so time itself is
  unbounded.
* `engine_bridge`, `shell_store`: a second launch is what a stale exit, a stale clearing or a
  stale answer needs to meet; a third adds no pair. The second stop is the close that comes
  while a restart stops.
* `helper_watch`: a start that fails uses up no helper, so runs of failures are unbounded and
  reach the longest delay; two helpers are what a line of an older one needs. One change of
  the wants meets every moment of a start, a wait and an end.
* `light_output`: two changes with the probe among them put one writer's edit inside the
  other's load and persist; waits of two ticks keep "changed", "due" and "not yet" apart; the
  start is a rig that streams or is held.

`CHECK_DEADLOCK FALSE` stands where a bound on counts (values, starts, presses, budgets) ends every
behaviour: `prompter_*`, `deck_presses`, `console_*`. Those bounds are the only reason such runs
stop; every other run checks that the system can always go on.

`BridgePool`'s type invariant is a run's property, because it bounds the overflow line. The other
modules' only say of what kind the variables are; they are proved where a proof rests on them.

Every property of a passing run comes with a mutant: an operator placed before the one it
would replace, whose comment begins "Mutant:", "Mutated:" or "A change's mistake:" and says
which slip in the code it stands for (a dropped check of the revision, a due time inherited, a
wake forgotten, a count not given back, a lock not taken …). With the mutant in place the
property is violated under the same configuration.

## Fairness

`PrompterSaver.FairSpec`: the thread takes its next step, time passes, a request that holds
the prompter's lock goes on. The thread is the operating system's, the waits are condvar
waits with a timeout, and a request holds the lock only over a transaction. Nothing is
assumed about the disk except that it fails a bounded number of times. Nothing obliges a
user, a flush's caller or a crash to do anything.

`BridgePool.FairSpec`: each thread goes on and time passes. Reading has a deadline, answering
ends, peeking has a timeout, so each step of each thread ends. A weak fairness per worker is
enough: a worker that sleeps is disabled and is woken only by `NotifyOne`. No connection is
obliged to come, and nothing bounds how many come, so `Served` rests on the parked reads'
age (`parked_at_most`) alone.

`EngineBridge.FairSpec`: each call, each exit watcher with its report and each stop goes on,
and a stop's grace passes. No process has to answer or end, nobody has to call, and no call
has to time out: `WaiterTold` does not lean on the ten seconds.

`ShellStore.StoreSpec`: an end is told (`EngineLife`'s own fairness, which `engine_bridge` checks of
the bridge), a process that was asked to stop ends, a call that was made comes back, a left start's too, an
event that was emitted is handled, the page goes on and a timer that is set fires. No process
has to become ready, to answer a ping or to live.

`HelperWatch.Fairness`: the supervisor's thread runs, time passes, a helper that is up reads
its standard input. A hung one reads nothing, and none has to speak.

`LightOutput.Fairness`: the output's thread runs, no more: a writer may stop anywhere, the
probe may never be answered. `Settles` asks in its own premise that the wire is good again for good.

`DeckPresses`, `CameraTake` and `ConsoleLink` are checked for safety only.

## Proofs

| module | theorem | says | rests on |
|---|---|---|---|
| `PrompterSaver_proofs` | `SaverTypeCorrect` | `Spec => [](TypeOK /\ RestoreKnown)` | itself |
| | `NoPlaceLost` | `Spec => []PlaceKept` | `GlassInv` |
| | `NoPlaceGoesBack` | `Spec => NeverBack` | `GlassInv` |
| | `NobodySleepsThroughASave` | `Spec => []SleepersHear` | `PhasesInv` |
| | `NothingIsWrittenAfterTheStop` | `Spec => AfterStop` | `PhasesInv` |
| | `NoLookLost` | `Spec => []LookKept` | `LookInv` |
| | `StopsAreToldTrue` | `Spec => []StopTold` | `PhasesInv`, `GlassInv`, `LookInv` |
| | `FlushesAreToldTrue` | `Spec => FlushTold` | the same |
| | `RestoredLooksStand` | `Spec => []RestoredLookStands` | `LookInv`, `RestoreInv` |
| | `SavesAreDueForAReason` | `Spec => []DueForAReason` | `DueInv` |
| `BridgePool_proofs` | `PoolTypeCorrect` | `Spec => []TypeOK` | `PoolInv` |
| | `NobodySleepsOverAConnection` | `Spec => []WorkersHear` | `PoolInv` |
| | `PressesInOrder` | `Spec => InOrder` (it implements `PressLine`) | `PoolInv` |
| | `DisplaysCrowdNoPressOut` | `Spec => RoomForPress` | `PoolInv`, `Uncrowded` |
| `DeckPresses_proofs` | `PressesSwitchOnce` | `Spec => []SwitchOnce` | `PressType`, `DwellInv` |
| | `AskingKeysActAsAsked` | `Spec => ActsAsAsked` | `PressType`, `AskInv` |
| `CameraTake_proofs` | `LinkIsHeard` | `Spec => []LinkHeard` | `Linked` |
| | `SecondPressStopsItsTake` | `Spec => StopsItsTake` | `Linked`, `Ended` |
| | `DoublePressesAreKept` | `Spec => DoublePressKept` | `Paced` |
| `ConsoleLink_proofs` | `ConsoleTypeCorrect` | `Spec => []TypeOK` | `Safe` |
| | `AlignedConsolesAreTrue` | `Excused = Mishaps => (Spec => []AlignedIsTrue)` | `Safe`, `Told` |
| | `SendsAreAnswered` | `Spec => []AnsweredInTime` | `Safe`, `Answered` |
| | `EditsStand` | `Spec => EditStands` | `Safe` |
| `EngineBridge_proofs` | `WaitersAreHeld` | `Spec => []WaiterHeld` | `BridgeInv` |
| | `StopsEndWhatTheyMet` | `Spec => []StopEnds` | `BridgeInv` |
| | `BridgeKeepsItsPromise` | `Spec => Life!Safety` | `BridgeInv` |
| `HelperWatch_proofs` | `OneHelperAtATime` | `Spec => []OneHelper` | `Held` |
| | `StatusIsOfTheHelper` | `Spec => []StatusOfTheHelper` | `Held` |
| | `RestartsBackOff` | `Spec => BacksOff` | `Patient` |
| | `LongRunsStartSoonAgain` | `Spec => StartsSoonAgain` | `Afresh` |
| `LightOutput_proofs` | `PassesRenderWhatReturned` | `Spec => []RendersWhatReturned` | `Fields`, `MovesTold` |
| | `OtherStreamsEnd` | `Spec => []StreamsEnd` | `Fields`, `Remembered` |
| | `NoFrameHidesBehindAGreenLamp` | `Spec => []GreenLamp` | `Lightings`, `Lamp`, `Shown` |
| | `EditsAreKept` | `Spec => EditsKept` | `Fields`, `Untouched` |

Every safety property of the passing runs is proved so, for every value of the constants, with one
hypothesis: `AlignedIsTrue` where every mishap is noted, so of the values none befell. The proofs rest on the modules' named
`ASSUME`s alone. They say of what kind the constants are and that `None`, `Nobody`, `"quiet"` and the
like are none of the values; and of the code's constants only what orders them: a dwell is at least
a tick and no longer than the window, which is no longer than what is shown (`control_surface.rs`,
`cameras/deck.rs`); the console's waits are at least a tick and a read-back is asked before a send
expires (120 ms, 1.5 s); an archive's lighting is a lighting. One, `PowersAssumption` of
`HelperWatch`, is arithmetic: it says of the powers of two up to the sixteenth that they are natural
numbers and grow. The prover has no theory of `^`; TLC evaluates the assumption, which names every
instance of it.

**No place lost, none goes back.** `PlaceKept` says nothing about a write on its way, so it is
not inductive. `GlassInv` adds where the newest accepted value is: it waits, or it is on its
way and will land, or it is on the disk (`DiskOrWaiting`); a value equal to the one "written"
is on the disk or is about to be replaced there (`WrittenOf`, `OnItsWay`); a write that is
refused is one whose glass changed under it (`RefusedOf`), in which case a value written by
that change's transaction is newer. `Agree` ties the slot, the batch and what was accepted to
one another through the numbers; `Counted` says no number is ahead of the count;
`MemoryShows` and `OlderGlass` say the memory and every save name a glass revision no newer
than the disk's; `OnlyTheThread` that without the thread no write is on its way; `Idle` that a
program that is off holds nothing. The proof has a lemma per action and, under it, a step per
conjunct the action can disturb.

**The saver's phases.** What a stop, a flush and a sleeper may rely on is one invariant,
`PhasesInv`: `Phases` says who may be where (no write on its way without the thread, no sleep while
something is on its way or a stop began, no more request after a stop), `Heard` that a waiter who sleeps
over something that has happened is woken by a thread that is awake, and that a thread that sleeps
over a place or a look that waits has a deadline, `AllWritten` that the thread closes
only over two empty slots. With it and `PlaceKept` and `LookKept` what a flush or a stop answers is
true of the disk. `FlushTold` is proved of the step that tells it, from the invariant before it.

**No look lost, a restored one stands.** For the look the numbers are not enough, since a restore writes
the disk past the saver. `LookInv` says of a slot what is true *unless a restore wrote since* (the disk's
number is 0): what counts as written is on the disk, and so is what the write on its way committed;
the newest look is there or waits. `RestoreInv` follows the archive's look through the hold, the hand-over
and the settling. That "written" may be another look than the disk's after a restore is what the
finding below is about: the invariant had to leave it open.

**Saves are due for a reason.** `DueInv` ties a slot that is due to a request for it, except while the
write on its way took it, in which case nothing newer waits.

**Presses in order.** `Apart` says a connection is in one place only; without it nothing can be said
of what an append or a take does to an order. `Counted` is the exact meaning of the overflow's counter,
which no line of the code states: who is in its line, with its thread, or between the acceptor's
count and its send. `Passing` is the crux: the acceptor offers a connection itself only while that count
is zero, and while it does nobody can join the line but through it. From these each step of the pool
is a step of `PressLine` or a stutter: a move from the overflow thread into the unread line keeps the
order because it is the oldest of those behind it. The wake needs no more: `WorkersHear` is kept by
each action given the types. `RoomForPress` counts what the capacity, the reserve and the workers leave.

**Presses switch once.** `SwitchOnce` speaks of the moments that acted, but the code keeps only
one moment for each key. `DwellInv` links them: `Newest` (the key remembers no older
moment than any press that acted or is being handled), `DwellApart` (those presses are a dwell
apart from one another, pairwise), `Remembers` (what a press would give back is no older than any
earlier press that acted or is being handled). The interesting case is `Releases`, where the
moment goes back: it is safe only when it finds its own moment there, which is why the code
compares before it restores. `ActsAsAsked` compares an act with the last question; `AskInv` says the
arm is that question, for as long as there is one.

**CAM 1's takes.** `Linked` follows each link's news to the runtime: the link it holds goes on, and
whatever that link heard since it connected was reported or a notice about it is on its way. `Ended` is
why REC's arm has its `stale` mark: an arm that is not stale over a take that a read found ended has CAM 1
out of reach or without a take, and the next read that finds it back makes it stale before a press can
use it. `Paced` says the runtime's time of the last action is that of the deck's last act, and that
a press on its way came a dwell after it.

**Consoles that read aligned.** The link forgets a send when a line answers it, when a
read-back asked after it does not list its fader, or when it expires. So `AlignedIsTrue` rests on
knowing what every reason to forget leaves. `Safe` holds whatever is noted: the types, who holds the
lock (`Shape`), a report a flush took is of a value no send waits for (`Reports`), and what befell in a
pull stays doubted after it (`Noted`). `Told` is about the values no mishap befell (`Straight`), and has
a part for each way to forget:

* `Honest`: the last line of a value on its way is what the desk holds, or one the link will drop for
  an edit that crossed it. `AskedAfter`: a read-back is asked after the send it is for.
* `Absent`: a fader that its read-back left out is off.
* `Trusted`: what an aligned Console holds, or will when its reports are written, is the desk's, unless
  something about the value is under way or a mark stands that takes the word back.
* `Begun`, `Waited`, `Ended`, `Written`: what a pull has learned at each of its phases, which becomes
  *aligned* at its end. `OlderSends`: a send from before the pull was left out of its dump, and is
  written off by it. `Recalled`: what a desk that came back inside a pull still tells.

Each mishap is a step at which one of them fails.

`AnsweredInTime` needs no such hypothesis. `Answered` says that a send nobody asked about yet is no
older than the first wait and the passes' lateness (`Soon`); that until a send is answered the last line
of its value says what was sent (`ListsIt`), since the dump its read-back asked for lists the value; and
that a fader that is off waits for an answer that was asked no later than its own (`AwaitsQuiet`). Then
only an answer that never goes quiet, or a pass later than the whole wait, can let it expire.

**The bridge keeps its promise.** What the slot means is nowhere written down in the code:
`OneHeld` says it holds the newest launch or nothing, that every older one is gone, and
that its exit was taken by exactly one of the watcher and the stops. From it `ToldOnce` follows: what
was told of an end was told after it and with what was asked. `StopsMet` says which processes a
stop may be about, `CallsHeld` takes `WaiterHeld` back to the moment a call looks its writer up,
which is the step where the process may go between the look and the wait. The
refinement's proof has one case per action: each maps to a step of `EngineLife` or to a
stutter. Its fairness is model-checked only.

**One helper.** `Held` adds that a helper that is up or hung is the one the supervisor knows,
that it knows none wherever it may start one (a wait, a missing program, before the first
start), and that a supervisor that is over holds none; an engine that was told so has one that
is over. `EndHolds` and `StartHolds` say what an end and a start leave, once for the four
steps that end and the two that start. For `BacksOff`, `Patient` compares the supervisor's own count with
the true run of short-lived helpers (`CountKeepsUp`): it may be larger, never smaller, until the wait
is at its longest anyway; so what has passed of a wait and what is left of it are together no less than the
doubled time. `StartsSoonAgain` needs the other half: `Afresh` says that a helper heard once it had stayed up
has put the count back to nothing.

**The light output.** `MovesTold`: a change that returned and that the last read lacks has moved
the generation since; the count is read before the settings, so a move between the two is seen at
the next tick. `Remembered`: whatever a bridge still shows of a stream is in the output's own
memory of what it sent there. `Untouched`: what a loaded copy does not edit of the blob is what is
saved, because one writer at a time is inside the lock and the probe, which takes none,
writes a key of its own.

`GreenLamp` needs both ends: `Shown` (what the output remembers of a universe is what last left for its
bridge, or the universe is due again) and `Lamp` (the entry says what the tally does, and an output without a bridge
remembers nothing). Within a pass the sends may fail one by one; a universe that was not sent stays
due, and the tally then fails.

Only model-checked: liveness, which this prover does not do under fairness (`WrittenInTime`, `OneServed`,
`WaiterTold`, `PageHears`, `StartsEnd`, `SilenceEnds`, `WantReaches`, `Settles`), with the fairness that
`TellsEachEnd` has beside the safety `BridgeKeepsItsPromise` proves; and everything of `ShellStore`,
whose two properties are of that kind.

## Findings

* `console_late_end`: a Sync takes the list of what the dump named when the dump ends
  (`audio/sync.rs:219`), flushes, and then turns off every mix node that is not in the list
  (`zero_absent_mix_nodes`, `:302`) and writes *aligned*. A fader that was off and is raised at
  TotalMix between the two is written by the Sync's own flush and then turned off: the
  Console reads aligned over a value the desk does not hold, although `:238` says that
  whatever arrived is console truth and stays. The window is milliseconds long.

* `prompter_look_back`: a restored look is written past the saver (`prompter/archive.rs:170`), which goes on
  taking the look it wrote last for the one on the disk. When the operator changes the look back to
  that one before the saver has written the archive's (a write is on its way, or a failed one waits),
  `take_batch` drops the change as already written (`prompter/saver.rs:481`): the disk keeps the
  archive's look and the next start shows it. `prompter/saver.rs:18-23` says that only the prompter's memory
  changes the look while it runs, and that a value turned forward and back must still end where it
  came back to.

### Observed

Met while modelling, without a run:

* `park` never looks at the capacity, so reads being read when the queue filled are parked
  in slots kept for presses, and a press may be refused though presses hold fewer than their
  reserve (`control_surface_pool.rs:108`; the comment at `:15`).
* Neither the kept nor the written last event is compared by order when it is replaced, so two
  keys that finish on two workers can leave the earlier as the last (`control_surface.rs:768`).
* The read-back after a press runs when the link's thread answered, before it read what the
  camera reported, so a second quick step plans from the reading before the first
  (`cameras/commands.rs:487`; the comment at `cameras/runtime.rs:943`).
* The Console reads aligned over a wrong value after each of the `Mishaps` above. Two of them are
  worth a look beside the finding: a pass that waits for the database longer than `CONFIRM_TIMEOUT`
  (`rme_totalmix_osc.rs:684-688`) expires a send the desk took before anybody asked about it
  (`rme_console_link.rs:1073-1091`), and inside a pull the mark it leaves is cleared; and a send may
  have the same stamp as a read-back request of its submix that another send asked for (`:967-968`).
* A stream of sends whose read-backs follow each other within `REPLY_QUIET_MS` for a whole
  `CONFIRM_TIMEOUT` keeps the answer from going quiet, and a fader turned off expires though the desk took it
  (the exception of `AnsweredInTime`).
* A start does not wait for its look revision to be saved, so a crash before that hands the
  same layout keys out again (`prompter/runtime.rs:139`).
* The probe is a read-modify-write outside the lighting lock, and may put an older
  bridge's address back over a settings change or a restore made during its second and a half
  (`commissioning.rs`; `lighting/state_lock.rs:11` says the lock serialises every one).
* An exit's report fails every id that waits, a newer engine's included
  (`native/tauri-shell/src/engine.rs:599`), and a stop's last clearing does likewise (`:488`).
* A start of the page that heard its process stop may still end on *ready*
  (`createShellStore.ts:1375` against `:1379-1386`), and so may one whose process a stop from before
  a reload meets: its end is told as asked for, and the page stays on *ready* over no engine. A report
  about a replaced process is taken for the present one while the page knows no generation
  (`:548`, `:1266`).
* A stop that ends with the saver's thread answers true though the thread's last write failed; and
  one without the thread sees nothing pending, lets the lock go and marks the saver stopped, while a
  deck's hand-over in between stays unwritten (`prompter/saver.rs:308-313`).
* A restart of the helper that finds its program unreadable for a moment ends as missing for
  good (`pictures_helper.rs:393`, `:759`).
* A camera's report equal to the reading kept ends the doubt about a last reading without a
  notice; a REC press whose write failed sets no dwell, so its doubled press tries again; a
  press that came before the one that acted measures zero since it and is dropped as the same
  press; a release while a press waits in the link's inbox lets that press be written first.

## What is not modelled

* Teleprompter's scripts, import, clock and screen: in the plan. The layout keys over starts.
* Cameras: the settings other than REC (they pass the same gate and inbox), pairing's steps, the
  message encoders, simulated cameras, archives. More than one camera: each has its own link,
  and the deck's REC is CAM 1's.
* Deck: PROMPTER keys beyond their dwell (they go through the prompter's lock), wheel turns, the
  LIGHTS keys' own effects other than on scenes, previewing and the level, the last event, a
  worker's HTTP.
* Audio: metering, names, clips, fader curves, the probe and the ports' binding; a recall is
  edits one after another.
* Lighting: fades, identify, groups and palettes, the bridge's watch, simulated lights: pictures
  of a moment, computed from what is saved and the time.
* Saver: SQLite's own failures beyond "the transaction failed"; wall-clock lengths.
* The pictures helper's own program: frames, NDI and drawing. Here it is what reads lines,
  speaks, hangs and ends.
* Shell: windows, displays, the smoke run, commands that touch no engine.
* Session's watch, backups and a restore over all areas at once: in the plan.
* Requests, health and liveness: the loop is sequential and the watch only reports. The protocol,
  the pages but for the engine's life, and the exports convert data.

Much of the repository is of the last kinds: conversions, wire formats, drawing, layout and their
tests. That is why the map names a small part of its lines, and most of the lines
where two actors meet.

## Plan

1. **GlassClock** (`prompter/clock.rs`, `prompter/runtime.rs`): the place as a function of time, its
   generation, and the screen's echo of an older text or generation.
2. **SessionWatch** (`session/watch.rs:293`): a report measured for seconds against Begin and End.
3. A restore over every area, with the saver, the light output and the console as it meets them.
4. Proofs about those as they come. What is checked today and provable here is proved.

## Running it

    tlc -workers 2 -config MCBridgePool.cfg MCBridgePool
    tlapm PrompterSaver_proofs.tla
