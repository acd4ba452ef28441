---------------------------- MODULE LightOutput -----------------------------
(***************************************************************************)
(* The light output: the request loop and the Stream Deck's workers change *)
(* the saved lighting, and one thread streams what is saved to the bridge  *)
(* as sACN.                                                                *)
(*                                                                         *)
(* A lighting change loads the saved state, writes it back and moves the   *)
(* render generation, all under the lighting lock; the commissioning probe *)
(* runs aside the loop, writes the address it asked with no lock, and      *)
(* moves the generation only when its whole answer succeeded.  The output  *)
(* wakes at every tick, reads the settings when the generation moved or    *)
(* its own copy is old, renders, ends the streams that are over and sends  *)
(* the frames that changed or are due.  What a failed send means for the   *)
(* health entry is the tally's.                                            *)
(*                                                                         *)
(* Times are ticks of the output.  One level stands for the slots of every *)
(* patched universe; a bridge None stands for lighting that is off or has  *)
(* no address of one machine.                                              *)
(***************************************************************************)
EXTENDS Naturals, FiniteSets

CONSTANTS
  Bridges, Universes, Levels, None,
  Writers, Loop,       \* the threads that change the lighting; the request loop
  Reread,              \* ticks after which the settings are read anyway
  KeepAlive,           \* ticks after which an unchanged frame is sent again
  ResumedAfter,        \* ticks without a failed send
  Late,                \* the ticks one pass of the output may take
  Archives,            \* the lighting of the archives a restore may read
  Changes, Contentions \* bounds: lighting changes, reads that fail in a row

ASSUME LightAssumption ==
  /\ Loop \in Writers /\ None \notin Bridges
  /\ "zero" \in Levels /\ {"quiet", "adrift"} \cap Levels = {}
  /\ {Reread, KeepAlive, ResumedAfter, Late} \subseteq Nat \ {0}
  /\ {Changes, Contentions} \subseteq Nat

VARIABLES
  saved,       \* the lighting in the database
  moves,       \* moves of the render generation since the one the settings
               \* were last read under
  unread,      \* whether a change returned whose write that read lacks
  writer,      \* what each writer is doing
  probe,       \* what the commissioning probe is doing
  left,        \* the lighting changes that remain
  out,         \* the output's thread
  tally,       \* how its sends go
  entry,       \* the health entry "sacn"
  wire,        \* as the last pass found it: whether the PC has a route, and
               \* whether the bridge is plugged in
  told,        \* what last left the PC for each bridge of each universe
  lost         \* the universes whose last frame no bridge heard
vars == <<saved, moves, unread, writer, probe, left,
          out, tally, entry, wire, told, lost>>

Parts == {"armed", "bridge", "level", "patched"}
Saved == [armed : BOOLEAN, bridge : Bridges \cup {None},
          level : Levels, patched : SUBSET Universes]

\* What an archive left in the database is loaded as any saved lighting is.
ASSUME LightingsAssumption == Archives \subseteq Saved

At(what, wrote) == [at |-> what, parts |-> {}, copy |-> None, wrote |-> wrote]
Fresh == [failing |-> FALSE, sentSince |-> FALSE, quiet |-> 0]
Older(age, by, most) == IF age + by > most THEN most ELSE age + by

-----------------------------------------------------------------------------
(* The writers.                                                            *)

\* A change's mistake: no lock.
LockOpen == TRUE

\* No lighting function runs: the probe takes no lock.
LockFree == \A w \in Writers : writer[w].at = "idle"

\* What w's next lighting change may make of the lighting it loads (one that
\* changes nothing goes as a refused one).  A key of the deck moves levels; the
\* loop also patches, arms, moves the bridge and restores an archive, which
\* always holds the output.
Edits(w) ==
  {[parts |-> {"level"}, copy |-> [saved EXCEPT !.level = l]]
     : l \in Levels \ {saved.level}}
  \cup IF w # Loop THEN {} ELSE
         {[parts |-> {"patched"}, copy |-> [saved EXCEPT !.patched = p]]
            : p \in {saved.patched \cup {u} : u \in Universes \ saved.patched}
                   \cup {saved.patched \ {u} : u \in saved.patched}}
         \cup {[parts |-> {"armed"}, copy |-> [saved EXCEPT !.armed = ~@]]}
         \cup {[parts |-> {"bridge"}, copy |-> [saved EXCEPT !.bridge = b]]
            : b \in (Bridges \cup {None}) \ {saved.bridge}}
         \cup {[parts |-> Parts, copy |-> [s EXCEPT !.armed = FALSE]] : s \in Archives}

\* The write: the level and the patch are one blob, written whole; the flag
\* and the address are keys of their own.
Written(parts, copy) ==
  [part \in Parts |->
     IF part \in parts \/ (part \in {"level", "patched"} /\ {"level", "patched"} \cap parts # {})
     THEN copy[part] ELSE saved[part]]

Loads(w) ==
  /\ writer[w].at = "idle" /\ LockFree
  /\ left > 0 /\ left' = left - 1
  /\ \E e \in Edits(w) :
       writer' = [writer EXCEPT ![w] =
                    [at |-> "loaded", parts |-> e.parts, copy |-> e.copy, wrote |-> FALSE]]
  /\ UNCHANGED <<saved, moves, unread, probe, out, tally, entry, wire, told, lost>>

\* Its persist, in one transaction, or its refusal, which writes nothing here.
Persists(w) ==
  /\ writer[w].at = "loaded"
  /\ saved' = Written(writer[w].parts, writer[w].copy)
  /\ writer' = [writer EXCEPT ![w] = At("done", TRUE)]
  /\ UNCHANGED <<moves, unread, probe, left, out, tally, entry, wire, told, lost>>

Refuses(w) ==
  /\ writer[w].at = "loaded"
  /\ writer' = [writer EXCEPT ![w] = At("done", FALSE)]
  /\ UNCHANGED <<saved, moves, unread, probe, left, out, tally, entry, wire, told, lost>>

\* A change's mistake: the deck's changes do not move the generation.
LoopsMove(w, wrote) ==
  /\ moves' = IF w = Loop THEN moves + 1 ELSE moves
  /\ unread' = (unread \/ wrote)

\* A writer moves the generation, whatever it wrote.
Moved(w, wrote) ==
  /\ moves' = moves + 1
  /\ unread' = (unread \/ wrote)

Returns(w) ==
  /\ writer[w].at = "done"
  /\ Moved(w, writer[w].wrote)
  /\ writer' = [writer EXCEPT ![w] = At("idle", FALSE)]
  /\ UNCHANGED <<saved, probe, left, out, tally, entry, wire, told, lost>>

\* The lighting probe, aside the loop: it asks the bridge at an address typed
\* or saved, for up to seconds, and stores that address with no lock.
Probes ==
  /\ probe.at = "idle"
  /\ left > 0 /\ left' = left - 1
  /\ \E b \in Bridges : probe' = [at |-> "asking", bridge |-> b, wrote |-> FALSE]
  /\ UNCHANGED <<saved, moves, unread, writer, out, tally, entry, wire, told, lost>>

ProbeWrites ==
  /\ probe.at = "asking"
  /\ saved' = [saved EXCEPT !.bridge = probe.bridge]
  /\ probe' = [at |-> "stored", bridge |-> None, wrote |-> TRUE]
  /\ UNCHANGED <<moves, unread, writer, left, out, tally, entry, wire, told, lost>>

NoProbe == [at |-> "idle", bridge |-> None, wrote |-> FALSE]

ProbeSucceeds ==
  /\ probe.at = "stored"
  /\ Moved(Loop, probe.wrote)
  /\ probe' = NoProbe
  /\ UNCHANGED <<saved, writer, left, out, tally, entry, wire, told, lost>>

\* Its answer could not be read back after the write: the generation stands.
ProbeFails ==
  /\ probe.at = "stored"
  /\ probe' = NoProbe
  /\ UNCHANGED <<saved, moves, unread, writer, left, out, tally, entry, wire, told, lost>>

-----------------------------------------------------------------------------
(* The output's input.                                                     *)

\* A change's mistake: no safety read.
ReadDueWhenMoved(o) == o.input = {} \/ o.asked > 0

\* The settings are read again: the generation moved since the last read, or
\* the copy is old, or there is none.
ReadDue(o) ==
  \/ o.input = {}
  \/ o.asked > 0
  \/ o.age >= Reread

\* The end of the sleep: the generation is read first.
Wakes ==
  /\ out.at = "sleep"
  /\ \E passed \in 1 .. Late :
       LET woken == [out EXCEPT
             !.asked = moves, !.must = unread,
             !.age = Older(@, passed, Reread),
             !.tx = [u \in DOMAIN out.tx |->
                       [out.tx[u] EXCEPT !.age = Older(@, passed, KeepAlive)]]]
       IN /\ out' = [woken EXCEPT !.at = IF ReadDue(woken) THEN "read" ELSE "tick"]
          /\ tally' = [tally EXCEPT !.quiet =
                         IF tally.failing THEN Older(@, passed, ResumedAfter) ELSE 0]
  /\ UNCHANGED <<saved, moves, unread, writer, probe, left, entry, wire, told, lost>>

Reads ==
  /\ out.at = "read"
  /\ out' = [out EXCEPT !.at = "tick", !.input = {saved}, !.asked = 0,
                        !.must = FALSE, !.missed = 0, !.age = 0]
  /\ moves' = moves - out.asked \* those after the generation it is kept under
  /\ unread' = FALSE
  /\ writer' = [w \in Writers |-> [writer[w] EXCEPT !.wrote = FALSE]]
  /\ probe' = [probe EXCEPT !.wrote = FALSE]
  /\ UNCHANGED <<saved, left, tally, entry, wire, told, lost>>

\* A read that fails keeps the last good input; with none the pass ends.
ReadFails ==
  /\ out.at = "read"
  /\ out.missed < Contentions
  /\ out' = IF out.input = {} THEN [out EXCEPT !.at = "sleep", !.asked = 0, !.must = FALSE,
                               !.missed = @ + 1]
            ELSE [out EXCEPT !.at = "tick", !.missed = @ + 1]
  /\ UNCHANGED <<saved, moves, unread, writer, probe, left, tally, entry, wire, told, lost>>

-----------------------------------------------------------------------------
(* One pass from the input i.                                              *)

Streams(i) == i.armed /\ i.bridge # None /\ i.patched # {}
Moves(i) == out.active \notin {None, i.bridge}
StreamOver(i) == ~Streams(i) \/ Moves(i)

\* A change's mistake: a universe that lost its last light streams on.
EndsWithStream(i) == IF StreamOver(i) THEN DOMAIN out.tx ELSE {}

\* The universes whose stream at the active bridge ends in this pass.
Ends(i) == IF StreamOver(i) THEN DOMAIN out.tx ELSE DOMAIN out.tx \ i.patched

\* The universes whose frame is sent: new here, changed, or to be kept alive.
Due(i) ==
  {u \in IF Streams(i) THEN i.patched ELSE {} :
     u \in DOMAIN out.tx \ Ends(i) =>
       out.tx[u].level # i.level \/ out.tx[u].age >= KeepAlive}

\* The output's memory of a universe: what was last sent, and when.
Sent(i, went) ==
  [u \in IF Streams(i) THEN i.patched ELSE {} |->
     CASE u \in went -> [level |-> i.level, age |-> 0]
       [] u \notin went /\ u \in DOMAIN out.tx \ Ends(i) -> out.tx[u]
       [] OTHER -> [level |-> "zero", age |-> KeepAlive]]

\* What left for the bridges once some frames and some ends went.  An end that
\* did not go leaves its stream adrift, for the bridge itself to give up.
Told(i, went, ended) ==
  [b \in Bridges |-> [u \in Universes |->
     CASE Streams(i) /\ b = i.bridge /\ u \in went -> i.level
       [] ~(Streams(i) /\ b = i.bridge /\ u \in went) /\ b = out.active /\ u \in Ends(i) ->
            IF u \in ended \/ told[b][u] = "quiet" THEN "quiet" ELSE "adrift"
       [] OTHER -> told[b][u]]]

\* The tally after the sends of a stream that goes on: any failed, any went
\* after the last failure.
Counted(was, failed, wentAfter) ==
  IF failed
  THEN [failing |-> TRUE, sentSince |-> wentAfter, quiet |-> 0]
  ELSE [was EXCEPT !.sentSince = was.failing /\ (@ \/ wentAfter)]

\* A change's mistake: one send that goes is enough.
ResumesAtOnce(t) == t.failing /\ t.sentSince

\* A second without a failure, and a send that went.
Resumes(t) == t.failing /\ t.quiet >= ResumedAfter /\ t.sentSince

\* The tally after the pass: an ended stream forgets its failures.
Settled(i, t) == IF ~Streams(i) \/ Resumes(t) THEN Fresh ELSE t

\* What the output's thread goes to sleep with.
AfterPass(i, went) ==
  [out EXCEPT !.at = "sleep", !.asked = 0, !.must = FALSE,
              !.held = ~i.armed, !.tx = Sent(i, went),
              !.active = IF Streams(i) THEN i.bridge ELSE None]

\* A pass whose frames went to some universes, whose ends went to others, and
\* whose last packet went or not.
Pass(i, went, ended, wentLast) ==
  LET mine == IF Moves(i) THEN {} ELSE Ends(i)  \* ends of the stream that goes on
      failed == Due(i) \ went # {} \/ mine \ ended # {}
      some == went # {} \/ mine \cap ended # {}
      was == IF StreamOver(i) THEN Fresh ELSE tally
      counted == Counted(was, failed, wentLast)
  IN \* Only a socket with no route fails a send.
     /\ wire' # "bad" => went = Due(i) /\ ended = Ends(i)
     \* The last packet went: with no packet, or all of one kind, it is known.
     /\ wentLast => some
     /\ ~failed => wentLast = some
     /\ tally' = Settled(i, counted)
     /\ entry' = IF Streams(i) /\ counted.failing /\ ~was.failing THEN "attention"
                 ELSE IF \/ out.held = i.armed \* the hold changed
                         \/ tally.failing /\ ~tally'.failing
                 THEN "ok" ELSE entry
     /\ out' = AfterPass(i, went)
     /\ told' = Told(i, went, ended)

Wires == {"good", "bad", "unplugged"}

\* The PC's routes come and go between two passes and within one: with none
\* the sends fail.  A bridge that is unplugged fails no send, and hears none.
Ticks ==
  /\ out.at = "tick"
  /\ wire' \in Wires
  /\ \E i \in out.input :
     \E went \in SUBSET Due(i), ended \in SUBSET Ends(i), wentLast \in BOOLEAN :
       /\ Pass(i, went, ended, wentLast)
       /\ lost' = ((lost \ Ends(i)) \ went)
                     \cup IF wire' = "unplugged" THEN went ELSE {}
  /\ UNCHANGED <<saved, moves, unread, writer, probe, left>>

-----------------------------------------------------------------------------
\* A start holds what the saved flag says, or nothing if it cannot be read.
Init ==
  /\ saved \in Saved
  /\ moves = 0 /\ unread = FALSE
  /\ writer = [w \in Writers |-> At("idle", FALSE)] /\ probe = NoProbe
  /\ left = Changes
  /\ \E held \in {FALSE, ~saved.armed} :
       out = [at |-> "sleep", asked |-> 0, must |-> FALSE, missed |-> 0,
              input |-> {}, age |-> 0,
              held |-> held, active |-> None, tx |-> [u \in {} |-> 0]]
  /\ tally = Fresh /\ entry = "ok" /\ wire \in Wires /\ lost = {}
  /\ told = [b \in Bridges |-> [u \in Universes |-> "quiet"]]

Writes == \/ \E w \in Writers : Loads(w) \/ Persists(w) \/ Refuses(w) \/ Returns(w)
          \/ Probes \/ ProbeWrites \/ ProbeSucceeds \/ ProbeFails
Outputs == Wakes \/ Reads \/ ReadFails \/ Ticks
Next == Writes \/ Outputs
Spec == Init /\ [][Next]_vars

\* The output's thread runs; a writer may stop anywhere.
Fairness == WF_vars(Outputs)
FairSpec == Spec /\ Fairness

-----------------------------------------------------------------------------
(* What the output promises.                                               *)

\* The shape of the state; between two passes no stream means no memory of
\* universes and no failing spell, and the entry's word is the tally's
\* (SacnOutput, settle_sends).
TypeOK ==
  /\ saved \in Saved /\ moves \in Nat /\ unread \in BOOLEAN
  /\ \A w \in Writers :
       /\ writer[w].at \in {"idle", "loaded", "done"}
       /\ writer[w].parts \subseteq Parts /\ writer[w].copy \in Saved \cup {None}
  /\ probe.at \in {"idle", "asking", "stored"} /\ probe.bridge \in Bridges \cup {None}
  /\ out.at \in {"sleep", "read", "tick"} /\ out.input \subseteq Saved
  /\ out.active \in Bridges \cup {None} /\ DOMAIN out.tx \subseteq Universes
  /\ out.active = None => DOMAIN out.tx = {} /\ tally = Fresh
  /\ entry = IF tally.failing THEN "attention" ELSE "ok"
  /\ lost \subseteq Universes /\ told \in [Bridges -> [Universes -> Levels \cup {"quiet", "adrift"}]]

\* A write changes only the parts its edit is about, though it writes the
\* whole blob back: no key of the deck undoes what the screen changed
\* (with_lighting_state, state_lock.rs).
EditsKept ==
  [][\A w \in Writers : writer[w].at = "loaded" /\ writer'[w].at = "done" =>
       \A part \in Parts \ writer[w].parts : saved'[part] = saved[part]]_vars

\* A pass renders every change that had returned when the pass began, unless
\* its own read of the settings failed (run_output_loop: the generation is
\* read before the settings; BumpGenerationOnDrop: moved after the write).
RendersWhatReturned == out.at = "tick" /\ out.missed = 0 => ~out.must

\* After a pass nothing is live but the patched universes at the bridge of
\* the input, and nothing at all while the output is held: to whatever
\* streamed elsewhere its end was sent (SacnOutput::tick,
\* terminate_universes).
StreamsEnd ==
  out.at = "sleep" => \A i \in out.input : \A b \in Bridges, u \in Universes :
    told[b][u] \in Levels => Streams(i) /\ b = i.bridge /\ u \in i.patched

\* With the entry ok after a pass, the last frame that left the PC for each
\* patched universe is the rendered one: no frame whose send failed hides
\* behind a green lamp (SendTally: the rig "could hold its last look under a
\* green lamp").  What left and was lost is the bridge watch's to say.
GreenLamp ==
  out.at = "sleep" /\ entry = "ok" =>
    \A i \in out.input : Streams(i) =>
      \A u \in i.patched : told[i.bridge][u] = i.level

\* With the route and the bridge back for good, the rig comes to show what is
\* saved: also when the last write never moved the generation, and when the
\* frames since were lost with no send failing (SETTINGS_SAFETY_REREAD,
\* KEEPALIVE_INTERVAL).
RigFollows ==
  \A b \in Bridges, u \in Universes :
    LET live == Streams(saved) /\ b = saved.bridge /\ u \in saved.patched IN
    IF live THEN told[b][u] = saved.level /\ u \notin lost ELSE told[b][u] \notin Levels
Settles == <>[](wire = "good") => <>[]RigFollows
=============================================================================
