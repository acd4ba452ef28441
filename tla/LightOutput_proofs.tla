------------------------- MODULE LightOutput_proofs -------------------------
(***************************************************************************)
(* What the light output promises, for every number of writers, bridges    *)
(* and universes and every length of its waits: a pass renders what had    *)
(* returned, nothing streams where it should not, a blob written back      *)
(* whole undoes nobody's edit, and the entry reads ok over no frame whose  *)
(* send failed.                                                            *)
(*                                                                         *)
(* The first rests on MovesTold: a change that returned and is unread has  *)
(* moved the generation.  The second on Remembered: whatever was sent and  *)
(* not ended, the output remembers.  The third on Untouched: what a loaded *)
(* copy does not edit is what is saved, since the lock keeps the other     *)
(* writers out and the probe, which takes none, writes its own key.  The   *)
(* fourth, that no failed frame hides behind a green lamp, rests on        *)
(* Shown (what the output remembers of a universe is what went, or the     *)
(* universe is due again) and Lamp (the entry is the tally's word).        *)
(***************************************************************************)
EXTENDS LightOutput, TLAPS

\* The output's record keeps its fields, the saved lighting its parts.
Fields ==
  /\ out = [at |-> out.at, asked |-> out.asked, must |-> out.must, missed |-> out.missed,
            input |-> out.input, age |-> out.age, held |-> out.held,
            active |-> out.active, tx |-> out.tx]
  /\ saved = [part \in Parts |-> saved[part]]
  /\ out.missed \in Nat
  /\ \A i, j \in out.input : i = j

MovesTold ==
  /\ moves \in Nat /\ out.asked \in Nat
  /\ unread => moves > 0
  /\ out.at # "sleep" => out.asked <= moves
  /\ out.at = "tick" /\ out.missed = 0 => ~out.must

\* What is live at a bridge, the output remembers; after a pass it
\* streams what its input says, and there alone.
Remembered ==
  /\ \A b \in Bridges, u \in Universes :
        told[b][u] \in Levels => b = out.active /\ u \in DOMAIN out.tx
  /\ out.at = "sleep" => \A i \in out.input :
        out.active # None =>
            Streams(i) /\ out.active = i.bridge /\ DOMAIN out.tx \subseteq i.patched

\* One writer at a time; what its copy does not edit of the blob is saved.
Untouched ==
  /\ writer = [w \in Writers |-> [at |-> writer[w].at, parts |-> writer[w].parts,
                                  copy |-> writer[w].copy, wrote |-> writer[w].wrote]]
  /\ \A v, w \in Writers : writer[v].at # "idle" /\ writer[w].at # "idle" => v = w
  /\ \A w \in Writers : writer[w].at = "loaded" =>
        \A part \in {"level", "patched"} \ writer[w].parts : writer[w].copy[part] = saved[part]

-----------------------------------------------------------------------------
(* The records keep their fields.                                           *)
LEMMA FieldsInit == Init => Fields
  BY DEF Init, Fields, Saved, Parts

LEMMA FieldsStep ==
  ASSUME Fields, [Next]_vars
  PROVE  Fields'
  <1> USE DEF Fields
  <1>1. CASE UNCHANGED <<out, saved>>
    BY <1>1
  <1>2. CASE out' = out /\ \E w \in Writers : Persists(w)
    <2>1. PICK parts, copy : saved' = Written(parts, copy)
      BY <1>2 DEF Persists
    <2>2. saved' = [part \in Parts |-> saved'[part]]
      BY <2>1 DEF Written
    <2> QED  BY <1>2, <2>2
  <1>3. CASE ProbeWrites
    BY <1>3 DEF ProbeWrites
  <1>4. CASE Wakes
    <2>1. saved' = saved
      BY <1>4 DEF Wakes
    <2>2. PICK age, tx : LET woken == [out EXCEPT !.asked = moves, !.must = unread,
                                                  !.age = age, !.tx = tx]
                         IN out' = [woken EXCEPT !.at = IF ReadDue(woken) THEN "read" ELSE "tick"]
      BY <1>4 DEF Wakes
    <2> QED  BY <2>1, <2>2
  <1>5. CASE Reads
    BY <1>5 DEF Reads
  <1>6. CASE ReadFails
    <2>1. saved' = saved
      BY <1>6 DEF ReadFails
    <2>2. \/ out' = [out EXCEPT !.at = "sleep", !.asked = 0, !.must = FALSE, !.missed = @ + 1]
          \/ out' = [out EXCEPT !.at = "tick", !.missed = @ + 1]
      BY <1>6 DEF ReadFails
    <2>3. CASE out' = [out EXCEPT !.at = "sleep", !.asked = 0, !.must = FALSE, !.missed = @ + 1]
      <3>1. out'.missed = out.missed + 1 /\ out'.input = out.input
        BY <2>3
      <3>2. out' = [at |-> out'.at, asked |-> out'.asked, must |-> out'.must, missed |-> out'.missed,
                    input |-> out'.input, age |-> out'.age, held |-> out'.held,
                    active |-> out'.active, tx |-> out'.tx]
        BY <2>3
      <3>3. out'.missed \in Nat
        BY <3>1
      <3> QED  BY <2>1, <3>1, <3>2, <3>3
    <2>4. CASE out' = [out EXCEPT !.at = "tick", !.missed = @ + 1]
      <3>1. out'.missed = out.missed + 1 /\ out'.input = out.input
        BY <2>4
      <3>2. out' = [at |-> out'.at, asked |-> out'.asked, must |-> out'.must, missed |-> out'.missed,
                    input |-> out'.input, age |-> out'.age, held |-> out'.held,
                    active |-> out'.active, tx |-> out'.tx]
        BY <2>4
      <3>3. out'.missed \in Nat
        BY <3>1
      <3> QED  BY <2>1, <3>1, <3>2, <3>3
    <2> QED  BY <2>2, <2>3, <2>4
  <1>7. CASE Ticks
    <2>1. saved' = saved
      BY <1>7 DEF Ticks
    <2>2. PICK i \in out.input : \E went \in SUBSET Due(i) : out' = AfterPass(i, went)
      BY <1>7 DEF Ticks, Pass
    <2> QED  BY <2>1, <2>2 DEF AfterPass
  <1> QED
    BY <1>1, <1>2, <1>3, <1>4, <1>5, <1>6, <1>7
    DEF Next, vars, Writes, Outputs, Loads, Persists, Refuses, Returns, Probes,
        ProbeSucceeds, ProbeFails

-----------------------------------------------------------------------------
(* A change that returned and is unread has moved the generation.           *)
LEMMA MovesToldInit == Init => MovesTold
  BY DEF Init, MovesTold

LEMMA MovesToldStep ==
  ASSUME Fields, MovesTold, [Next]_vars
  PROVE  MovesTold'
  <1> USE DEF MovesTold
  <1>1. CASE UNCHANGED <<moves, unread, out>>
    BY <1>1
  <1>2. ASSUME out' = out, moves' = moves + 1
        PROVE  MovesTold'
    BY <1>2
  <1>3. ASSUME NEW w \in Writers, Returns(w)
        PROVE  MovesTold'
    BY <1>2, <1>3 DEF Returns, Moved
  <1>4. CASE ProbeSucceeds
    BY <1>2, <1>4 DEF ProbeSucceeds, Moved
  <1>5. CASE Wakes
    <2>1. UNCHANGED <<moves, unread>>
      BY <1>5 DEF Wakes
    <2>2. PICK age, tx : LET woken == [out EXCEPT !.asked = moves, !.must = unread,
                                                  !.age = age, !.tx = tx]
                         IN out' = [woken EXCEPT !.at = IF ReadDue(woken) THEN "read" ELSE "tick"]
      BY <1>5 DEF Wakes
    <2>3. out'.asked = moves /\ out'.must = unread
      BY <2>2 DEF Fields
    <2>4. out'.at = "tick" => ~(out'.asked > 0)
      BY <2>2 DEF Fields, ReadDue
    <2> QED  BY <2>1, <2>3, <2>4
  <1>6. CASE Reads
    <2>1. out'.at = "tick" /\ out'.asked = 0 /\ ~out'.must
      BY <1>6 DEF Reads, Fields
    <2>2. moves' = moves - out.asked /\ out.asked <= moves /\ ~unread'
      BY <1>6 DEF Reads
    <2> QED  BY <2>1, <2>2
  <1>7. CASE ReadFails
    <2>1. UNCHANGED <<moves, unread>>
      BY <1>7 DEF ReadFails
    <2>2. \/ out'.at = "sleep" /\ out'.asked = 0
          \/ out'.at = "tick" /\ out'.asked = out.asked /\ out'.missed = out.missed + 1
      BY <1>7 DEF ReadFails, Fields
    <2>3. out.at = "read" /\ out.missed + 1 # 0
      BY <1>7 DEF ReadFails, Fields
    <2> QED  BY <2>1, <2>2, <2>3
  <1>8. CASE Ticks
    <2>1. UNCHANGED <<moves, unread>>
      BY <1>8 DEF Ticks
    <2>2. out'.at = "sleep" /\ out'.asked = 0
      BY <1>8 DEF Ticks, Pass, Fields, AfterPass
    <2> QED  BY <2>1, <2>2
  <1> QED
    BY <1>1, <1>3, <1>4, <1>5, <1>6, <1>7, <1>8
    DEF Next, vars, Writes, Outputs, Loads, Persists, Refuses, Probes, ProbeWrites,
        ProbeFails

(* Every pass renders each change that had returned when it began, unless    *)
(* its own read of the settings failed (run_output_loop).                    *)
THEOREM PassesRenderWhatReturned == Spec => []RendersWhatReturned
  <1>1. Init => Fields /\ MovesTold
    BY FieldsInit, MovesToldInit
  <1>2. Fields /\ MovesTold /\ [Next]_vars => (Fields /\ MovesTold)'
    BY FieldsStep, MovesToldStep
  <1>3. MovesTold => RendersWhatReturned
    BY DEF MovesTold, RendersWhatReturned
  <1> QED  BY <1>1, <1>2, <1>3, PTL DEF Spec

-----------------------------------------------------------------------------
(* What was sent and not ended, the output remembers.                        *)
LEMMA RememberedInit == Init => Remembered
  BY LightAssumption DEF Init, Remembered

LEMMA RememberedStep ==
  ASSUME Fields, Remembered, [Next]_vars
  PROVE  Remembered'
  <1> USE DEF Remembered
  <1>1. CASE UNCHANGED <<out, told>>
    BY <1>1 DEF Streams
  <1>2. CASE Wakes
    <2>1. told' = told
      BY <1>2 DEF Wakes
    <2>2. out'.at # "sleep" /\ out'.active = out.active /\ DOMAIN out'.tx = DOMAIN out.tx
      BY <1>2 DEF Wakes, Fields
    <2> QED  BY <2>1, <2>2
  <1>3. CASE Reads
    <2>1. out'.at = "tick" /\ out'.active = out.active /\ out'.tx = out.tx /\ told' = told
      BY <1>3 DEF Reads, Fields
    <2> QED  BY <2>1
  <1>4. CASE ReadFails
    <2>1. /\ out'.active = out.active /\ out'.tx = out.tx /\ out'.input = out.input /\ told' = told
          /\ out'.at = "sleep" => out.input = {}
      BY <1>4 DEF ReadFails, Fields
    <2> QED  BY <2>1
  <1>5. CASE Ticks
    <2>0. PICK i \in out.input : \E went \in SUBSET Due(i), ended \in SUBSET Ends(i) :
                                  out' = AfterPass(i, went) /\ told' = Told(i, went, ended)
      BY <1>5 DEF Ticks, Pass
    <2>1. PICK went \in SUBSET Due(i), ended \in SUBSET Ends(i) :
                                  out' = AfterPass(i, went) /\ told' = Told(i, went, ended)
      BY <2>0
    <2>2. /\ out'.input = out.input /\ out'.tx = Sent(i, went)
          /\ out'.active = IF Streams(i) THEN i.bridge ELSE None
      BY <2>1 DEF Fields, AfterPass
    <2>3. DOMAIN out'.tx = IF Streams(i) THEN i.patched ELSE {}
      BY <2>2 DEF Sent
    <2>4. ASSUME NEW b \in Bridges, NEW u \in Universes, told'[b][u] \in Levels
          PROVE  b = out'.active /\ u \in DOMAIN out'.tx
      <3>1. CASE Streams(i) /\ b = i.bridge /\ u \in went
        <4>1. u \in Due(i)
          BY <3>1
        <4>2. u \in i.patched
          BY <3>1, <4>1 DEF Due
        <4> QED  BY <2>2, <2>3, <3>1, <4>2
      <3>2. CASE ~(Streams(i) /\ b = i.bridge /\ u \in went) /\ b = out.active /\ u \in Ends(i)
        <4>1. told'[b][u] \in {"quiet", "adrift"}
          BY <2>1, <3>2 DEF Told
        <4> QED  BY <2>4, <4>1, LightAssumption
      <3>3. CASE /\ ~(Streams(i) /\ b = i.bridge /\ u \in went)
                 /\ ~(b = out.active /\ u \in Ends(i))
        <4>1. told'[b][u] = told[b][u]
          BY <2>1, <3>3 DEF Told
        <4>2. b = out.active /\ u \in DOMAIN out.tx /\ u \notin Ends(i)
          BY <2>4, <3>3, <4>1
        <4>3. ~StreamOver(i) /\ u \in i.patched
          BY <4>2 DEF Ends
        <4>4. Streams(i) /\ out.active = i.bridge
          BY <4>2, <4>3, LightAssumption DEF StreamOver, Moves
        <4> QED  BY <2>2, <2>3, <4>2, <4>3, <4>4
      <3> QED  BY <3>1, <3>2, <3>3
    <2>5. out.input = {i}
      BY <2>1 DEF Fields
    <2> QED  BY <2>2, <2>3, <2>4, <2>5 DEF Streams
  <1> QED
    BY <1>1, <1>2, <1>3, <1>4, <1>5
    DEF Next, vars, Writes, Outputs, Loads, Persists, Refuses, Returns, Probes, ProbeWrites,
        ProbeSucceeds, ProbeFails

(* After a pass nothing is live but the patched universes at the bridge of   *)
(* the input, and nothing while the output is held (SacnOutput::tick,        *)
(* terminate_universes).                                                     *)
THEOREM OtherStreamsEnd == Spec => []StreamsEnd
  <1>1. Init => Fields /\ Remembered
    BY FieldsInit, RememberedInit
  <1>2. Fields /\ Remembered /\ [Next]_vars => (Fields /\ Remembered)'
    BY FieldsStep, RememberedStep
  <1>3. Remembered => StreamsEnd
    BY LightAssumption DEF Remembered, StreamsEnd
  <1> QED  BY <1>1, <1>2, <1>3, PTL DEF Spec

-----------------------------------------------------------------------------
(* What a loaded copy does not edit is what is saved.                        *)
LEMMA UntouchedInit == Init => Untouched
  BY DEF Init, Untouched, At

LEMMA EditsOfOneKind ==
  ASSUME Fields, NEW w \in Writers, NEW e \in Edits(w), NEW part \in {"level", "patched"} \ e.parts
  PROVE  e.copy[part] = saved[part]
  <1>1. part \in DOMAIN saved
    BY DEF Fields, Parts
  <1>2. CASE e \in {[parts |-> {"level"}, copy |-> [saved EXCEPT !.level = l]]
                     : l \in Levels \ {saved.level}}
    <2>1. PICK l : e = [parts |-> {"level"}, copy |-> [saved EXCEPT !.level = l]]
      BY <1>2
    <2> QED  BY <1>1, <2>1
  <1>3. CASE e \in {[parts |-> {"patched"}, copy |-> [saved EXCEPT !.patched = p]]
                     : p \in {saved.patched \cup {u} : u \in Universes \ saved.patched}
                          \cup {saved.patched \ {u} : u \in saved.patched}}
    <2>1. PICK p : e = [parts |-> {"patched"}, copy |-> [saved EXCEPT !.patched = p]]
      BY <1>3
    <2> QED  BY <1>1, <2>1
  <1>4. CASE e \in {[parts |-> {"armed"}, copy |-> [saved EXCEPT !.armed = ~@]]}
    BY <1>1, <1>4
  <1>5. CASE e \in {[parts |-> {"bridge"}, copy |-> [saved EXCEPT !.bridge = b]]
                     : b \in (Bridges \cup {None}) \ {saved.bridge}}
    <2>1. PICK b : e = [parts |-> {"bridge"}, copy |-> [saved EXCEPT !.bridge = b]]
      BY <1>5
    <2> QED  BY <1>1, <2>1
  <1>6. CASE e \in {[parts |-> Parts, copy |-> [s EXCEPT !.armed = FALSE]] : s \in Archives}
    BY <1>6 DEF Parts
  <1> QED  BY <1>2, <1>3, <1>4, <1>5, <1>6 DEF Edits

LEMMA UntouchedStep ==
  ASSUME Fields, Untouched, [Next]_vars
  PROVE  Untouched'
  <1> USE DEF Untouched
  <1>1. CASE UNCHANGED <<writer, saved>>
    BY <1>1
  <1>2. ASSUME NEW w \in Writers, Loads(w)
        PROVE  Untouched'
    <2>1. PICK e \in Edits(w) : writer' = [writer EXCEPT ![w] =
                    [at |-> "loaded", parts |-> e.parts, copy |-> e.copy, wrote |-> FALSE]]
      BY <1>2 DEF Loads
    <2>2. saved' = saved /\ \A v \in Writers : writer[v].at = "idle"
      BY <1>2 DEF Loads, LockFree
    <2>3. \A part \in {"level", "patched"} \ e.parts : e.copy[part] = saved[part]
      BY EditsOfOneKind
    <2>4. writer'[w] = [at |-> "loaded", parts |-> e.parts, copy |-> e.copy, wrote |-> FALSE]
      BY <2>1
    <2>5. \A v \in Writers \ {w} : writer'[v] = writer[v]
      BY <2>1
    <2> QED  BY <2>1, <2>2, <2>3, <2>4, <2>5
  <1>3. ASSUME NEW w \in Writers, Persists(w) \/ Refuses(w) \/ Returns(w)
        PROVE  Untouched'
    <2>1. PICK at \in {"done", "idle"}, wrote \in BOOLEAN : writer' = [writer EXCEPT ![w] = At(at, wrote)]
      BY <1>3 DEF Persists, Refuses, Returns
    <2>2. writer[w].at # "idle"
      BY <1>3 DEF Persists, Refuses, Returns
    <2>3. writer'[w] = At(at, wrote) /\ \A v \in Writers \ {w} : writer'[v] = writer[v]
      BY <2>1
    <2>4. \A v \in Writers \ {w} : writer[v].at = "idle"
      BY <2>2
    <2> QED  BY <2>1, <2>3, <2>4 DEF At
  <1>4. CASE ProbeWrites
    <2>1. writer' = writer /\ saved' = [saved EXCEPT !.bridge = probe.bridge]
      BY <1>4 DEF ProbeWrites
    <2>2. \A part \in {"level", "patched"} : saved'[part] = saved[part]
      BY <2>1 DEF Fields, Parts
    <2> QED  BY <2>1, <2>2
  <1>5. CASE Reads
    <2>1. writer' = [w \in Writers |-> [writer[w] EXCEPT !.wrote = FALSE]] /\ saved' = saved
      BY <1>5 DEF Reads
    <2>2. ASSUME NEW w \in Writers
          PROVE  writer'[w] = [at |-> writer[w].at, parts |-> writer[w].parts,
                               copy |-> writer[w].copy, wrote |-> FALSE]
      <3>1. writer[w] = [at |-> writer[w].at, parts |-> writer[w].parts,
                         copy |-> writer[w].copy, wrote |-> writer[w].wrote]
        OBVIOUS
      <3> QED  BY <2>1, <3>1
    <2> QED  BY <2>1, <2>2
  <1> QED
    BY <1>1, <1>2, <1>3, <1>4, <1>5
    DEF Next, vars, Writes, Outputs, Probes, ProbeSucceeds, ProbeFails, Wakes, ReadFails,
        Ticks

(* A write changes only the parts its edit is about, though it writes the    *)
(* whole blob back: what a deck's key loaded is still saved when it writes   *)
(* (with_lighting_state, state_lock.rs).                                     *)
THEOREM EditsAreKept == Spec => EditsKept
  <1> DEFINE Kept == \A w \in Writers : writer[w].at = "loaded" /\ writer'[w].at = "done" =>
                        \A part \in Parts \ writer[w].parts : saved'[part] = saved[part]
  <1>1. Init => Fields /\ Untouched
    BY FieldsInit, UntouchedInit
  <1>2. Fields /\ Untouched /\ [Next]_vars => (Fields /\ Untouched)'
    BY FieldsStep, UntouchedStep
  <1>3. Fields /\ Untouched /\ [Next]_vars => [Kept]_vars
    <2> SUFFICES ASSUME Fields, Untouched, Next, NEW w \in Writers,
                        writer[w].at = "loaded", writer'[w].at = "done",
                        NEW part \in Parts \ writer[w].parts
                 PROVE  saved'[part] = saved[part]
      OBVIOUS
    <2>1. CASE saved' = saved
      BY <2>1
    <2>2. CASE ProbeWrites
      BY <2>2 DEF ProbeWrites
    <2>3. ASSUME NEW v \in Writers, Persists(v)
          PROVE  saved'[part] = saved[part]
      <3>1. v = w
        BY <2>3 DEF Persists, Untouched
      <3>2. saved'[part] = Written(writer[w].parts, writer[w].copy)[part]
        BY <2>3, <3>1 DEF Persists
      <3>3. Written(writer[w].parts, writer[w].copy)[part] \in {writer[w].copy[part], saved[part]}
        BY DEF Written
      <3>4. CASE part \in {"level", "patched"}
        BY <3>2, <3>3, <3>4 DEF Untouched
      <3>5. CASE part \notin {"level", "patched"}
        BY <3>2, <3>5 DEF Written
      <3> QED  BY <3>4, <3>5
    <2> QED
      BY <2>1, <2>2, <2>3
      DEF Next, Writes, Outputs, Loads, Refuses, Returns, Probes, ProbeSucceeds, ProbeFails,
          Wakes, Reads, ReadFails, Ticks
  <1> QED  BY <1>1, <1>2, <1>3, PTL DEF Spec, EditsKept

-----------------------------------------------------------------------------
(* What goes through the output is a lighting the program knows.             *)
\* What is saved, loaded, asked with and rendered from is a lighting.
Lightings ==
  /\ saved \in Saved
  /\ \A w \in Writers : writer[w].at = "loaded" =>
        writer[w].copy \in Saved /\ writer[w].parts \subseteq Parts
  /\ probe.at = "asking" => probe.bridge \in Bridges
  /\ out.input \subseteq Saved

LEMMA SavedIs ==
  ASSUME NEW s, s = [part \in Parts |-> s[part]], s["armed"] \in BOOLEAN,
         s["bridge"] \in Bridges \cup {None}, s["level"] \in Levels, s["patched"] \in SUBSET Universes
  PROVE  s \in Saved
  <1>1. s = [armed |-> s["armed"], bridge |-> s["bridge"], level |-> s["level"], patched |-> s["patched"]]
    BY DEF Parts
  <1>2. [armed |-> s["armed"], bridge |-> s["bridge"], level |-> s["level"], patched |-> s["patched"]] \in Saved
    BY DEF Saved
  <1> QED  BY <1>1, <1>2

LEMMA WrittenIsALighting ==
  ASSUME saved \in Saved, NEW copy \in Saved, NEW parts
  PROVE  Written(parts, copy) \in Saved
  <1> DEFINE s == Written(parts, copy)
  <1>1. s = [part \in Parts |-> s[part]]
    BY DEF Written
  <1>2. \A part \in Parts : s[part] \in {copy[part], saved[part]}
    BY DEF Written
  <1>3. s["armed"] \in {copy["armed"], saved["armed"]} /\ s["bridge"] \in {copy["bridge"], saved["bridge"]}
        /\ s["level"] \in {copy["level"], saved["level"]} /\ s["patched"] \in {copy["patched"], saved["patched"]}
    BY <1>2 DEF Parts
  <1> HIDE DEF s
  <1>4. /\ s["armed"] \in BOOLEAN /\ s["bridge"] \in Bridges \cup {None}
        /\ s["level"] \in Levels /\ s["patched"] \in SUBSET Universes
    BY <1>3 DEF Saved
  <1>5. s \in Saved
    BY <1>1, <1>4, SavedIs
  <1> QED  BY <1>5 DEF s

LEMMA EditsAreLightings ==
  ASSUME saved \in Saved, NEW w \in Writers, NEW e \in Edits(w)
  PROVE  e.copy \in Saved /\ e.parts \subseteq Parts
  <1>1. CASE e \in {[parts |-> {"level"}, copy |-> [saved EXCEPT !.level = l]]
                     : l \in Levels \ {saved.level}}
    BY <1>1 DEF Saved, Parts
  <1>2. CASE e \in {[parts |-> {"patched"}, copy |-> [saved EXCEPT !.patched = p]]
                     : p \in {saved.patched \cup {u} : u \in Universes \ saved.patched}
                          \cup {saved.patched \ {u} : u \in saved.patched}}
    <2>1. PICK p \in SUBSET Universes : e = [parts |-> {"patched"}, copy |-> [saved EXCEPT !.patched = p]]
      BY <1>2 DEF Saved
    <2> QED  BY <2>1 DEF Saved, Parts
  <1>3. CASE e \in {[parts |-> {"armed"}, copy |-> [saved EXCEPT !.armed = ~@]]}
    <2>1. PICK a \in BOOLEAN : e = [parts |-> {"armed"}, copy |-> [saved EXCEPT !.armed = a]]
      BY <1>3
    <2> QED  BY <2>1 DEF Saved, Parts
  <1>4. CASE e \in {[parts |-> {"bridge"}, copy |-> [saved EXCEPT !.bridge = b]]
                     : b \in (Bridges \cup {None}) \ {saved.bridge}}
    BY <1>4 DEF Saved, Parts
  <1>5. CASE e \in {[parts |-> Parts, copy |-> [s EXCEPT !.armed = FALSE]] : s \in Archives}
    <2>1. PICK s \in Saved : e = [parts |-> Parts, copy |-> [s EXCEPT !.armed = FALSE]]
      BY <1>5, LightingsAssumption
    <2>2. [s EXCEPT !.armed = FALSE] \in Saved
      BY DEF Saved
    <2> QED  BY <2>1, <2>2
  <1> QED  BY <1>1, <1>2, <1>3, <1>4, <1>5 DEF Edits

LEMMA LightingsInit == Init => Lightings
  BY DEF Init, Lightings, At, NoProbe

LEMMA LightingsStep ==
  ASSUME Fields, Lightings, Untouched, [Next]_vars
  PROVE  Lightings'
  <1> USE DEF Lightings
  <1>1. CASE UNCHANGED <<saved, writer, probe, out>>
    BY <1>1
  <1>2. ASSUME NEW w \in Writers, Loads(w)
        PROVE  Lightings'
    <2>1. PICK e \in Edits(w) : writer' = [writer EXCEPT ![w] =
                    [at |-> "loaded", parts |-> e.parts, copy |-> e.copy, wrote |-> FALSE]]
      BY <1>2 DEF Loads
    <2>2. UNCHANGED <<saved, probe, out>>
      BY <1>2 DEF Loads
    <2>3. e.copy \in Saved /\ e.parts \subseteq Parts
      BY EditsAreLightings
    <2>4. \A v \in Writers : writer'[v] = IF v = w
              THEN [at |-> "loaded", parts |-> e.parts, copy |-> e.copy, wrote |-> FALSE] ELSE writer[v]
      BY <2>1 DEF Untouched
    <2> QED  BY <2>2, <2>3, <2>4
  <1>3. ASSUME NEW w \in Writers, Persists(w) \/ Refuses(w) \/ Returns(w)
        PROVE  Lightings'
    <2>1. PICK at \in {"done", "idle"}, wrote \in BOOLEAN : writer' = [writer EXCEPT ![w] = At(at, wrote)]
      BY <1>3 DEF Persists, Refuses, Returns
    <2>2. UNCHANGED <<probe, out>>
      BY <1>3 DEF Persists, Refuses, Returns
    <2>3. \A v \in Writers : writer'[v] = IF v = w THEN At(at, wrote) ELSE writer[v]
      BY <2>1 DEF Untouched
    <2>4. saved' \in Saved
      BY <1>3, WrittenIsALighting DEF Persists, Refuses, Returns
    <2> QED  BY <2>2, <2>3, <2>4 DEF At
  <1>4. CASE Probes \/ ProbeSucceeds \/ ProbeFails
    BY <1>4 DEF Probes, ProbeSucceeds, ProbeFails, NoProbe
  <1>5. CASE ProbeWrites
    <2>1. saved' = [saved EXCEPT !.bridge = probe.bridge] /\ probe.bridge \in Bridges
      BY <1>5 DEF ProbeWrites
    <2>2. saved' \in Saved
      BY <2>1 DEF Saved
    <2> QED  BY <1>5, <2>2 DEF ProbeWrites
  <1>6. CASE Wakes
    <2>1. out'.input = out.input
      BY <1>6 DEF Wakes, Fields
    <2> QED  BY <1>6, <2>1 DEF Wakes
  <1>7. CASE Reads
    <2>1. out'.input = {saved} /\ saved' = saved
      BY <1>7 DEF Reads, Fields
    <2>2. \A w \in Writers : writer'[w].at = writer[w].at /\ writer'[w].copy = writer[w].copy
                             /\ writer'[w].parts = writer[w].parts
      BY <1>7 DEF Reads, Untouched
    <2>3. probe' = [probe EXCEPT !.wrote = FALSE]
      BY <1>7 DEF Reads
    <2>4. probe'.at = probe.at /\ probe'.bridge = probe.bridge
      BY <2>3
    <2> QED  BY <2>1, <2>2, <2>4
  <1>8. CASE ReadFails
    <2>1. out'.input = out.input
      BY <1>8 DEF ReadFails, Fields
    <2> QED  BY <1>8, <2>1 DEF ReadFails
  <1>9. CASE Ticks
    <2>1. out'.input = out.input
      BY <1>9 DEF Ticks, Pass, AfterPass, Fields
    <2> QED  BY <1>9, <2>1 DEF Ticks
  <1> QED
    BY <1>1, <1>2, <1>3, <1>4, <1>5, <1>6, <1>7, <1>8, <1>9
    DEF Next, vars, Writes, Outputs

-----------------------------------------------------------------------------
\* What the tally says the entry shows; no stream, no memory of one; a held
\* output streams nothing.
Lamp ==
  /\ tally = [failing |-> tally.failing, sentSince |-> tally.sentSince, quiet |-> tally.quiet]
  /\ tally.failing \in BOOLEAN /\ tally.quiet \in Nat
  /\ tally.failing => entry = "attention"
  /\ out.active = None => DOMAIN out.tx = {} /\ ~tally.failing
  /\ out.held => out.active = None

\* What the output remembers of a universe is what last went for it, or the
\* universe is due again.
Shown ==
  /\ told \in [Bridges -> [Universes -> Levels \cup {"quiet", "adrift"}]]
  /\ DOMAIN out.tx \subseteq Universes /\ out.active \in Bridges \cup {None}
  /\ \A v \in DOMAIN out.tx :
       /\ out.tx[v] = [level |-> out.tx[v].level, age |-> out.tx[v].age] /\ out.tx[v].age \in Nat
       /\ told[out.active][v] = out.tx[v].level \/ out.tx[v].age >= KeepAlive

LEMMA ShownInit == Init => Lamp /\ Shown
  <1> SUFFICES ASSUME Init PROVE Lamp /\ Shown
    OBVIOUS
  <1>1. tally = Fresh /\ out.active = None /\ DOMAIN out.tx = {}
    BY DEF Init
  <1>2. told = [b \in Bridges |-> [u \in Universes |-> "quiet"]]
    BY DEF Init
  <1>3. Lamp
    BY <1>1 DEF Lamp, Fresh
  <1>4. Shown
    BY <1>1, <1>2 DEF Shown
  <1> QED  BY <1>3, <1>4

\* What leaves for the bridge of the input in one pass.
LEMMA PassTold ==
  ASSUME Lamp, Shown, NEW i \in Saved, NEW went \in SUBSET Due(i), NEW ended \in SUBSET Ends(i),
         told' = Told(i, went, ended), Streams(i), NEW v \in i.patched
  PROVE  /\ i.bridge \in Bridges /\ v \in Universes
         /\ v \in went => told'[i.bridge][v] = i.level
         /\ v \notin went /\ v \in DOMAIN out.tx \ Ends(i) =>
              i.bridge = out.active /\ told'[i.bridge][v] = told[i.bridge][v]
  <1>1. i.bridge \in Bridges /\ v \in Universes
    BY DEF Saved, Streams
  <1>2. told'[i.bridge][v] =
           CASE Streams(i) /\ v \in went -> i.level
             [] ~(Streams(i) /\ v \in went) /\ i.bridge = out.active /\ v \in Ends(i) ->
                  IF v \in ended \/ told[i.bridge][v] = "quiet" THEN "quiet" ELSE "adrift"
             [] OTHER -> told[i.bridge][v]
    BY <1>1 DEF Told
  <1>3. v \in DOMAIN out.tx \ Ends(i) => ~StreamOver(i)
    BY DEF Ends
  <1>4. ~StreamOver(i) => out.active \in {None, i.bridge}
    BY DEF StreamOver, Moves
  <1>5. v \in DOMAIN out.tx => out.active # None
    BY DEF Lamp
  <1> QED  BY <1>1, <1>2, <1>3, <1>4, <1>5

LEMMA ToldKeepsType ==
  ASSUME Shown, NEW i \in Saved, NEW went \in SUBSET Due(i), NEW ended \in SUBSET Ends(i),
         told' = Told(i, went, ended)
  PROVE  told' \in [Bridges -> [Universes -> Levels \cup {"quiet", "adrift"}]]
  <1>1. i.level \in Levels
    BY DEF Saved
  <1>2. \A b \in Bridges, v \in Universes : told[b][v] \in Levels \cup {"quiet", "adrift"}
    BY DEF Shown
  <1> QED  BY <1>1, <1>2 DEF Told

LEMMA PassShown ==
  ASSUME Fields, Lightings, Lamp, Shown,
         NEW i \in out.input, NEW went \in SUBSET Due(i), NEW ended \in SUBSET Ends(i),
         out' = AfterPass(i, went), told' = Told(i, went, ended)
  PROVE  Shown'
  <1>1. i \in Saved
    BY DEF Lightings
  <1>2. /\ out'.tx = Sent(i, went)
        /\ out'.active = IF Streams(i) THEN i.bridge ELSE None
    BY DEF Fields, AfterPass
  <1>3. DOMAIN out'.tx = IF Streams(i) THEN i.patched ELSE {}
    BY <1>2 DEF Sent
  <1>4. DOMAIN out'.tx \subseteq Universes /\ out'.active \in Bridges \cup {None}
    BY <1>1, <1>2, <1>3 DEF Saved
  <1>5. ASSUME Streams(i), NEW v \in i.patched
        PROVE  /\ out'.tx[v] = [level |-> out'.tx[v].level, age |-> out'.tx[v].age]
               /\ out'.tx[v].age \in Nat
               /\ told'[i.bridge][v] = out'.tx[v].level \/ out'.tx[v].age >= KeepAlive
    <2>1. KeepAlive \in Nat
      BY LightAssumption
    <2>2. out'.tx[v] = CASE v \in went -> [level |-> i.level, age |-> 0]
                         [] v \notin went /\ v \in DOMAIN out.tx \ Ends(i) -> out.tx[v]
                         [] OTHER -> [level |-> "zero", age |-> KeepAlive]
      BY <1>2, <1>5 DEF Sent
    <2>3. CASE v \in went
      <3>1. out'.tx[v] = [level |-> i.level, age |-> 0]
        BY <2>2, <2>3
      <3>2. told'[i.bridge][v] = i.level
        BY <1>1, <1>5, <2>3, PassTold
      <3> QED  BY <3>1, <3>2
    <2>4. CASE v \notin went /\ v \in DOMAIN out.tx \ Ends(i)
      <3>1. out'.tx[v] = out.tx[v]
        BY <2>2, <2>4
      <3>2. i.bridge = out.active /\ told'[i.bridge][v] = told[i.bridge][v]
        BY <1>1, <1>5, <2>4, PassTold
      <3> QED  BY <2>4, <3>1, <3>2 DEF Shown
    <2>5. CASE v \notin went /\ v \notin DOMAIN out.tx \ Ends(i)
      <3>1. out'.tx[v] = [level |-> "zero", age |-> KeepAlive]
        BY <2>2, <2>5
      <3> QED  BY <2>1, <3>1
    <2> QED  BY <2>3, <2>4, <2>5
  <1>6. told' \in [Bridges -> [Universes -> Levels \cup {"quiet", "adrift"}]]
    BY <1>1, ToldKeepsType
  <1> QED  BY <1>2, <1>3, <1>4, <1>5, <1>6 DEF Shown

\* A copy that ages keeps what it says.
LEMMA OlderIs ==
  ASSUME NEW age \in Nat, NEW by \in Nat, NEW most \in Nat
  PROVE  Older(age, by, most) \in Nat /\ (age >= most => Older(age, by, most) >= most)
  BY DEF Older

LEMMA ShownStep ==
  ASSUME Fields, Lightings, Lamp, Shown, [Next]_vars
  PROVE  Shown'
  <1>1. ASSUME UNCHANGED told, out'.tx = out.tx, out'.active = out.active
        PROVE  Shown'
    BY <1>1 DEF Shown
  <1>2. CASE UNCHANGED <<out, told>>
    BY <1>1, <1>2
  <1>3. CASE Reads \/ ReadFails
    BY <1>1, <1>3 DEF Reads, ReadFails, Fields
  <1>4. CASE Wakes
    <2>1. told' = told
      BY <1>4 DEF Wakes
    <2>2. PICK passed \in 1 .. Late :
             LET woken == [out EXCEPT
                   !.asked = moves, !.must = unread,
                   !.age = Older(out.age, passed, Reread),
                   !.tx = [u \in DOMAIN out.tx |->
                             [out.tx[u] EXCEPT !.age = Older(out.tx[u].age, passed, KeepAlive)]]]
             IN out' = [woken EXCEPT !.at = IF ReadDue(woken) THEN "read" ELSE "tick"]
      BY <1>4 DEF Wakes
    <2>3. /\ out'.active = out.active
          /\ out'.tx = [u \in DOMAIN out.tx |->
                          [out.tx[u] EXCEPT !.age = Older(out.tx[u].age, passed, KeepAlive)]]
      BY <2>2 DEF Fields
    <2>4. passed \in Nat /\ KeepAlive \in Nat
      BY LightAssumption
    <2>5. ASSUME NEW v \in DOMAIN out.tx
          PROVE  /\ out'.tx[v] = [level |-> out'.tx[v].level, age |-> out'.tx[v].age]
                 /\ out'.tx[v].age \in Nat
                 /\ told'[out.active][v] = out'.tx[v].level \/ out'.tx[v].age >= KeepAlive
      <3>1. out'.tx[v] = [out.tx[v] EXCEPT !.age = Older(@, passed, KeepAlive)]
        BY <2>3
      <3>2. out'.tx[v].level = out.tx[v].level /\ out'.tx[v].age = Older(out.tx[v].age, passed, KeepAlive)
        BY <3>1 DEF Shown
      <3>3. out'.tx[v] = [level |-> out'.tx[v].level, age |-> out'.tx[v].age]
        BY <3>1 DEF Shown
      <3>4. /\ out.tx[v].age \in Nat
            /\ told[out.active][v] = out.tx[v].level \/ out.tx[v].age >= KeepAlive
        BY DEF Shown
      <3>5. /\ Older(out.tx[v].age, passed, KeepAlive) \in Nat
            /\ out.tx[v].age >= KeepAlive => Older(out.tx[v].age, passed, KeepAlive) >= KeepAlive
        BY <2>4, <3>4, OlderIs
      <3> QED  BY <2>1, <3>2, <3>3, <3>4, <3>5
    <2> QED  BY <2>1, <2>3, <2>5 DEF Shown
  <1>5. CASE Ticks
    <2>1. PICK i \in out.input : \E went \in SUBSET Due(i), ended \in SUBSET Ends(i) :
                                  out' = AfterPass(i, went) /\ told' = Told(i, went, ended)
      BY <1>5 DEF Ticks, Pass
    <2> QED  BY <2>1, PassShown
  <1> QED
    BY <1>2, <1>3, <1>4, <1>5
    DEF Next, vars, Writes, Outputs, Loads, Persists, Refuses, Returns, Probes, ProbeWrites,
        ProbeSucceeds, ProbeFails

\* One pass, as what its sends make of the tally and the entry.
LEMMA PassTells ==
  ASSUME Fields, Lightings, Lamp, Shown,
         NEW i \in out.input, NEW went \in SUBSET Due(i), NEW ended \in SUBSET Ends(i),
         NEW last \in BOOLEAN, Pass(i, went, ended, last)
  PROVE  /\ Lamp'
         /\ Streams(i) /\ entry' = "ok" => \A v \in i.patched : told'[i.bridge][v] = i.level
  <1> DEFINE mine == IF Moves(i) THEN {} ELSE Ends(i)
             failed == Due(i) \ went # {} \/ mine \ ended # {}
             was == IF StreamOver(i) THEN Fresh ELSE tally
             counted == Counted(was, failed, last)
  <1>1. /\ tally' = Settled(i, counted)
        /\ entry' = IF Streams(i) /\ counted.failing /\ ~was.failing THEN "attention"
                    ELSE IF out.held = i.armed \/ (tally.failing /\ ~tally'.failing)
                    THEN "ok" ELSE entry
        /\ out' = AfterPass(i, went)
        /\ told' = Told(i, went, ended)
    BY DEF Pass
  <1>2. failed \in BOOLEAN /\ (~failed => went = Due(i))
    OBVIOUS
  <1> HIDE DEF failed
  <1>3. /\ was = [failing |-> was.failing, sentSince |-> was.sentSince, quiet |-> was.quiet]
        /\ was.failing \in BOOLEAN /\ was.quiet \in Nat
        /\ was.failing => tally.failing /\ entry = "attention" /\ ~out.held
    BY DEF Fresh, Lamp
  <1> HIDE DEF was
  <1>4. /\ counted = [failing |-> counted.failing, sentSince |-> counted.sentSince, quiet |-> counted.quiet]
        /\ counted.failing \in BOOLEAN /\ counted.quiet \in Nat
        /\ failed => counted.failing /\ counted.quiet = 0
        /\ ~failed => counted.failing = was.failing
    BY <1>2, <1>3 DEF Counted
  <1> HIDE DEF counted
  <1>5. /\ tally' = IF ~Streams(i) \/ Resumes(counted) THEN Fresh ELSE counted
        /\ failed => ~Resumes(counted)
    BY <1>1, <1>4, LightAssumption DEF Settled, Resumes
  <1>6. Streams(i) => i.armed /\ i.bridge # None
    BY DEF Streams
  <1>7. /\ out'.tx = Sent(i, went)
        /\ out'.active = IF Streams(i) THEN i.bridge ELSE None
        /\ out'.held = ~i.armed
    BY <1>1 DEF Fields, AfterPass
  <1>8. i.armed \in BOOLEAN
    BY DEF Lightings, Saved
  <1>9. counted.failing /\ Streams(i) /\ ~Resumes(counted) => entry' = "attention"
    <2> SUFFICES ASSUME counted.failing, Streams(i), ~Resumes(counted) PROVE entry' = "attention"
      OBVIOUS
    <2>1. CASE ~was.failing
      BY <1>1, <2>1
    <2>2. CASE was.failing
      <3>1. entry = "attention" /\ ~out.held /\ i.armed /\ tally'.failing
        BY <1>3, <1>5, <1>6, <2>2
      <3> QED  BY <1>1, <3>1, <2>2
    <2> QED  BY <2>1, <2>2
  <1>10. Lamp'
    <2>1. /\ tally' = [failing |-> tally'.failing, sentSince |-> tally'.sentSince, quiet |-> tally'.quiet]
          /\ tally'.failing \in BOOLEAN /\ tally'.quiet \in Nat
      BY <1>4, <1>5 DEF Fresh
    <2>2. tally'.failing => counted.failing /\ Streams(i) /\ ~Resumes(counted)
      BY <1>5 DEF Fresh
    <2>3. out'.active = None => ~Streams(i)
      BY <1>6, <1>7
    <2>4. ~Streams(i) => DOMAIN out'.tx = {} /\ ~tally'.failing
      BY <1>7, <2>2 DEF Sent
    <2>5. out'.held => out'.active = None
      BY <1>6, <1>7
    <2> QED  BY <1>9, <2>1, <2>2, <2>3, <2>4, <2>5 DEF Lamp
  <1>11. ASSUME Streams(i), entry' = "ok", NEW v \in i.patched
         PROVE  told'[i.bridge][v] = i.level
    <2>1. ~failed /\ went = Due(i)
      BY <1>2, <1>4, <1>5, <1>9, <1>11
    <2>2. i \in Saved
      BY DEF Lightings
    <2>3. CASE v \in went
      BY <1>1, <1>11, <2>2, <2>3, PassTold
    <2>4. CASE v \notin went
      <3>1. v \in DOMAIN out.tx \ Ends(i) /\ out.tx[v].level = i.level /\ ~(out.tx[v].age >= KeepAlive)
        BY <1>11, <2>1, <2>4 DEF Due
      <3>2. i.bridge = out.active /\ told'[i.bridge][v] = told[i.bridge][v]
        BY <1>1, <1>11, <2>2, <2>4, <3>1, PassTold
      <3> QED  BY <3>1, <3>2 DEF Shown
    <2> QED  BY <2>3, <2>4
  <1> QED  BY <1>10, <1>11

LEMMA LampStep ==
  ASSUME Fields, Lightings, Lamp, Shown, GreenLamp, [Next]_vars
  PROVE  Lamp' /\ GreenLamp'
  <1>1. CASE UNCHANGED <<out, tally, entry, told>>
    BY <1>1 DEF Lamp, GreenLamp, Streams
  <1>2. CASE Wakes
    <2>1. UNCHANGED <<entry, told>>
      BY <1>2 DEF Wakes
    <2>2. out'.at # "sleep" /\ out'.active = out.active /\ out'.held = out.held
          /\ DOMAIN out'.tx = DOMAIN out.tx
      BY <1>2 DEF Wakes, Fields
    <2>3. PICK passed \in 1 .. Late : tally' = [tally EXCEPT !.quiet =
                         IF tally.failing THEN Older(tally.quiet, passed, ResumedAfter) ELSE 0]
      BY <1>2 DEF Wakes
    <2>4. passed \in Nat /\ ResumedAfter \in Nat
      BY LightAssumption
    <2>5. Older(tally.quiet, passed, ResumedAfter) \in Nat
      BY <2>4, OlderIs DEF Lamp
    <2>6. tally'.failing = tally.failing /\ tally'.quiet \in Nat
          /\ tally' = [failing |-> tally'.failing, sentSince |-> tally'.sentSince, quiet |-> tally'.quiet]
      BY <2>3, <2>5 DEF Lamp
    <2> QED  BY <2>1, <2>2, <2>6 DEF Lamp, GreenLamp
  <1>3. CASE Reads
    <2>1. out'.at = "tick" /\ out'.active = out.active /\ out'.tx = out.tx /\ out'.held = out.held
      BY <1>3 DEF Reads, Fields
    <2> QED  BY <1>3, <2>1 DEF Reads, Lamp, GreenLamp
  <1>4. CASE ReadFails
    <2>1. /\ out'.active = out.active /\ out'.tx = out.tx /\ out'.input = out.input /\ out'.held = out.held
          /\ out'.at = "sleep" => out.input = {}
      BY <1>4 DEF ReadFails, Fields
    <2> QED  BY <1>4, <2>1 DEF ReadFails, Lamp, GreenLamp
  <1>5. CASE Ticks
    <2>1. PICK i \in out.input : \E went \in SUBSET Due(i), ended \in SUBSET Ends(i), last \in BOOLEAN :
                                    Pass(i, went, ended, last)
      BY <1>5 DEF Ticks
    <2>2. PICK went \in SUBSET Due(i), ended \in SUBSET Ends(i), last \in BOOLEAN :
                                    Pass(i, went, ended, last)
      BY <2>1
    <2>3. out'.input = out.input /\ out.input = {i}
      BY <2>2 DEF Pass, AfterPass, Fields
    <2>4. /\ Lamp'
          /\ Streams(i) /\ entry' = "ok" => \A v \in i.patched : told'[i.bridge][v] = i.level
      BY <2>2, PassTells
    <2> QED  BY <2>3, <2>4 DEF GreenLamp, Streams
  <1> QED
    BY <1>1, <1>2, <1>3, <1>4, <1>5
    DEF Next, vars, Writes, Outputs, Loads, Persists, Refuses, Returns, Probes, ProbeWrites,
        ProbeSucceeds, ProbeFails

(* With the entry ok after a pass, the last frame that left the PC for each  *)
(* patched universe is the rendered one: no frame whose send failed hides    *)
(* behind a green lamp, whichever sends failed and however the bridge, the   *)
(* patch and the hold changed meanwhile (SendTally, SacnOutput::tick).  What *)
(* left and was lost fails no send, and is the bridge watch's to say.        *)
THEOREM NoFrameHidesBehindAGreenLamp == Spec => []GreenLamp
  <1> DEFINE Inv == Fields /\ Untouched /\ Lightings /\ Lamp /\ Shown /\ GreenLamp
  <1>1. Init => Inv
    <2>1. Init => GreenLamp
      BY DEF Init, GreenLamp
    <2> QED  BY <2>1, FieldsInit, UntouchedInit, LightingsInit, ShownInit
  <1>2. Inv /\ [Next]_vars => Inv'
    BY FieldsStep, UntouchedStep, LightingsStep, ShownStep, LampStep
  <1> QED  BY <1>1, <1>2, PTL DEF Spec

=============================================================================
